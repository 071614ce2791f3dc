--------------------- MODULE StreamScheduleEventProofs ---------------------
(***************************************************************************)
(* Proofs about what StreamSchedule's modules hand to each other, what is  *)
(* deleted, how an event ends, and that it never comes to rest before, on  *)
(* top of those about paths and workers.                                   *)
(***************************************************************************)
EXTENDS StreamScheduleProofs, WellFoundedInduction

(* What will be known of a module's product is decided, with the exception *)
(* e: the module is done, will not run, or is on a path and has put its    *)
(* product.                                                                *)
Sealed(d, e) == \/ worker[d].phase = "done" /\ worker[d].exception = e
                \/ worker[d].phase = "idle" /\ worker[d].released /\ e = "none"
                \/ /\ worker[d].phase = "returned" /\ worker[d].outcome \notin Exceptions
                   /\ product[d].status # "unset" /\ d \in Scheduled /\ e = "none"

Resolved(d) == /\ ~product[d].released => product[d].exception = "none"
               /\ d \in Modules /\ product[d].released
                     => \E e \in Failures : product[d].exception = e /\ Sealed(d, e)
               /\ d = Results => /\ product[d].exception = "none" /\ product[d].status # "deleted"
                                 /\ product[d].released => trig.done
Resolvers == \A d \in Products : Resolved(d)

(* The inputs of a module that was not kept from running by one.           *)
IgnoresInput(m) == /\ Acquires(m)
                   /\ \E c \in schedule.consumes[m] \ {Results} :
                         \E e \in Exceptions : Ignored(m, e) /\ Sealed(c, e)
Ran(m) == worker[m].phase \in {"acquiring", "running", "returned"} \/ worker[m].runs > 0
InputsOf(m) ==
    \A d \in schedule.consumes[m] :
       IF d = Results THEN trig.done \/ Ordinary = {}
       ELSE \E e \in Failures : Sealed(d, e) /\ (e = "none" \/ IgnoresInput(m))
Inputs == \A m \in Modules : Ran(m) => InputsOf(m)

-----------------------------------------------------------------------------
(* What a step may do to a product: somebody asks for it, ...              *)
Asks(d) == /\ product'[d] = [product[d] EXCEPT !.requested = TRUE]
           /\ \E c \in Modules : worker'[c].phase = "waiting" /\ d \in Items(c)

(* ... those who wait for it are released, ...                             *)
Releases(d) == /\ d \in Modules /\ product[d].requested /\ worker[d].released /\ worker' = worker
               /\ product'[d] = [product[d] EXCEPT !.released = TRUE, !.exception = worker[d].exception]

(* ... it is put, ...                                                      *)
Puts(d) == /\ d \in Modules
           /\ worker[d].phase = "running" /\ worker'[d].phase = "returned"
           /\ worker'[d].outcome \notin Exceptions
           /\ product[d].status = "unset" /\ product'[d].status = "set"
           /\ product'[d].exception = product[d].exception
           /\ product'[d].requested <=> product[d].requested \/ d \in Scheduled
           /\ product'[d].released <=> product[d].released \/ (d \in Scheduled /\ ~product[d].requested)

(* ... deleted, ...                                                        *)
Deletes(d) == /\ d \in schedule.deletable /\ d \in Modules /\ count'[d] = 0
              /\ product'[d].status = "deleted" /\ product'[d].exception = "none"
              /\ ~product'[d].requested /\ ~product'[d].released

(* ... or is that of the TriggerResultInserter.                            *)
Inserts(d) == /\ d = Results /\ trig'.done
              /\ product'[d] = [product[d] EXCEPT !.status = "set", !.requested = TRUE, !.released = TRUE]

ProductMove(d) == product'[d] = product[d] \/ Asks(d) \/ Releases(d) \/ Puts(d) \/ Deletes(d) \/ Inserts(d)

(* Deleting deletes products, and leaves the others.                       *)
LEMMA DeleteMoves ==
  ASSUME Types, NEW R \in SUBSET Modules, NEW d \in Products,
         product' = Delete(R, product), count' = CountsAfter(R)
  PROVE  \/ product'[d] = product[d]
         \/ Deletes(d) /\ R \cap Readers(d) # {}
<1>1. product[d] \in ProductStates
  BY DEF Types
<1>2. CASE d \in Modules /\ R \cap Readers(d) # {} /\ CountsAfter(R)[d] = 0
  <2> d \in schedule.deletable
    BY <1>2 DEF Readers, Reads
  <2>1. product'[d] = [product[d] EXCEPT !.status = "deleted", !.requested = FALSE,
                                         !.released = FALSE, !.exception = "none"]
    BY <1>2 DEF Delete
  <2> QED BY <1>1, <1>2, <2>1 DEF Deletes, ProductStates
<1>3. CASE ~(d \in Modules /\ R \cap Readers(d) # {} /\ CountsAfter(R)[d] = 0)
  BY <1>3 DEF Delete
<1> QED BY <1>2, <1>3

(* A step does to a product one of these.                                  *)
LEMMA ProductSteps ==
  ASSUME CoreInv, Step, NEW d \in Products
  PROVE  ProductMove(d)
<1>1. Types /\ product[d] \in ProductStates /\ product \in [Products -> ProductStates]
  BY DEF CoreInv, Types
<1>2. ASSUME NEW p \in Paths, PathStep(p) PROVE ProductMove(d)
  <2>1. CASE RunNextWorker(p) \/ WorkerFinished(p)
    BY <1>1, <2>1, RunNextWorkerFacts, WorkerFinishedFacts DEF ProductMove
  <2>2. CASE FinishPath(p)
    <3>1. PathReaders(p) \in SUBSET Modules
      BY DEF PathReaders
    <3>2. product' = Delete(PathReaders(p), product) /\ count' = CountsAfter(PathReaders(p))
      BY <1>1, <2>2, FinishPathFacts
    <3> QED BY <1>1, <3>1, <3>2, DeleteMoves DEF ProductMove
  <2> QED BY <1>2, <2>1, <2>2 DEF PathStep
<1>3. ASSUME NEW m \in Modules, WorkerStep(m) PROVE ProductMove(d)
  <2>1. CASE SelectEvent(m) \/ RunModule(m) \/ FailPrefetch(m) \/ AcquireReturns(m)
    <3>1. product' = product
      BY <1>1, <2>1, SelectEventFacts, RunModuleFacts, FailPrefetchFacts, AcquireReturnsFacts DEF OnlyMove
    <3> QED BY <3>1 DEF ProductMove
  <2>2. CASE Prefetch(m)
    <3>1. product'[d] = [product[d] EXCEPT !.requested = product[d].requested \/ d \in Items(m)]
      BY <1>1, <2>2, PrefetchFacts
    <3>2. CASE d \in Items(m)
      <4>1. product'[d] = [product[d] EXCEPT !.requested = TRUE]
        BY <3>1, <3>2
      <4>2. worker'[m].phase = "waiting"
        <5>1. worker'[m] = [worker[m] EXCEPT !.phase = "waiting"] /\ worker[m] \in WorkerStates
          BY <1>1, <2>2, PrefetchFacts DEF Advances, Types
        <5> QED BY <5>1 DEF WorkerStates
      <4> QED BY <3>2, <4>1, <4>2 DEF ProductMove, Asks
    <3>3. CASE d \notin Items(m)
      BY <1>1, <3>1, <3>3 DEF ProductMove, ProductStates
    <3> QED BY <3>2, <3>3
  <2>3. CASE Release(m)
    BY <1>1, <2>3 DEF Release, ProductMove, Releases, Products
  <2>4. CASE ModuleReturns(m)
    <3>1. CASE product' = product
      BY <3>1 DEF ProductMove
    <3>2. CASE /\ worker'[m].outcome \in Outcomes \ Exceptions /\ product[m].status = "unset"
               /\ product' = [product EXCEPT ![m].status = "set",
                                             ![m].requested = @ \/ m \in Scheduled,
                                             ![m].released = @ \/ (m \in Scheduled /\ ~product[m].requested)]
      <4>1. worker[m].phase = "running" /\ worker'[m].phase = "returned"
        BY <1>1, <2>4, ModuleReturnsFacts
      <4>2. d # m => product'[d] = product[d]
        BY <1>1, <3>2
      <4>3. d = m => Puts(d)
        BY <1>1, <3>2, <4>1 DEF Puts, ProductStates
      <4> QED BY <4>2, <4>3 DEF ProductMove
    <3> QED BY <1>1, <2>4, <3>1, <3>2, ModuleReturnsFacts
  <2>5. CASE FinishModule(m)
    <3>1. {m} \in SUBSET Modules /\ product' = Delete({m}, product) /\ count' = CountsAfter({m})
      BY <1>1, <2>5, FinishModuleFacts
    <3>2. product'[d] = product[d] \/ Deletes(d)
      BY <1>1, <3>1, DeleteMoves, Zenon
    <3> QED BY <3>2 DEF ProductMove
  <2> QED BY <1>3, <2>1, <2>2, <2>3, <2>4, <2>5 DEF WorkerStep
<1>4. CASE FinishedPaths
  BY <1>1, <1>4, FinishedPathsFacts DEF ProductMove, Inserts
<1>5. CASE FinishEvent
  BY <1>1, <1>5, FinishEventFacts DEF ProductMove
<1> QED BY <1>2, <1>3, <1>4, <1>5 DEF Step

(* The phases that a worker may come to in a step.                         *)
LEMMA PhaseSteps ==
  ASSUME Types, Workers, Moved, NEW m \in Modules
  PROVE  /\ worker[m].phase = "idle" => worker'[m].phase \in {"idle", "selecting", "prefetching"}
         /\ worker[m].phase = "selecting" => worker'[m].phase \in {"selecting", "prefetching", "done"}
         /\ worker[m].phase = "prefetching" => worker'[m].phase \in {"prefetching", "waiting"}
         /\ worker[m].phase = "waiting" => worker'[m].phase \in {"waiting", "acquiring", "running", "done"}
         /\ worker[m].phase = "acquiring" => worker'[m].phase \in {"acquiring", "running", "done"}
         /\ worker[m].phase = "running" => worker'[m].phase \in {"running", "returned"}
         /\ worker[m].phase = "returned" => \/ /\ worker'[m].phase = "returned"
                                               /\ worker'[m].outcome = worker[m].outcome
                                            \/ SettlesRun(m)
         /\ worker'[m].runs # worker[m].runs => worker[m].phase \in {"waiting", "acquiring"} /\ Runs(m)
<1>1. worker[m] \in WorkerStates /\ Lifecycle(m) /\ Move(m)
  BY DEF Types, Workers, Moved
<1>2. CASE worker'[m] = worker[m]
  BY <1>1, <1>2
<1>3. CASE Begins(m)
  BY <1>1, <1>3 DEF Begins, WorkerStates
<1>4. CASE \/ Advances(m, "selecting", "prefetching") \/ Advances(m, "prefetching", "waiting")
           \/ Advances(m, "waiting", "acquiring")
  BY <1>1, <1>4 DEF Advances, WorkerStates
<1>5. CASE Runs(m)
  <2>1. worker[m].phase \in {"waiting", "acquiring"} /\ worker'[m].phase = "running"
    BY <1>1, <1>5 DEF Runs, RunningWorker, WorkerStates
  <2> QED BY <1>5, <2>1
<1>6. CASE Returns(m)
  BY <1>1, <1>6 DEF Returns, WorkerStates
<1>7. CASE SettlesUnrun(m)
  BY <1>7, SettledFacts DEF SettlesUnrun
<1>8. CASE SettlesAcquire(m)
  <2>1. PICK o \in Exceptions : worker[m].phase = "acquiring" /\ worker'[m] = [Settled(m, o) EXCEPT !.outcome = o]
    BY <1>8 DEF SettlesAcquire
  <2>2. o \in Outcomes
    BY DEF Outcomes
  <2> QED BY <1>1, <2>1, <2>2, SettledFacts DEF WorkerStates
<1>9. CASE SettlesRun(m)
  <2>1. worker[m].outcome \in Outcomes /\ worker[m].phase = "returned"
    BY <1>1, <1>9 DEF SettlesRun, Lifecycle, WorkerStates
  <2> QED BY <1>9, <2>1, SettledFacts DEF SettlesRun
<1>10. CASE GivesUp(m)
  BY <1>1, <1>10 DEF GivesUp, WorkerStates
<1> QED BY <1>1, <1>2, <1>3, <1>4, <1>5, <1>6, <1>7, <1>8, <1>9, <1>10 DEF Move, Works

(* What was put stays known, and what finishedPaths() did stays done.      *)
LEMMA StatusStays ==
  ASSUME CoreInv, Step, NEW d \in Products, product[d].status # "unset"
  PROVE  product'[d].status # "unset"
<1>1. ProductMove(d) /\ product[d] \in ProductStates
  BY ProductSteps DEF CoreInv, Types
<1> QED BY <1>1 DEF ProductMove, Asks, Releases, Puts, Deletes, Inserts, ProductStates

(* Only finishedPaths() decides what is passed on, and once.               *)
LEMMA TrigSteps ==
  ASSUME CoreInv, Step
  PROVE  trig' = trig \/ FinishedPaths
<1>1. Types
  BY DEF CoreInv
<1> QED BY <1>1, RunNextWorkerFacts, WorkerFinishedFacts, FinishPathFacts, WorkerSteps, FinishEventFacts
        DEF Step, PathStep

(* What it has decided stays.                                              *)
LEMMA TrigStays ==
  ASSUME CoreInv, Step, trig.done
  PROVE  trig' = trig
  BY TrigSteps, FinishedPathsFacts DEF CoreInv

(* What is known of a product stays known.                                 *)
LEMMA SealedStays ==
  ASSUME CoreInv, Step, NEW d \in Modules, NEW e, Sealed(d, e)
  PROVE  Sealed(d, e)'
<1>1. Types /\ Workers /\ Followeds /\ Lefts /\ Moved /\ CoreInv'
  BY StepKeepsCore DEF CoreInv
<1>2. Scheduled' = Scheduled
  BY <1>1, ScheduleStays DEF Moved
<1>3. CASE worker[d].phase = "done" /\ worker[d].exception = e
  BY <1>1, <1>3, DoneStays DEF Sealed
<1>4. CASE worker[d].phase = "idle" /\ worker[d].released /\ e = "none"
  <2>1. worker'[d].phase # "done"
    BY <1>1, <1>4, PhaseSteps
  <2>2. worker'[d].phase = "idle" /\ worker'[d].released
    BY <1>1, <1>4, <2>1, GivenUpStays, MoveFacts DEF Moved, Workers
  <2> QED BY <1>4, <2>2 DEF Sealed
<1>5. CASE /\ worker[d].phase = "returned" /\ worker[d].outcome \notin Exceptions
           /\ product[d].status # "unset" /\ d \in Scheduled /\ e = "none"
  <2>1. product'[d].status # "unset"
    BY <1>5, StatusStays DEF Products
  <2>2. CASE worker'[d].phase = "returned" /\ worker'[d].outcome = worker[d].outcome
    BY <1>2, <1>5, <2>1, <2>2 DEF Sealed
  <2>3. CASE SettlesRun(d)
    <3>1. worker[d].outcome \in Outcomes
      BY <1>1, <1>5 DEF Types, WorkerStates, Workers, Lifecycle
    <3>2. worker'[d] = Settled(d, worker[d].outcome)
      BY <2>3 DEF SettlesRun
    <3>3. worker'[d].phase = "done" /\ worker'[d].exception = "none"
      BY <1>1, <1>5, <3>1, <3>2, SettledFacts
    <3> QED BY <1>5, <3>3 DEF Sealed
  <2> QED BY <1>1, <1>5, <2>2, <2>3, PhaseSteps
<1> QED BY <1>3, <1>4, <1>5 DEF Sealed

(* Products are released when it is known what becomes of them.            *)
LEMMA StepKeepsResolvers ==
  ASSUME CoreInv, Resolvers, Step
  PROVE  Resolvers'
<1>1. Types /\ Workers /\ Followeds /\ Lefts /\ Moved /\ CoreInv'
  BY StepKeepsCore DEF CoreInv
<1>2. Scheduled' = Scheduled /\ Products' = Products /\ Results \notin Modules
  BY <1>1, ScheduleStays, ModulesAssumption DEF Moved, Products
<1> SUFFICES ASSUME NEW d \in Products PROVE Resolved(d)'
  BY <1>2 DEF Resolvers
<1>3. Resolved(d) /\ product[d] \in ProductStates /\ ProductMove(d)
  BY <1>1, ProductSteps DEF Resolvers, Types
<1>4. trig.done => trig'.done
  BY TrigStays
<1>5. d \in Modules /\ product[d].released
         => \E e \in Failures : product[d].exception = e /\ Sealed(d, e) /\ Sealed(d, e)'
  BY <1>3, SealedStays DEF Resolved
<1>6. CASE product'[d] = product[d] \/ Asks(d)
  <2>1. /\ product'[d].status = product[d].status /\ product'[d].released = product[d].released
        /\ product'[d].exception = product[d].exception
    BY <1>3, <1>6 DEF Asks, ProductStates
  <2> QED BY <1>3, <1>4, <1>5, <2>1 DEF Resolved
<1>7. CASE Releases(d)
  <2>1. product'[d].released /\ product'[d].exception = worker[d].exception /\ d \in Modules
    BY <1>3, <1>7 DEF Releases, ProductStates
  <2>2. PICK e \in Failures : e = worker[d].exception
    BY <1>1, <2>1 DEF Types, WorkerStates
  <2>3. Sealed(d, e)
    BY <1>1, <1>7, <2>1, <2>2 DEF Releases, Sealed, Lefts, LeftCounts, Workers, Result
  <2>4. Sealed(d, e)'
    BY <2>1, <2>3, SealedStays
  <2> QED BY <1>2, <2>1, <2>2, <2>4 DEF Resolved
<1>8. CASE Puts(d)
  <2>1. /\ d \in Modules /\ product'[d].exception = product[d].exception /\ product'[d].status = "set"
        /\ product'[d].released <=> product[d].released \/ (d \in Scheduled /\ ~product[d].requested)
    BY <1>8 DEF Puts
  <2>2. CASE product[d].released
    BY <1>2, <1>5, <2>1, <2>2 DEF Resolved
  <2>3. CASE ~product[d].released
    <3>1. product'[d].exception = "none" /\ "none" \in Failures
      BY <1>3, <2>1, <2>3 DEF Resolved, Failures
    <3>2. d \in Scheduled => Sealed(d, "none")'
      BY <1>2, <1>8, <2>1 DEF Puts, Sealed
    <3> QED BY <1>2, <2>1, <2>3, <3>1, <3>2 DEF Resolved
  <2> QED BY <2>2, <2>3
<1>9. CASE Deletes(d)
  BY <1>2, <1>9 DEF Deletes, Resolved
<1>10. CASE Inserts(d)
  <2>1. /\ d = Results /\ trig'.done /\ product'[d].status = "set" /\ product'[d].exception = product[d].exception
        /\ product'[d].released
    BY <1>3, <1>10 DEF Inserts, ProductStates
  <2> QED BY <1>2, <1>3, <2>1 DEF Resolved
<1> QED BY <1>3, <1>6, <1>7, <1>8, <1>9, <1>10 DEF ProductMove

(* A worker that has been started goes on by its own actions only.         *)
LEMMA OwnSteps ==
  ASSUME Types, Step, NEW m \in Modules, worker[m].phase # "idle", worker'[m].phase # worker[m].phase
  PROVE  /\ UNCHANGED <<path, trig, skipping>>
         /\ \/ SelectEvent(m) /\ worker[m].phase = "selecting"
            \/ Prefetch(m) /\ worker[m].phase = "prefetching"
            \/ (RunModule(m) \/ FailPrefetch(m)) /\ worker[m].phase = "waiting"
            \/ AcquireReturns(m) /\ worker[m].phase = "acquiring"
            \/ ModuleReturns(m) /\ worker[m].phase = "running"
            \/ FinishModule(m) /\ worker[m].phase = "returned"
<1>1. worker[m] \in WorkerStates /\ worker \in [Modules -> WorkerStates]
  BY DEF Types
<1>2. ASSUME NEW p \in Paths, PathStep(p) PROVE FALSE
  <2>1. CASE RunNextWorker(p)
    <3>1. /\ worker' = [worker EXCEPT ![Current(p)] = Started(Current(p), p \in EndPaths)]
          /\ \A w \in Modules : w # Current(p) => worker'[w] = worker[w]
      BY <2>1, RunNextWorkerFacts
    <3>2. Started(m, p \in EndPaths) = worker[m]
      BY DEF Started
    <3>3. worker'[m] = worker[m]
      BY <1>1, <3>1, <3>2
    <3> QED BY <3>3
  <2>2. CASE WorkerFinished(p)
    <3>1. PICK c \in Modules : worker' = worker \/ worker' = [worker EXCEPT ![c].left = @ - 1]
      BY <2>2, WorkerFinishedFacts
    <3> QED BY <1>1, <3>1 DEF WorkerStates
  <2>3. CASE FinishPath(p)
    <3>1. GivesUp(m)
      BY <2>3, FinishPathFacts
    <3> QED BY <1>1, <3>1 DEF GivesUp, WorkerStates
  <2> QED BY <1>2, <2>1, <2>2, <2>3 DEF PathStep
<1>3. ASSUME NEW c \in Modules, WorkerStep(c), c # m PROVE FALSE
  <2>1. CASE SelectEvent(c) \/ RunModule(c) \/ FailPrefetch(c) \/ AcquireReturns(c)
             \/ ModuleReturns(c) \/ FinishModule(c)
    <3>1. OneMove(c)
      BY <2>1, SelectEventFacts, RunModuleFacts, FailPrefetchFacts, AcquireReturnsFacts,
         ModuleReturnsFacts, FinishModuleFacts DEF OnlyMove
    <3> QED BY <1>3, <3>1 DEF OneMove
  <2>2. CASE Prefetch(c)
    BY <1>3, <2>2, PrefetchFacts DEF Started
  <2>3. CASE Release(c)
    BY <2>3 DEF Release
  <2> QED BY <1>3, <2>1, <2>2, <2>3 DEF WorkerStep
<1>4. ~FinishedPaths /\ ~FinishEvent
  BY FinishedPathsFacts, FinishEventFacts
<1>5. WorkerStep(m)
  BY <1>2, <1>3, <1>4 DEF Step
<1>6. UNCHANGED <<path, trig, skipping>>
  BY <1>5, WorkerSteps
<1>7. ~Release(m)
  BY DEF Release
<1> QED BY <1>5, <1>6, <1>7, SelectEventFacts, PrefetchFacts, RunModuleFacts, FailPrefetchFacts,
           AcquireReturnsFacts, ModuleReturnsFacts, FinishModuleFacts DEF WorkerStep, Advances

(* What a started worker knows of its inputs stays true.                   *)
LEMMA IgnoredStays ==
  ASSUME Types, Workers, Moved, NEW m \in Modules, worker[m].phase # "idle", NEW e
  PROVE  Ignored(m, e)' <=> Ignored(m, e)
<1>1. worker'[m].onEndPath = worker[m].onEndPath
  BY MoveFacts DEF Moved, Workers
<1> QED BY <1>1, ScheduleStays DEF Moved, Ignored

(* What a started worker has of its inputs stays true.                     *)
LEMMA InputsStay ==
  ASSUME CoreInv, Step, NEW m \in Modules, worker[m].phase # "idle", InputsOf(m)
  PROVE  InputsOf(m)'
<1>1. Types /\ Workers /\ Moved /\ schedule' = schedule /\ Ordinary' = Ordinary
  BY StepKeepsCore, ScheduleStays DEF CoreInv, Moved
<1>2. schedule.consumes[m] \subseteq Products
  BY <1>1, ScheduleFacts DEF Types
<1>3. IgnoresInput(m) => IgnoresInput(m)'
  <2> SUFFICES ASSUME Acquires(m), NEW c \in schedule.consumes[m] \ {Results},
                      NEW e \in Exceptions, Ignored(m, e), Sealed(c, e)
               PROVE  IgnoresInput(m)'
    BY DEF IgnoresInput
  <2>1. c \in Modules
    BY <1>2 DEF Products
  <2>2. Sealed(c, e)' /\ Ignored(m, e)'
    BY <1>1, <2>1, SealedStays, IgnoredStays
  <2> QED BY <1>1, <2>2 DEF IgnoresInput, Acquires
<1>4. ASSUME NEW d \in schedule.consumes[m]
      PROVE  IF d = Results THEN trig'.done \/ Ordinary' = {}
             ELSE \E e \in Failures : Sealed(d, e)' /\ (e = "none" \/ IgnoresInput(m)')
  <2>1. CASE d = Results
    <3>1. trig.done \/ Ordinary = {}
      BY <2>1 DEF InputsOf
    <3> QED BY <1>1, <2>1, <3>1, TrigStays
  <2>2. CASE d # Results
    <3>1. d \in Modules
      BY <1>2, <2>2 DEF Products
    <3>2. PICK e \in Failures : Sealed(d, e) /\ (e = "none" \/ IgnoresInput(m))
      BY <2>2 DEF InputsOf
    <3>3. Sealed(d, e)'
      BY <3>1, <3>2, SealedStays
    <3> QED BY <1>3, <2>2, <3>2, <3>3
  <2> QED BY <2>1, <2>2
<1> QED BY <1>1, <1>4 DEF InputsOf

(* A worker that waited and now runs has its inputs.                       *)
LEMMA RunningHasInputs ==
  ASSUME CoreInv, Resolvers, Step, NEW m \in Modules, ~Ran(m), Ran(m)'
  PROVE  worker[m].phase = "waiting" /\ InputsOf(m)
<1>1. Types /\ Workers /\ Moved /\ Lifecycle(m) /\ worker[m] \in WorkerStates /\ worker'[m] \in WorkerStates
  BY StepKeepsCore DEF CoreInv, Workers, Types
<1>2. worker[m].runs = 0 /\ worker[m].phase \in {"idle", "selecting", "prefetching", "waiting", "done"}
  BY <1>1 DEF Ran, WorkerStates, Phases
<1>3. worker[m].phase = "waiting" /\ worker'[m].phase # "waiting"
  <2>1. worker'[m].runs > 0 \/ worker'[m].phase \in {"acquiring", "running", "returned"}
    BY DEF Ran
  <2>2. worker'[m].runs # 0 => worker[m].phase \in {"waiting", "acquiring"} /\ Runs(m)
    BY <1>1, <1>2, PhaseSteps
  <2>3. Runs(m) => worker'[m].phase = "running"
    BY <1>1 DEF Runs, RunningWorker, WorkerStates
  <2>4. worker[m].phase = "done" => worker'[m].phase = "done"
    BY <1>1, DoneStays
  <2> QED BY <1>1, <1>2, <2>1, <2>2, <2>3, <2>4, PhaseSteps
<1>4. RunModule(m) \/ FailPrefetch(m)
  BY <1>1, <1>3, OwnSteps
<1>5. InputsReleased(m)
  BY <1>1, <1>4, RunModuleFacts, FailPrefetchFacts
<1>6. schedule.consumes[m] \subseteq Products
  BY <1>1, ScheduleFacts DEF Types
<1>7. ASSUME NEW d \in schedule.consumes[m] \ {Results}
      PROVE  d \in Items(m) /\ \E e \in Failures : product[d].exception = e /\ Sealed(d, e)
  <2>1. d \in Modules /\ d \in Products /\ d \in Items(m)
    BY <1>6 DEF Products, Items
  <2>2. product[d].released
    BY <1>5, <2>1 DEF InputsReleased
  <2> QED BY <2>1, <2>2 DEF Resolvers, Resolved
<1>8. Results \in schedule.consumes[m] => trig.done \/ Ordinary = {}
  <2>1. Results \in Products
    BY DEF Products
  <2>2. Results \in Items(m) => product[Results].released
    BY <1>5 DEF InputsReleased
  <2>3. product[Results].released => trig.done
    BY <2>1 DEF Resolvers, Resolved
  <2> QED BY <2>2, <2>3 DEF Items
<1>9. CASE RunModule(m)
  <2>1. \A d \in Items(m) : product[d].exception = "none"
    <3>1. InputExceptions(m) = {}
      BY <1>1, <1>9, RunModuleFacts
    <3> QED BY <3>1 DEF InputExceptions
  <2> QED BY <1>3, <1>7, <1>8, <2>1 DEF InputsOf
<1>10. CASE FailPrefetch(m)
  <2>1. PICK e \in InputExceptions(m) :
               /\ e \in Thrown
               /\ \/ Acquires(m) /\ Ignored(m, e) /\ Runs(m)
                  \/ ~(Acquires(m) /\ Ignored(m, e)) /\ worker'[m] = Settled(m, e)
    BY <1>1, <1>10, FailPrefetchFacts
  <2>2. e \in Exceptions /\ e \in Outcomes /\ e # "none"
    BY <2>1 DEF Thrown, Outcomes, Exceptions
  <2>3. worker'[m] # Settled(m, e)
    <3>1. Settled(m, e).phase = "done" /\ Settled(m, e).runs = 0
      BY <1>1, <1>2, <2>2, SettledFacts
    <3> QED BY <3>1 DEF Ran
  <2>4. PICK c \in Items(m) : e = product[c].exception
    BY <2>1 DEF InputExceptions
  <2>5. c \in schedule.consumes[m] \ {Results}
    <3>1. product[Results].exception = "none"
      BY DEF Resolvers, Resolved, Products
    <3> QED BY <2>2, <2>4, <3>1 DEF Items
  <2>6. Sealed(c, e)
    BY <1>7, <2>4, <2>5
  <2>7. IgnoresInput(m)
    BY <2>1, <2>2, <2>3, <2>5, <2>6 DEF IgnoresInput
  <2> QED BY <1>3, <1>7, <1>8, <2>7 DEF InputsOf
<1> QED BY <1>4, <1>9, <1>10

(* Who runs has its inputs, after a step too.                              *)
LEMMA StepKeepsInputs ==
  ASSUME CoreInv, Resolvers, Inputs, Step
  PROVE  Inputs'
<1> SUFFICES ASSUME NEW m \in Modules, Ran(m)' PROVE InputsOf(m)'
  BY DEF Inputs
<1>1. CASE Ran(m)
  <2>1. worker[m].phase # "idle"
    BY <1>1 DEF Ran, CoreInv, Workers, Lifecycle, Untouched
  <2> QED BY <1>1, <2>1, InputsStay DEF Inputs
<1>2. CASE ~Ran(m)
  <2>1. worker[m].phase = "waiting" /\ InputsOf(m)
    BY <1>2, RunningHasInputs
  <2> QED BY <2>1, InputsStay
<1> QED BY <1>1, <1>2

-----------------------------------------------------------------------------
(* The readers of a deletable product.  A module is spent when it has run, *)
(* or all its places are on paths that were left early.                    *)
LeftEarly(m) == {x \in Places(m) : path[x[1]].phase = "done" /\ ~path[x[1]].continues}
Finished(m) == worker[m].phase = "done" /\ worker[m].runs = 1
Spent(m) == Finished(m) \/ (m \in Scheduled /\ LeftEarly(m) = Places(m))
Unspent(d) == {m \in Readers(d) : ~Spent(m)}

(* A helper counts the places that may still come, ...                     *)
HelperOf(m) == helper[m] = IF Reads(m) = {} \/ Finished(m) THEN 0
                           ELSE Cardinality(Places(m) \ LeftEarly(m))

(* ... and a product the readers that are not spent.                       *)
Counted(d) == count[d] = Cardinality(Unspent(d))
Deleted(d) == product[d].status = "deleted" => d \in schedule.deletable /\ Unspent(d) = {}

Deletions ==
    /\ status \in {"processing", "failed"} => /\ \A m \in Modules : HelperOf(m)
                                              /\ \A d \in Modules : Counted(d)
    /\ status \in {"new", "refused", "idle", "finished"} => helper = Helpers /\ count = Counts
    /\ \A d \in Modules : Deleted(d)

(* A worker that is at work has a path that waits for it.                  *)
LEMMA AtWork ==
  ASSUME CoreInv, NEW m \in Scheduled, m \in Modules, worker[m].phase \notin {"idle", "done"}
  PROVE  \E x \in Places(m) : x[1] \in Paths /\ path[x[1]].phase \in {"next", "waiting"}
                              /\ path[x[1]].at = x[2]
<1>1. PICK x \in Places(m) : path[x[1]].phase # "unstarted" /\ path[x[1]].at >= x[2]
  BY DEF CoreInv, Neededs, Needed, Reached
<1>2. PICK p \in Paths : p = x[1] /\ x[2] \in 1..Len(schedule.paths[p]) /\ Entry(p, x[2]).module = m
  BY PlaceFacts DEF CoreInv, Types
<1>3. path[p] \in PathStates /\ Followed(p) /\ Ended(p)
  BY DEF CoreInv, Types, Followeds
<1>4. path[p].at \in Nat /\ x[2] \in Nat
  BY <1>2, <1>3 DEF PathStates
<1>5. path[p].at = x[2]
  <2>1. ASSUME path[p].at # x[2] PROVE FALSE
    <3>1. x[2] \in 1..(path[p].at - 1)
      BY <1>1, <1>2, <1>4, <2>1
    <3>2. Over(p, x[2])
      BY <1>3, <3>1 DEF Followed
    <3> QED BY <1>2, <3>2 DEF Over
  <2> QED BY <2>1
<1>6. path[p].phase \notin {"leaving", "done"}
  BY <1>2, <1>3, <1>5 DEF Ended, Current
<1> QED BY <1>1, <1>2, <1>3, <1>5, <1>6 DEF PathStates

(* A reader that is spent is not at work.                                  *)
LEMMA SpentAtRest ==
  ASSUME CoreInv, NEW m \in Modules, Spent(m)
  PROVE  worker[m].phase \in {"idle", "done"}
  BY AtWork DEF Spent, Finished, LeftEarly

(* A path that ends does so in finishing.                                  *)
LEMMA EndsFinishes ==
  ASSUME Types, Step, NEW p \in Paths, Ends(p)
  PROVE  FinishPath(p)
<1>1. path'[p].phase = "done" /\ path[p].phase = "leaving"
  BY DEF Ends
<1>2. ASSUME NEW q \in Paths, PathStep(q) PROVE FinishPath(p)
  <2>1. CASE RunNextWorker(q)
    BY <1>1, <2>1, RunNextWorkerFacts
  <2>2. CASE WorkerFinished(q)
    BY <1>1, <2>2, WorkerFinishedFacts
  <2>3. CASE FinishPath(q)
    BY <1>1, <2>3, FinishPathFacts
  <2> QED BY <1>2, <2>1, <2>2, <2>3 DEF PathStep
<1> QED BY <1>1, <1>2, WorkerSteps, FinishedPathsFacts, FinishEventFacts DEF Step

(* A place is left early when its path is finished that has not continued. *)
LEMMA LeftEarlySteps ==
  ASSUME CoreInv, Step, NEW m \in Modules, NEW x \in Places(m)
  PROVE  /\ x[1] \in Paths
         /\ x \in LeftEarly(m)' <=> x \in LeftEarly(m) \/ (FinishPath(x[1]) /\ ~path[x[1]].continues)
<1>1. Types /\ Moved /\ Places(m)' = Places(m)
  BY StepKeepsCore, ScheduleStays DEF CoreInv, Moved
<1>2. PICK p \in Paths : p = x[1]
  BY <1>1, PlaceFacts DEF Types
<1>3. PathMove(p) /\ (Ends(p) <=> FinishPath(p))
  BY <1>1, FinishPathFacts, EndsFinishes DEF Moved, Ends
<1>4. /\ x \in LeftEarly(m) <=> path[p].phase = "done" /\ ~path[p].continues
      /\ x \in LeftEarly(m)' <=> path'[p].phase = "done" /\ ~path'[p].continues
  BY <1>1, <1>2 DEF LeftEarly
<1>5. x \in LeftEarly(m)' <=> x \in LeftEarly(m) \/ (Ends(p) /\ ~path[p].continues)
  BY <1>3, <1>4 DEF PathMove, Waits, Learns, Advance, Leave, Ends
<1> QED BY <1>2, <1>3, <1>5

(* A module has finished when its postDoEvent() has come.                  *)
LEMMA FinishedSteps ==
  ASSUME CoreInv, Step, NEW m \in Modules
  PROVE  Finished(m)' <=> Finished(m) \/ FinishModule(m)
<1>1. Types /\ Workers /\ Moved /\ Lifecycle(m) /\ worker[m] \in WorkerStates
  BY StepKeepsCore DEF CoreInv, Workers, Types
<1>2. ASSUME Finished(m) PROVE Finished(m)'
  BY <1>1, <1>2, MoveFacts DEF Finished, Moved
<1>3. ASSUME FinishModule(m) PROVE Finished(m)'
  <2>1. worker[m].phase = "returned" /\ worker'[m] = Settled(m, worker[m].outcome)
    BY <1>1, <1>3, FinishModuleFacts
  <2>2. worker[m].outcome \in Outcomes /\ worker[m].runs = 1
    BY <1>1, <2>1 DEF Lifecycle, WorkerStates
  <2> QED BY <1>1, <2>1, <2>2, SettledFacts DEF Finished
<1>4. ASSUME Finished(m)', ~Finished(m) PROVE FinishModule(m)
  <2>1. worker'[m].phase = "done" /\ worker'[m].runs = 1
    BY <1>4 DEF Finished
  <2>2. ~Runs(m)
    BY <1>1, <2>1 DEF Runs, RunningWorker, WorkerStates
  <2>3. worker[m].runs = 1
    BY <1>1, <2>1, <2>2, PhaseSteps
  <2>4. worker[m].phase \in {"running", "returned"}
    BY <1>1, <1>4, <2>3 DEF Finished, Lifecycle, Untouched, WorkerStates, Phases
  <2> QED BY <1>1, <2>1, <2>4, OwnSteps, PhaseSteps
<1> QED BY <1>2, <1>3, <1>4

(* Who is spent stays so in the event.                                     *)
LEMMA SpentStays ==
  ASSUME CoreInv, Step, NEW m \in Modules, Spent(m)
  PROVE  Spent(m)'
<1>1. Places(m)' = Places(m) /\ Scheduled' = Scheduled
  BY StepKeepsCore, ScheduleStays DEF Moved
<1>2. LeftEarly(m)' \subseteq Places(m)
  BY <1>1 DEF LeftEarly
<1>3. LeftEarly(m) = Places(m) => LeftEarly(m)' = Places(m)
  BY <1>2, LeftEarlySteps
<1> QED BY <1>1, <1>3, FinishedSteps DEF Spent

(* Readers are finitely many.                                              *)
LEMMA ReadersFinite ==
  ASSUME NEW d
  PROVE  /\ IsFiniteSet(Readers(d)) /\ IsFiniteSet(Unspent(d))
         /\ Cardinality(Readers(d)) \in Nat /\ Cardinality(Unspent(d)) \in Nat
<1>1. Readers(d) \subseteq Modules /\ Unspent(d) \subseteq Modules
  BY DEF Readers, Unspent
<1>2. IsFiniteSet(Readers(d)) /\ IsFiniteSet(Unspent(d))
  BY <1>1, ModulesAssumption, FS_Subset
<1> QED BY <1>2, FS_CardinalityType

(* When the readers R are spent, the counts go down by them.               *)
LEMMA CountsGoDown ==
  ASSUME Types, NEW R \in SUBSET Modules, count' = CountsAfter(R), NEW d \in Modules,
         Counted(d), R \cap Readers(d) \subseteq Unspent(d), Unspent(d)' = Unspent(d) \ R
  PROVE  Counted(d)'
<1>1. count'[d] = count[d] - Cardinality(R \cap Readers(d))
  BY DEF CountsAfter
<1>2. Unspent(d) \cap R = R \cap Readers(d)
  BY DEF Unspent
<1>3. Cardinality(Unspent(d) \ R) = Cardinality(Unspent(d)) - Cardinality(Unspent(d) \cap R)
  BY ReadersFinite, FS_Difference
<1>4. count'[d] = Cardinality(Unspent(d) \ R)
  BY <1>1, <1>2, <1>3 DEF Counted
<1> QED BY <1>4 DEF Counted

(* A path that is left takes its places from every helper on it, and spends *)
(* the readers that have no other.                                         *)
LEMMA FinishPathSpends ==
  ASSUME CoreInv, Step, NEW p \in Paths, FinishPath(p), NEW m \in Modules, HelperOf(m)
  PROVE  /\ HelperOf(m)'
         /\ Reads(m) # {} => /\ Spent(m)' <=> Spent(m) \/ m \in PathReaders(p)
                             /\ m \in PathReaders(p) => ~Spent(m)
<1>1. Types /\ Moved /\ Places(m)' = Places(m) /\ Reads(m)' = Reads(m) /\ Scheduled' = Scheduled
  BY StepKeepsCore, ScheduleStays DEF CoreInv, Moved
<1>2. PICK given : given = {<<p, i>> : i \in OnIt(p, m)}
  OBVIOUS
<1>3. PICK n \in Nat : n = Cardinality(OnIt(p, m))
  BY <1>1, BehindFacts
<1>4. IsFiniteSet(given) /\ Cardinality(given) = n
  BY <1>1, <1>2, <1>3, BehindFacts, PlacesOfEntries
<1>5. path[p].phase = "leaving" /\ \A q \in Paths : q # p => ~FinishPath(q)
  <2>1. \A q \in Paths : q # p => path'[q] = path[q]
    BY <1>1, FinishPathFacts
  <2>2. \A q \in Paths : FinishPath(q) => path'[q].phase = "done" /\ path[q].phase = "leaving"
    BY <1>1, FinishPathFacts
  <2> QED BY <2>1, <2>2
<1>6. \A x \in Places(m) : x \in LeftEarly(m)' <=> x \in LeftEarly(m) \/ x \in given
  <2> SUFFICES ASSUME NEW x \in Places(m)
               PROVE  x \in LeftEarly(m)' <=> x \in LeftEarly(m) \/ x \in given
    OBVIOUS
  <2>1. x = <<x[1], x[2]>> /\ x[1] \in Paths /\ x[2] \in 1..Len(schedule.paths[x[1]])
        /\ Entry(x[1], x[2]).module = m
    BY <1>1, PlaceFacts DEF Types
  <2>2. x \in given <=> x[1] = p /\ x[2] \in OnIt(p, m)
    BY <1>2, <2>1
  <2>3. x[1] = p => (x[2] \in OnIt(p, m) <=> ~path[p].continues)
    BY <1>1, <2>1, ScheduleFacts DEF OnIt, PlacesOn, Types
  <2> QED BY <1>5, <2>1, <2>2, <2>3, LeftEarlySteps
<1>7. LeftEarly(m)' \subseteq Places(m) /\ LeftEarly(m) \subseteq Places(m)
  BY <1>1 DEF LeftEarly
<1>8. given \subseteq Places(m) \ LeftEarly(m)
  <2> SUFFICES ASSUME NEW i \in OnIt(p, m) PROVE <<p, i>> \in Places(m) \ LeftEarly(m)
    BY <1>2
  <2>1. i \in PlacesOn(p, m)
    BY DEF OnIt
  <2>2. i \in 1..Len(schedule.paths[p]) /\ Entry(p, i).module = m
    BY <1>1, <2>1, ScheduleFacts DEF PlacesOn, Types
  <2>3. <<p, i>> \in Places(m)
    BY <1>1, <2>2, PlaceFacts DEF Types
  <2> QED BY <1>5, <2>3 DEF LeftEarly
<1>9. Places(m) \ LeftEarly(m)' = (Places(m) \ LeftEarly(m)) \ given
  BY <1>6, <1>7
<1>10. IsFiniteSet(Places(m) \ LeftEarly(m))
  BY <1>1, PlacesFinite, FS_Subset DEF Types
<1>11. PICK k \in Nat : k = Cardinality(Places(m) \ LeftEarly(m))
  BY <1>10, FS_CardinalityType
<1>12. Cardinality((Places(m) \ LeftEarly(m)) \ given) = k - n /\ IsFiniteSet((Places(m) \ LeftEarly(m)) \ given)
  <2>1. (Places(m) \ LeftEarly(m)) \cap given = given
    BY <1>8
  <2>2. /\ Cardinality((Places(m) \ LeftEarly(m)) \ given)
             = Cardinality(Places(m) \ LeftEarly(m)) - Cardinality((Places(m) \ LeftEarly(m)) \cap given)
        /\ IsFiniteSet((Places(m) \ LeftEarly(m)) \ given)
    BY <1>10, FS_Difference
  <2> QED BY <1>4, <1>11, <2>1, <2>2
<1>13. k - n \in Nat
  BY <1>12, FS_CardinalityType
<1>14. LeftEarly(m) = Places(m) <=> k = 0
  <2>1. k = 0 <=> Places(m) \ LeftEarly(m) = {}
    BY <1>10, <1>11, FS_EmptySet
  <2> QED BY <1>7, <2>1
<1>15. LeftEarly(m)' = Places(m) <=> k - n = 0
  <2>1. k - n = 0 <=> (Places(m) \ LeftEarly(m)) \ given = {}
    BY <1>12, FS_EmptySet
  <2> QED BY <1>7, <1>9, <2>1
<1>16. helper'[m] = IF helper[m] > n THEN helper[m] - n ELSE 0
  <2>1. helper' = [w \in Modules |-> IF helper[w] > Cardinality(OnIt(p, w))
                                       THEN helper[w] - Cardinality(OnIt(p, w)) ELSE 0]
    BY <1>1, FinishPathFacts
  <2> QED BY <1>3, <2>1
<1>17. ~FinishModule(m)
  <2>1. worker'[m].phase = worker[m].phase /\ worker[m] \in WorkerStates
    <3>1. GivesUp(m) /\ worker[m] \in WorkerStates
      BY <1>1, FinishPathFacts DEF Types
    <3> QED BY <3>1 DEF GivesUp, WorkerStates
  <2>2. SUFFICES ASSUME FinishModule(m) PROVE FALSE
    OBVIOUS
  <2>3. worker[m].phase = "returned" /\ worker'[m] = Settled(m, worker[m].outcome)
    BY <1>1, <2>2, FinishModuleFacts
  <2>4. worker[m].outcome \in Outcomes
    BY <2>1, <2>3 DEF CoreInv, Workers, Lifecycle, WorkerStates
  <2>5. worker'[m].phase = "done"
    BY <1>1, <2>3, <2>4, SettledFacts
  <2> QED BY <2>1, <2>3, <2>5
<1>18. Finished(m)' <=> Finished(m)
  BY <1>17, FinishedSteps
<1>19. helper[m] = IF Reads(m) = {} \/ Finished(m) THEN 0 ELSE k
  BY <1>11 DEF HelperOf
<1>20. HelperOf(m)'
  <2>1. Cardinality(Places(m)' \ LeftEarly(m)') = k - n
    BY <1>1, <1>9, <1>12
  <2>2. helper'[m] = IF Reads(m) = {} \/ Finished(m) THEN 0 ELSE k - n
    BY <1>13, <1>16, <1>19
  <2>3. helper'[m] = IF Reads(m)' = {} \/ Finished(m)' THEN 0
                                                      ELSE Cardinality(Places(m)' \ LeftEarly(m)')
    BY <1>1, <1>18, <2>1, <2>2
  <2> QED BY <2>3 DEF HelperOf
<1>21. ASSUME Reads(m) # {}
       PROVE  /\ Spent(m)' <=> Spent(m) \/ m \in PathReaders(p)
              /\ m \in PathReaders(p) => ~Spent(m)
  <2>1. m \in PathReaders(p) <=> helper[m] \in 1..n
    BY <1>3, <1>21 DEF PathReaders, GivenUp
  <2>2. m \in PathReaders(p) <=> ~Finished(m) /\ k > 0 /\ k - n = 0
    BY <1>13, <1>19, <1>21, <2>1
  <2>3. k > 0 => m \in Scheduled
    <3>1. k > 0 => Places(m) # {}
      BY <1>7, <1>14
    <3> QED BY <3>1 DEF Scheduled
  <2>4. Spent(m) <=> Finished(m) \/ (m \in Scheduled /\ k = 0)
    BY <1>14 DEF Spent
  <2>5. Spent(m)' <=> Finished(m) \/ (m \in Scheduled /\ k - n = 0)
    BY <1>1, <1>15, <1>18 DEF Spent
  <2> QED BY <1>13, <2>2, <2>3, <2>4, <2>5
<1> QED BY <1>20, <1>21

(* The other steps leave helpers and counts alone; what was spent stays so. *)
LEMMA QuietCounts ==
  ASSUME CoreInv, Step, UNCHANGED <<helper, count>>,
         \A p \in Paths : ~FinishPath(p), \A m \in Modules : ~FinishModule(m)
  PROVE  /\ \A m \in Modules : (Spent(m)' <=> Spent(m)) /\ (HelperOf(m) => HelperOf(m)')
         /\ \A d \in Modules : Counted(d) => Counted(d)'
<1>1. /\ \A m \in Modules : Places(m)' = Places(m) /\ Reads(m)' = Reads(m)
      /\ \A d \in Modules : Readers(d)' = Readers(d)
      /\ Scheduled' = Scheduled
  BY StepKeepsCore, ScheduleStays DEF Moved
<1>2. ASSUME NEW m \in Modules
      PROVE  (Finished(m)' <=> Finished(m)) /\ LeftEarly(m)' = LeftEarly(m)
  <2>1. Finished(m)' <=> Finished(m)
    BY FinishedSteps
  <2>2. LeftEarly(m)' \subseteq Places(m) /\ LeftEarly(m) \subseteq Places(m)
    BY <1>1 DEF LeftEarly
  <2>3. \A x \in Places(m) : x \in LeftEarly(m)' <=> x \in LeftEarly(m)
    BY LeftEarlySteps
  <2> QED BY <2>1, <2>2, <2>3
<1>3. \A m \in Modules : Spent(m)' <=> Spent(m)
  BY <1>1, <1>2 DEF Spent
<1>4. \A d \in Modules : Unspent(d)' = Unspent(d)
  BY <1>1, <1>3 DEF Unspent, Readers
<1>5. \A m \in Modules : HelperOf(m) => HelperOf(m)'
  BY <1>1, <1>2 DEF HelperOf
<1>6. \A d \in Modules : Counted(d) => Counted(d)'
  BY <1>4 DEF Counted
<1> QED BY <1>3, <1>5, <1>6

(* A module that ends spends itself.                                       *)
LEMMA FinishModuleSpends ==
  ASSUME CoreInv, Step, NEW r \in Modules, FinishModule(r), \A m \in Modules : HelperOf(m)
  PROVE  /\ \A m \in Modules : HelperOf(m)' /\ (Spent(m)' <=> Spent(m) \/ m = r)
         /\ ~Spent(r)
<1>1. /\ Types /\ Moved /\ Scheduled' = Scheduled
      /\ \A m \in Modules : Places(m)' = Places(m) /\ Reads(m)' = Reads(m)
  BY StepKeepsCore, ScheduleStays DEF CoreInv, Moved
<1>2. /\ UNCHANGED path /\ worker[r].phase = "returned" /\ helper' = [helper EXCEPT ![r] = 0]
      /\ \A m \in Modules : m # r => worker'[m] = worker[m]
  BY <1>1, FinishModuleFacts DEF OneMove
<1>3. ~Spent(r)
  BY <1>2, SpentAtRest
<1>4. \A m \in Modules : LeftEarly(m)' = LeftEarly(m)
  BY <1>1, <1>2 DEF LeftEarly
<1>5. Finished(r)'
  BY FinishedSteps
<1>6. \A m \in Modules : m # r => (Finished(m)' <=> Finished(m))
  BY <1>2 DEF Finished
<1>7. helper'[r] = 0 /\ \A m \in Modules : m # r => helper'[m] = helper[m]
  BY <1>1, <1>2 DEF Types
<1>8. \A m \in Modules : Spent(m)' <=> Spent(m) \/ m = r
  BY <1>1, <1>4, <1>5, <1>6 DEF Spent
<1>9. \A m \in Modules : HelperOf(m)'
  <2> TAKE m \in Modules
  <2>1. CASE m = r
    BY <1>5, <1>7, <2>1 DEF HelperOf
  <2>2. CASE m # r
    BY <1>1, <1>4, <1>6, <1>7, <2>2 DEF HelperOf
  <2> QED BY <2>1, <2>2
<1> QED BY <1>3, <1>8, <1>9

(* Who is spent now had not been, and leaves the readers that remain.      *)
LEMMA SpendingCounts ==
  ASSUME CoreInv, Step, NEW R \in SUBSET Modules, count' = CountsAfter(R),
         \A m \in Modules : Reads(m) # {} => (Spent(m)' <=> Spent(m) \/ m \in R)
                                            /\ (m \in R => ~Spent(m)),
         NEW d \in Modules
  PROVE  /\ Unspent(d)' = Unspent(d) \ R
         /\ Counted(d) => Counted(d)'
<1>1. Types /\ Readers(d)' = Readers(d)
  BY StepKeepsCore, ScheduleStays DEF CoreInv, Moved
<1>2. \A m \in Readers(d) : m \in Modules /\ Reads(m) # {}
  BY DEF Readers
<1>3. \A m \in Readers(d) : (Spent(m)' <=> Spent(m) \/ m \in R) /\ (m \in R => ~Spent(m))
  BY <1>2
<1>4. R \cap Readers(d) \subseteq Unspent(d)
  BY <1>3 DEF Unspent
<1>5. Unspent(d)' = {m \in Readers(d) : ~Spent(m)'}
  BY <1>1 DEF Unspent
<1>6. Unspent(d)' = Unspent(d) \ R
  BY <1>3, <1>5 DEF Unspent
<1> QED BY <1>1, <1>4, <1>6, CountsGoDown

(* What is done to helpers and counts is done for what is spent.           *)
LEMMA StepKeepsCounts ==
  ASSUME CoreInv, Step, ~FinishEvent,
         \A m \in Modules : HelperOf(m), \A d \in Modules : Counted(d)
  PROVE  (\A m \in Modules : HelperOf(m)') /\ (\A d \in Modules : Counted(d)')
<1>1. Types
  BY DEF CoreInv
<1>2. ASSUME NEW p \in Paths, FinishPath(p)
      PROVE  (\A m \in Modules : HelperOf(m)') /\ (\A d \in Modules : Counted(d)')
  <2>1. PathReaders(p) \in SUBSET Modules /\ count' = CountsAfter(PathReaders(p))
    BY <1>1, <1>2, FinishPathFacts DEF PathReaders
  <2>2. \A m \in Modules : HelperOf(m)'
    BY <1>2, FinishPathSpends
  <2>3. \A m \in Modules : Reads(m) # {} => (Spent(m)' <=> Spent(m) \/ m \in PathReaders(p))
                                           /\ (m \in PathReaders(p) => ~Spent(m))
    BY <1>2, FinishPathSpends
  <2> QED BY <2>1, <2>2, <2>3, SpendingCounts
<1>3. ASSUME NEW r \in Modules, FinishModule(r)
      PROVE  (\A m \in Modules : HelperOf(m)') /\ (\A d \in Modules : Counted(d)')
  <2>1. PICK R \in SUBSET Modules : R = {r}
    OBVIOUS
  <2>2. count' = CountsAfter(R)
    BY <1>1, <1>3, <2>1, FinishModuleFacts
  <2>3. (\A m \in Modules : HelperOf(m)' /\ (Spent(m)' <=> Spent(m) \/ m = r)) /\ ~Spent(r)
    BY <1>3, FinishModuleSpends
  <2>4. \A m \in Modules : Reads(m) # {} => (Spent(m)' <=> Spent(m) \/ m \in R)
                                           /\ (m \in R => ~Spent(m))
    BY <2>1, <2>3
  <2> QED BY <2>2, <2>3, <2>4, SpendingCounts
<1>4. CASE (\A p \in Paths : ~FinishPath(p)) /\ (\A m \in Modules : ~FinishModule(m))
  <2>1. UNCHANGED <<helper, count>>
    BY <1>1, <1>4, RunNextWorkerFacts, WorkerFinishedFacts, SelectEventFacts, PrefetchFacts, RunModuleFacts,
       FailPrefetchFacts, AcquireReturnsFacts, ModuleReturnsFacts, FinishedPathsFacts
       DEF Step, PathStep, WorkerStep, Release, OnlyMove, deleteVars
  <2> QED BY <1>4, <2>1, QuietCounts
<1> QED BY <1>2, <1>3, <1>4

(* A step that deletes a product has spent its last reader.                *)
LEMMA StepKeepsDeletions ==
  ASSUME CoreInv, Deletions, Step
  PROVE  Deletions'
<1>1. Types /\ CoreInv' /\ schedule' = schedule /\ (\A d : Readers(d)' = Readers(d))
      /\ Helpers' = Helpers /\ Counts' = Counts /\ status = "processing"
  BY StepKeepsCore, ScheduleStays DEF CoreInv, Moved, Step
<1>2. (\A m \in Modules : HelperOf(m)) /\ (\A d \in Modules : Counted(d)) /\ (\A d \in Modules : Deleted(d))
  BY <1>1 DEF Deletions
<1>3. \A d \in Modules : Unspent(d) = {} => Unspent(d)' = {}
  BY <1>1, SpentStays DEF Unspent, Readers
<1>4. \A d \in Modules : product'[d] = product[d] => Deleted(d)'
  BY <1>1, <1>2, <1>3 DEF Deleted
<1>5. CASE FinishEvent
  <2>1. UNCHANGED <<schedule, worker, path, product>>
        /\ \/ status' = "finished" /\ helper' = Helpers /\ count' = Counts
           \/ status' = "failed" /\ UNCHANGED <<helper, count>>
    BY <1>1, <1>5, FinishEventFacts
  <2>2. CASE status' = "finished" /\ helper' = Helpers /\ count' = Counts
    BY <1>1, <1>4, <2>1, <2>2 DEF Deletions
  <2>3. CASE status' = "failed" /\ UNCHANGED <<helper, count>>
    <3>1. (\A p \in Paths : ~FinishPath(p)) /\ (\A m \in Modules : ~FinishModule(m))
      <4>1. status' # status
        BY <1>1, <2>3
      <4> QED BY <1>1, <4>1, FinishPathFacts, FinishModuleFacts
    <3>2. (\A m \in Modules : HelperOf(m)') /\ (\A d \in Modules : Counted(d)')
      BY <1>2, <2>3, <3>1, QuietCounts
    <3> QED BY <1>4, <2>1, <2>3, <3>2 DEF Deletions
  <2> QED BY <2>1, <2>2, <2>3
<1>6. CASE ~FinishEvent
  <2>1. (\A m \in Modules : HelperOf(m)') /\ (\A d \in Modules : Counted(d)')
    BY <1>2, <1>6, StepKeepsCounts
  <2>2. status' = "processing"
    BY <1>1, <1>6, PathSteps, WorkerSteps, FinishedPathsFacts DEF Step
  <2>3. ASSUME NEW d \in Modules PROVE Deleted(d)'
    <3>1. d \in Products /\ ProductMove(d) /\ product[d] \in ProductStates
      BY <1>1, ProductSteps DEF Products, Types
    <3>2. CASE Deletes(d)
      <4>1. d \in schedule'.deletable /\ count'[d] = 0
        BY <1>1, <3>2 DEF Deletes
      <4>2. PICK U : U = Unspent(d)'
        OBVIOUS
      <4>3. U \subseteq Modules /\ Cardinality(U) = 0
        BY <2>1, <4>1, <4>2 DEF Counted, Unspent, Readers
      <4>4. U = {}
        BY <4>3, ModulesAssumption, FS_Subset, FS_EmptySet
      <4> QED BY <4>1, <4>2, <4>4 DEF Deleted
    <3>3. CASE ~Deletes(d)
      <4>1. product'[d].status = "deleted" => product[d].status = "deleted"
        BY <3>1, <3>3, ModulesAssumption DEF ProductMove, Asks, Releases, Puts, Inserts, ProductStates
      <4> QED BY <1>1, <1>2, <1>3, <4>1 DEF Deleted
    <3> QED BY <3>2, <3>3
  <2> QED BY <2>1, <2>2, <2>3 DEF Deletions
<1> QED BY <1>5, <1>6

-----------------------------------------------------------------------------
(* Every exception was raised by a module.                                 *)
Raised(e) == \E m \in Modules : worker[m].outcome = e
Provenance ==
    /\ \A m \in Modules, e \in Exceptions : worker[m].exception = e => Raised(e)
    /\ \A d \in Products, e \in Exceptions : product[d].exception = e => Raised(e)

(* What was raised stays so in the event.                                  *)
LEMMA RaisedStays ==
  ASSUME CoreInv, Step, NEW e \in Exceptions, Raised(e)
  PROVE  Raised(e)'
<1>1. PICK m \in Modules : worker[m].outcome = e
  BY DEF Raised
<1>2. worker'[m].outcome = e
  BY <1>1, StepKeepsCore, DoneStays DEF CoreInv, Exceptions
<1> QED BY <1>2 DEF Raised

(* A worker gets its exception when it is settled: its module raised it, or *)
(* it is that of an input.                                                 *)
LEMMA ExceptionSteps ==
  ASSUME CoreInv, Step, NEW m \in Modules, NEW e \in Exceptions,
         worker'[m].exception = e, worker[m].exception # e
  PROVE  \/ worker'[m].outcome = e
         \/ FailPrefetch(m) /\ e \in InputExceptions(m)
<1>1. Types /\ Workers /\ Moved /\ CoreInv' /\ worker[m] \in WorkerStates /\ worker'[m] \in WorkerStates
  BY StepKeepsCore DEF CoreInv, Types
<1>2. e # "none" /\ e \in Outcomes
  BY DEF Exceptions, Outcomes
<1>3. worker'[m].phase = "done"
  BY <1>1, <1>2 DEF CoreInv, Workers, Result
<1>4. worker[m].phase # "done"
  BY <1>1, DoneStays
<1>5. worker[m].phase # "idle"
  BY <1>1, <1>3, PhaseSteps
<1>6. SelectEvent(m) \/ Prefetch(m) \/ RunModule(m) \/ FailPrefetch(m) \/ AcquireReturns(m)
      \/ ModuleReturns(m) \/ FinishModule(m)
  BY <1>1, <1>3, <1>4, <1>5, OwnSteps
<1>7. CASE SelectEvent(m) \/ Prefetch(m) \/ RunModule(m) \/ ModuleReturns(m)
  <2>1. ~Advances(m, "selecting", "prefetching") /\ ~Advances(m, "prefetching", "waiting")
        /\ ~Advances(m, "waiting", "acquiring") /\ ~Runs(m)
    BY <1>1, <1>3 DEF Advances, Runs, RunningWorker, WorkerStates
  <2>2. SelectEvent(m) /\ worker'[m] = Settled(m, "pass")
    BY <1>1, <1>3, <1>7, <2>1, SelectEventFacts, PrefetchFacts, RunModuleFacts, ModuleReturnsFacts
  <2>3. "pass" \in Outcomes /\ "pass" \notin Exceptions
    BY DEF Outcomes, Exceptions
  <2>4. worker'[m].exception = "none"
    BY <1>1, <2>2, <2>3, SettledFacts
  <2> QED BY <1>2, <2>4
<1>8. CASE FailPrefetch(m)
  <2>1. PICK x \in InputExceptions(m) : x \in Thrown /\ (Runs(m) \/ worker'[m] = Settled(m, x))
    BY <1>1, <1>8, FailPrefetchFacts
  <2>2. ~Runs(m)
    BY <1>1, <1>3 DEF Runs, RunningWorker, WorkerStates
  <2>3. x \in Outcomes
    BY <2>1 DEF Thrown, Outcomes
  <2>4. x = e
    BY <1>1, <1>2, <2>1, <2>2, <2>3, SettledFacts
  <2> QED BY <1>8, <2>1, <2>4
<1>9. CASE AcquireReturns(m)
  <2>1. ~Runs(m)
    BY <1>1, <1>3 DEF Runs, RunningWorker, WorkerStates
  <2>2. SettlesAcquire(m)
    BY <1>1, <1>9, <2>1, AcquireReturnsFacts
  <2>3. PICK o \in Exceptions : worker'[m] = [Settled(m, o) EXCEPT !.outcome = o]
    BY <2>2 DEF SettlesAcquire
  <2>4. o \in Outcomes
    BY DEF Outcomes
  <2>5. Settled(m, o) \in WorkerStates /\ Settled(m, o).exception \in {o, "none"}
    BY <1>1, <2>4, SettledFacts
  <2>6. worker'[m].exception \in {o, "none"} /\ worker'[m].outcome = o
    BY <2>3, <2>5 DEF WorkerStates
  <2> QED BY <1>2, <2>6
<1>10. CASE FinishModule(m)
  <2>1. worker[m].phase = "returned" /\ worker'[m] = Settled(m, worker[m].outcome)
    BY <1>1, <1>10, FinishModuleFacts
  <2>2. worker[m].outcome \in Outcomes
    BY <1>1, <2>1 DEF Workers, Lifecycle, WorkerStates
  <2>3. worker'[m].exception \in {worker[m].outcome, "none"} /\ worker'[m].outcome = worker[m].outcome
    BY <1>1, <2>1, <2>2, SettledFacts
  <2> QED BY <1>2, <2>3
<1> QED BY <1>6, <1>7, <1>8, <1>9, <1>10

(* No step makes up an exception.                                          *)
LEMMA StepKeepsProvenance ==
  ASSUME CoreInv, Provenance, Step
  PROVE  Provenance'
<1>1. Types /\ Products' = Products
  BY DEF CoreInv, Products
<1>2. ASSUME NEW m \in Modules, NEW e \in Exceptions, worker'[m].exception = e PROVE Raised(e)'
  <2>1. CASE worker[m].exception = e
    BY <2>1, RaisedStays DEF Provenance
  <2>2. CASE worker'[m].outcome = e
    BY <2>2 DEF Raised
  <2>3. CASE e \in InputExceptions(m)
    <3>1. PICK d \in Items(m) : product[d].exception = e
      BY <2>3 DEF InputExceptions
    <3>2. d \in Products
      BY <1>1, <3>1, ScheduleFacts DEF Items, Types
    <3> QED BY <3>1, <3>2, RaisedStays DEF Provenance
  <2> QED BY <1>2, <2>1, <2>2, <2>3, ExceptionSteps
<1>3. ASSUME NEW d \in Products, NEW e \in Exceptions, product'[d].exception = e PROVE Raised(e)'
  <2>1. ProductMove(d) /\ product[d] \in ProductStates /\ e # "none"
    BY <1>1, ProductSteps DEF Types, Exceptions
  <2>2. product[d].exception = e \/ (d \in Modules /\ worker[d].exception = e)
    BY <1>3, <2>1 DEF ProductMove, Asks, Releases, Puts, Deletes, Inserts, ProductStates
  <2>3. Raised(e)
    BY <2>2 DEF Provenance
  <2> QED BY <2>3, RaisedStays
<1> QED BY <1>1, <1>2, <1>3 DEF Provenance

-----------------------------------------------------------------------------
(* What finishedPaths() has passed on.                                     *)
PathsRaise(e) == \E p \in Ordinary : path[p].exception = e
Passed == IF trig.done
            THEN /\ \A p \in Ordinary : path[p].phase = "done"
                 /\ trig.exception # "SkipEvent"
                 /\ \A e \in Exceptions : trig.exception = e => PathsRaise(e)
                 /\ trig.exception = "none"
                       => \A e \in Exceptions : PathsRaise(e) => PathsRaise("SkipEvent")
            ELSE trig.exception = "none"

(* A path that is done stays as it is.                                     *)
LEMMA EndedPathStays ==
  ASSUME Moved, NEW p \in Paths, path[p].phase = "done"
  PROVE  path'[p] = path[p]
  BY DEF Moved, PathMove, Waits, Learns, Ends

(* What finishedPaths() passes on is what the ordinary paths raised.       *)
LEMMA StepKeepsPassed ==
  ASSUME CoreInv, Passed, Step
  PROVE  Passed'
<1>1. Types /\ Moved /\ Ordinary' = Ordinary /\ Ordinary \subseteq Paths
  BY StepKeepsCore, ScheduleStays, ScheduleFacts DEF CoreInv, Types, Moved
<1>2. CASE trig.done
  <2>1. trig' = trig
    BY <1>2, TrigStays
  <2>2. \A p \in Ordinary : path'[p] = path[p]
    BY <1>1, <1>2, EndedPathStays DEF Passed
  <2>3. \A e : PathsRaise(e)' <=> PathsRaise(e)
    BY <1>1, <2>2 DEF PathsRaise
  <2> QED BY <1>1, <1>2, <2>1, <2>2, <2>3 DEF Passed
<1>3. CASE FinishedPaths
  <2>1. path' = path /\ trig'.done /\ \A p \in Ordinary : path[p].phase = "done"
    BY <1>1, <1>3, FinishedPathsFacts
  <2>2. \A e : PathsRaise(e)' <=> PathsRaise(e)
    BY <1>1, <2>1 DEF PathsRaise
  <2>3. PICK e \in Failures :
               /\ e \in PathExceptions(Ordinary) \/ (PathExceptions(Ordinary) = {} /\ e = "none")
               /\ trig'.exception = IF e = "SkipEvent" THEN "none" ELSE e
    BY <1>1, <1>3, FinishedPathsFacts
  <2>4. \A x \in Exceptions : x \in PathExceptions(Ordinary) <=> PathsRaise(x)
    BY DEF PathExceptions, PathsRaise, Exceptions
  <2>5. "none" \notin PathExceptions(Ordinary) /\ (e = "none" \/ e \in Exceptions)
    BY DEF PathExceptions, Failures, Thrown
  <2>6. "SkipEvent" \in Exceptions
    BY DEF Exceptions
  <2>7. trig'.exception # "SkipEvent" /\ \A x \in Exceptions : trig'.exception = x => PathsRaise(x)
    BY <2>3, <2>4, <2>5 DEF Exceptions
  <2>8. trig'.exception = "none" => \A x \in Exceptions : PathsRaise(x) => PathsRaise("SkipEvent")
    BY <2>3, <2>4, <2>5, <2>6 DEF Exceptions
  <2> QED BY <1>1, <2>1, <2>2, <2>7, <2>8 DEF Passed
<1>4. CASE ~trig.done /\ trig' = trig
  BY <1>4 DEF Passed
<1> QED BY <1>2, <1>3, <1>4, TrigSteps

-----------------------------------------------------------------------------
(* Who asked for a product that is not released waits for it.              *)
Waited == \A d \in Products : product[d].requested /\ ~product[d].released =>
             \E c \in Modules : worker[c].phase = "waiting" /\ d \in Items(c)

(* A worker stops waiting when all its inputs are released.                *)
LEMMA StopsWaiting ==
  ASSUME CoreInv, Step, NEW c \in Modules, worker[c].phase = "waiting", worker'[c].phase # "waiting"
  PROVE  (RunModule(c) \/ FailPrefetch(c)) /\ InputsReleased(c)
<1>1. RunModule(c) \/ FailPrefetch(c)
  BY OwnSteps DEF CoreInv
<1> QED BY <1>1, RunModuleFacts, FailPrefetchFacts DEF CoreInv

(* No request is left without somebody who waits.                          *)
LEMMA StepKeepsWaited ==
  ASSUME CoreInv, Waited, Step
  PROVE  Waited'
<1>1. Types /\ Products' = Products /\ \A m : Items(m)' = Items(m)
  BY StepKeepsCore, ScheduleStays DEF CoreInv, Products, Moved
<1> SUFFICES ASSUME NEW d \in Products, product'[d].requested, ~product'[d].released
             PROVE  \E c \in Modules : worker'[c].phase = "waiting" /\ d \in Items(c)
  BY <1>1 DEF Waited
<1>2. ProductMove(d) /\ product[d] \in ProductStates
  BY <1>1, ProductSteps DEF Types
<1>3. CASE Asks(d)
  BY <1>3 DEF Asks
<1>4. CASE ~Asks(d)
  <2>1. product[d].requested /\ ~product[d].released
    BY <1>2, <1>4 DEF ProductMove, Releases, Puts, Deletes, Inserts, ProductStates
  <2>2. PICK c \in Modules : worker[c].phase = "waiting" /\ d \in Items(c)
    BY <2>1 DEF Waited
  <2>3. worker'[c].phase = "waiting"
    BY <2>1, <2>2, StopsWaiting DEF InputsReleased
  <2> QED BY <2>2, <2>3
<1> QED BY <1>3, <1>4

-----------------------------------------------------------------------------
(* Module c has asked for the product of m, and waits for it or has had it. *)
Lost == Raised("SkipEvent") \/ Raised("FailPath")
Follows(c, m) ==
    /\ m \in schedule.consumes[c]
    /\ \/ worker[c].phase = "waiting"
       \/ /\ worker[c].phase \in {"acquiring", "running", "returned", "done"}
          /\ worker[m].phase = "done"
          /\ worker[m].exception = "Rethrow" =>
                Lost \/ (worker[c].phase = "done" /\ worker[c].exception = "Rethrow")

(* Modules that are on no path do not keep each other at work: of any      *)
(* number of them that have been started, somebody else follows one.       *)
Grounded == \A S \in SUBSET (Modules \ Scheduled) :
               S # {} /\ (\A m \in S : worker[m].phase # "idle")
                 => \E m \in S, c \in Modules \ S : Follows(c, m)

(* An exception that ends less than the job stays known.                   *)
LEMMA LostStays ==
  ASSUME CoreInv, Step, Lost
  PROVE  Lost'
  BY RaisedStays DEF Lost, Exceptions

(* Who waited for a module on no path and waits no longer has its result,  *)
(* and its exception if that one is meant to end the job and no other came *)
(* first.                                                                  *)
LEMMA FollowerGetsResult ==
  ASSUME CoreInv, Resolvers, Provenance, Step, NEW m \in Modules, m \notin Scheduled,
         NEW c \in Modules, m \in schedule.consumes[c],
         worker[c].phase = "waiting", worker'[c].phase # "waiting"
  PROVE  /\ worker[m].phase = "done"
         /\ worker[m].exception = "Rethrow" =>
               Lost \/ (worker'[c].phase = "done" /\ worker'[c].exception = "Rethrow")
<1>1. Types /\ Workers /\ Lefts /\ Moved
  BY StepKeepsCore DEF CoreInv
<1>2. (RunModule(c) \/ FailPrefetch(c)) /\ InputsReleased(c)
  BY StopsWaiting
<1>3. m \in Items(c) /\ m \in Products
  BY ModulesAssumption DEF Items, Products
<1>4. product[m].released
  BY <1>2, <1>3 DEF InputsReleased
<1>5. PICK e \in Failures : product[m].exception = e /\ Sealed(m, e)
  BY <1>3, <1>4 DEF Resolvers, Resolved
<1>6. worker[m].phase = "done" /\ worker[m].exception = e
  BY <1>1, <1>5 DEF Sealed, Lefts, LeftCounts
<1>7. ASSUME e = "Rethrow"
      PROVE  Lost \/ (worker'[c].phase = "done" /\ worker'[c].exception = "Rethrow")
  <2>1. e \in InputExceptions(c)
    BY <1>3, <1>5, <1>7 DEF InputExceptions
  <2>2. PICK x \in InputExceptions(c) :
               /\ x \in Thrown
               /\ \/ Ignored(c, x)
                  \/ worker'[c] = Settled(c, x)
    BY <1>1, <1>2, <2>1, RunModuleFacts, FailPrefetchFacts
  <2>3. PICK d \in Items(c) : product[d].exception = x
    BY <2>2 DEF InputExceptions
  <2>4. d \in Products /\ x \in Exceptions /\ x \in Outcomes
    BY <1>1, <2>2, <2>3, ScheduleFacts DEF Items, Types, Thrown, Outcomes
  <2>5. Raised(x)
    BY <2>3, <2>4 DEF Provenance
  <2>6. CASE x = "Rethrow"
    <3>1. ~Ignored(c, x)
      BY <2>6 DEF Ignored
    <3> QED BY <1>1, <2>2, <2>4, <2>6, <3>1, SettledFacts
  <2>7. CASE x # "Rethrow"
    BY <2>2, <2>5, <2>7 DEF Thrown, Exceptions, Lost
  <2> QED BY <2>6, <2>7
<1> QED BY <1>6, <1>7

(* A follower stays one: it waits, or it has what it waited for.           *)
LEMMA FollowsStays ==
  ASSUME CoreInv, Resolvers, Provenance, Step, NEW m \in Modules, m \notin Scheduled,
         NEW c \in Modules, Follows(c, m)
  PROVE  Follows(c, m)'
<1>1. Types /\ Workers /\ Moved /\ schedule' = schedule
  BY StepKeepsCore DEF CoreInv, Moved
<1>2. m \in schedule'.consumes[c] /\ (Lost => Lost')
  BY <1>1, LostStays DEF Follows
<1>3. worker[m].phase = "done" => worker'[m].phase = "done" /\ worker'[m].exception = worker[m].exception
  BY <1>1, DoneStays
<1>4. CASE worker'[c].phase = "waiting"
  BY <1>2, <1>4 DEF Follows
<1>5. CASE worker[c].phase = "waiting" /\ worker'[c].phase # "waiting"
  <2>1. /\ worker[m].phase = "done"
        /\ worker[m].exception = "Rethrow" =>
              Lost \/ (worker'[c].phase = "done" /\ worker'[c].exception = "Rethrow")
    BY <1>1, <1>2, <1>5, FollowerGetsResult
  <2>2. worker'[c].phase \in {"acquiring", "running", "returned", "done"}
    BY <1>1, <1>5, PhaseSteps
  <2> QED BY <1>2, <1>3, <2>1, <2>2 DEF Follows
<1>6. CASE worker[c].phase # "waiting"
  <2>1. /\ worker[c].phase \in {"acquiring", "running", "returned", "done"}
        /\ worker[m].phase = "done"
        /\ worker[m].exception = "Rethrow" =>
              Lost \/ (worker[c].phase = "done" /\ worker[c].exception = "Rethrow")
    BY <1>6 DEF Follows
  <2>2. worker[c].phase = "done" => worker'[c].phase = "done" /\ worker'[c].exception = worker[c].exception
    BY <1>1, DoneStays
  <2>3. worker'[c].phase \in {"acquiring", "running", "returned", "done"}
    <3>1. SettlesRun(c) => worker'[c].phase = "done"
      <4>1. worker[c].phase = "returned" => worker[c].outcome \in Outcomes
        BY <1>1 DEF Workers, Lifecycle, Types, WorkerStates
      <4> QED BY <1>1, <4>1, SettledFacts DEF SettlesRun
    <3> QED BY <1>1, <2>1, <2>2, <3>1, PhaseSteps
  <2> QED BY <1>2, <1>3, <2>1, <2>2, <2>3 DEF Follows
<1> QED BY <1>4, <1>5, <1>6

(* Who is started on no path is started by somebody who waits for it then. *)
LEMMA StepKeepsGrounded ==
  ASSUME CoreInv, Resolvers, Provenance, Grounded, Step
  PROVE  Grounded'
<1>1. Types /\ Workers /\ Moved /\ schedule' = schedule /\ Scheduled' = Scheduled
  BY StepKeepsCore, ScheduleStays DEF CoreInv, Moved
<1> SUFFICES ASSUME NEW S \in SUBSET (Modules \ Scheduled), S # {}, \A m \in S : worker'[m].phase # "idle"
             PROVE  \E m \in S, c \in Modules \ S : Follows(c, m)'
  BY <1>1 DEF Grounded
<1>2. PICK T \in SUBSET S : T = {m \in S : worker[m].phase # "idle"}
  OBVIOUS
<1>3. ASSUME T # {} PROVE \E m \in T, c \in Modules \ T : Follows(c, m) /\ Follows(c, m)' /\ c \notin S
  <2>1. T \in SUBSET (Modules \ Scheduled) /\ \A m \in T : worker[m].phase # "idle"
    BY <1>2
  <2>2. PICK m \in T, c \in Modules \ T : Follows(c, m)
    BY <1>3, <2>1 DEF Grounded
  <2>3. worker[c].phase # "idle"
    BY <2>2 DEF Follows
  <2>4. c \notin S
    BY <1>2, <2>2, <2>3
  <2>5. Follows(c, m)'
    BY <2>1, <2>2, FollowsStays
  <2> QED BY <2>2, <2>4, <2>5
<1>4. CASE T = {}
  <2>1. PICK m \in S : worker[m].phase = "idle" /\ worker'[m].phase # "idle" /\ m \in Modules /\ m \notin Scheduled
    BY <1>2, <1>4
  <2>2. \A p \in Paths : m # Current(p)
    BY <1>1, <2>1, CurrentFacts
  <2>3. PICK c \in Modules : Prefetch(c) /\ m \in Asked(c)
    BY <1>1, <2>1, <2>2, StartedSteps
  <2>4. Advances(c, "prefetching", "waiting") /\ worker[c] \in WorkerStates
    BY <1>1, <2>3, PrefetchFacts DEF Types
  <2>5. worker[c].phase = "prefetching" /\ worker'[c].phase = "waiting" /\ m \in schedule'.consumes[c]
    BY <1>1, <2>3, <2>4 DEF Advances, WorkerStates, Asked, Items
  <2>6. c \notin S
    BY <1>2, <1>4, <2>5
  <2> QED BY <2>1, <2>5, <2>6 DEF Follows
<1> QED BY <1>2, <1>3, <1>4

-----------------------------------------------------------------------------
(* When finishEvent comes, ...                                             *)
EventOver == trig.done /\ \A p \in Paths : path[p].phase = "done"

AtEnd ==
    /\ status \in {"finished", "failed"} => EventOver /\ NothingLeftRunning
    /\ status = "failed" => \/ Raised("Rethrow")
                            \/ \E p \in EndPaths, e \in Exceptions : path[p].exception = e /\ Raised(e)
    /\ status = "finished" /\ Raised("Rethrow") => Lost

(* ... nothing is at work any more: a worker has a path that waits for it, *)
(* or a follower that has one, ...                                         *)
LEMMA NothingIsLeftRunning ==
  ASSUME CoreInv, Waited, Grounded, EventOver
  PROVE  NothingLeftRunning
<1>1. ASSUME NEW m \in Scheduled, m \in Modules PROVE worker[m].phase \in {"idle", "done"}
  BY <1>1, AtWork DEF EventOver
<1>2. PICK S \in SUBSET (Modules \ Scheduled) :
             S = {m \in Modules \ Scheduled : worker[m].phase \notin {"idle", "done"}}
  OBVIOUS
<1>3. S = {}
  <2> SUFFICES ASSUME S # {} PROVE FALSE
    OBVIOUS
  <2>1. PICK m \in S, c \in Modules \ S : Follows(c, m)
    BY <1>2 DEF Grounded
  <2>2. worker[c].phase = "waiting"
    BY <1>2, <2>1 DEF Follows
  <2> QED BY <1>1, <1>2, <2>1, <2>2
<1>4. \A m \in Modules : worker[m].phase \in {"idle", "done"}
  BY <1>1, <1>2, <1>3
<1>5. \A d \in Products : product[d].requested => product[d].released
  BY <1>4 DEF Waited
<1> QED BY <1>4, <1>5 DEF NothingLeftRunning, EventOver

(* ... the path that a scheduled module with an exception is on has it, ... *)
LEMMA PathHasException ==
  ASSUME CoreInv, EventOver, NEW m \in Modules, m \in Scheduled, worker[m].exception = "Rethrow"
  PROVE  \E p \in Paths : path[p].exception = "Rethrow"
<1>1. worker[m].phase = "done"
  BY DEF CoreInv, Workers, Result
<1>2. PICK x \in Places(m) : path[x[1]].at >= x[2]
  BY <1>1 DEF CoreInv, Neededs, Needed, Reached
<1>3. PICK p \in Paths : p = x[1] /\ x[2] \in 1..Len(schedule.paths[p]) /\ Entry(p, x[2]).module = m
  BY PlaceFacts DEF CoreInv, Types
<1>4. path[p] \in PathStates /\ Followed(p) /\ Ended(p) /\ path[p].phase = "done"
  BY DEF CoreInv, Types, Followeds, EventOver
<1>5. path[p].at \in Nat /\ x[2] \in Nat
  BY <1>3, <1>4 DEF PathStates
<1>6. path[p].at = x[2]
  <2>1. ASSUME path[p].at # x[2] PROVE FALSE
    <3>1. x[2] \in 1..(path[p].at - 1)
      BY <1>2, <1>3, <1>5, <2>1
    <3>2. Over(p, x[2])
      BY <1>4, <3>1 DEF Followed
    <3> QED BY <1>3, <3>2 DEF Over
  <2> QED BY <2>1
<1> QED BY <1>3, <1>4, <1>6 DEF Ended, Current

(* A path's exception was raised by a module; it is not one that only ends *)
(* the path.                                                               *)
LEMMA PathExceptionRaised ==
  ASSUME CoreInv, Provenance, NEW p \in Paths, NEW e \in Exceptions, path[p].exception = e
  PROVE  Raised(e) /\ e # "FailPath" /\ worker[Current(p)].exception = e
<1>1. path[p] \in PathStates /\ Followed(p) /\ Ended(p) /\ Current(p) \in Modules /\ e # "none"
  BY CurrentFacts DEF CoreInv, Types, Followeds, Exceptions
<1>2. path[p].phase \in {"leaving", "done"}
  BY <1>1 DEF Followed, PathStates
<1>3. e = IF worker[Current(p)].exception = "FailPath" THEN "none" ELSE worker[Current(p)].exception
  BY <1>1, <1>2 DEF Ended
<1>4. worker[Current(p)].exception = e /\ e # "FailPath"
  BY <1>1, <1>3
<1> QED BY <1>1, <1>4 DEF Provenance

(* ... and an exception that is meant to end the job does, but for another. *)
LEMMA LostToAnother ==
  ASSUME CoreInv, Provenance, Passed, Grounded, EventOver, NothingLeftRunning, Raised("Rethrow"),
         trig.exception = "none", \A p \in EndPaths : path[p].exception = "none"
  PROVE  Lost
<1>1. Types /\ Workers /\ "Rethrow" \in Exceptions /\ "SkipEvent" \in Exceptions
  BY DEF CoreInv, Exceptions
<1>2. ASSUME NEW m \in Modules, m \in Scheduled, worker[m].exception = "Rethrow" PROVE Lost
  <2>1. PICK p \in Paths : path[p].exception = "Rethrow"
    BY <1>2, PathHasException
  <2>2. p \in Ordinary
    BY <1>1, <2>1, ScheduleFacts DEF Types
  <2>3. PathsRaise("SkipEvent")
    BY <1>1, <2>1, <2>2 DEF Passed, PathsRaise, EventOver
  <2>4. PICK q \in Paths : path[q].exception = "SkipEvent"
    BY <1>1, <2>3, ScheduleFacts DEF PathsRaise, Types
  <2> QED BY <1>1, <2>4, PathExceptionRaised DEF Lost
<1>3. PICK m \in Modules : worker[m].outcome = "Rethrow"
  BY DEF Raised
<1>4. worker[m].phase = "done" /\ worker[m].exception = "Rethrow"
  <2>1. Lifecycle(m) /\ Result(m) /\ worker[m].phase \in {"idle", "done"}
    BY <1>1 DEF Workers, NothingLeftRunning
  <2>2. worker[m].phase = "done"
    BY <1>3, <2>1 DEF Lifecycle, Untouched
  <2>3. ~Ignored(m, "Rethrow")
    BY DEF Ignored
  <2> QED BY <1>1, <1>3, <2>1, <2>2, <2>3 DEF Result
<1>5. CASE m \in Scheduled
  BY <1>2, <1>4, <1>5
<1>6. CASE m \notin Scheduled
  <2>1. PICK S \in SUBSET (Modules \ Scheduled) :
               S = {w \in Modules \ Scheduled : worker[w].phase = "done" /\ worker[w].exception = "Rethrow"}
    OBVIOUS
  <2>2. S # {} /\ \A w \in S : worker[w].phase # "idle"
    BY <1>4, <1>6, <2>1
  <2>3. PICK w \in S, c \in Modules \ S : Follows(c, w)
    BY <2>2 DEF Grounded
  <2>4. worker[c].phase # "waiting"
    BY DEF NothingLeftRunning
  <2>5. Lost \/ (worker[c].phase = "done" /\ worker[c].exception = "Rethrow")
    BY <2>1, <2>3, <2>4 DEF Follows
  <2> QED BY <1>2, <2>1, <2>3, <2>5
<1> QED BY <1>5, <1>6

(* An event ends when nothing of it is left, and as its exceptions ask.    *)
LEMMA StepKeepsAtEnd ==
  ASSUME CoreInv, Provenance, Passed, Waited, Grounded, Step
  PROVE  AtEnd'
<1>1. Types /\ status = "processing"
  BY DEF CoreInv, Step
<1>2. CASE ~FinishEvent
  <2>1. status' = "processing"
    BY <1>1, <1>2, PathSteps, WorkerSteps, FinishedPathsFacts DEF Step
  <2> QED BY <2>1 DEF AtEnd
<1>3. CASE FinishEvent
  <2>1. UNCHANGED <<schedule, path, worker, product, trig>> /\ trig.done /\ EndPathsDone
        /\ status' \in {"finished", "failed"}
        /\ (status' = "finished" <=> PathExceptions(EndPaths) \cup ({trig.exception} \ {"none"}) = {})
    BY <1>1, <1>3, FinishEventFacts
  <2>2. EventOver
    BY <1>1, <2>1, ScheduleFacts DEF EventOver, EndPathsDone, Passed, Types
  <2>3. NothingLeftRunning
    BY <2>2, NothingIsLeftRunning
  <2>4. Paths' = Paths /\ EndPaths' = EndPaths /\ Products' = Products
    BY <2>1, ScheduleStays DEF Products
  <2>5. EventOver' /\ NothingLeftRunning'
    BY <2>1, <2>2, <2>3, <2>4 DEF EventOver, NothingLeftRunning
  <2>6. (\A e : Raised(e)' <=> Raised(e)) /\ (Lost' <=> Lost)
    BY <2>1 DEF Raised, Lost
  <2>7. /\ EndPaths \subseteq Paths /\ trig.exception \in Failures
        /\ \A p \in Paths : path[p].exception \in Failures
        /\ \A e \in Failures : e = "none" \/ e \in Exceptions
    BY <1>1, ScheduleFacts DEF Types, PathStates, Failures, Thrown
  <2>8. ASSUME status' = "finished", Raised("Rethrow") PROVE Lost
    <3>1. trig.exception = "none" /\ \A p \in EndPaths : path[p].exception = "none"
      BY <2>1, <2>8 DEF PathExceptions
    <3> QED BY <2>2, <2>3, <2>8, <3>1, LostToAnother
  <2>9. ASSUME status' = "failed"
        PROVE  Raised("Rethrow") \/ \E p \in EndPaths, e \in Exceptions : path[p].exception = e /\ Raised(e)
    <3>1. trig.exception # "none" \/ \E p \in EndPaths : path[p].exception # "none"
      BY <2>1, <2>9 DEF PathExceptions
    <3>2. CASE \E p \in EndPaths : path[p].exception # "none"
      <4>1. PICK p \in EndPaths, e \in Exceptions : path[p].exception = e
        BY <2>7, <3>2
      <4>2. Raised(e)
        BY <2>7, <4>1, PathExceptionRaised
      <4> QED BY <4>1, <4>2
    <3>3. CASE trig.exception # "none"
      <4>1. PICK e \in Exceptions : trig.exception = e
        BY <2>7, <3>3
      <4>2. PathsRaise(e) /\ e # "SkipEvent"
        BY <2>1, <4>1 DEF Passed
      <4>3. PICK p \in Paths : path[p].exception = e
        BY <1>1, <4>2, ScheduleFacts DEF PathsRaise, Types
      <4>4. Raised(e) /\ e # "FailPath" /\ e \in Failures
        BY <2>7, <4>3, PathExceptionRaised
      <4>5. e = "Rethrow"
        BY <4>2, <4>4 DEF Failures, Thrown, Exceptions
      <4> QED BY <4>4, <4>5
    <3> QED BY <3>1, <3>2, <3>3
  <2> QED BY <2>1, <2>4, <2>5, <2>6, <2>8, <2>9 DEF AtEnd
<1> QED BY <1>2, <1>3

-----------------------------------------------------------------------------
(* What an event has come to: who was released knows what became of the    *)
(* product, who runs has its inputs, what is deleted has no reader left,   *)
(* exceptions come from modules, and nobody is at work without a path that *)
(* waits.                                                                  *)
EventInv == /\ CoreInv /\ Resolvers /\ Inputs /\ Deletions /\ Provenance
            /\ Passed /\ Waited /\ Grounded /\ AtEnd

(* All this holds when an event begins.                                    *)
LEMMA NewEvent ==
  AllNew => /\ Resolvers /\ Inputs /\ Provenance /\ Passed /\ Waited /\ Grounded
            /\ \A d \in Modules : Deleted(d)
<1> SUFFICES ASSUME AllNew
             PROVE  /\ Resolvers /\ Inputs /\ Provenance /\ Passed /\ Waited /\ Grounded
                    /\ \A d \in Modules : Deleted(d)
  OBVIOUS
<1>1. \A d \in Products : /\ product[d].status = "unset" /\ ~product[d].requested /\ ~product[d].released
                          /\ product[d].exception = "none"
  BY NewFields DEF NewProduct
<1>2. \A m \in Modules : m \in Products
  BY DEF Products
<1>3. ~trig.done /\ trig.exception = "none"
  BY DEF AllNew
<1>4. Resolvers
  BY <1>1 DEF Resolvers, Resolved
<1>5. Inputs /\ Provenance
  BY <1>1, NewWorkers DEF Inputs, Ran, Provenance, Exceptions
<1>6. Passed /\ Waited
  BY <1>1, <1>3 DEF Passed, Waited
<1>7. Grounded
  <2> SUFFICES ASSUME NEW S \in SUBSET (Modules \ Scheduled), NEW m \in S PROVE worker[m].phase = "idle"
    BY DEF Grounded
  <2> QED BY NewWorkers
<1>8. \A d \in Modules : Deleted(d)
  BY <1>1, <1>2 DEF Deleted
<1> QED BY <1>4, <1>5, <1>6, <1>7, <1>8

(* So do the helpers and the counts, which resetEarlyDelete() has set.     *)
LEMMA NewCounts ==
  AllNew /\ helper = Helpers /\ count = Counts
     => (\A m \in Modules : HelperOf(m)) /\ (\A d \in Modules : Counted(d))
<1> SUFFICES ASSUME AllNew, helper = Helpers, count = Counts, NEW m \in Modules
             PROVE  HelperOf(m) /\ Counted(m)
  OBVIOUS
<1>1. schedule \in Schedules
  BY DEF AllNew
<1>2. \A w \in Modules : ~Finished(w)
  BY NewWorkers DEF Finished
<1>3. \A w \in Modules : LeftEarly(w) = {}
  <2> SUFFICES ASSUME NEW w \in Modules, NEW x \in Places(w) PROVE path[x[1]].phase # "done"
    BY DEF LeftEarly
  <2>1. x[1] \in Paths
    BY <1>1, PlaceFacts
  <2> QED BY <2>1, NewFields DEF NewPath
<1>4. \A w \in Modules : ~Spent(w)
  BY <1>2, <1>3 DEF Spent, Scheduled
<1>5. HelperOf(m)
  <2>1. Places(m) \ {} = Places(m)
    OBVIOUS
  <2>2. helper[m] = IF Reads(m) = {} THEN 0 ELSE Cardinality(Places(m))
    BY DEF Helpers
  <2> QED BY <1>2, <1>3, <2>1, <2>2 DEF HelperOf
<1>6. Counted(m)
  <2>1. Unspent(m) = Readers(m)
    BY <1>4 DEF Unspent, Readers
  <2> QED BY <2>1 DEF Counted, Counts
<1> QED BY <1>5, <1>6

(* It holds on when the event is left alone.                               *)
LEMMA EventStays ==
  ASSUME EventInv, UNCHANGED <<schedule, skipping, path, worker, product, trig>>
  PROVE  /\ Resolvers' /\ Inputs' /\ Provenance' /\ Passed' /\ Waited' /\ Grounded'
         /\ \A d \in Modules : Deleted(d)'
<1>1. Paths' = Paths /\ Ordinary' = Ordinary /\ Scheduled' = Scheduled /\ Products' = Products
      /\ (\A m : Places(m)' = Places(m) /\ Items(m)' = Items(m) /\ Reads(m)' = Reads(m))
      /\ (\A d : Readers(d)' = Readers(d))
  BY ScheduleStays DEF Products
<1>2. \A d, e : Sealed(d, e)' <=> Sealed(d, e)
  BY <1>1 DEF Sealed
<1>3. \A m, e : Ignored(m, e)' <=> Ignored(m, e)
  BY <1>1 DEF Ignored
<1>4. (\A e : Raised(e)' <=> Raised(e)) /\ (\A e : PathsRaise(e)' <=> PathsRaise(e))
  BY <1>1 DEF Raised, PathsRaise
<1>5. Resolvers'
  BY <1>1, <1>2 DEF EventInv, Resolvers, Resolved
<1>6. Inputs'
  <2>1. \A m \in Modules : Ran(m)' <=> Ran(m)
    BY DEF Ran
  <2>2. ASSUME NEW m \in Modules, InputsOf(m) PROVE InputsOf(m)'
    <3>1. IgnoresInput(m)' <=> IgnoresInput(m)
      BY <1>2, <1>3 DEF IgnoresInput, Acquires
    <3> QED BY <1>1, <1>2, <2>2, <3>1 DEF InputsOf
  <2> QED BY <2>1, <2>2 DEF EventInv, Inputs
<1>7. Provenance' /\ Passed'
  BY <1>1, <1>4 DEF EventInv, Provenance, Passed
<1>8. Waited'
  BY <1>1 DEF EventInv, Waited
<1>9. Grounded'
  <2>1. \A c, m : Follows(c, m)' <=> Follows(c, m)
    BY <1>4 DEF Follows, Lost
  <2> QED BY <1>1, <2>1 DEF EventInv, Grounded
<1>10. \A d \in Modules : Deleted(d)'
  <2>1. \A m \in Modules : LeftEarly(m)' = LeftEarly(m) /\ (Finished(m)' <=> Finished(m))
    BY <1>1 DEF LeftEarly, Finished
  <2>2. \A m \in Modules : Spent(m)' <=> Spent(m)
    BY <1>1, <2>1 DEF Spent
  <2>3. \A d \in Modules : Unspent(d)' = Unspent(d)
    BY <1>1, <2>2 DEF Unspent, Readers
  <2> QED BY <2>3 DEF EventInv, Deletions, Deleted
<1> QED BY <1>5, <1>6, <1>7, <1>8, <1>9, <1>10

(* So do the helpers and the counts.                                       *)
LEMMA CountsStay ==
  ASSUME UNCHANGED <<schedule, path, worker, helper, count>>
  PROVE  /\ Helpers' = Helpers /\ Counts' = Counts
         /\ \A m \in Modules : HelperOf(m) => HelperOf(m)'
         /\ \A d \in Modules : Counted(d) => Counted(d)'
<1>1. Helpers' = Helpers /\ Counts' = Counts /\ Scheduled' = Scheduled
      /\ (\A m : Places(m)' = Places(m) /\ Reads(m)' = Reads(m)) /\ (\A d : Readers(d)' = Readers(d))
  BY ScheduleStays
<1>2. \A m \in Modules : LeftEarly(m)' = LeftEarly(m) /\ (Finished(m)' <=> Finished(m))
  BY <1>1 DEF LeftEarly, Finished
<1>3. \A m \in Modules : Spent(m)' <=> Spent(m)
  BY <1>1, <1>2 DEF Spent
<1>4. \A d \in Modules : Unspent(d)' = Unspent(d)
  BY <1>1, <1>3 DEF Unspent, Readers
<1> QED BY <1>1, <1>2, <1>4 DEF HelperOf, Counted

(* The invariant holds at first, ...                                       *)
LEMMA InitEvent == Init => EventInv
<1> SUFFICES ASSUME Init PROVE EventInv
  OBVIOUS
<1>1. AllNew /\ status = "new" /\ helper = Helpers /\ count = Counts
  BY DEF Init, AllNew
<1>2. CoreInv
  BY InitCore
<1>3. Resolvers /\ Inputs /\ Provenance /\ Passed /\ Waited /\ Grounded /\ \A d \in Modules : Deleted(d)
  BY <1>1, NewEvent
<1>4. Deletions /\ AtEnd
  BY <1>1, <1>3 DEF Deletions, AtEnd
<1> QED BY <1>2, <1>3, <1>4 DEF EventInv

(* ... every step of the threads keeps it, ...                             *)
LEMMA StepKeepsEvent ==
  ASSUME EventInv, Step
  PROVE  EventInv'
<1>1. CoreInv' /\ Resolvers' /\ Inputs'
  BY StepKeepsCore, StepKeepsResolvers, StepKeepsInputs DEF EventInv
<1>2. Deletions' /\ Provenance' /\ Passed'
  BY StepKeepsDeletions, StepKeepsProvenance, StepKeepsPassed DEF EventInv
<1>3. Waited' /\ Grounded' /\ AtEnd'
  BY StepKeepsWaited, StepKeepsGrounded, StepKeepsAtEnd DEF EventInv
<1> QED BY <1>1, <1>2, <1>3 DEF EventInv

(* ... and so do the beginnings of the job and of an event.                *)
LEMMA NextKeepsEvent == EventInv /\ [Next]_vars => EventInv'
<1> SUFFICES ASSUME EventInv, [Next]_vars PROVE EventInv'
  OBVIOUS
<1>1. CoreInv'
  BY NextKeepsCore DEF EventInv
<1>2. CASE BeginJob
  <2>1. UNCHANGED <<schedule, skipping, path, worker, product, trig, helper, count>>
        /\ status = "new" /\ status' \in {"idle", "refused"}
    BY <1>2 DEF BeginJob, eventVars, deleteVars
  <2>2. Resolvers' /\ Inputs' /\ Provenance' /\ Passed' /\ Waited' /\ Grounded' /\ \A d \in Modules : Deleted(d)'
    BY <2>1, EventStays
  <2>3. Deletions'
    BY <2>1, <2>2, CountsStay DEF EventInv, Deletions
  <2>4. AtEnd'
    BY <2>1 DEF AtEnd
  <2> QED BY <1>1, <2>2, <2>3, <2>4 DEF EventInv
<1>3. CASE StartEvent
  <2>1. AllNew' /\ UNCHANGED <<schedule, helper, count>>
        /\ status \in {"idle", "finished"} /\ status' = "processing"
    BY <1>3, StartEventFacts DEF EventInv, CoreInv
  <2>2. Resolvers' /\ Inputs' /\ Provenance' /\ Passed' /\ Waited' /\ Grounded' /\ (\A d \in Modules : Deleted(d))'
    BY <2>1, NewEvent, PTL
  <2>3. (helper = Helpers)' /\ (count = Counts)'
    BY <2>1, ScheduleStays DEF EventInv, Deletions
  <2>4. (\A m \in Modules : HelperOf(m))' /\ (\A d \in Modules : Counted(d))'
    BY <2>1, <2>3, NewCounts, PTL
  <2>5. Deletions'
    BY <2>1, <2>2, <2>4 DEF Deletions
  <2>6. AtEnd'
    BY <2>1 DEF AtEnd
  <2> QED BY <1>1, <2>2, <2>5, <2>6 DEF EventInv
<1>4. CASE Step
  BY <1>4, StepKeepsEvent
<1>5. CASE UNCHANGED vars
  <2>1. UNCHANGED <<schedule, status, skipping, path, worker, product, trig, helper, count>>
    BY <1>5 DEF vars, eventVars, deleteVars
  <2>2. Resolvers' /\ Inputs' /\ Provenance' /\ Passed' /\ Waited' /\ Grounded' /\ \A d \in Modules : Deleted(d)'
    BY <2>1, EventStays
  <2>3. Deletions'
    BY <2>1, <2>2, CountsStay DEF EventInv, Deletions
  <2>4. AtEnd'
    <3>1. Paths' = Paths /\ EndPaths' = EndPaths /\ Products' = Products
      BY <2>1, ScheduleStays DEF Products
    <3>2. EventOver /\ NothingLeftRunning => EventOver' /\ NothingLeftRunning'
      BY <2>1, <3>1 DEF EventOver, NothingLeftRunning
    <3>3. (\A e : Raised(e)' <=> Raised(e)) /\ (Lost' <=> Lost)
      BY <2>1 DEF Raised, Lost
    <3> QED BY <2>1, <3>1, <3>2, <3>3 DEF EventInv, AtEnd
  <2> QED BY <1>1, <2>2, <2>3, <2>4 DEF EventInv
<1> QED BY <1>2, <1>3, <1>4, <1>5 DEF Next

(* What is known of an event holds in every state of the stream, for       *)
(* every schedule and all that its modules may do.                         *)
THEOREM EventAlways == Spec => []EventInv
  BY InitEvent, NextKeepsEvent, PTL DEF Spec

-----------------------------------------------------------------------------
(* What a running module consumes is there, or will not come any more; a   *)
(* module runs with the failure of an input only if it acquires and has    *)
(* ignored the failure that it got first.                                  *)
THEOREM AlwaysInputsSettled == Spec => []InputsSettled
<1>1. EventInv => InputsSettled
  <2> SUFFICES ASSUME EventInv, NEW m \in Modules, worker[m].runs > 0, NEW d \in schedule.consumes[m]
               PROVE  IF d = Results THEN trig.done \/ Ordinary = {}
                      ELSE /\ product[d].status # "unset"
                                \/ worker[d].phase = "done" \/ (worker[d].phase = "idle" /\ worker[d].left = 0)
                           /\ \/ worker[d].exception = "none"
                              \/ /\ Acquires(m)
                                 /\ \E c \in schedule.consumes[m] \ {Results} : Ignored(m, worker[c].exception)
    BY DEF InputsSettled
  <2>1. InputsOf(m) /\ Types /\ Workers /\ Lefts
    BY DEF EventInv, CoreInv, Inputs, Ran
  <2>2. schedule.consumes[m] \subseteq Modules \cup {Results}
    BY <2>1, ScheduleFacts DEF Types, Products
  <2>3. CASE d = Results
    BY <2>1, <2>3 DEF InputsOf
  <2>4. CASE d # Results
    <3>1. PICK e \in Failures : Sealed(d, e) /\ (e = "none" \/ IgnoresInput(m))
      BY <2>1, <2>4 DEF InputsOf
    <3>2. d \in Modules /\ Result(d) /\ LeftCounts(d)
      BY <2>1, <2>2, <2>4 DEF Workers, Lefts
    <3>3. worker[d].phase = "idle" /\ worker[d].released => worker[d].left = 0
      <4>1. Places(d) \ Places(d) = {} /\ Cardinality({}) = 0
        BY FS_EmptySet
      <4> QED BY <3>2, <4>1 DEF LeftCounts
    <3>4. CASE e = "none"
      <4>1. worker[d].exception = "none"
        BY <3>1, <3>2, <3>4 DEF Sealed, Result
      <4> QED BY <2>4, <3>1, <3>3, <4>1 DEF Sealed
    <3>5. CASE IgnoresInput(m)
      <4>1. PICK c \in schedule.consumes[m] \ {Results}, x \in Exceptions : Ignored(m, x) /\ Sealed(c, x)
        BY <3>5 DEF IgnoresInput
      <4>2. worker[c].exception = x
        BY <4>1 DEF Sealed, Exceptions
      <4> QED BY <2>4, <3>1, <3>3, <3>5, <4>1, <4>2 DEF Sealed, IgnoresInput
    <3> QED BY <3>1, <3>4, <3>5
  <2> QED BY <2>3, <2>4
<1> QED BY <1>1, EventAlways, PTL

(* A product is deleted when no module that reads it is at work or will    *)
(* come to work in this event.                                             *)
THEOREM AlwaysDeletedAfterLastReader == Spec => []DeletedAfterLastReader
<1>1. EventInv => DeletedAfterLastReader
  <2> SUFFICES ASSUME EventInv, NEW d \in Modules, product[d].status = "deleted", NEW m \in Readers(d)
               PROVE  worker[m].phase \in {"idle", "done"}
    BY DEF DeletedAfterLastReader
  <2>1. m \in Modules /\ Spent(m)
    BY DEF EventInv, Deletions, Deleted, Unspent, Readers
  <2> QED BY <2>1, SpentAtRest DEF EventInv
<1> QED BY <1>1, EventAlways, PTL

(* An event fails only for an exception that a module has raised; one that *)
(* is meant to end the job is lost only to another one.                    *)
THEOREM AlwaysOutcomeOfEvent == Spec => []OutcomeOfEvent
<1>1. EventInv => OutcomeOfEvent
  <2> SUFFICES ASSUME EventInv PROVE OutcomeOfEvent
    OBVIOUS
  <2>1. Types /\ Workers /\ EndPaths \subseteq Paths
    BY ScheduleFacts DEF EventInv, CoreInv, Types
  <2>2. \A e : Raised(e) <=> Outcome(e) # {}
    BY DEF Raised, Outcome
  <2>3. ASSUME NEW p \in EndPaths, path[p].exception = "SkipEvent" PROVE ~worker[Current(p)].onEndPath
    <3>1. worker[Current(p)].exception = "SkipEvent" /\ "SkipEvent" \in Exceptions
      BY <2>1, <2>3, PathExceptionRaised DEF EventInv, Exceptions
    <3>2. Current(p) \in Modules /\ Current(p) \in Scheduled
      BY <2>1, CurrentFacts
    <3>3. ~Ignored(Current(p), "SkipEvent")
      BY <2>1, <3>1, <3>2 DEF Workers, Result
    <3> QED BY <3>2, <3>3 DEF Ignored
  <2>4. status = "failed" => \/ Outcome("Rethrow") # {}
                             \/ \E p \in EndPaths : path[p].exception # "none" /\ Outcome(path[p].exception) # {}
    BY <2>2 DEF EventInv, AtEnd, Exceptions
  <2>5. status = "finished" /\ Outcome("Rethrow") # {} => Outcome("SkipEvent") \cup Outcome("FailPath") # {}
    BY <2>2 DEF EventInv, AtEnd, Lost
  <2> QED BY <2>3, <2>4, <2>5 DEF OutcomeOfEvent
<1> QED BY <1>1, EventAlways, PTL

(* No input of a module that waits for it is deleted.                      *)
InputsKept == \A m \in Modules : worker[m].phase = "waiting"
                => \A d \in schedule.consumes[m] : product[d].status # "deleted"

LEMMA WaitersKeepInputs == EventInv => InputsKept
<1> SUFFICES ASSUME EventInv, NEW m \in Modules, worker[m].phase = "waiting",
                    NEW d \in schedule.consumes[m], product[d].status = "deleted"
             PROVE  FALSE
  BY DEF InputsKept
<1>1. Types /\ Deletions /\ Resolvers
  BY DEF EventInv, CoreInv
<1>2. d \in Products /\ d # Results
  BY <1>1, ScheduleFacts DEF Types, Resolvers, Resolved
<1>3. d \in Modules
  BY <1>2 DEF Products
<1>4. d \in schedule.deletable /\ Unspent(d) = {}
  BY <1>1, <1>3 DEF Deletions, Deleted
<1>5. Spent(m)
  BY <1>4 DEF Unspent, Readers, Reads
<1> QED BY <1>5, SpentAtRest DEF EventInv

(* The assertions of the code hold: a path goes on with a result, counts of *)
(* readers stay positive, nobody waits for a product that is reset, and    *)
(* when an event is over nothing of it is at work.                         *)
THEOREM AlwaysAssertsHold == Spec => []AssertsHold
<1>1. EventInv => AssertsHold
  <2> SUFFICES ASSUME EventInv PROVE AssertsHold
    OBVIOUS
  <2>1. Types /\ Workers /\ Lefts /\ Followeds /\ Deletions /\ Resolvers
    BY DEF EventInv, CoreInv
  <2>2. ASSUME NEW m \in Modules PROVE worker[m].left \in Nat
    <3>1. IsFiniteSet(Places(m) \ Gone(m))
      BY <2>1, PlacesFinite, FS_Subset DEF Types
    <3> QED BY <2>1, <3>1, FS_CardinalityType DEF Lefts, LeftCounts
  <2>3. TypeOK
    <3>1. worker \in [Modules -> [phase : Phases, state : {"Ready", "Pass", "Fail", "Exception"},
                                  exception : Thrown \cup {"none"}, released : BOOLEAN, left : Nat,
                                  onEndPath : BOOLEAN, outcome : Outcomes \cup {"none"}, runs : Nat]]
      <4>1. worker = [m \in Modules |-> worker[m]] /\ \A m \in Modules : worker[m] \in WorkerStates
        BY <2>1 DEF Types
      <4>2. ASSUME NEW m \in Modules
            PROVE  worker[m] \in [phase : Phases, state : {"Ready", "Pass", "Fail", "Exception"},
                                  exception : Thrown \cup {"none"}, released : BOOLEAN, left : Nat,
                                  onEndPath : BOOLEAN, outcome : Outcomes \cup {"none"}, runs : Nat]
        BY <2>2, <4>1 DEF WorkerStates, Failures
      <4> QED BY <4>1, <4>2
    <3> QED BY <2>1, <3>1 DEF TypeOK, Types, PathStates, ProductStates, Failures
  <2>4. ASSUME NEW p \in Paths, path[p].phase = "waiting", worker[Current(p)].released
        PROVE  worker[Current(p)].state # "Ready"
    <3>1. Current(p) \in Modules /\ worker[Current(p)].phase # "idle"
      BY <2>1, <2>4, CurrentFacts DEF Followeds, Followed
    <3>2. worker[Current(p)].phase = "done"
      BY <2>1, <2>4, <3>1 DEF Lefts, LeftCounts
    <3> QED BY <2>1, <3>1, <3>2 DEF Workers, Result
  <2>5. ASSUME NEW p \in Ordinary PROVE path[p].exception # "FailPath"
    <3>1. p \in Paths /\ "FailPath" \in Exceptions
      BY <2>1, ScheduleFacts DEF Types, Exceptions
    <3> QED BY <3>1, PathExceptionRaised DEF EventInv
  <2>6. ASSUME NEW d \in Modules PROVE count[d] >= 0
    <3>1. count[d] = Cardinality(Unspent(d)) \/ count[d] = Cardinality(Readers(d))
      BY <2>1 DEF Types, Deletions, Counted, Counts
    <3> QED BY <3>1, ReadersFinite
  <2>7. ASSUME NEW m \in Modules, worker[m].phase = "waiting", NEW d \in schedule.consumes[m]
        PROVE  product[d].status # "deleted"
    BY <2>7, WaitersKeepInputs DEF InputsKept
  <2>8. status \in {"finished", "failed"} => NothingLeftRunning
    BY DEF EventInv, AtEnd
  <2> QED BY <2>3, <2>4, <2>5, <2>6, <2>7, <2>8 DEF AssertsHold
<1> QED BY <1>1, EventAlways, PTL

-----------------------------------------------------------------------------
(* What is certain of who may wait: a worker that no path is left for has  *)
(* released its tasks, a product that was asked for has a worker that was  *)
(* started unless it is on a path, ...                                     *)
GivenUpReleased == \A m \in Scheduled : worker[m].left = 0 => worker[m].released
AskedIsStarted ==
    \A d \in Modules \ Scheduled : product[d].requested => worker[d].phase # "idle"

(* ... the trigger results are there once finishedPaths() has run, and a   *)
(* module that waits is a module that selects, or has asked for its inputs. *)
ResultsThere == trig.done /\ Ordinary # {} => product[Results].released
Selecting == \A m \in Modules : worker[m].phase = "selecting" => m \in schedule.selects
InputsAsked ==
    \A c \in Modules : worker[c].phase = "waiting" => \A d \in Items(c) : product[d].requested

(* Only modules that are needed are started: those on paths, and those     *)
(* whose products needed ones consume.                                     *)
Needs(N) == Scheduled \subseteq N /\ \A m \in N : schedule.consumes[m] \ {Results} \subseteq N
OnlyNeeded == \A N \in SUBSET Modules :
                 Needs(N) => \A m \in Modules : worker[m].phase # "idle" => m \in N

Moving == /\ GivenUpReleased /\ AskedIsStarted /\ ResultsThere
          /\ Selecting /\ InputsAsked /\ OnlyNeeded

(* Module m may have to wait for module y: it consumes the product of y, or *)
(* one that is made behind y on a path, or the results of a path of y.     *)
Awaits(m, y) ==
    \/ \E d \in schedule.consumes[m] \ {Results} :
          d = y \/ \E x \in Places(d) : \E j \in 1..(x[2] - 1) : Entry(x[1], j).module = y
    \/ /\ Results \in schedule.consumes[m]
       /\ \E p \in Ordinary : \E i \in DOMAIN schedule.paths[p] : Entry(p, i).module = y

(* The modules that the job needs can be put into an order in which none   *)
(* waits for itself or a later one.                                        *)
NoCircle == \E N \in SUBSET Modules :
               /\ Needs(N)
               /\ \E rank \in [N -> Nat] : \A m, y \in N : Awaits(m, y) => rank[y] < rank[m]

(* Something can be done for the event: a path or a worker can go on, who  *)
(* waits for a product can be released, or the paths or the event can end. *)
(* (These are the guards of Step's actions.)                               *)
PathGoesOn(p) ==
    \/ path[p].phase \in {"next", "leaving"}
    \/ path[p].phase = "unstarted" /\ \A q \in Paths : q > p => path[q].phase # "unstarted"
    \/ path[p].phase = "waiting" /\ worker[Current(p)].released
WorkerGoesOn(m) ==
    \/ worker[m].phase \in {"prefetching", "acquiring", "running", "returned"}
    \/ worker[m].phase = "selecting" /\ (product[Results].released \/ Ordinary = {})
    \/ product[m].requested /\ ~product[m].released /\ worker[m].released
    \/ InputsReleased(m)
GoesOn ==
    \/ \E p \in Paths : PathGoesOn(p)
    \/ \E m \in Modules : WorkerGoesOn(m)
    \/ /\ ~trig.done /\ \A p \in Ordinary : path[p].phase = "done"
       /\ \A p \in Paths : path[p].phase # "unstarted"
    \/ trig.done /\ EndPathsDone

(* A stream at work on an event never comes to rest before its end.        *)
NeverStuck == status = "processing" /\ NoCircle => GoesOn

-----------------------------------------------------------------------------
(* A product is asked for by who prefetches, or is put.                    *)
LEMMA AskingStep ==
  ASSUME CoreInv, Step, NEW d \in Products, ~product[d].requested, product'[d].requested
  PROVE  d \in Scheduled \/ d = Results \/ \E c \in Modules : Prefetch(c) /\ d \in Items(c)
<1>1. Types /\ product[d] \in ProductStates /\ product \in [Products -> ProductStates]
  BY DEF CoreInv, Types
<1>2. ASSUME NEW p \in Paths, PathStep(p) PROVE FALSE
  <2>1. CASE RunNextWorker(p) \/ WorkerFinished(p)
    BY <1>1, <2>1, RunNextWorkerFacts, WorkerFinishedFacts
  <2>2. CASE FinishPath(p)
    <3>1. PathReaders(p) \in SUBSET Modules
      BY DEF PathReaders
    <3>2. product' = Delete(PathReaders(p), product) /\ count' = CountsAfter(PathReaders(p))
      BY <1>1, <2>2, FinishPathFacts
    <3> QED BY <1>1, <3>1, <3>2, DeleteMoves DEF Deletes
  <2> QED BY <1>2, <2>1, <2>2 DEF PathStep
<1>3. ASSUME NEW m \in Modules, WorkerStep(m)
      PROVE  d \in Scheduled \/ \E c \in Modules : Prefetch(c) /\ d \in Items(c)
  <2>1. CASE SelectEvent(m) \/ RunModule(m) \/ FailPrefetch(m) \/ AcquireReturns(m)
    BY <1>1, <2>1, SelectEventFacts, RunModuleFacts, FailPrefetchFacts, AcquireReturnsFacts DEF OnlyMove
  <2>2. CASE Prefetch(m)
    <3>1. product'[d] = [product[d] EXCEPT !.requested = product[d].requested \/ d \in Items(m)]
      BY <1>1, <2>2, PrefetchFacts
    <3>2. d \in Items(m)
      BY <1>1, <3>1 DEF ProductStates
    <3> QED BY <2>2, <3>2
  <2>3. CASE Release(m)
    BY <1>1, <2>3 DEF Release, ProductStates
  <2>4. CASE ModuleReturns(m)
    <3>1. ~(product' = product)
      OBVIOUS
    <3>2. product' = [product EXCEPT ![m].status = "set",
                                     ![m].requested = @ \/ m \in Scheduled,
                                     ![m].released = @ \/ (m \in Scheduled /\ ~product[m].requested)]
      BY <1>1, <2>4, <3>1, ModuleReturnsFacts
    <3>3. d = m
      BY <1>1, <3>2
    <3>4. product'[d].requested <=> product[d].requested \/ d \in Scheduled
      BY <1>1, <3>2, <3>3 DEF ProductStates
    <3> QED BY <3>4
  <2>5. CASE FinishModule(m)
    <3>1. {m} \in SUBSET Modules /\ product' = Delete({m}, product) /\ count' = CountsAfter({m})
      BY <1>1, <2>5, FinishModuleFacts
    <3>2. product'[d] = product[d] \/ Deletes(d)
      BY <1>1, <3>1, DeleteMoves, Zenon
    <3> QED BY <3>2 DEF Deletes
  <2> QED BY <1>3, <2>1, <2>2, <2>3, <2>4, <2>5 DEF WorkerStep
<1>4. CASE FinishedPaths
  <2>1. d \in Modules => product'[d] = product[d]
    BY <1>1, <1>4, FinishedPathsFacts, ModulesAssumption
  <2> QED BY <2>1 DEF Products
<1>5. CASE FinishEvent
  BY <1>1, <1>5, FinishEventFacts
<1> QED BY <1>2, <1>3, <1>4, <1>5 DEF Step

(* A worker is not given up without being released.                        *)
LEMMA StepKeepsGivenUp ==
  ASSUME CoreInv, GivenUpReleased, Step
  PROVE  GivenUpReleased'
<1>1. Types /\ Workers /\ Moved /\ Scheduled' = Scheduled
  BY StepKeepsCore, ScheduleStays DEF CoreInv, Moved
<1> SUFFICES ASSUME NEW m \in Modules, m \in Scheduled, worker'[m].left = 0 PROVE worker'[m].released
  BY <1>1 DEF GivenUpReleased, Scheduled
<1>2. worker[m] \in WorkerStates /\ Move(m) /\ Lifecycle(m)
  BY <1>1 DEF Types, Moved, Workers
<1>3. worker[m].released => worker'[m].released
  BY <1>1, <1>2, MoveFacts
<1>4. CASE Works(m)
  BY <1>1, <1>3, <1>4, WorksFacts DEF GivenUpReleased
<1>5. CASE \E p \in Paths : WorkerFinished(p)
  <2>1. PICK p \in Paths : WorkerFinished(p)
    BY <1>5
  <2>2. worker[Current(p)].released /\ (m # Current(p) => worker'[m] = worker[m])
    BY <1>1, <2>1, WorkerFinishedFacts DEF Types
  <2>3. m # Current(p) => Works(m)
    BY <2>2 DEF Works
  <2> QED BY <1>3, <1>4, <2>2, <2>3
<1>6. CASE \E p \in Paths : FinishPath(p)
  <2>1. PICK p \in Paths : FinishPath(p)
    BY <1>6
  <2>2. Cardinality(Behind(p, m)) \in Nat
    BY <1>1, BehindFacts
  <2>3. PICK k : k = Cardinality(Behind(p, m))
    OBVIOUS
  <2>4. k \in Nat /\ worker'[m] = [worker[m] EXCEPT !.left = worker[m].left - k,
                                          !.released = worker[m].released \/ NoPathLeft(m, k)]
    BY <1>1, <2>1, <2>2, <2>3, FinishPathFacts
  <2>5. worker'[m].left = worker[m].left - k
        /\ (worker'[m].released <=> worker[m].released \/ NoPathLeft(m, k))
    BY <1>2, <2>4 DEF WorkerStates
  <2>6. worker[m].left = k
    BY <1>2, <2>4, <2>5 DEF WorkerStates
  <2>7. CASE k = 0
    BY <1>3, <2>6, <2>7 DEF GivenUpReleased
  <2>8. CASE k > 0
    BY <2>5, <2>6, <2>8 DEF NoPathLeft
  <2> QED BY <2>4, <2>7, <2>8
<1>7. CASE \E p \in Paths : RunNextWorker(p)
  BY <1>1, <1>4, <1>7, RunNextWorkerFacts DEF Works
<1>8. CASE \E c \in Modules : WorkerStep(c)
  BY <1>1, <1>4, <1>8, WorkerStepWorks
<1>9. CASE FinishedPaths \/ FinishEvent
  BY <1>1, <1>4, <1>9, FinishedPathsFacts, FinishEventFacts DEF Works
<1> QED BY <1>5, <1>6, <1>7, <1>8, <1>9 DEF Step, PathStep

(* Who is asked for a product is started, unless a path will do that.      *)
LEMMA StepKeepsAsked ==
  ASSUME CoreInv, AskedIsStarted, Step
  PROVE  AskedIsStarted'
<1>1. Types /\ Workers /\ Moved /\ Scheduled' = Scheduled
  BY StepKeepsCore, ScheduleStays DEF CoreInv, Moved
<1> SUFFICES ASSUME NEW d \in Modules \ Scheduled, product'[d].requested PROVE worker'[d].phase # "idle"
  BY <1>1 DEF AskedIsStarted
<1>2. d \in Products /\ d # Results
  BY ModulesAssumption DEF Products
<1>3. CASE worker[d].phase # "idle"
  BY <1>1, <1>3, DoneStays
<1>4. CASE worker[d].phase = "idle"
  <2>1. ~product[d].requested
    BY <1>4 DEF AskedIsStarted
  <2>2. PICK c \in Modules : Prefetch(c) /\ d \in Items(c)
    BY <1>2, <2>1, AskingStep
  <2>3. d \in Asked(c) /\ d # c
    BY <1>4, <2>1, <2>2 DEF Asked, Prefetch
  <2>4. worker'[d] = Started(d, worker[c].onEndPath)
    BY <1>1, <2>2, <2>3, PrefetchFacts
  <2>5. worker[d] \in WorkerStates
    BY <1>1 DEF Types
  <2> QED BY <1>4, <2>4, <2>5 DEF Started, WorkerStates
<1> QED BY <1>3, <1>4

(* finishedPaths() puts the trigger results.                               *)
LEMMA StepKeepsResults ==
  ASSUME CoreInv, ResultsThere, Step
  PROVE  ResultsThere'
<1>1. Types /\ Moved /\ Ordinary' = Ordinary /\ Results \in Products
  BY StepKeepsCore, ScheduleStays DEF CoreInv, Moved, Products
<1> SUFFICES ASSUME trig'.done, Ordinary # {} PROVE product'[Results].released
  BY <1>1 DEF ResultsThere
<1>2. product[Results] \in ProductStates /\ product \in [Products -> ProductStates]
  BY <1>1 DEF Types
<1>3. CASE trig.done
  <2>1. product[Results].released
    BY <1>3 DEF ResultsThere
  <2>2. ProductMove(Results)
    BY <1>1, ProductSteps
  <2> QED BY <1>2, <2>1, <2>2, ModulesAssumption
        DEF ProductMove, Asks, Releases, Puts, Deletes, Inserts, ProductStates
<1>4. CASE ~trig.done
  <2>1. FinishedPaths
    BY <1>4, TrigSteps
  <2>2. product' = [product EXCEPT ![Results] = [@ EXCEPT !.status = "set", !.requested = TRUE,
                                                          !.released = TRUE]]
    BY <1>1, <2>1, FinishedPathsFacts
  <2> QED BY <1>1, <1>2, <2>2 DEF ProductStates
<1> QED BY <1>3, <1>4

(* Where a worker comes from that selects, or waits.                       *)
LEMMA PhaseBefore ==
  ASSUME Types, Workers, Moved, NEW m \in Modules
  PROVE  /\ worker'[m].phase = "selecting" => worker[m].phase \in {"idle", "selecting"}
         /\ worker'[m].phase = "waiting" => worker[m].phase \in {"prefetching", "waiting"}
<1>1. worker[m] \in WorkerStates
  BY DEF Types
<1>2. SettlesRun(m) => worker'[m].phase = "done"
  <2>1. SettlesRun(m) => worker[m].outcome \in Outcomes
    BY <1>1 DEF SettlesRun, Workers, Lifecycle, WorkerStates
  <2> QED BY <2>1, SettledFacts DEF SettlesRun
<1>3. worker[m].phase \in Phases
  BY <1>1 DEF WorkerStates
<1> QED BY <1>2, <1>3, PhaseSteps, DoneStays DEF Phases

(* Only those select events that are configured to.                        *)
LEMMA StepKeepsSelecting ==
  ASSUME CoreInv, Selecting, Step
  PROVE  Selecting'
<1>1. Types /\ Workers /\ Moved
  BY StepKeepsCore DEF CoreInv
<1> SUFFICES ASSUME NEW m \in Modules, worker'[m].phase = "selecting" PROVE m \in schedule.selects
  BY <1>1 DEF Selecting, Moved
<1>2. worker[m] \in WorkerStates
  BY <1>1 DEF Types
<1>3. CASE worker[m].phase = "idle"
  <2>1. ASSUME NEW b \in BOOLEAN, worker'[m] = Started(m, b) PROVE m \in schedule.selects
    BY <1>2, <1>3, <2>1 DEF Started, WorkerStates
  <2>2. CASE \E p \in Paths : RunNextWorker(p) /\ m = Current(p)
    <3>1. PICK p \in Paths : RunNextWorker(p) /\ m = Current(p)
      BY <2>2
    <3>2. worker' = [worker EXCEPT ![m] = Started(m, p \in EndPaths)] /\ worker \in [Modules -> WorkerStates]
      BY <1>1, <3>1, RunNextWorkerFacts DEF Types
    <3>3. worker'[m] = Started(m, p \in EndPaths) /\ (p \in EndPaths) \in BOOLEAN
      BY <3>2
    <3> QED BY <2>1, <3>3
  <2>3. CASE \E c \in Modules : Prefetch(c) /\ m \in Asked(c)
    <3>1. PICK c \in Modules : Prefetch(c) /\ m \in Asked(c)
      BY <2>3
    <3>2. c # m /\ worker[c] \in WorkerStates
      BY <1>1, <1>3, <3>1 DEF Prefetch, Types
    <3>3. worker'[m] = Started(m, worker[c].onEndPath) /\ worker[c].onEndPath \in BOOLEAN
      BY <1>1, <3>1, <3>2, PrefetchFacts DEF WorkerStates
    <3> QED BY <2>1, <3>3
  <2> QED BY <1>1, <1>3, <2>2, <2>3, StartedSteps
<1>4. CASE worker[m].phase # "idle"
  <2>1. worker[m].phase = "selecting"
    BY <1>1, <1>4, PhaseBefore
  <2> QED BY <2>1 DEF Selecting
<1> QED BY <1>3, <1>4

(* So who waits has asked for all its inputs, and they stay asked for.     *)
LEMMA StepKeepsInputsAsked ==
  ASSUME EventInv, EventInv', InputsAsked, Step
  PROVE  InputsAsked'
<1>1. Types /\ Workers /\ Moved /\ CoreInv /\ schedule \in Schedules
  BY StepKeepsCore DEF EventInv, CoreInv, Types
<1>2. schedule' = schedule /\ \A m : Items(m)' = Items(m)
  BY <1>1, ScheduleStays DEF Moved
<1> SUFFICES ASSUME NEW c \in Modules, worker'[c].phase = "waiting", NEW d \in Items(c)
             PROVE  product'[d].requested
  BY <1>2 DEF InputsAsked
<1>3. d \in Products /\ d \in schedule.consumes[c]
  BY <1>1, ScheduleFacts DEF Items
<1>4. worker[c] \in WorkerStates /\ product[d] \in ProductStates
  BY <1>1, <1>3 DEF Types
<1>5. CASE worker[c].phase = "waiting"
  <2>1. product[d].requested
    BY <1>5 DEF InputsAsked
  <2>2. ProductMove(d)
    BY <1>1, <1>3, ProductSteps
  <2>3. InputsKept'
    BY WaitersKeepInputs, PTL
  <2>4. product'[d].status # "deleted"
    BY <1>2, <1>3, <2>3 DEF InputsKept
  <2> QED BY <1>4, <2>1, <2>2, <2>4
        DEF ProductMove, Asks, Releases, Puts, Deletes, Inserts, ProductStates
<1>6. CASE worker[c].phase # "waiting"
  <2>1. worker[c].phase = "prefetching"
    BY <1>1, <1>6, PhaseBefore
  <2>2. Prefetch(c)
    BY <1>1, <1>6, <2>1, OwnSteps
  <2>3. product'[d] = [product[d] EXCEPT !.requested = product[d].requested \/ d \in Items(c)]
    BY <1>1, <1>3, <2>2, PrefetchFacts
  <2> QED BY <1>4, <2>3 DEF ProductStates
<1> QED BY <1>5, <1>6

(* A module is started that is on a path, or is consumed by one that was.  *)
LEMMA StepKeepsNeeded ==
  ASSUME CoreInv, OnlyNeeded, Step
  PROVE  OnlyNeeded'
<1>1. Types /\ Workers /\ Moved /\ Scheduled' = Scheduled /\ schedule' = schedule
  BY StepKeepsCore, ScheduleStays DEF CoreInv, Moved
<1> SUFFICES ASSUME NEW N \in SUBSET Modules, Needs(N), NEW m \in Modules, worker'[m].phase # "idle"
             PROVE  m \in N
  BY <1>1 DEF OnlyNeeded, Needs
<1>2. CASE worker[m].phase # "idle"
  BY <1>2 DEF OnlyNeeded
<1>3. CASE worker[m].phase = "idle"
  <2>1. CASE \E p \in Paths : RunNextWorker(p) /\ m = Current(p)
    BY <1>1, <2>1, CurrentFacts DEF Needs
  <2>2. CASE \E c \in Modules : Prefetch(c) /\ m \in Asked(c)
    <3>1. PICK c \in Modules : Prefetch(c) /\ m \in Asked(c)
      BY <2>2
    <3>2. c \in N
      BY <3>1 DEF Prefetch, OnlyNeeded
    <3>3. m \in schedule.consumes[c] /\ m # Results
      BY <3>1, ModulesAssumption DEF Asked, Items
    <3> QED BY <3>2, <3>3 DEF Needs
  <2> QED BY <1>1, <1>3, <2>1, <2>2, StartedSteps
<1> QED BY <1>2, <1>3

(* All this holds when an event begins, ...                                *)
LEMMA NewMoving == AllNew => Moving
<1> SUFFICES ASSUME AllNew PROVE Moving
  OBVIOUS
<1>1. \A m \in Modules : worker[m].phase = "idle" /\ worker[m].left = Cardinality(Places(m))
  BY NewWorkers
<1>2. \A d \in Products : ~product[d].requested
  BY NewFields DEF NewProduct
<1>3. GivenUpReleased
  <2> SUFFICES ASSUME NEW m \in Modules, m \in Scheduled PROVE worker[m].left # 0
    BY DEF GivenUpReleased, Scheduled
  <2>1. IsFiniteSet(Places(m)) /\ Places(m) # {}
    BY PlacesFinite DEF AllNew, Scheduled
  <2> QED BY <1>1, <2>1, FS_EmptySet
<1>4. AskedIsStarted /\ ResultsThere
  BY <1>2 DEF AskedIsStarted, ResultsThere, Products, AllNew
<1>5. Selecting /\ InputsAsked /\ OnlyNeeded
  BY <1>1 DEF Selecting, InputsAsked, OnlyNeeded
<1> QED BY <1>3, <1>4, <1>5 DEF Moving

(* ... a step of the threads keeps it, ...                                 *)
LEMMA StepKeepsMoving ==
  ASSUME EventInv, EventInv', Moving, Step
  PROVE  Moving'
  BY StepKeepsGivenUp, StepKeepsAsked, StepKeepsResults, StepKeepsSelecting, StepKeepsInputsAsked,
     StepKeepsNeeded DEF Moving, EventInv

(* ... and so do the beginnings of the job and of an event.                *)
LEMMA NextKeepsMoving == EventInv /\ EventInv' /\ Moving /\ [Next]_vars => Moving'
<1> SUFFICES ASSUME EventInv, EventInv', Moving, [Next]_vars PROVE Moving'
  OBVIOUS
<1>1. CASE StartEvent
  <2>1. AllNew'
    BY <1>1, StartEventFacts DEF EventInv, CoreInv
  <2> QED BY <2>1, NewMoving, PTL
<1>2. CASE BeginJob \/ UNCHANGED vars
  <2>1. UNCHANGED <<schedule, path, worker, product, trig>>
    BY <1>2 DEF BeginJob, vars, eventVars
  <2>2. Scheduled' = Scheduled /\ Ordinary' = Ordinary /\ \A m : Items(m)' = Items(m)
    BY <2>1, ScheduleStays
  <2>3. GivenUpReleased' /\ AskedIsStarted' /\ ResultsThere'
    BY <2>1, <2>2 DEF Moving, GivenUpReleased, AskedIsStarted, ResultsThere
  <2>4. Selecting' /\ InputsAsked' /\ OnlyNeeded'
    BY <2>1, <2>2 DEF Moving, Selecting, InputsAsked, OnlyNeeded, Needs
  <2> QED BY <2>3, <2>4 DEF Moving
<1>3. CASE Step
  BY <1>3, StepKeepsMoving
<1> QED BY <1>1, <1>2, <1>3 DEF Next

-----------------------------------------------------------------------------
(* Of any sets of elements of a finite set some are minimal, ...           *)
LEMMA MinimalSet ==
  ASSUME NEW S, IsFiniteSet(S), NEW F \in SUBSET SUBSET S, F # {}
  PROVE  \E A \in F : \A B \in F : B \subseteq A => B = A
<1>1. IsWellFoundedOn(StrictSubsetOrdering(S), SUBSET S)
  BY FS_StrictSubsetOrderingWellFounded, FS_FiniteSubsetsOfFinite
<1>2. \E A \in F : \A B \in F : <<B, A>> \notin StrictSubsetOrdering(S)
  BY <1>1, WFMin
<1> QED BY <1>2 DEF StrictSubsetOrdering

(* ... and of finitely many things one has the lowest rank.                *)
LEMMA LowestRank ==
  ASSUME NEW T, IsFiniteSet(T), T # {}, NEW rank, \A t \in T : rank[t] \in Int
  PROVE  \E t \in T : \A u \in T : rank[t] <= rank[u]
<1>1. PICK below : below = [t \in T |-> {u \in T : rank[u] < rank[t]}]
  OBVIOUS
<1>2. PICK F : F = {below[t] : t \in T}
  OBVIOUS
<1>3. F \in SUBSET SUBSET T /\ F # {}
  BY <1>1, <1>2
<1>4. \E A \in F : \A B \in F : B \subseteq A => B = A
  BY <1>3, MinimalSet
<1>5. PICK A \in F : \A B \in F : B \subseteq A => B = A
  BY <1>4
<1>6. PICK t \in T : A = below[t]
  BY <1>2
<1>7. ASSUME NEW u \in T, rank[u] < rank[t] PROVE FALSE
  <2>1. below[u] \subseteq A /\ u \in A /\ u \notin below[u]
    BY <1>1, <1>6, <1>7
  <2>2. below[u] \in F
    BY <1>2
  <2> QED BY <1>5, <2>1, <2>2
<1> QED BY <1>6, <1>7

(* Where nothing goes on every path is done, or waits for a module that is *)
(* at work, ...                                                            *)
AtWorkOn == {m \in Modules : worker[m].phase \in {"selecting", "waiting"}}

LEMMA PathsAtRest ==
  ASSUME EventInv, ~GoesOn, NEW p \in Paths
  PROVE  path[p].phase = "done" \/ (path[p].phase = "waiting" /\ Current(p) \in AtWorkOn)
<1>1. Types /\ Lefts /\ Followeds
  BY DEF EventInv, CoreInv
<1>2. path[p] \in PathStates
  BY <1>1 DEF Types
<1>3. path[p].phase # "unstarted"
  <2>1. PICK T : T = {q \in Paths : path[q].phase = "unstarted"}
    OBVIOUS
  <2>2. PICK n \in Nat : Paths = 1..n
    BY <1>1, ScheduleFacts DEF Types
  <2>3. IsFiniteSet(T)
    <3>1. IsFiniteSet(1..n)
      BY <2>2, FS_Interval
    <3> QED BY <2>1, <2>2, <3>1, FS_Subset
  <2>4. PICK rank : rank = [q \in T |-> -q]
    OBVIOUS
  <2>5. \A q \in T : q \in Int /\ rank[q] \in Int
    BY <2>1, <2>2, <2>4
  <2>6. ASSUME T # {} PROVE FALSE
    <3>1. \E q \in T : \A r \in T : rank[q] <= rank[r]
      BY <2>3, <2>5, <2>6, LowestRank
    <3>2. PICK q \in T : \A r \in T : rank[q] <= rank[r]
      BY <3>1
    <3>3. \A r \in T : ~(r > q)
      BY <2>4, <2>5, <3>2
    <3>4. PathGoesOn(q)
      BY <2>1, <3>3 DEF PathGoesOn
    <3> QED BY <2>1, <3>4 DEF GoesOn
  <2> QED BY <2>1, <2>6
<1>4. ~PathGoesOn(p)
  BY DEF GoesOn
<1>5. path[p].phase \in {"waiting", "done"}
  BY <1>2, <1>3, <1>4 DEF PathGoesOn, PathStates
<1>6. ASSUME path[p].phase = "waiting" PROVE Current(p) \in AtWorkOn
  <2>1. PICK m \in Modules : m = Current(p)
    BY <1>1, CurrentFacts
  <2>2. ~worker[m].released /\ worker[m].phase # "idle" /\ worker[m] \in WorkerStates
    BY <1>1, <1>4, <1>6, <2>1 DEF PathGoesOn, Followeds, Followed, Types
  <2>3. worker[m].phase # "done"
    BY <1>1, <2>2 DEF EventInv, CoreInv, Workers, Lifecycle
  <2>4. ~WorkerGoesOn(m)
    BY DEF GoesOn
  <2> QED BY <2>1, <2>2, <2>3, <2>4 DEF WorkerGoesOn, WorkerStates, Phases, AtWorkOn
<1> QED BY <1>5, <1>6

(* ... the results of the ordinary paths are missing because one waits, ... *)
LEMMA ResultsAtRest ==
  ASSUME EventInv, Moving, ~GoesOn, Ordinary # {}, ~product[Results].released
  PROVE  \E p \in Ordinary : path[p].phase = "waiting" /\ Current(p) \in AtWorkOn
<1>1. ~trig.done
  BY DEF Moving, ResultsThere
<1>2. Ordinary \subseteq Paths
  BY ScheduleFacts DEF EventInv, CoreInv, Types
<1>3. \A p \in Paths : path[p].phase # "unstarted"
  BY PathsAtRest
<1>4. PICK p \in Ordinary : path[p].phase # "done"
  BY <1>1, <1>3 DEF GoesOn
<1> QED BY <1>2, <1>4, PathsAtRest

(* ... a module that has not been started is not because a path that will  *)
(* come to it waits, ...                                                   *)
LEMMA IdleAtRest ==
  ASSUME EventInv, Moving, ~GoesOn, NEW d \in Modules, worker[d].phase = "idle",
         product[d].requested, ~worker[d].released
  PROVE  \E x \in Places(d) : /\ x[1] \in Paths /\ Current(x[1]) \in AtWorkOn
                              /\ path[x[1]].phase = "waiting" /\ path[x[1]].at \in 1..(x[2] - 1)
<1>1. Types /\ Lefts /\ Followeds
  BY DEF EventInv, CoreInv
<1>2. d \in Scheduled
  BY DEF Moving, AskedIsStarted
<1>3. worker[d].left # 0
  BY <1>2 DEF Moving, GivenUpReleased
<1>4. Places(d) \ Gone(d) # {}
  BY <1>1, <1>3, FS_EmptySet DEF Lefts, LeftCounts
<1>5. PICK x \in Places(d) : x \notin Gone(d)
  BY <1>4
<1>6. PICK p \in Paths, i \in Nat :
         p = x[1] /\ i = x[2] /\ i \in 1..Len(schedule.paths[p]) /\ Entry(p, i).module = d
  BY <1>1, PlaceFacts, ScheduleFacts DEF Types
<1>7. path[p] \in PathStates /\ path[p].at \in 1..Len(schedule.paths[p]) /\ path[p].at \in Nat
      /\ Len(schedule.paths[p]) \in Nat
  BY <1>1, CurrentFacts, ScheduleFacts DEF Types, PathStates
<1>8. Followed(p) /\ Ended(p)
  BY <1>1 DEF Followeds
<1>9. ~(i < path[p].at)
  <2>1. i < path[p].at => i \in 1..(path[p].at - 1)
    BY <1>6, <1>7
  <2> QED BY <1>6, <1>8, <2>1 DEF Followed, Over
<1>10. i = path[p].at => d = Current(p)
  BY <1>6 DEF Current
<1>11. CASE path[p].phase = "waiting"
  <2>1. Current(p) \in AtWorkOn
    BY <1>11, PathsAtRest
  <2>2. i # path[p].at
    BY <1>10, <2>1 DEF AtWorkOn
  <2>3. path[p].at \in 1..(i - 1)
    BY <1>6, <1>7, <1>9, <2>2
  <2> QED BY <1>6, <1>11, <2>1, <2>3
<1>12. CASE path[p].phase = "done"
  <2>1. worker[Current(p)].phase = "done"
    BY <1>8, <1>12 DEF Ended
  <2>2. i > path[p].at
    BY <1>6, <1>7, <1>9, <1>10, <2>1
  <2>3. ~path[p].continues
    BY <1>6, <1>7, <1>8, <1>12, <2>2 DEF Ended
  <2>4. x \in Gone(d)
    BY <1>6, <1>12, <2>2, <2>3 DEF Gone
  <2> QED BY <1>5, <2>4
<1> QED BY <1>11, <1>12, PathsAtRest

(* ... so every module at work waits for another one.                      *)
LEMMA AwaitsAtRest ==
  ASSUME EventInv, Moving, ~GoesOn, NEW m \in AtWorkOn
  PROVE  \E y \in AtWorkOn : Awaits(m, y)
<1>1. Types /\ schedule \in Schedules
  BY DEF EventInv, CoreInv, Types
<1>2. ASSUME Results \in schedule.consumes[m], Ordinary # {}, ~product[Results].released
      PROVE  \E y \in AtWorkOn : Awaits(m, y)
  <2>1. PICK p \in Ordinary : path[p].phase = "waiting" /\ Current(p) \in AtWorkOn
    BY <1>2, ResultsAtRest
  <2>2. p \in Paths
    BY <1>1, ScheduleFacts
  <2>3. path[p].at \in DOMAIN schedule.paths[p] /\ Entry(p, path[p].at).module = Current(p)
    BY <1>1, <2>2, CurrentFacts, ScheduleFacts DEF Current
  <2> QED BY <1>2, <2>1, <2>3 DEF Awaits
<1>3. m \in Modules /\ ~WorkerGoesOn(m)
  BY DEF GoesOn, AtWorkOn
<1>4. CASE worker[m].phase = "selecting"
  <2>1. m \in schedule.selects
    BY <1>3, <1>4 DEF Moving, Selecting
  <2>2. Results \in schedule.consumes[m]
    BY <1>1, <2>1, SchedulesAssumption
  <2>3. Ordinary # {} /\ ~product[Results].released
    BY <1>3, <1>4 DEF WorkerGoesOn
  <2> QED BY <1>2, <2>2, <2>3
<1>5. CASE worker[m].phase = "waiting"
  <2>1. PICK d \in Items(m) : ~product[d].released
    BY <1>3, <1>5 DEF WorkerGoesOn, InputsReleased
  <2>2. d \in schedule.consumes[m] /\ d \in Products /\ product[d].requested
    BY <1>1, <1>3, <1>5, <2>1, ScheduleFacts DEF Items, Moving, InputsAsked
  <2>3. CASE d = Results
    BY <1>2, <2>1, <2>2, <2>3 DEF Items
  <2>4. CASE d \in Modules
    <3>1. d # Results
      BY <2>4, ModulesAssumption
    <3>2. ~WorkerGoesOn(d) /\ worker[d] \in WorkerStates
      BY <1>1, <2>4 DEF GoesOn, Types
    <3>3. ~worker[d].released
      BY <2>1, <2>2, <3>2 DEF WorkerGoesOn
    <3>4. worker[d].phase # "done"
      BY <2>4, <3>3 DEF EventInv, CoreInv, Workers, Lifecycle
    <3>5. worker[d].phase \in {"idle", "selecting", "waiting"}
      BY <3>2, <3>4 DEF WorkerGoesOn, WorkerStates, Phases
    <3>6. CASE worker[d].phase = "idle"
      <4>1. PICK x \in Places(d) : /\ x[1] \in Paths /\ Current(x[1]) \in AtWorkOn
                                   /\ path[x[1]].at \in 1..(x[2] - 1)
        BY <2>2, <2>4, <3>3, <3>6, IdleAtRest
      <4>2. Entry(x[1], path[x[1]].at).module = Current(x[1])
        BY DEF Current
      <4> QED BY <2>2, <3>1, <4>1, <4>2 DEF Awaits
    <3>7. CASE worker[d].phase \in {"selecting", "waiting"}
      BY <2>2, <2>4, <3>1, <3>7 DEF AtWorkOn, Awaits
    <3> QED BY <3>5, <3>6, <3>7
  <2> QED BY <2>2, <2>3, <2>4 DEF Products
<1> QED BY <1>4, <1>5 DEF AtWorkOn

(* If the modules that a job needs do not wait for each other in a circle, *)
(* a stream that works on an event never comes to rest before its end: as  *)
(* long as the threads take the steps that there are, the event finishes.  *)
THEOREM NeverStuckInEvent == Spec => []NeverStuck
<1>1. EventInv /\ Moving => NeverStuck
  <2> SUFFICES ASSUME EventInv, Moving, NoCircle, ~GoesOn PROVE FALSE
    BY DEF NeverStuck
  <2>1. PICK N \in SUBSET Modules :
           /\ Needs(N)
           /\ \E rank \in [N -> Nat] : \A m, y \in N : Awaits(m, y) => rank[y] < rank[m]
    BY DEF NoCircle
  <2>2. PICK rank \in [N -> Nat] : \A m, y \in N : Awaits(m, y) => rank[y] < rank[m]
    BY <2>1
  <2>3. AtWorkOn \subseteq N
    BY <2>1 DEF AtWorkOn, Moving, OnlyNeeded
  <2>4. AtWorkOn # {}
    <3> SUFFICES ASSUME AtWorkOn = {} PROVE FALSE
      OBVIOUS
    <3>1. \A p \in Paths : path[p].phase = "done"
      BY PathsAtRest
    <3>2. Ordinary \subseteq Paths /\ EndPaths \subseteq Paths
      BY ScheduleFacts DEF EventInv, CoreInv, Types
    <3> QED BY <3>1, <3>2 DEF GoesOn, EndPathsDone
  <2>5. IsFiniteSet(AtWorkOn)
    BY ModulesAssumption, FS_Subset DEF AtWorkOn
  <2>6. \A m \in AtWorkOn : rank[m] \in Nat /\ rank[m] \in Int
    BY <2>2, <2>3
  <2>7. \E m \in AtWorkOn : \A y \in AtWorkOn : rank[m] <= rank[y]
    BY <2>4, <2>5, <2>6, LowestRank
  <2>8. PICK m \in AtWorkOn : \A y \in AtWorkOn : rank[m] <= rank[y]
    BY <2>7
  <2>9. PICK y \in AtWorkOn : Awaits(m, y)
    BY AwaitsAtRest
  <2> QED BY <2>2, <2>3, <2>6, <2>8, <2>9
<1>2. Init => Moving
  <2>1. Init => AllNew
    BY DEF Init, AllNew
  <2> QED BY <2>1, NewMoving
<1> QED BY <1>1, <1>2, InitEvent, NextKeepsEvent, NextKeepsMoving, PTL DEF Spec

-----------------------------------------------------------------------------
(* How far a path, a worker and a product have come in an event.           *)
PathRank(p) == CASE path[p].phase = "unstarted" -> 0
                 [] path[p].phase = "next" -> 2 * path[p].at
                 [] path[p].phase = "waiting" -> 2 * path[p].at + 1
                 [] path[p].phase = "leaving" -> 2 * Len(schedule.paths[p]) + 2
                 [] path[p].phase = "done" -> 2 * Len(schedule.paths[p]) + 3
WorkerRank(m) == CASE worker[m].phase = "idle" -> 0
                   [] worker[m].phase = "selecting" -> 1
                   [] worker[m].phase = "prefetching" -> 2
                   [] worker[m].phase = "waiting" -> 3
                   [] worker[m].phase = "acquiring" -> 4
                   [] worker[m].phase = "running" -> 5
                   [] worker[m].phase = "returned" -> 6
                   [] worker[m].phase = "done" -> 7
ProductRank(d) == IF product[d].status = "deleted" THEN 2 ELSE IF product[d].released THEN 1 ELSE 0
EventRank == IF status = "processing" THEN IF trig.done THEN 1 ELSE 0 ELSE 2

(* None of them goes back, and one of them comes further.                  *)
Forward ==
    /\ \A p \in Paths : PathRank(p) <= PathRank(p)'
    /\ \A m \in Modules : WorkerRank(m) <= WorkerRank(m)'
    /\ \A d \in Products : ProductRank(d) <= ProductRank(d)'
    /\ EventRank <= EventRank'
    /\ \/ \E p \in Paths : PathRank(p) < PathRank(p)'
       \/ \E m \in Modules : WorkerRank(m) < WorkerRank(m)'
       \/ \E d \in Products : ProductRank(d) < ProductRank(d)'
       \/ EventRank < EventRank'

(* A product that was deleted is not asked for again.                      *)
DeletedUnasked == \A d \in Products : product[d].status = "deleted" => ~product[d].requested

(* A step keeps it so: who waits for a product keeps it from deletion, ... *)
LEMMA StepKeepsUnasked ==
  ASSUME EventInv, EventInv', DeletedUnasked, Step
  PROVE  DeletedUnasked'
<1>1. CoreInv /\ Types /\ Moved /\ Products' = Products
  BY StepKeepsCore DEF EventInv, CoreInv, Products
<1>2. schedule' = schedule /\ (\A m : Items(m)' = Items(m)) /\ \A m : Items(m) \subseteq schedule.consumes[m]
  BY <1>1, ScheduleStays DEF Moved, Items
<1> SUFFICES ASSUME NEW d \in Products, product'[d].status = "deleted", product'[d].requested PROVE FALSE
  BY <1>1 DEF DeletedUnasked
<1>3. product[d] \in ProductStates /\ ProductMove(d)
  BY <1>1, ProductSteps DEF Types
<1>4. product[d].status = "deleted" => ~product[d].requested
  BY DEF DeletedUnasked
<1>5. InputsKept'
  BY WaitersKeepInputs, PTL
<1>6. CASE Asks(d)
  BY <1>2, <1>5, <1>6 DEF Asks, InputsKept
<1>7. CASE Releases(d)
  BY <1>3, <1>4, <1>7 DEF Releases, ProductStates
<1>8. CASE Inserts(d)
  BY <1>3, <1>8 DEF Inserts, ProductStates
<1> QED BY <1>3, <1>4, <1>6, <1>7, <1>8 DEF ProductMove, Puts, Deletes

(* ... no product is deleted when an event begins, ...                     *)
LEMMA NewUnasked == AllNew => DeletedUnasked
  BY NewFields DEF NewProduct, DeletedUnasked

(* ... and so does everything else that the stream does.                  *)
LEMMA NextKeepsUnasked == EventInv /\ EventInv' /\ DeletedUnasked /\ [Next]_vars => DeletedUnasked'
<1> SUFFICES ASSUME EventInv, EventInv', DeletedUnasked, [Next]_vars PROVE DeletedUnasked'
  OBVIOUS
<1>1. CASE StartEvent
  <2>1. AllNew'
    BY <1>1, StartEventFacts DEF EventInv, CoreInv
  <2> QED BY <2>1, NewUnasked, PTL
<1>2. CASE BeginJob \/ UNCHANGED vars
  BY <1>2 DEF BeginJob, vars, eventVars, DeletedUnasked, Products
<1>3. CASE Step
  BY <1>3, StepKeepsUnasked
<1> QED BY <1>1, <1>2, <1>3 DEF Next

(* What moves a path brings it further, ...                                *)
LEMMA PathForward ==
  ASSUME CoreInv, Moved, NEW p \in Paths
  PROVE  /\ PathRank(p) <= PathRank(p)'
         /\ path'[p].phase # path[p].phase => PathRank(p) < PathRank(p)'
<1>1. path[p] \in PathStates /\ path'[p] \in PathStates /\ PathMove(p) /\ Followed(p)
      /\ schedule' = schedule /\ Types
  BY DEF CoreInv, Types, Moved, Followeds
<1>2. PICK a, l \in Nat : a = path[p].at /\ l = Len(schedule.paths[p]) /\ a <= l
  BY <1>1, ScheduleFacts DEF Types, PathStates
<1>3. Len(schedule'.paths[p]) = l
  BY <1>1, <1>2
<1>4. CASE path'[p] = path[p]
  <2>1. PathRank(p)' = PathRank(p) /\ PathRank(p) \in Nat
    BY <1>1, <1>2, <1>3, <1>4 DEF PathRank, PathStates
  <2> QED BY <1>4, <2>1
<1>5. CASE Waits(p)
  <2>1. PathRank(p)' = 2 * a + 1
    BY <1>2, <1>5 DEF Waits, PathRank
  <2>2. PathRank(p) \in {0, 2 * a}
    BY <1>2, <1>5 DEF Waits, PathRank
  <2> QED BY <1>2, <2>1, <2>2
<1>6. CASE Learns(p)
  <2>1. PathRank(p) = 2 * a + 1
    BY <1>2, <1>6 DEF Learns, PathRank
  <2>2. CASE Advance(p)
    <3>1. PathRank(p)' = 2 * (a + 1)
      BY <1>2, <2>2 DEF Advance, PathRank
    <3> QED BY <1>2, <2>1, <3>1
  <2>3. CASE path'[p].phase = "leaving"
    <3>1. PathRank(p)' = 2 * l + 2
      BY <1>3, <2>3 DEF PathRank
    <3> QED BY <1>2, <2>1, <3>1
  <2> QED BY <1>6, <2>2, <2>3 DEF Learns, Leave
<1>7. CASE Ends(p)
  <2>1. PathRank(p) = 2 * l + 2 /\ PathRank(p)' = 2 * l + 3
    BY <1>2, <1>3, <1>7 DEF Ends, PathRank
  <2> QED BY <1>2, <2>1
<1> QED BY <1>1, <1>4, <1>5, <1>6, <1>7 DEF PathMove

(* ... and what moves a worker does so, ...                                *)
LEMMA WorkerForward ==
  ASSUME CoreInv, Moved, NEW m \in Modules
  PROVE  /\ WorkerRank(m) <= WorkerRank(m)'
         /\ worker'[m].phase # worker[m].phase => WorkerRank(m) < WorkerRank(m)'
<1>1. worker[m] \in WorkerStates /\ Types /\ Workers
  BY DEF CoreInv, Types
<1>2. worker[m].phase \in Phases
  BY <1>1 DEF WorkerStates
<1>3. SettlesRun(m) => worker'[m].phase = "done"
  <2>1. SettlesRun(m) => worker[m].outcome \in Outcomes
    BY <1>1 DEF SettlesRun, Workers, Lifecycle, WorkerStates
  <2> QED BY <1>1, <2>1, SettledFacts DEF SettlesRun
<1>4. /\ worker[m].phase = "idle" => worker'[m].phase \in {"idle", "selecting", "prefetching"}
      /\ worker[m].phase = "selecting" => worker'[m].phase \in {"selecting", "prefetching", "done"}
      /\ worker[m].phase = "prefetching" => worker'[m].phase \in {"prefetching", "waiting"}
      /\ worker[m].phase = "waiting" => worker'[m].phase \in {"waiting", "acquiring", "running", "done"}
      /\ worker[m].phase = "acquiring" => worker'[m].phase \in {"acquiring", "running", "done"}
      /\ worker[m].phase = "running" => worker'[m].phase \in {"running", "returned"}
      /\ worker[m].phase = "returned" => worker'[m].phase \in {"returned", "done"}
      /\ worker[m].phase = "done" => worker'[m].phase = "done"
  BY <1>1, <1>3, PhaseSteps, DoneStays
<1> QED BY <1>2, <1>4 DEF WorkerRank, Phases

(* ... and a product is released, and may be deleted, once.                *)
LEMMA ProductForward ==
  ASSUME EventInv, Step, NEW d \in Products
  PROVE  ProductRank(d) <= ProductRank(d)'
<1>1. ProductMove(d) /\ product[d] \in ProductStates
  BY ProductSteps DEF EventInv, CoreInv, Types
<1>2. d = Results => product[d].status # "deleted"
  BY DEF EventInv, Resolvers, Resolved
<1>3. CASE Asks(d)
  BY <1>1, <1>3 DEF Asks, ProductRank, ProductStates
<1>4. CASE Releases(d)
  BY <1>1, <1>4 DEF Releases, ProductRank, ProductStates
<1>5. CASE Puts(d)
  BY <1>1, <1>5 DEF Puts, ProductRank, ProductStates
<1>6. CASE Deletes(d)
  BY <1>1, <1>6 DEF Deletes, ProductRank, ProductStates
<1>7. CASE Inserts(d)
  BY <1>1, <1>2, <1>7 DEF Inserts, ProductRank, ProductStates
<1>8. CASE product'[d] = product[d]
  BY <1>8 DEF ProductRank
<1> QED BY <1>1, <1>3, <1>4, <1>5, <1>6, <1>7, <1>8 DEF ProductMove

(* Every action brings something further.                                  *)
LEMMA SomethingForward ==
  ASSUME EventInv, DeletedUnasked, Step
  PROVE  \/ \E p \in Paths : PathRank(p) < PathRank(p)'
         \/ \E m \in Modules : WorkerRank(m) < WorkerRank(m)'
         \/ \E d \in Products : ProductRank(d) < ProductRank(d)'
         \/ EventRank < EventRank'
<1>1. CoreInv /\ Types /\ Moved /\ status = "processing"
  BY StepKeepsCore DEF EventInv, CoreInv, Step
<1>2. ASSUME NEW p \in Paths, PathStep(p) PROVE PathRank(p) < PathRank(p)'
  <2>1. path'[p].phase # path[p].phase
    <3>1. CASE RunNextWorker(p)
      BY <1>1, <3>1, RunNextWorkerFacts
    <3>2. CASE WorkerFinished(p)
      BY <1>1, <3>2, WorkerFinishedFacts DEF Advance, Leave
    <3>3. CASE FinishPath(p)
      BY <1>1, <3>3, FinishPathFacts
    <3> QED BY <1>2, <3>1, <3>2, <3>3 DEF PathStep
  <2> QED BY <1>1, <2>1, PathForward
<1>3. ASSUME NEW m \in Modules, WorkerStep(m)
      PROVE  WorkerRank(m) < WorkerRank(m)' \/ \E d \in Products : ProductRank(d) < ProductRank(d)'
  <2>1. CASE Release(m)
    <3>1. m \in Products /\ product[m] \in ProductStates
      BY <1>1 DEF Products, Types
    <3>2. product[m].status # "deleted" /\ ~product[m].released
      BY <2>1, <3>1 DEF Release, DeletedUnasked
    <3>3. product' = [product EXCEPT ![m].released = TRUE, ![m].exception = worker[m].exception]
          /\ product \in [Products -> ProductStates]
      BY <1>1, <2>1 DEF Release, Types
    <3>4. product'[m].status = product[m].status /\ product'[m].released
      BY <3>1, <3>3 DEF ProductStates
    <3>5. ProductRank(m) < ProductRank(m)'
      BY <3>2, <3>4 DEF ProductRank
    <3> QED BY <3>1, <3>5
  <2>2. ASSUME worker'[m].phase # worker[m].phase PROVE WorkerRank(m) < WorkerRank(m)'
    BY <1>1, <2>2, WorkerForward
  <2>3. worker[m] \in WorkerStates /\ worker \in [Modules -> WorkerStates]
    BY <1>1 DEF Types
  <2>4. CASE SelectEvent(m)
    <3>1. worker'[m] = [worker[m] EXCEPT !.phase = "prefetching"] \/ worker'[m] = Settled(m, "pass")
      BY <2>3, <2>4 DEF SelectEvent
    <3>2. worker[m].phase = "selecting" /\ "pass" \in Outcomes
      BY <2>4 DEF SelectEvent, Outcomes
    <3>3. Settled(m, "pass").phase = "done"
      BY <1>1, <3>2, SettledFacts
    <3>4. worker'[m].phase \in {"prefetching", "done"}
      BY <2>3, <3>1, <3>3 DEF WorkerStates
    <3> QED BY <2>2, <3>2, <3>4
  <2>5. CASE Prefetch(m)
    <3>1. worker[m].phase = "prefetching" /\ worker'[m] = [worker[m] EXCEPT !.phase = "waiting"]
      BY <1>1, <2>5, PrefetchFacts DEF Advances
    <3> QED BY <2>2, <2>3, <3>1 DEF WorkerStates
  <2>6. CASE RunModule(m)
    <3>1. worker[m].phase = "waiting"
          /\ worker'[m] = IF Acquires(m) THEN [worker[m] EXCEPT !.phase = "acquiring"]
                          ELSE RunningWorker(m)
      BY <2>3, <2>6 DEF RunModule, InputsReleased
    <3>2. worker'[m].phase \in {"acquiring", "running"}
      BY <2>3, <3>1 DEF RunningWorker, WorkerStates
    <3> QED BY <2>2, <3>1, <3>2
  <2>7. CASE FailPrefetch(m)
    <3>1. PICK e \in InputExceptions(m) :
             worker' = [worker EXCEPT ![m] = IF Acquires(m) /\ Ignored(m, e)
                                               THEN RunningWorker(m) ELSE Settled(m, e)]
      BY <2>7 DEF FailPrefetch
    <3>2. worker'[m] = RunningWorker(m) \/ worker'[m] = Settled(m, e)
      BY <2>3, <3>1
    <3>3. worker'[m].phase \in {"running", "done"}
      BY <2>3, <3>2 DEF RunningWorker, Settled, WorkerStates
    <3>4. worker[m].phase = "waiting"
      BY <2>7 DEF FailPrefetch, InputsReleased
    <3> QED BY <2>2, <3>3, <3>4
  <2>8. CASE AcquireReturns(m)
    <3>1. PICK o : \/ worker' = [worker EXCEPT ![m] = RunningWorker(m)]
                   \/ worker' = [worker EXCEPT ![m] = [Settled(m, o) EXCEPT !.outcome = o]]
      BY <2>8 DEF AcquireReturns
    <3>2. worker'[m] = RunningWorker(m) \/ worker'[m] = [Settled(m, o) EXCEPT !.outcome = o]
      BY <2>3, <3>1
    <3>3. worker'[m].phase \in {"running", "done"}
      BY <2>3, <3>2 DEF RunningWorker, Settled, WorkerStates
    <3>4. worker[m].phase = "acquiring"
      BY <2>8 DEF AcquireReturns
    <3> QED BY <2>2, <3>3, <3>4
  <2>9. CASE ModuleReturns(m)
    <3>1. worker[m].phase = "running" /\ worker'[m].phase = "returned"
      BY <1>1, <2>9, ModuleReturnsFacts
    <3> QED BY <2>2, <3>1
  <2>10. CASE FinishModule(m)
    <3>1. worker[m].phase = "returned" /\ worker'[m] = Settled(m, worker[m].outcome)
      BY <2>3, <2>10 DEF FinishModule
    <3>2. worker'[m].phase = "done"
      BY <2>3, <3>1 DEF Settled, WorkerStates
    <3> QED BY <2>2, <3>1, <3>2
  <2> QED BY <1>3, <2>1, <2>4, <2>5, <2>6, <2>7, <2>8, <2>9, <2>10 DEF WorkerStep
<1>4. CASE FinishedPaths
  BY <1>1, <1>4, FinishedPathsFacts DEF EventRank
<1>5. CASE FinishEvent
  BY <1>1, <1>5, FinishEventFacts DEF EventRank
<1> QED BY <1>2, <1>3, <1>4, <1>5 DEF Step

(* Every step of the threads brings the event forward: no path, worker or  *)
(* product ever comes back to where it was, and one of them, or the event, *)
(* comes further.  None of them can do so without end, so an event takes   *)
(* finitely many steps.                                                    *)
THEOREM StepsForward == Spec => [][Step => Forward]_vars
<1>1. EventInv /\ DeletedUnasked /\ Step => Forward
  <2> SUFFICES ASSUME EventInv, DeletedUnasked, Step PROVE Forward
    OBVIOUS
  <2>1. CoreInv /\ Types /\ Moved /\ status = "processing" /\ status' \in {"processing", "finished", "failed"}
    BY StepKeepsCore, StepMoves DEF EventInv, CoreInv, Step
  <2>2. EventRank <= EventRank'
    <3>1. trig.done => trig'.done
      BY <2>1, TrigStays
    <3> QED BY <2>1, <3>1 DEF EventRank
  <2>3. \A p \in Paths : PathRank(p) <= PathRank(p)'
    BY <2>1, PathForward
  <2>4. \A m \in Modules : WorkerRank(m) <= WorkerRank(m)'
    BY <2>1, WorkerForward
  <2>5. \A d \in Products : ProductRank(d) <= ProductRank(d)'
    BY ProductForward
  <2> QED BY <2>2, <2>3, <2>4, <2>5, SomethingForward DEF Forward
<1>2. Init => DeletedUnasked
  <2>1. Init => AllNew
    BY DEF Init, AllNew
  <2> QED BY <2>1, NewUnasked
<1>3. EventInv /\ DeletedUnasked /\ [Next]_vars => EventInv' /\ DeletedUnasked'
  BY NextKeepsEvent, NextKeepsUnasked
<1> QED BY <1>1, <1>2, <1>3, InitEvent, PTL DEF Spec
=============================================================================

---------------------------- MODULE StreamSchedule ----------------------------
(***************************************************************************)
(* One stream's events (FWCore/Framework): StreamSchedule starts its Paths,*)
(* a Path runs its Workers one after another, a Worker prefetches what its *)
(* module consumes and runs it once for all paths it is on; product        *)
(* resolvers release who waits for a product; EarlyDeleteHelpers delete a  *)
(* product after its last reader.                                          *)
(*                                                                         *)
(* A schedule has paths (sequences of entries with a module and a filter   *)
(* action; the first trig are ordinary paths, the rest end paths), what    *)
(* each module consumes and may do in an event, the modules that select    *)
(* events by the trigger results, those that acquire() first, and the      *)
(* products that canDeleteEarly names.  A product has the name of the      *)
(* module that makes it.  An exception is known by the action that the job *)
(* has configured for its category.                                        *)
(***************************************************************************)
EXTENDS Integers, FiniteSets, Sequences

CONSTANTS Modules, Results,  \* Results: the product of TriggerResultInserter
          Schedules,         \* the schedules a job may be configured with
          Admits(_)          \* those that the check at the beginning of the job lets pass

Exceptions == {"Rethrow", "SkipEvent", "FailPath", "IgnoreCompletely"}
Outcomes == {"pass", "reject"} \cup Exceptions
Products == Modules \cup {Results}
Entries == [module : Modules, action : {"Normal", "Ignore", "Veto"}]

ASSUME ModulesAssumption == IsFiniteSet(Modules) /\ Results \notin Modules
ASSUME SchedulesAssumption ==
    \A s \in Schedules : /\ s.paths \in Seq(Seq(Entries) \ {<<>>}) /\ s.trig \in 0..Len(s.paths)
                         /\ s.consumes \in [Modules -> SUBSET Products]
                         /\ s.outcomes \in [Modules -> SUBSET Outcomes]
                         /\ s.deletable \subseteq Modules /\ s.external \subseteq Modules
                         /\ s.selects \subseteq {m \in Modules : Results \in s.consumes[m]}

VARIABLES schedule,
          status,    \* of the stream: before the job, between events, in one, stopped
          skipping,  \* skippingEvent_
          path,      \* per path: what it does, at which entry, and how it ended
          worker,    \* per module: its Worker
          product,   \* per product: its resolver
          helper,    \* per module: pathsLeftToComplete_ of its EarlyDeleteHelper
          count,     \* per product: the readers earlyDeleteBranchToCount_ still expects
          trig       \* whether finishedPaths() has run, and the exception it passed on

eventVars == <<skipping, path, worker, product, trig>>
deleteVars == <<helper, count>>
vars == <<schedule, status, eventVars, deleteVars>>

-----------------------------------------------------------------------------
Paths == DOMAIN schedule.paths
Ordinary == 1..schedule.trig
EndPaths == Paths \ Ordinary
Entry(p, i) == schedule.paths[p][i]
Places(m) == {x \in {<<p, i>> : p \in Paths, i \in UNION {DOMAIN schedule.paths[p] : p \in Paths}} :
                x[2] \in DOMAIN schedule.paths[x[1]] /\ Entry(x[1], x[2]).module = m}
PlacesOn(p, m) == {i \in DOMAIN schedule.paths[p] : Entry(p, i).module = m}
Scheduled == {m \in Modules : Places(m) # {}}
Current(p) == Entry(p, path[p].at).module

Reads(m) == schedule.consumes[m] \cap schedule.deletable
Readers(d) == {m \in Modules : d \in Reads(m)}

NewWorker(m) == [phase |-> "idle", state |-> "Ready", exception |-> "none", released |-> FALSE,
                 left |-> Cardinality(Places(m)), onEndPath |-> FALSE, outcome |-> "none", runs |-> 0]
NewProduct == [status |-> "unset", requested |-> FALSE, released |-> FALSE, exception |-> "none"]
NewPath == [phase |-> "unstarted", at |-> 1, continues |-> TRUE, exception |-> "none"]

ResetEvent == /\ skipping' = FALSE
              /\ path' = [p \in Paths |-> NewPath]
              /\ worker' = [m \in Modules |-> NewWorker(m)]
              /\ product' = [d \in Products |-> NewProduct]
              /\ trig' = [done |-> FALSE, exception |-> "none"]

(* resetEarlyDelete(): a helper exists for a module that reads.            *)
Helpers == [m \in Modules |-> IF Reads(m) = {} THEN 0 ELSE Cardinality(Places(m))]
CountedOnce == [d \in Modules |-> IF Readers(d) = {} THEN 0 ELSE 1]   \* mutant: one reader is enough
Counts == [d \in Modules |-> Cardinality(Readers(d))]

Init == /\ schedule \in Schedules
        /\ status = "new"
        /\ skipping = FALSE
        /\ path = [p \in Paths |-> NewPath]
        /\ worker = [m \in Modules |-> NewWorker(m)]
        /\ product = [d \in Products |-> NewProduct]
        /\ trig = [done |-> FALSE, exception |-> "none"]
        /\ helper = Helpers /\ count = Counts

(* checkForModuleDependencyCorrectness() refuses what it takes for a       *)
(* schedule that cannot run.                                               *)
BeginJob == /\ status = "new"
            /\ status' = IF Admits(schedule) THEN "idle" ELSE "refused"
            /\ UNCHANGED <<schedule, eventVars, deleteVars>>

(* An event that has failed is the stream's last.                          *)
StartEvent == /\ status \in {"idle", "finished"}
              /\ status' = "processing"
              /\ ResetEvent
              /\ UNCHANGED <<schedule, deleteVars>>

-----------------------------------------------------------------------------
(* What deletes: readers m are taken for run, their products' counts go    *)
(* down, and at zero a product is deleted and its resolver reset.          *)
CountsAfter(readers) == [d \in Modules |-> count[d] - Cardinality(readers \cap Readers(d))]
Delete(readers, products) ==
    [d \in Products |-> IF d \in Modules /\ readers \cap Readers(d) # {} /\ CountsAfter(readers)[d] = 0
                          THEN [products[d] EXCEPT !.status = "deleted", !.requested = FALSE,
                                                   !.released = FALSE, !.exception = "none"]
                          ELSE products[d]]

StartedByEach(m, onEndPath) == \* mutant: workStarted_ is not looked at
    [worker[m] EXCEPT !.phase = "prefetching", !.onEndPath = onEndPath]

(* Whoever comes first starts the worker.                                  *)
Started(m, onEndPath) ==
    IF worker[m].phase # "idle" THEN worker[m]
    ELSE [worker[m] EXCEPT !.phase = IF m \in schedule.selects THEN "selecting" ELSE "prefetching",
                           !.onEndPath = onEndPath]

(* processOneEventAsync() starts the paths one by one, the last one first. *)
RunNextWorker(p) ==
    /\ \/ path[p].phase = "next"
       \/ path[p].phase = "unstarted" /\ \A q \in Paths : q > p => path[q].phase # "unstarted"
    /\ worker' = [worker EXCEPT ![Current(p)] = Started(Current(p), p \in EndPaths)]
    /\ path' = [path EXCEPT ![p].phase = "waiting"]
    /\ UNCHANGED <<schedule, status, skipping, product, trig, deleteVars>>

IgnoredUnlessSkip(m, e) == \* mutant: SkipEvent is raised on end paths too
    e = "IgnoreCompletely" \/ (worker[m].onEndPath /\ e = "FailPath")

(* shouldRethrowException(): on an end path, which for a module that is    *)
(* not scheduled is where the module that asked for it is, some exceptions *)
(* are ignored.                                                            *)
Ignored(m, e) == \/ e = "IgnoreCompletely"
                 \/ worker[m].onEndPath /\ e = "FailPath"
                 \/ worker[m].onEndPath /\ e = "SkipEvent" /\ m \in Scheduled

(* The worker's state is set and its waiting tasks are released.           *)
Settled(m, outcome) ==
    LET raised == outcome \in Exceptions /\ ~Ignored(m, outcome)
    IN  [worker[m] EXCEPT !.phase = "done", !.released = TRUE,
           !.state = IF raised THEN "Exception" ELSE IF outcome = "reject" THEN "Fail" ELSE "Pass",
           !.exception = IF raised THEN outcome ELSE "none"]

(* prePrefetchSelectionAsync(): an event that is not selected is passed    *)
(* without running the module.                                             *)
SelectEvent(m) ==
    /\ worker[m].phase = "selecting" /\ (product[Results].released \/ Ordinary = {})
    /\ \/ worker' = [worker EXCEPT ![m].phase = "prefetching"]
       \/ worker' = [worker EXCEPT ![m] = Settled(m, "pass")]
    /\ UNCHANGED <<schedule, status, skipping, path, product, trig, deleteVars>>

(* Without ordinary paths there are no trigger results.                    *)
Items(m) == schedule.consumes[m] \ (IF Ordinary = {} THEN {Results} ELSE {})

(* A request for the product of a scheduled module is a callback in its    *)
(* worker's list; the first request for another one starts its worker.     *)
Prefetch(m) ==
    LET items == Items(m)
        asked == {d \in items : ~product[d].requested}
    IN  /\ worker[m].phase = "prefetching"
        /\ product' = [d \in Products |-> [product[d] EXCEPT !.requested = @ \/ d \in items]]
        /\ worker' = [w \in Modules |->
                        IF w = m THEN [worker[m] EXCEPT !.phase = "waiting"]
                        ELSE IF w \in asked \ Scheduled THEN Started(w, worker[m].onEndPath)
                        ELSE worker[w]]
        /\ UNCHANGED <<schedule, status, skipping, path, trig, deleteVars>>

(* The callback: whoever waits for the product is released when its module *)
(* is done, or will not run.                                               *)
Release(d) ==
    /\ product[d].requested /\ ~product[d].released /\ worker[d].released
    /\ product' = [product EXCEPT ![d].released = TRUE, ![d].exception = worker[d].exception]
    /\ UNCHANGED <<schedule, status, skipping, path, worker, trig, deleteVars>>

InputExceptions(m) == {product[d].exception : d \in Items(m)} \ {"none"}
InputsReleased(m) == worker[m].phase = "waiting" /\ \A d \in Items(m) : product[d].released
RunningWorker(m) == [worker[m] EXCEPT !.phase = "running", !.runs = @ + 1]

(* A module that selects its events is run without its acquire().          *)
Acquires(m) == m \in schedule.external \ schedule.selects

RunModule(m) ==
    /\ InputsReleased(m) /\ InputExceptions(m) = {}
    /\ worker' = [worker EXCEPT ![m] = IF Acquires(m) THEN [@ EXCEPT !.phase = "acquiring"]
                                       ELSE RunningWorker(m)]
    /\ UNCHANGED <<schedule, status, skipping, path, product, trig, deleteVars>>

(* A module with a failed input does not run; of several failures it gets  *)
(* the first to arrive.  If the failure is ignored, a module with an       *)
(* acquire() goes without that and does run.                               *)
FailPrefetch(m) ==
    /\ InputsReleased(m)
    /\ \E e \in InputExceptions(m) :
          worker' = [worker EXCEPT ![m] = IF Acquires(m) /\ Ignored(m, e)
                                            THEN RunningWorker(m) ELSE Settled(m, e)]
    /\ UNCHANGED <<schedule, status, skipping, path, product, trig, deleteVars>>

(* acquire() and the work it has begun elsewhere end, and produce()        *)
(* follows.  A failure of acquire() that is ignored does not keep it from  *)
(* that; one of the work does, and the module passes without having run.   *)
AcquireReturns(m) ==
    /\ worker[m].phase = "acquiring"
    /\ \E o \in {"pass"} \cup (schedule.outcomes[m] \cap Exceptions) :
          \/ /\ o = "pass" \/ Ignored(m, o)
             /\ worker' = [worker EXCEPT ![m] = RunningWorker(m)]
          \/ /\ o # "pass"
             /\ worker' = [worker EXCEPT ![m] = [Settled(m, o) EXCEPT !.outcome = o]]
    /\ UNCHANGED <<schedule, status, skipping, path, product, trig, deleteVars>>

(* What the module has made is put into the event: it is announced at once *)
(* if nobody has asked for it yet.  A second put, as the resolver takes    *)
(* one after a deletion to be, is an exception of its own.                 *)
ModuleReturns(m) ==
    \E o \in schedule.outcomes[m] :
       LET puts == o \notin Exceptions
           fails == puts /\ product[m].status # "unset"
           announces == m \in Scheduled /\ ~product[m].requested
       IN  /\ worker[m].phase = "running"
           /\ worker' = [worker EXCEPT ![m].phase = "returned",
                                       ![m].outcome = IF fails THEN "Rethrow" ELSE o]
           /\ product' = IF puts /\ ~fails
                           THEN [product EXCEPT ![m].status = "set",
                                                ![m].requested = @ \/ m \in Scheduled,
                                                ![m].released = @ \/ announces]
                           ELSE product
           /\ UNCHANGED <<schedule, status, skipping, path, trig, deleteVars>>

(* postDoEvent(), then the tasks that wait for the module.                 *)
FinishModule(m) ==
    /\ worker[m].phase = "returned"
    /\ worker' = [worker EXCEPT ![m] = Settled(m, @.outcome)]
    /\ helper' = [helper EXCEPT ![m] = 0]
    /\ count' = CountsAfter({m})
    /\ product' = Delete({m}, product)
    /\ UNCHANGED <<schedule, status, skipping, path, trig>>

-----------------------------------------------------------------------------
(* checkResultsOfRunWorker().                                              *)
Passes(p, i) == LET entry == Entry(p, i)
                    state == worker[entry.module].state
                IN  \/ state = "Exception" \/ entry.action = "Ignore"
                    \/ state = (IF entry.action = "Veto" THEN "Fail" ELSE "Pass")

ContinuesAfterFailPath(p, e) == \* mutant: a failed path is not ended
    e \in {"none", "FailPath"} /\ Passes(p, path[p].at)

Continues(p, e) == e = "none" /\ Passes(p, path[p].at)

(* handleWorkerFailure(): FailPath ends the path without an exception, and *)
(* the worker is done with on this path; SkipEvent stops all other         *)
(* ordinary paths.                                                         *)
WorkerFinished(p) ==
    LET m == Current(p)
        e == worker[m].exception
        skip == skipping \/ (e = "SkipEvent" /\ p \in Ordinary)
        continues == Continues(p, e) /\ ~(p \in Ordinary /\ skip)
    IN  /\ path[p].phase = "waiting" /\ worker[m].released
        /\ skipping' = skip
        /\ path' = [path EXCEPT ![p] =
                      IF continues /\ @.at < Len(schedule.paths[p])
                        THEN [@ EXCEPT !.phase = "next", !.at = path[p].at + 1]
                        ELSE [@ EXCEPT !.phase = "leaving", !.continues = continues,
                                       !.exception = IF e = "FailPath" THEN "none" ELSE e]]
        /\ worker' = IF e = "FailPath" THEN [worker EXCEPT ![m].left = @ - 1] ELSE worker
        /\ UNCHANGED <<schedule, status, product, trig, deleteVars>>

OnePathLess(m, skipped) == skipped > 0   \* mutant: the first path to skip a worker gives it up
NoPathCounted(m, skipped) == FALSE       \* mutant: skipOnPath() without the call of doneWaiting()

(* skipOnPath(): no path is left that may run the worker.                  *)
NoPathLeft(m, skipped) == skipped > 0 /\ worker[m].left = skipped

OnEveryPath(m, given) == given > 0 /\ helper[m] <= given   \* mutant: the count may be zero already

(* pathFinished(): no path is left to its helper.                          *)
GivenUp(m, given) == helper[m] \in 1..given

(* A path that is left early gives up its later workers; one that no path  *)
(* is left for releases its waiting tasks.  Every helper on the path,      *)
(* once per place, learns that the path will not come any more.            *)
FinishPath(p) ==
    LET early == ~path[p].continues
        skipped(m) == IF early THEN Cardinality({i \in PlacesOn(p, m) : i > path[p].at}) ELSE 0
        given(m) == IF early THEN Cardinality(PlacesOn(p, m)) ELSE 0
        readers == {m \in Modules : Reads(m) # {} /\ GivenUp(m, given(m))}
    IN  /\ path[p].phase = "leaving"
        /\ path' = [path EXCEPT ![p].phase = "done"]
        /\ worker' = [m \in Modules |->
                        [worker[m] EXCEPT !.left = @ - skipped(m),
                            !.released = @ \/ NoPathLeft(m, skipped(m))]]
        /\ helper' = [m \in Modules |-> IF helper[m] > given(m) THEN helper[m] - given(m) ELSE 0]
        /\ count' = CountsAfter(readers)
        /\ product' = Delete(readers, product)
        /\ UNCHANGED <<schedule, status, skipping, trig>>

PathExceptions(paths) == {path[p].exception : p \in paths} \ {"none"}

(* finishedPaths(): the ordinary paths' first exception is dropped if it   *)
(* skips the event; the TriggerResults are put in any case.                *)
FinishedPaths ==
    /\ ~trig.done
    /\ \A p \in Ordinary : path[p].phase = "done"
    /\ \A p \in Paths : path[p].phase # "unstarted"
    /\ \E e \in IF PathExceptions(Ordinary) = {} THEN {"none"} ELSE PathExceptions(Ordinary) :
          trig' = [done |-> TRUE, exception |-> IF e = "SkipEvent" THEN "none" ELSE e]
    /\ product' = IF Ordinary = {} THEN product
                  ELSE [product EXCEPT ![Results] = [@ EXCEPT !.status = "set", !.requested = TRUE,
                                                              !.released = TRUE]]
    /\ UNCHANGED <<schedule, status, skipping, path, worker, deleteVars>>

EndPathsDone == \A p \in EndPaths : path[p].phase = "done"

(* finishProcessOneEvent().                                                *)
FinishEvent ==
    LET failures == PathExceptions(EndPaths) \cup ({trig.exception} \ {"none"})
    IN  /\ trig.done
        /\ EndPathsDone
        /\ status' = IF failures = {} THEN "finished" ELSE "failed"
        /\ IF failures = {} THEN helper' = Helpers /\ count' = Counts
                            ELSE UNCHANGED deleteVars
        /\ UNCHANGED <<schedule, eventVars>>

-----------------------------------------------------------------------------
PathStep(p) == RunNextWorker(p) \/ WorkerFinished(p) \/ FinishPath(p)
WorkerStep(m) == \/ SelectEvent(m) \/ Prefetch(m) \/ Release(m)
                 \/ RunModule(m) \/ FailPrefetch(m) \/ AcquireReturns(m)
                 \/ ModuleReturns(m) \/ FinishModule(m)

(* What the threads do for an event that has begun.                        *)
Step == /\ status = "processing"
        /\ \/ \E p \in Paths : PathStep(p)
           \/ \E m \in Modules : WorkerStep(m)
           \/ FinishedPaths \/ FinishEvent

Next == BeginJob \/ StartEvent \/ Step

Spec == Init /\ [][Next]_vars

(* TBB runs the tasks that are there; modules return.                      *)
FairSpec == Spec /\ WF_vars(Step)
-----------------------------------------------------------------------------
Phases == {"idle", "selecting", "prefetching", "waiting", "acquiring", "running", "returned", "done"}
Thrown == Exceptions \ {"IgnoreCompletely"}

TypeOK ==
    /\ status \in {"new", "refused", "idle", "processing", "finished", "failed"}
    /\ skipping \in BOOLEAN
    /\ path \in [Paths -> [phase : {"unstarted", "next", "waiting", "leaving", "done"}, at : Nat \ {0},
                          continues : BOOLEAN, exception : Thrown \cup {"none"}]]
    /\ \A p \in Paths : path[p].at <= Len(schedule.paths[p])
    /\ worker \in [Modules -> [phase : Phases, state : {"Ready", "Pass", "Fail", "Exception"},
                               exception : Thrown \cup {"none"}, released : BOOLEAN, left : Nat,
                               onEndPath : BOOLEAN, outcome : Outcomes \cup {"none"}, runs : Nat]]
    /\ product \in [Products -> [status : {"unset", "set", "deleted"}, requested : BOOLEAN,
                                 released : BOOLEAN, exception : Thrown \cup {"none"}]]
    /\ helper \in [Modules -> Nat] /\ count \in [Modules -> Int]
    /\ trig \in [done : BOOLEAN, exception : Thrown \cup {"none"}]

(* Everything that was done for the event is over.                         *)
NothingLeftRunning ==
    /\ \A m \in Modules : worker[m].phase \in {"idle", "done"}
    /\ \A p \in Paths : path[p].phase = "done"
    /\ \A d \in Products : product[d].requested => product[d].released

(* What the code asserts: a path that goes on finds its worker with a      *)
(* result (WorkerInPath.h), only exceptions that end or skip the event come*)
(* to finishedPaths() (StreamSchedule.cc), a count of readers is not taken *)
(* below zero (EarlyDeleteHelper.cc), and nobody waits for a product when  *)
(* its resolver is reset (WaitingTaskList.cc), by a deletion or when the   *)
(* event is over and the principal is cleared.                             *)
AssertsHold ==
    /\ TypeOK
    /\ \A p \in Paths : path[p].phase = "waiting" /\ worker[Current(p)].released
                            => worker[Current(p)].state # "Ready"
    /\ \A p \in Ordinary : path[p].exception # "FailPath"
    /\ \A d \in Modules : count[d] >= 0
    /\ \A m \in Modules : worker[m].phase = "waiting"
           => \A d \in schedule.consumes[m] : product[d].status # "deleted"
    /\ status \in {"finished", "failed"} => NothingLeftRunning

Reached(m) == \E x \in Places(m) : path[x[1]].phase # "unstarted" /\ path[x[1]].at >= x[2]

(* A module runs at most once in an event, on however many paths it is and *)
(* however many modules consume its product; and only if a path has come   *)
(* to it or, when it is on no path, a module that has been started consumes *)
(* its product.                                                            *)
RunsOnceWhenNeeded ==
    \A m \in Modules :
       /\ worker[m].runs <= 1
       /\ worker[m].phase # "idle" => \/ Reached(m)
                                     \/ /\ m \notin Scheduled
                                        /\ \E c \in Modules : m \in schedule.consumes[c]
                                                              /\ worker[c].phase # "idle"

(* What a running module consumes is there, or will not come any more in   *)
(* this event: a product never appears after its reader was told that there *)
(* is none.  No module runs with an input whose module has failed, unless  *)
(* it acquires and the failure it got, the first to arrive, was ignored:   *)
(* then it runs whatever the others'.                                      *)
InputsSettled ==
    \A m \in Modules : worker[m].runs > 0 => \A d \in schedule.consumes[m] :
       IF d = Results THEN trig.done \/ Ordinary = {}
       ELSE /\ product[d].status # "unset"
                 \/ worker[d].phase = "done" \/ (worker[d].phase = "idle" /\ worker[d].left = 0)
            /\ \/ worker[d].exception = "none"
               \/ /\ Acquires(m)
                  /\ \E c \in schedule.consumes[m] \ {Results} : Ignored(m, worker[c].exception)

(* A path that has ended accepts the event exactly if all its modules have *)
(* passed as its entries ask; it rejects it at a module that has not, whose *)
(* failure is confined to the path, or because the event is being skipped. *)
VerdictOfPath ==
    \A p \in Paths : path[p].phase = "done" /\ path[p].exception = "none" =>
       IF path[p].continues
         THEN \A i \in DOMAIN schedule.paths[p] :
                 worker[Entry(p, i).module].phase = "done" /\ worker[Entry(p, i).module].exception = "none"
                 /\ Passes(p, i)
         ELSE ~Passes(p, path[p].at) \/ worker[Current(p)].exception = "FailPath"
              \/ (p \in Ordinary /\ skipping)

Outcome(o) == {m \in Modules : worker[m].outcome = o}

(* An event fails only for an exception that is meant to end the job, or   *)
(* because an end path shares a module that skips the event with an        *)
(* ordinary path, which has come to it first; an exception that is meant   *)
(* to end the job is lost only to another one.                             *)
OutcomeOfEvent ==
    /\ \A p \in EndPaths : path[p].exception = "SkipEvent" => ~worker[Current(p)].onEndPath
    /\ status = "failed" =>
          \/ Outcome("Rethrow") # {}
          \/ \E p \in EndPaths : path[p].exception # "none" /\ Outcome(path[p].exception) # {}
    /\ status = "finished" /\ Outcome("Rethrow") # {} => Outcome("SkipEvent") \cup Outcome("FailPath") # {}

(* A product is deleted when no module that reads it is at work or will    *)
(* come to work in this event.                                             *)
DeletedAfterLastReader ==
    \A d \in Modules : product[d].status = "deleted" =>
       \A m \in Readers(d) : worker[m].phase \in {"idle", "done"}

(* Every event of a schedule that is let pass comes to its end.            *)
EventFinishes == status = "processing" ~> status \in {"finished", "failed"}
=============================================================================

--------------------------- MODULE LumiProcessing ---------------------------
(***************************************************************************)
(* edm::EventProcessor (FWCore/Framework): how the streams carry events    *)
(* through luminosity blocks.  The main thread walks over the source's     *)
(* files, runs and lumis, any step of which may throw, and closes what it  *)
(* has opened; processLumis() blocks it while the streams take             *)
(* events from the source, begin and end lumis and start the next lumi by  *)
(* themselves.  A lumi passes the queue of the EventSetup's intervals of   *)
(* validity (iovQueue_), the queue that limits concurrent lumis            *)
(* (lumiQueue_), the source's queue and the queues of the streams.         *)
(* Functors in the source's queue exclude each other and are one step; a   *)
(* transition of the modules is a step that begins it and one that ends it. *)
(***************************************************************************)
EXTENDS Naturals, Sequences, FiniteSets

CONSTANTS Items,            \* what the source delivers, in this order
          NumberOfStreams,
          ConcurrentLumis,  \* numberOfConcurrentLuminosityBlocks
          CloseOutputs,     \* whether output files may be closed at a file boundary
          Early,            \* what may stop the job early: "signal", "limit"
          Failing,          \* the transitions that may throw
          MaxFailures,      \* bound: transitions that throw
          Slow              \* functors that may be late to return: "begin", "end"

ItemTypes == {"file", "run", "lumi", "event"}
ASSUME ItemsAssumption ==
    Items \in Seq([type : ItemTypes, run : Nat, lumi : Nat, iov : Nat])
(* InputSource::nextItemType(): a file comes first, its first item is a run, *)
(* that of a run a lumi.  The run and lumi of an item are those that the   *)
(* source has read last: lumis and events leave the run as it is, events   *)
(* also the lumi.                                                          *)
ASSUME OrderAssumption ==
    /\ Items # <<>> => Items[1].type = "file"
    /\ \A i \in 2..Len(Items) :
          LET before == Items[i - 1]
          IN  /\ Items[i].type = "lumi" => before.type # "file" /\ before.run = Items[i].run
              /\ Items[i].type = "event" => /\ before.type \in {"lumi", "event"}
                                            /\ before.run = Items[i].run /\ before.lumi = Items[i].lumi
ASSUME CountsAssumption ==
    NumberOfStreams \in Nat \ {0} /\ ConcurrentLumis \in Nat \ {0} /\ MaxFailures \in Nat
ASSUME SwitchesAssumption ==
    CloseOutputs \in BOOLEAN /\ Early \subseteq {"signal", "limit"} /\ Slow \subseteq {"begin", "end"}

Streams == 1..NumberOfStreams
Lumis == 1..Cardinality({i \in DOMAIN Items : Items[i].type = "lumi"})  \* statuses made, in this order

VARIABLES pos,       \* the item of the last nextItemType()
          last,      \* lastSourceTransition_
          deferred,  \* deferredExceptionPtrIsSet_
          signalled, \* shutdown_flag
          full,      \* Schedule::terminate(): every output module has reached its limit
          iov,       \* the interval the EventSetup has loaded
          iovHolds,  \* how often iovQueue_ is paused
          slots,     \* lumiQueue_: lumis that run or hold a Resumer
          lumi,      \* per lumi: LuminosityBlockProcessingStatus and how far it has come
          stream,    \* per stream: its status, its state, its queue
          active,    \* streamLumiActive_
          locals,    \* copies of a status in functors that have not yet returned
          main,      \* the main thread
          files,     \* the source's file and the output files, and what becomes of FileResources
          run,       \* RunsInFileProcessor's currentRun_
          cached,    \* the run in PrincipalCache
          lost,      \* history: the end of a run has thrown before the run left the cache
          failed,    \* the exception of the task the main thread waits for
          failures   \* how many transitions have thrown

sourceVars == <<pos, last>>
queueVars == <<iov, iovHolds, slots>>
runVars == <<run, cached, lost>>
mainVars == <<main, files, runVars>>
vars == <<sourceVars, deferred, signalled, full, queueVars, lumi, stream, active, locals,
          mainVars, failed, failures>>

Phases == {"none", "iov", "queued", "source", "globalBegin", "pushing", "open", "globalEnd",
           "ended", "iovReleased", "principalReleased", "slotReleased", "done", "dropped"}
NoLumi == [phase |-> "none", sync |-> 0, item |-> 0, run |-> 0, toPush |-> 1,
           left |-> NumberOfStreams, stop |-> FALSE, ending |-> FALSE, continuing |-> FALSE,
           startedNext |-> FALSE, next |-> 0, begun |-> FALSE, endFailed |-> FALSE]
NoStream == [lumi |-> 0, at |-> "idle", queue |-> <<>>, paused |-> FALSE]
NoRun == [id |-> 0, number |-> 0]

Init == /\ pos = 0 /\ last = "stop"
        /\ deferred = FALSE /\ signalled = FALSE /\ full = FALSE
        /\ iov = 0 /\ iovHolds = 0 /\ slots = 0
        /\ lumi = [k \in Lumis |-> NoLumi]
        /\ stream = [s \in Streams |-> NoStream]
        /\ active = 0 /\ locals = {}
        /\ main = [pc |-> "ask", next |-> "stop", then |-> "leave", outcome |-> "none"]
        /\ files = [input |-> FALSE, output |-> FALSE, closed |-> "nobody"]
        /\ run = NoRun /\ cached = 0 /\ lost = FALSE
        /\ failed = FALSE /\ failures = 0

-----------------------------------------------------------------------------
TypeAt(i) == IF i \in DOMAIN Items THEN Items[i].type ELSE "stop"
After(i) == IF i \in DOMAIN Items \cup {0} THEN i + 1 ELSE i

(* nextTransitionType(): with a deferred exception the source is not asked; *)
(* a signal turns the answer, but the source has moved on.                 *)
NextTransition ==
    /\ pos' = IF deferred THEN pos ELSE After(pos)
    /\ last' = IF deferred \/ signalled THEN "stop" ELSE TypeAt(After(pos))

LastTransition == IF deferred THEN "stop" ELSE last

Fails(transition) == /\ transition \in Failing /\ failures < MaxFailures
                     /\ failures' = failures + 1
Succeeds == UNCHANGED failures

Alive(k) == lumi[k].phase \notin {"none", "done", "dropped"}

HeldWithoutEvents == \* mutant: the task of an event does not keep the wait from ending
    \/ \E k \in Lumis : Alive(k) /\ lumi[k].phase # "open"
    \/ \E s \in Streams : stream[s].at \in {"begin", "next", "end"} \/ stream[s].queue # <<>>
    \/ \E l \in locals : l.holds # "status"

(* Everything that keeps the task alive the main thread waits for.         *)
Held == \/ \E k \in Lumis : Alive(k) /\ lumi[k].phase # "open"
        \/ \E s \in Streams : \/ stream[s].at \in {"begin", "next", "event", "end"}
                              \/ stream[s].queue # <<>>
        \/ \E l \in locals : l.holds # "status"

KeepsPrincipal(k) == \* mutant: the principal stays with the status
    \/ lumi[k].phase \in {"globalBegin", "pushing", "open", "globalEnd", "ended", "iovReleased",
                          "principalReleased", "slotReleased"}
    \/ \E l \in locals : l.lumi = k /\ l.holds = "principal"

(* The lumi's principal is not back in the pool, which has one for each    *)
(* lumi that may be processed at once.                                     *)
HoldsPrincipal(k) ==
    \/ lumi[k].phase \in {"globalBegin", "pushing", "open", "globalEnd", "ended", "iovReleased"}
    \/ \E l \in locals : l.lumi = k /\ l.holds = "principal"

-----------------------------------------------------------------------------
(* beginLumiAsync() makes a status and sends its work to lumiQueue_,       *)
(* through iovQueue_ if the lumi needs another interval of validity.       *)
Free == {k \in Lumis : lumi[k].phase = "none"}
NextLumi == CHOOSE k \in Free : \A j \in Free : k <= j

BeginLumi(statuses, sync, ofRun) ==
    IF failed
      THEN lumi' = statuses /\ UNCHANGED iovHolds
      ELSE LET loaded == Items[sync].iov = iov
           IN  /\ lumi' = [statuses EXCEPT ![NextLumi] =
                              [NoLumi EXCEPT !.phase = IF loaded THEN "queued" ELSE "iov",
                                             !.sync = sync, !.run = ofRun]]
               /\ iovHolds' = IF loaded THEN iovHolds + 1 ELSE iovHolds

SetPhase(k, phase) == lumi' = [lumi EXCEPT ![k].phase = phase]
Drop(k) == SetPhase(k, "dropped") /\ failed' = TRUE

ChangeIovUnderLumis(k) == \* mutant: the interval is loaded outside of iovQueue_
    /\ lumi[k].phase = "iov"
    /\ \/ Succeeds /\ iov' = Items[lumi[k].sync].iov /\ iovHolds' = iovHolds + 1
          /\ SetPhase(k, "queued") /\ UNCHANGED failed
       \/ Fails("iov") /\ Drop(k) /\ UNCHANGED <<iov, iovHolds>>
    /\ UNCHANGED <<sourceVars, deferred, signalled, full, slots, stream, active, locals, mainVars>>

(* The functor in iovQueue_ runs once all lumis have released the interval. *)
ChangeIov(k) ==
    /\ lumi[k].phase = "iov" /\ iovHolds = 0
    /\ \/ Succeeds /\ iov' = Items[lumi[k].sync].iov /\ iovHolds' = 1
          /\ SetPhase(k, "queued") /\ UNCHANGED failed
       \/ Fails("iov") /\ Drop(k) /\ UNCHANGED <<iov, iovHolds>>
    /\ UNCHANGED <<sourceVars, deferred, signalled, full, slots, stream, active, locals, mainVars>>

(* lumiWork: nothing is done if the main thread's wait has failed already; *)
(* the pause of iovQueue_ is then never taken back.                        *)
LumiWork(k) ==
    /\ lumi[k].phase = "queued" /\ slots < ConcurrentLumis
    /\ IF failed
         THEN SetPhase(k, "dropped") /\ UNCHANGED slots
         ELSE SetPhase(k, "source") /\ slots' = slots + 1
    /\ UNCHANGED <<sourceVars, deferred, signalled, full, iov, iovHolds, stream, active, locals,
                   mainVars, failed, failures>>

(* readLuminosityBlock() reads the lumi the source is at.                  *)
ReadLumi(k) ==
    /\ lumi[k].phase = "source"
    /\ \/ Succeeds /\ lumi' = [lumi EXCEPT ![k].phase = "globalBegin", ![k].item = pos]
          /\ UNCHANGED <<failed, slots>>
       \/ Fails("read") /\ Drop(k) /\ slots' = slots - 1
    /\ UNCHANGED <<sourceVars, deferred, signalled, full, iov, iovHolds, stream, active, locals, mainVars>>

(* The modules' global begin is over.  A status whose begin has failed     *)
(* goes out of scope; its Resumer frees the slot.                          *)
GlobalBegun(k) ==
    /\ lumi[k].phase = "globalBegin"
    /\ \/ Succeeds /\ lumi' = [lumi EXCEPT ![k].phase = "pushing", ![k].begun = TRUE]
          /\ UNCHANGED <<failed, slots>>
       \/ Fails("globalBegin") /\ Drop(k) /\ slots' = slots - 1
    /\ UNCHANGED <<sourceVars, deferred, signalled, full, iov, iovHolds, stream, active, locals, mainVars>>

(* The begin of the lumi is pushed to one stream's queue after the other.  *)
PushBegin(k) ==
    /\ lumi[k].phase = "pushing"
    /\ stream' = [stream EXCEPT ![lumi[k].toPush].queue = Append(@, k)]
    /\ lumi' = [lumi EXCEPT ![k].toPush = @ + 1,
                            ![k].phase = IF lumi[k].toPush = NumberOfStreams THEN "open" ELSE @]
    /\ UNCHANGED <<sourceVars, deferred, signalled, full, queueVars, active, locals, mainVars, failed, failures>>

Returned(s) == \A l \in locals : l.stream = s => l.holds # "principal"

(* The functor in the stream's queue pauses that queue for the whole lumi. *)
(* Its local copy of the principal lives until it returns.                 *)
BeginStream(s) ==
    /\ stream[s].queue # <<>> /\ ~stream[s].paused /\ Returned(s)
    /\ LET k == Head(stream[s].queue)
       IN  /\ stream' = [stream EXCEPT ![s] = [lumi |-> k, at |-> "begin", queue |-> Tail(@.queue),
                                               paused |-> TRUE]]
           /\ locals' = locals \cup (IF "begin" \in Slow
                                       THEN {[stream |-> s, lumi |-> k, holds |-> "principal", error |-> FALSE]}
                                       ELSE {})
    /\ active' = active + 1
    /\ UNCHANGED <<sourceVars, deferred, signalled, full, queueVars, lumi, mainVars, failed, failures>>

(* After a stream's begin it asks for events, unless the begin has failed. *)
StreamBegun(s) ==
    /\ stream[s].at = "begin"
    /\ \/ Succeeds /\ stream' = [stream EXCEPT ![s].at = "next"] /\ UNCHANGED failed
       \/ Fails("streamBegin") /\ stream' = [stream EXCEPT ![s].at = "stopped"] /\ failed' = TRUE
    /\ UNCHANGED <<sourceVars, deferred, signalled, full, queueVars, lumi, active, locals, mainVars>>

-----------------------------------------------------------------------------
(* readNextEventForStream() looks at the source for lumi k: repeated lumi  *)
(* items are merged, the first of them not asked for if the lumi goes on   *)
(* after a file boundary.                                                  *)
SameRunOnly(k, i) == \* mutant: the number of the lumi is not compared
    TypeAt(i) = "lumi" /\ Items[i].run = Items[lumi[k].item].run
SameLumi(k, i) == /\ TypeAt(i) = "lumi"
                  /\ Items[i].run = Items[lumi[k].item].run
                  /\ Items[i].lumi = Items[lumi[k].item].lumi
PastLumi(k, i) == CHOOSE j \in i..(Len(Items) + 1) :
                     ~SameLumi(k, j) /\ \A m \in i..(j - 1) : SameLumi(k, m)

Found(k) ==
    LET first == IF lumi[k].continuing THEN pos ELSE After(pos)
        type == IF signalled /\ ~lumi[k].continuing THEN "stop" ELSE TypeAt(first)
    IN  IF type = "lumi" /\ SameLumi(k, first)
          THEN IF signalled THEN [pos |-> first + 1, type |-> "stop"]
                            ELSE [pos |-> PastLumi(k, first), type |-> TypeAt(PastLumi(k, first))]
          ELSE [pos |-> first, type |-> type]

(* What the status remembers of it.  A file or the same run again stops    *)
(* the streams; the lumi may still go on.                                  *)
EndsLumi(k, found) == \/ found.type \in {"stop", "lumi"}
                      \/ found.type = "run" /\ Items[found.pos].run # Items[lumi[k].item].run
Noted(k, found) ==
    [lumi EXCEPT ![k].continuing = FALSE,
                 ![k].next = IF found.type = "lumi" THEN found.pos ELSE @,
                 ![k].stop = (found.type # "event"),
                 ![k].ending = EndsLumi(k, found)]

(* No event for the stream: of a lumi that ends, the first stream to find  *)
(* out starts the next one; all of them end it.                            *)
StopStream(s, statuses) ==
    LET k == stream[s].lumi
    IN  IF statuses[k].ending
          THEN /\ IF ~deferred /\ last' = "lumi" /\ ~statuses[k].startedNext
                    THEN BeginLumi([statuses EXCEPT ![k].startedNext = TRUE],
                                   statuses[k].next, statuses[k].run)
                    ELSE lumi' = statuses /\ UNCHANGED iovHolds
               /\ stream' = [stream EXCEPT ![s].at = "end"]
          ELSE /\ stream' = [stream EXCEPT ![s].at = "stopped"]
               /\ lumi' = statuses /\ UNCHANGED iovHolds

(* An exception of the read is deferred, and the stream stops.             *)
ReadEvent(s, statuses) ==
    /\ lumi' = statuses
    /\ \/ Succeeds /\ stream' = [stream EXCEPT ![s].at = "event"] /\ UNCHANGED deferred
       \/ Fails("readEvent") /\ stream' = [stream EXCEPT ![s].at = "stopped"] /\ deferred' = TRUE
    /\ UNCHANGED iovHolds

(* handleNextEventForStreamAsync(), inside the source's queue.             *)
NextEvent(s) ==
    /\ stream[s].at = "next"
    /\ LET k == stream[s].lumi
       IN  IF full \/ deferred \/ lumi[k].stop
             THEN UNCHANGED <<sourceVars, deferred, failures>> /\ StopStream(s, lumi)
             ELSE \/ /\ pos' = Found(k).pos /\ last' = Found(k).type
                     /\ IF Found(k).type = "event"
                          THEN ReadEvent(s, Noted(k, Found(k)))
                          ELSE StopStream(s, Noted(k, Found(k))) /\ UNCHANGED <<deferred, failures>>
                  \/ /\ Fails("nextItem") /\ deferred' = TRUE
                     /\ stream' = [stream EXCEPT ![s].at = "stopped"]
                     /\ UNCHANGED <<sourceVars, lumi, iovHolds>>
    /\ UNCHANGED <<signalled, full, iov, slots, active, locals, mainVars, failed>>

(* The modules are done with the event; it may be the last one that the    *)
(* output modules want.  A first failure is deferred and ends the wait.    *)
EventDone(s) ==
    /\ stream[s].at = "event"
    /\ \/ Succeeds /\ stream' = [stream EXCEPT ![s].at = "next"]
          /\ full' \in {full} \cup (IF "limit" \in Early THEN {TRUE} ELSE {})
          /\ UNCHANGED <<deferred, failed>>
       \/ Fails("event") /\ stream' = [stream EXCEPT ![s].at = "stopped"]
          /\ deferred' = TRUE /\ failed' = (failed \/ ~deferred) /\ UNCHANGED full
    /\ UNCHANGED <<sourceVars, signalled, queueVars, lumi, active, locals, mainVars>>

-----------------------------------------------------------------------------
Local(s, k, holds, error) == [stream |-> s, lumi |-> k, holds |-> holds, error |-> error]
Replace(l, holds) == (locals \ {l}) \cup {[l EXCEPT !.holds = holds]}

(* The stream's end of the lumi is over: it gives up its status and opens  *)
(* its queue.                                                              *)
StreamEnded(s) ==
    /\ stream[s].at = "end"
    /\ \E error \in BOOLEAN :
          /\ IF error THEN Fails("streamEnd") ELSE Succeeds
          /\ locals' = locals \cup {Local(s, stream[s].lumi, "finish", error)}
    /\ stream' = [stream EXCEPT ![s] = [@ EXCEPT !.lumi = 0, !.at = "idle", !.paused = FALSE]]
    /\ active' = active - 1
    /\ UNCHANGED <<sourceVars, deferred, signalled, full, queueVars, lumi, mainVars, failed>>

FirstFinishes(l) == \* mutant: the global end does not wait for all streams
    /\ l.holds = "finish"
    /\ lumi' = [lumi EXCEPT ![l.lumi].left = @ - 1,
                            ![l.lumi].phase = IF @ = "open" THEN "globalEnd" ELSE @]
    /\ locals' = Replace(l, IF lumi[l.lumi].phase = "open" THEN "reportLast" ELSE "report")
    /\ UNCHANGED <<sourceVars, deferred, signalled, full, queueVars, stream, active, mainVars, failed, failures>>

(* The last stream starts the global end and passes its status on to it.   *)
StreamFinished(l) ==
    /\ l.holds = "finish"
    /\ LET isLast == lumi[l.lumi].left = 1
       IN  /\ lumi' = [lumi EXCEPT ![l.lumi].left = @ - 1,
                                   ![l.lumi].phase = IF isLast THEN "globalEnd" ELSE @]
           /\ locals' = Replace(l, IF isLast THEN "reportLast" ELSE "report")
    /\ UNCHANGED <<sourceVars, deferred, signalled, full, queueVars, stream, active, mainVars, failed, failures>>

(* An exception of the stream's end is reported only now.                  *)
StreamReports(l) ==
    /\ l.holds \in {"report", "reportLast"}
    /\ failed' = (failed \/ l.error)
    /\ locals' = IF l.holds = "report" /\ "end" \in Slow THEN Replace(l, "status") ELSE locals \ {l}
    /\ UNCHANGED <<sourceVars, deferred, signalled, full, queueVars, lumi, stream, active, mainVars, failures>>

ReportLate(k) == \* mutant: the exception is set when all is released
    /\ lumi[k].phase = "globalEnd"
    /\ \E error \in BOOLEAN : /\ IF error THEN Fails("globalEnd") ELSE Succeeds
                              /\ lumi' = [lumi EXCEPT ![k].phase = "ended", ![k].endFailed = error]
    /\ UNCHANGED <<sourceVars, deferred, signalled, full, queueVars, stream, active, locals, mainVars, failed>>

(* The modules' global end is over.  A failure is set "early to prevent a  *)
(* beginLumi from running".                                                *)
GlobalEnded(k) ==
    /\ lumi[k].phase = "globalEnd"
    /\ \E error \in BOOLEAN : /\ IF error THEN Fails("globalEnd") ELSE Succeeds
                              /\ lumi' = [lumi EXCEPT ![k].phase = "ended", ![k].endFailed = error]
                              /\ failed' = (failed \/ error)
    /\ UNCHANGED <<sourceVars, deferred, signalled, full, queueVars, stream, active, locals, mainVars>>

KeepIov(k) == \* mutant: the interval of validity is never released
    /\ lumi[k].phase = "ended"
    /\ SetPhase(k, "iovReleased")
    /\ UNCHANGED <<sourceVars, deferred, signalled, full, queueVars, stream, active, locals, mainVars, failed, failures>>

(* Then everything the lumi holds is released, in this order.              *)
ReleaseIov(k) ==
    /\ lumi[k].phase = "ended"
    /\ SetPhase(k, "iovReleased") /\ iovHolds' = iovHolds - 1
    /\ UNCHANGED <<sourceVars, deferred, signalled, full, iov, slots, stream, active, locals, mainVars, failed, failures>>

ReleasePrincipal(k) ==
    /\ lumi[k].phase = "iovReleased"
    /\ SetPhase(k, "principalReleased")
    /\ UNCHANGED <<sourceVars, deferred, signalled, full, queueVars, stream, active, locals, mainVars, failed, failures>>

ReleaseSlot(k) ==
    /\ lumi[k].phase = "principalReleased"
    /\ SetPhase(k, "slotReleased") /\ slots' = slots - 1
    /\ UNCHANGED <<sourceVars, deferred, signalled, full, iov, iovHolds, stream, active, locals, mainVars, failed, failures>>

(* The status lets go of the run, then the main thread's wait may end.     *)
ReleaseRun(k) ==
    /\ lumi[k].phase = "slotReleased"
    /\ SetPhase(k, "done")
    /\ failed' = (failed \/ lumi[k].endFailed)
    /\ UNCHANGED <<sourceVars, deferred, signalled, full, queueVars, stream, active, locals, mainVars, failures>>

(* A functor returns and its local copies go out of scope: of the          *)
(* principal, or of the last status that kept a run that main has left.    *)
Kept(id, copies) == \/ \E k \in Lumis : Alive(k) /\ lumi[k].run = id
                    \/ \E l \in copies : lumi[l.lumi].run = id
EndIov(number) == Items[CHOOSE i \in DOMAIN Items : /\ Items[i].run = number
                                                   /\ \A j \in DOMAIN Items : Items[j].run = number => j <= i].iov

(* ~RunResources(): endUnfinishedRun() loads the interval at the end of the *)
(* run, ends it and takes it out of the cache.  An exception, also that the *)
(* run is not in the cache, is deferred, unless the main thread is unwinding *)
(* from another one.                                                       *)
RunEnds(number) ==
    IF cached = 0 \/ Items[cached].run # number
      THEN deferred' = (deferred \/ main.outcome = "none") /\ UNCHANGED <<cached, lost, iov, failures>>
      ELSE \/ Succeeds /\ cached' = 0 /\ iov' = EndIov(number) /\ UNCHANGED <<lost, deferred>>
           \/ /\ Fails("endRun") /\ lost' = TRUE /\ iov' \in {iov, EndIov(number)}
              /\ deferred' = (deferred \/ main.outcome = "none")
              /\ UNCHANGED cached

Return(l) ==
    \/ /\ l.holds = "principal"
       /\ locals' = Replace(l, "status")
       /\ UNCHANGED <<iov, cached, lost, deferred, failures>>
    \/ /\ l.holds = "status"
       /\ locals' = locals \ {l}
       /\ LET id == lumi[l.lumi].run
          IN  IF run.id = id \/ Kept(id, locals')
                THEN UNCHANGED <<iov, cached, lost, deferred, failures>>
                ELSE RunEnds(Items[id].run)

FunctorReturns(l) ==
    /\ Return(l)
    /\ UNCHANGED <<sourceVars, signalled, full, iovHolds, slots, lumi, stream, active,
                   main, files, run, failed>>

-----------------------------------------------------------------------------
(* The main thread.  FilesProcessor and RunsInFileProcessor ask for the    *)
(* next transition ...                                                     *)
rest == <<signalled, full, iovHolds, slots, lumi, stream, active, locals, failed>>
Goto(pc) == main' = [main EXCEPT !.pc = pc]
EndLumiThen(pc) == main' = [main EXCEPT !.pc = "endLumi", !.then = pc]
At(pc) == main.pc = pc
Chosen(type) == At("choose") /\ main.next = type

(* An exception leaves processFiles(); ~FilesProcessor() ends the lumi,    *)
(* then the run, then closes the files.                                    *)
Throw(what) == main' = [main EXCEPT !.pc = "endLumi", !.then = "leave", !.outcome = what]

Ask == /\ At("ask")
       /\ \/ /\ Succeeds /\ NextTransition
             /\ main' = [main EXCEPT !.pc = "choose", !.next = last']
          \/ ~deferred /\ Fails("nextItem") /\ Throw("exception") /\ UNCHANGED sourceVars
       /\ UNCHANGED <<rest, deferred, iov, files, runVars>>

(* ... open the first file, or go to the next one, which ends the run if   *)
(* outputs are closed, ...                                                 *)
GotoFile == /\ Chosen("file")
            /\ IF files.closed = "nobody" THEN Goto("readFile")
               ELSE Goto("closeInput") \/ (CloseOutputs /\ EndLumiThen("file"))
            /\ UNCHANGED <<rest, deferred, failures, sourceVars, iov, files, runVars>>

(* ... merge a run that goes on, or end the lumi before a new run, ...     *)
GotoRun == /\ Chosen("run")
           /\ IF run.id # 0 /\ run.number = Items[pos].run
                THEN (Goto("ask") /\ Succeeds) \/ (Throw("exception") /\ Fails("readRun"))
                ELSE (IF run.id # 0 THEN EndLumiThen("run") ELSE Goto("run")) /\ Succeeds
           /\ UNCHANGED <<rest, deferred, sourceVars, iov, files, runVars>>

(* ... and process lumis: begin one, or let the one go on that all streams *)
(* share.                                                                  *)
GotoLumi ==
    /\ Chosen("lumi")
    /\ failed' = FALSE /\ Goto("lumis")
    /\ IF active > 0
         THEN /\ lumi' = [lumi EXCEPT ![stream[1].lumi].continuing = TRUE, ![stream[1].lumi].stop = FALSE]
              /\ stream' = [s \in Streams |-> [stream[s] EXCEPT !.at = "next"]]
              /\ UNCHANGED iovHolds
         ELSE BeginLumi(lumi, pos, run.id) /\ UNCHANGED stream
    /\ UNCHANGED <<sourceVars, deferred, signalled, full, iov, slots, active, locals, files, runVars, failures>>

LeaveLumisOpen == \* mutant: an exception skips endUnfinishedLumi()
    /\ At("lumis") /\ ~Held
    /\ main' = IF failed THEN [main EXCEPT !.pc = "leave", !.outcome = "exception"]
                         ELSE [main EXCEPT !.pc = "choose", !.next = LastTransition]
    /\ UNCHANGED <<rest, deferred, failures, sourceVars, iov, files, runVars>>

(* processLumis() returns the last transition or throws.                   *)
LumisDone == /\ At("lumis") /\ ~Held
             /\ IF failed THEN Throw("exception")
                          ELSE main' = [main EXCEPT !.pc = "choose", !.next = LastTransition]
             /\ UNCHANGED <<rest, deferred, failures, sourceVars, iov, files, runVars>>

(* Anything else ends the loops.                                           *)
Finish == /\ Chosen("event") \/ Chosen("stop")
          /\ EndLumiThen("leave")
          /\ UNCHANGED <<rest, deferred, failures, sourceVars, iov, files, runVars>>

(* endUnfinishedLumi(): the streams that still have a lumi end it.  An     *)
(* exception is deferred.                                                  *)
EndUnfinishedLumi ==
    /\ At("endLumi") /\ Goto("endWait")
    /\ failed' = FALSE
    /\ stream' = [s \in Streams |-> IF stream[s].lumi # 0 THEN [stream[s] EXCEPT !.at = "end"] ELSE stream[s]]
    /\ UNCHANGED <<sourceVars, deferred, signalled, full, queueVars, lumi, active, locals, files, runVars, failures>>

UnfinishedLumiEnded ==
    /\ At("endWait") /\ ~Held
    /\ deferred' = (deferred \/ failed) /\ failed' = FALSE
    /\ Goto(main.then)
    /\ UNCHANGED <<sourceVars, signalled, full, queueVars, lumi, stream, active, locals, files, runVars, failures>>

(* The main thread lets go of its run, which ends with its last holder.    *)
LeaveRun == IF run.id = 0 \/ Kept(run.id, locals) THEN UNCHANGED <<cached, lost, iov, deferred, failures>>
            ELSE RunEnds(run.number)

(* At a file boundary; the files are changed although the end of the run   *)
(* may have thrown.                                                        *)
CloseRun == /\ At("file") /\ Goto("closeBoth")
            /\ LeaveRun /\ run' = NoRun
            /\ UNCHANGED <<rest, sourceVars, files>>

(* The new run replaces the old one, unless the end of the lumi has thrown, *)
(* and is read although the end of the old run may have.                   *)
NewRun ==
    /\ At("run")
    /\ IF run.id # 0 /\ LastTransition = "stop"
         THEN Goto("ask") /\ UNCHANGED <<run, cached, lost, iov, deferred, failures>>
         ELSE /\ run' = [id |-> pos, number |-> Items[pos].run]
              /\ LeaveRun /\ Goto("readRun")
    /\ UNCHANGED <<rest, sourceVars, files>>

(* readRun() throws if the old run is still in the cache.                  *)
ReadRun ==
    /\ At("readRun")
    /\ IF cached # 0 THEN Throw("illegalRun") /\ Succeeds /\ UNCHANGED cached
       ELSE \/ Succeeds /\ cached' = pos /\ Goto("beginRun")
            \/ Fails("readRun") /\ Throw("exception") /\ UNCHANGED cached
    /\ UNCHANGED <<rest, deferred, sourceVars, iov, files, run, lost>>

BeginRun ==
    /\ At("beginRun")
    /\ \/ Succeeds /\ iov' = Items[pos].iov /\ Goto("ask")
       \/ Fails("beginRun") /\ iov' \in {iov, Items[pos].iov} /\ Throw("exception")
    /\ UNCHANGED <<rest, deferred, sourceVars, files, runVars>>

-----------------------------------------------------------------------------
(* A step of changing files; it fails before or after it has done its work. *)
FileStep(from, transition, done, to) ==
    /\ At(from)
    /\ \/ Succeeds /\ files' = done /\ Goto(to)
       \/ Fails(transition) /\ files' \in {files, [done EXCEPT !.closed = files.closed]} /\ Throw("exception")
    /\ UNCHANGED <<rest, deferred, sourceVars, iov, runVars>>

CloseInput == \/ FileStep("closeInput", "closeInput", [files EXCEPT !.input = FALSE], "readFile")
              \/ FileStep("closeBoth", "closeInput", [files EXCEPT !.input = FALSE], "closeOutput")
CloseOutput == FileStep("closeOutput", "closeOutput", [files EXCEPT !.output = FALSE], "readFile")
ReadFile == FileStep("readFile", "readFile", [files EXCEPT !.input = TRUE],
                     IF files.output THEN "ask" ELSE "openOutput")
(* FileResources are made when the first files are all open.               *)
OpenOutput == FileStep("openOutput", "openOutput", [files EXCEPT !.output = TRUE, !.closed = "notYet"], "ask")

(* runs_.normalEnd(), or the members of FilesProcessor are destroyed.      *)
LeaveFiles == /\ At("leave") /\ Goto("closeFiles")
              /\ LeaveRun /\ run' = NoRun
              /\ UNCHANGED <<rest, sourceVars, files>>

(* ~FileResources() closes input and outputs.  An exception keeps it from  *)
(* the rest, and is deferred if there is no other.                         *)
CloseFiles ==
    /\ At("closeFiles") /\ Goto("end")
    /\ IF files.closed = "nobody" THEN UNCHANGED <<files, deferred, failures>>
       ELSE \/ /\ Succeeds /\ UNCHANGED deferred
               /\ files' = [input |-> FALSE, output |-> FALSE, closed |-> "closed"]
            \/ /\ deferred' = (deferred \/ main.outcome = "none")
               /\ \/ Fails("closeInput") /\ files' = [files EXCEPT !.closed = "failed"]
                  \/ Fails("closeOutput") /\ files' = [files EXCEPT !.closed = "failed", !.input = FALSE]
    /\ UNCHANGED <<rest, sourceVars, iov, runVars>>

Outcome == IF main.outcome # "none" THEN main.outcome
           ELSE IF deferred THEN "exception"
           ELSE IF main.next = "stop" THEN "success" ELSE "badTransition"

EndJob == /\ At("end")
          /\ main' = [main EXCEPT !.pc = "done", !.outcome = Outcome]
          /\ UNCHANGED <<rest, deferred, failures, sourceVars, iov, files, runVars>>

Signal == /\ "signal" \in Early /\ ~signalled /\ signalled' = TRUE
          /\ UNCHANGED <<sourceVars, deferred, full, queueVars, lumi, stream, active, locals, mainVars, failed, failures>>

-----------------------------------------------------------------------------
Main == \/ Ask \/ GotoFile \/ GotoRun \/ GotoLumi \/ LumisDone \/ Finish
        \/ EndUnfinishedLumi \/ UnfinishedLumiEnded \/ CloseRun \/ NewRun \/ ReadRun \/ BeginRun
        \/ CloseInput \/ CloseOutput \/ ReadFile \/ OpenOutput \/ LeaveFiles \/ CloseFiles \/ EndJob

Lumi(k) == \/ ChangeIov(k) \/ LumiWork(k) \/ ReadLumi(k) \/ GlobalBegun(k) \/ PushBegin(k)
           \/ GlobalEnded(k) \/ ReleaseIov(k) \/ ReleasePrincipal(k) \/ ReleaseSlot(k) \/ ReleaseRun(k)

Stream(s) == BeginStream(s) \/ StreamBegun(s) \/ NextEvent(s) \/ EventDone(s) \/ StreamEnded(s)

Functor == \E l \in locals : StreamFinished(l) \/ StreamReports(l) \/ FunctorReturns(l)

Next == Main \/ Signal \/ Functor \/ (\E k \in Lumis : Lumi(k)) \/ (\E s \in Streams : Stream(s))

Spec == Init /\ [][Next]_vars

(* TBB keeps its workers busy, modules return from every transition, and   *)
(* every thread goes on.                                                   *)
FairSpec == /\ Spec
            /\ WF_vars(Main) /\ WF_vars(Functor)
            /\ \A k \in Lumis : WF_vars(Lumi(k))
            /\ \A s \in Streams : WF_vars(Stream(s))

-----------------------------------------------------------------------------
Statuses == [phase : Phases, sync : Nat, item : Nat, run : Nat, toPush : 1..(NumberOfStreams + 1),
             left : 0..NumberOfStreams, stop : BOOLEAN, ending : BOOLEAN, continuing : BOOLEAN,
             startedNext : BOOLEAN, next : Nat, begun : BOOLEAN, endFailed : BOOLEAN]
StreamStates == [lumi : Lumis \cup {0}, queue : Seq(Lumis), paused : BOOLEAN,
                 at : {"idle", "begin", "next", "event", "end", "stopped"}]
Copies == [stream : Streams, lumi : Lumis, error : BOOLEAN,
           holds : {"principal", "finish", "report", "reportLast", "status"}]
MainPlaces == {"ask", "choose", "lumis", "endLumi", "endWait", "file", "run", "readRun", "beginRun", "closeInput",
               "closeBoth", "closeOutput", "readFile", "openOutput", "leave", "closeFiles", "end", "done"}
MainStates == [pc : MainPlaces, next : ItemTypes \cup {"stop"}, then : {"file", "run", "leave"},
               outcome : {"none", "success", "exception", "illegalRun", "badTransition"}]
TypeOK ==
    /\ pos \in 0..(Len(Items) + 1) /\ last \in ItemTypes \cup {"stop"}
    /\ deferred \in BOOLEAN /\ signalled \in BOOLEAN /\ full \in BOOLEAN /\ failed \in BOOLEAN
    /\ iov \in Nat /\ iovHolds \in 0..Cardinality(Lumis) /\ slots \in 0..ConcurrentLumis
    /\ lumi \in [Lumis -> Statuses]
    /\ stream \in [Streams -> StreamStates]
    /\ active \in 0..NumberOfStreams /\ locals \subseteq Copies
    /\ main \in MainStates
    /\ files \in [input : BOOLEAN, output : BOOLEAN, closed : {"nobody", "notYet", "closed", "failed"}]
    /\ run \in [id : Nat, number : Nat] /\ cached \in DOMAIN Items \cup {0} /\ lost \in BOOLEAN
    /\ failures \in 0..MaxFailures

(* readLuminosityBlock(): "assert(lbp)".  A lumi that may be read finds a  *)
(* principal that no other lumi uses.                                      *)
PrincipalAvailable ==
    /\ TypeOK
    /\ (\E k \in Lumis : lumi[k].phase = "source")
        => Cardinality({k \in Lumis : HoldsPrincipal(k)}) < ConcurrentLumis

(* The lumi that is read is the one it was begun for, although the source  *)
(* is only looked at later: no stream has moved it on in the meantime.  And *)
(* a stream is given events of its own lumi only.                          *)
EventsInTheirLumi ==
    [][/\ \A k \in Lumis : lumi'[k].item # 0 => lumi'[k].item = lumi'[k].sync
       /\ \A s \in Streams : stream[s].at = "next" /\ stream'[s].at = "event"
           => /\ Items[pos'].run = Items[lumi[stream[s].lumi].item].run
              /\ Items[pos'].lumi = Items[lumi[stream[s].lumi].item].lumi]_vars

(* From the moment it leaves iovQueue_ until it releases it a lumi sees    *)
(* its own interval of validity, whoever else changes it.                  *)
IovStable ==
    \A k \in Lumis : Alive(k) /\ lumi[k].phase \in Phases \ {"iov", "iovReleased", "principalReleased", "slotReleased"}
        => iov = Items[lumi[k].sync].iov

(* "all streams are sharing the same status at the moment": if a lumi      *)
(* goes on after processLumis() has returned, every stream is in it and    *)
(* none has ended it.                                                      *)
AllStreamsContinue ==
    Chosen("lumi") /\ active > 0
        => /\ active = NumberOfStreams
           /\ \A s \in Streams : stream[s].lumi = stream[1].lumi /\ stream[s].at = "stopped"
           /\ ~lumi[stream[1].lumi].ending

(* The global end of a lumi finds no stream in the lumi or on its way to   *)
(* it, and each lumi is ended once.                                        *)
GlobalEndIsLast ==
    \A k \in Lumis : lumi[k].phase \in {"globalEnd", "ended"}
        => /\ lumi[k].left = 0
           /\ \A s \in Streams : stream[s].lumi # k /\ \A i \in DOMAIN stream[s].queue : stream[s].queue[i] # k
           /\ \A l \in locals : l.lumi = k => l.holds # "finish"

(* "set the exception early to prevent a beginLumi from running": a lumi   *)
(* that waits while another one's global end fails is not begun.           *)
NoLumiAfterFailedEnd ==
    [][\A k \in Lumis : lumi[k].phase = "queued" /\ lumi'[k].phase = "source"
           => \A j \in Lumis : ~lumi[j].endFailed]_vars

(* Whatever has thrown: when the job is over every stream has left, every  *)
(* lumi whose global begin succeeded has had its global end, no slot is in *)
(* use, the run is out of the cache unless its own end has thrown, and all  *)
(* files are closed unless closing them has thrown, or the first ones could *)
(* not be opened.  A job in which anything has thrown does not end as a    *)
(* success, and the exception it ends with is another than the one thrown  *)
(* only if that came from the end of a run; a job that was not stopped early *)
(* has read every item.                                                    *)
JobLeavesNothingOpen ==
    At("done") =>
       /\ active = 0 /\ slots = 0
       /\ \A k \in Lumis : lumi[k].begun => lumi[k].phase = "done"
       /\ cached # 0 => lost
       /\ files.input \/ files.output => files.closed \in {"nobody", "failed"}
       /\ main.outcome = "illegalRun" => lost
       /\ main.outcome = "success" => failures = 0 /\ (signalled \/ full \/ pos = Len(Items) + 1)

(* "The job is terminating successfully because each output module has     *)
(* reached its configured limit."                                          *)
EndsOrderly == At("done") => main.outcome # "badTransition"

(* "The function runToCompletion will run until the job is complete."      *)
RunsToCompletion == <>At("done")

(* A lumi waits for one that is open but has a stream which has stopped    *)
(* without ending it: only the main thread could, and it waits, too.       *)
Blocked == /\ At("lumis")
           /\ \E k \in Lumis : \/ lumi[k].phase \in {"iov", "queued"}
                              \/ \E s \in Streams : stream[s].queue # <<>> /\ Head(stream[s].queue) = k
           /\ \E s \in Streams : stream[s].at = "stopped"

(* The job is complete in the end, whatever throws, unless a stream that   *)
(* has stopped blocks it.                                                  *)
CompletesUnlessBlocked == <>(At("done") \/ Blocked)
=============================================================================

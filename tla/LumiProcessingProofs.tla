------------------------ MODULE LumiProcessingProofs ------------------------
(***************************************************************************)
(* Proofs about LumiProcessing for any source, any number of streams and   *)
(* of concurrent lumis, and whatever throws: the end of a lumi is the last *)
(* of it, the streams of a lumi that goes on are all in it, none is begun  *)
(* after the end of another has failed, each has its interval of validity  *)
(* and its own events and, if no functor is late, a principal; a job       *)
(* leaves nothing open, and waits for ever only if a stream that has       *)
(* stopped blocks a lumi.                                                  *)
(***************************************************************************)
EXTENDS LumiProcessing, FiniteSetTheorems, WellFoundedInduction, TLAPS

Unread == {"iov", "queued", "source"}
Unpushed == {"none", "dropped", "globalBegin"} \cup Unread
Closed == {"globalEnd", "ended", "iovReleased", "principalReleased", "slotReleased", "done"}
Made(k) == lumi[k].phase # "none"

(* What the phase of a lumi says of its status.  A lumi that waits to be   *)
(* read keeps the source at it.                                            *)
Phased ==
    \A k \in Lumis :
        /\ ~Made(k) => lumi[k] = NoLumi
        /\ lumi[k].phase \in Unpushed <=> ~lumi[k].begun
        /\ lumi[k].phase \in Unpushed => lumi[k].toPush = 1
        /\ lumi[k].phase = "pushing" => lumi[k].toPush <= NumberOfStreams
        /\ lumi[k].phase \in Closed \cup {"open"} => lumi[k].toPush = NumberOfStreams + 1
        /\ lumi[k].phase \in Closed <=> lumi[k].left = 0
        /\ lumi[k].phase \in Unread => pos = lumi[k].sync
        /\ lumi[k].item \in {0, lumi[k].sync}
        /\ lumi[k].begun => lumi[k].item = lumi[k].sync
        /\ lumi[k].phase = "globalBegin" => lumi[k].item = lumi[k].sync
        /\ lumi[k].startedNext => lumi[k].ending
        /\ lumi[k].ending => lumi[k].stop /\ ~lumi[k].continuing

(* Lumis are begun in the source's order, and the next one only by the     *)
(* streams of one that ends, or when none is left.                         *)
Begins(k) == lumi[k].sync \in 1..Len(Items) /\ Items[lumi[k].sync].type = "lumi" /\ lumi[k].sync <= pos
Ordered ==
    /\ \A k \in Lumis : Made(k) => Begins(k)
    /\ \A j, k \in Lumis : j < k /\ Made(k) =>
          /\ Made(j) /\ lumi[j].sync < lumi[k].sync
          /\ lumi[j].startedNext \/ ~Alive(j)

(* A stream that has not ended a lumi is in one place only: its begin is   *)
(* still to be pushed or in the stream's queue, the stream is in the lumi, *)
(* or its end is to be counted.                                            *)
ToCome(s, k) == s >= lumi[k].toPush
Queued(s, k) == \E i \in 1..Len(stream[s].queue) : stream[s].queue[i] = k
Within(s, k) == stream[s].lumi = k
Finishing(l, s, k) == l.stream = s /\ l.lumi = k /\ l.holds = "finish"
Finishes(s, k) == \E l \in locals : Finishing(l, s, k)
Pends(s, k) == ToCome(s, k) \/ Queued(s, k) \/ Within(s, k) \/ Finishes(s, k)
Placed ==
    \A s \in Streams, k \in Lumis :
        /\ ToCome(s, k) => ~Queued(s, k) /\ ~Within(s, k) /\ ~Finishes(s, k)
        /\ Queued(s, k) => ~Within(s, k) /\ ~Finishes(s, k)
        /\ Within(s, k) => ~Finishes(s, k)
        /\ \A i, j \in 1..Len(stream[s].queue) :
              stream[s].queue[i] = k /\ stream[s].queue[j] = k => i = j
        /\ \A l, m \in locals : Finishing(l, s, k) /\ Finishing(m, s, k) => l = m
Counted == \A k \in Lumis : lumi[k].left = Cardinality({s \in Streams : Pends(s, k)})

(* A stream's queue is paused while the stream is in a lumi. *)
Occupied ==
    /\ \A s \in Streams : /\ stream[s].lumi = 0 <=> stream[s].at = "idle"
                          /\ stream[s].lumi = 0 <=> ~stream[s].paused
    /\ active = Cardinality({s \in Streams : stream[s].lumi # 0})

(* Where the main thread is tells what may be under way ... *)
Quiet == main.pc \notin {"lumis", "endWait"} => ~Held
Ended ==
    /\ At("endWait") => /\ \A k \in Lumis : Alive(k) => lumi[k].phase \in Closed \cup {"open"}
                        /\ \A s \in Streams : stream[s].at \in {"idle", "end"} /\ stream[s].queue = <<>>
    /\ main.pc \in {"file", "closeBoth", "closeOutput", "leave", "closeFiles", "end", "done"}
         => \A k \in Lumis : ~Alive(k)

(* ... and where the source is.                                            *)
Fresh == TypeAt(pos) = "lumi" /\ \A k \in Lumis : Made(k) => lumi[k].sync < pos
AtSource ==
    /\ last # "stop" => last = TypeAt(pos)
    /\ \/ Chosen("run") \/ main.pc \in {"run", "readRun", "beginRun"}
       \/ main.pc \in {"endLumi", "endWait"} /\ main.then = "run"
       => TypeAt(pos) = "run"
    /\ Chosen("lumi") => TypeAt(pos) = "lumi" /\ ((full /\ active > 0) \/ Fresh)

(* Unless main ends it, no stream has left a lumi that does not end.       *)
Remains(s, k) == ToCome(s, k) \/ Queued(s, k) \/ (Within(s, k) /\ stream[s].at # "end")
Remaining == ~At("endWait") => \A k \in Lumis : Alive(k) /\ ~lumi[k].ending => \A s \in Streams : Remains(s, k)

(* What the streams have found while main waits for them. *)
Boundary == last \in {"file", "run"}
Noticed(k) ==
    /\ lumi[k].stop /\ ~lumi[k].ending => Boundary
    /\ lumi[k].ending /\ ~lumi[k].startedNext => deferred \/ last # "lumi"
    /\ lumi[k].continuing => full \/ deferred \/ Fresh
Stopped(k) == ~lumi[k].ending /\ (full \/ (lumi[k].stop /\ Boundary))
AtLumis ==
    At("lumis") =>
        /\ \A k \in Lumis : Alive(k) => Noticed(k)
        /\ \A s \in Streams : stream[s].at = "stopped" => failed \/ deferred \/ Stopped(stream[s].lumi)

(* A lumi that has been found has been begun, unless something has thrown. *)
Handed == At("lumis") => \/ failed \/ deferred \/ last # "lumi" \/ Fresh
                         \/ \E k \in Lumis : Alive(k) /\ ~lumi[k].ending

(* All streams have stopped in the lumi that goes on. *)
Together == active = 0 \/ \A s \in Streams : /\ Within(s, stream[1].lumi) /\ stream[s].at = "stopped"
                                             /\ ~lumi[stream[1].lumi].ending
Parked ==
    \/ main.pc \in {"closeInput", "readFile", "openOutput", "ask", "run", "readRun", "beginRun"}
    \/ Chosen("file") \/ Chosen("run") \/ Chosen("lumi")
    => Together

(* The resources of the lumis are counted.  A lumi that is dropped may     *)
(* leave iovQueue_ paused.                                                 *)
Slotted == {"source", "globalBegin", "pushing", "open", "globalEnd", "ended", "iovReleased", "principalReleased"}
Slots == slots = Cardinality({k \in Lumis : lumi[k].phase \in Slotted})
Pausing == {"queued", "source", "globalBegin", "pushing", "open", "globalEnd", "ended"}
Pausers == {k \in Lumis : lumi[k].phase \in Pausing}
Pauses == \E H \in SUBSET Lumis :
              /\ Pausers \subseteq H /\ \A k \in H \ Pausers : lumi[k].phase = "dropped"
              /\ iovHolds = Cardinality(H)

Statused == TypeOK /\ Phased /\ Ordered /\ Placed /\ Counted /\ Occupied
Scheduled == Quiet /\ Ended /\ AtSource /\ Remaining /\ AtLumis /\ Parked
IInv == Statused /\ Scheduled /\ Slots /\ Pauses

-----------------------------------------------------------------------------
(* Of any sets of elements of a finite set some are minimal: what stands   *)
(* for induction over a finite set here.                                   *)
LEMMA MinimalSet ==
    ASSUME NEW S, IsFiniteSet(S), NEW F \in SUBSET SUBSET S, F # {}
    PROVE  \E A \in F : \A B \in F : B \subseteq A => B = A
<1>1. IsWellFoundedOn(StrictSubsetOrdering(S), SUBSET S)
  BY FS_StrictSubsetOrderingWellFounded, FS_FiniteSubsetsOfFinite
<1>2. \E A \in F : \A B \in F : <<B, A>> \notin StrictSubsetOrdering(S)
  BY <1>1, WFMin
<1> QED BY <1>2 DEF StrictSubsetOrdering

(* Some natural numbers have a least one, ...                              *)
LEMMA Least ==
    ASSUME NEW S \in SUBSET Nat, S # {}
    PROVE  \E k \in S : \A j \in S : k <= j
<1>1. PICK n \in S : TRUE
  OBVIOUS
<1>2. PICK T : T = 0..n
  OBVIOUS
<1>3. IsFiniteSet(T)
  BY <1>1, <1>2, FS_Interval
<1>4. PICK F : F = {A \in SUBSET T : \E k \in S : k <= n /\ A = 0..k}
  OBVIOUS
<1>5. F # {} /\ F \in SUBSET SUBSET T
  BY <1>1, <1>2, <1>4
<1>6. \E A \in F : \A B \in F : B \subseteq A => B = A
  BY <1>3, <1>5, MinimalSet
<1>7. PICK A \in F : \A B \in F : B \subseteq A => B = A
  BY <1>6
<1>8. PICK k \in S : k <= n /\ A = 0..k
  BY <1>4, <1>7
<1>9. ASSUME NEW j \in S, j < k PROVE FALSE
  <2>1. 0..j \in F /\ 0..j \subseteq A
    BY <1>2, <1>4, <1>8, <1>9
  <2>2. 0..j = 0..k
    BY <1>7, <1>8, <2>1
  <2>3. k \in 0..k /\ k \notin 0..j
    BY <1>8, <1>9
  <2> QED BY <2>2, <2>3
<1> QED BY <1>8, <1>9

(* ... and a greatest one if they are bounded.                             *)
LEMMA Greatest ==
    ASSUME NEW n \in Nat, NEW S \in SUBSET (0..n), S # {}
    PROVE  \E k \in S : \A j \in S : j <= k
<1>1. PICK T : T = {n - k : k \in S}
  OBVIOUS
<1>2. T \in SUBSET Nat /\ T # {}
  <2>1. \A k \in S : n - k \in Nat
    OBVIOUS
  <2> QED BY <1>1, <2>1
<1>3. PICK m \in T : \A j \in T : m <= j
  BY <1>2, Least
<1>4. PICK k \in S : m = n - k
  BY <1>1, <1>3
<1>5. \A j \in S : n - k <= n - j
  BY <1>1, <1>3, <1>4
<1> QED BY <1>4, <1>5

(* What an item of the source is.                                          *)
LEMMA ItemFacts ==
    /\ Len(Items) \in Nat /\ DOMAIN Items = 1..Len(Items)
    /\ \A i \in 1..Len(Items) : /\ Items[i].type \in ItemTypes /\ Items[i].run \in Nat
                                /\ Items[i].lumi \in Nat /\ Items[i].iov \in Nat
<1>1. PICK S : S = [type : ItemTypes, run : Nat, lumi : Nat, iov : Nat]
  OBVIOUS
<1>2. Items \in Seq(S)
  BY <1>1, ItemsAssumption
<1>3. Len(Items) \in Nat /\ DOMAIN Items = 1..Len(Items) /\ \A i \in 1..Len(Items) : Items[i] \in S
  BY <1>2
<1> QED BY <1>1, <1>3

(* How many numbers there are from 1 to m.                                 *)
LEMMA Interval ==
    ASSUME NEW m \in Nat
    PROVE  IsFiniteSet(1..m) /\ Cardinality(1..m) = m
<1>1. IsFiniteSet(1..m) /\ Cardinality(1..m) = IF 1 > m THEN 0 ELSE m - 1 + 1
  BY FS_Interval
<1> QED BY <1>1

(* The source has finitely many lumis, the job finitely many streams.      *)
LEMMA Finite ==
    /\ IsFiniteSet(Lumis) /\ IsFiniteSet(Streams) /\ Cardinality(Streams) = NumberOfStreams
    /\ 1 \in Streams /\ Streams \subseteq Nat /\ Lumis \subseteq Nat \ {0}
    /\ Cardinality(Lumis) \in Nat
<1>1. IsFiniteSet(1..Len(Items))
  BY ItemsAssumption, FS_Interval
<1>2. IsFiniteSet({i \in DOMAIN Items : Items[i].type = "lumi"})
  BY <1>1, ItemsAssumption, FS_Subset
<1>3. PICK n \in Nat : n = Cardinality({i \in DOMAIN Items : Items[i].type = "lumi"})
  BY <1>2, FS_CardinalityType
<1>4. Lumis = 1..n /\ NumberOfStreams \in Nat \ {0}
  BY <1>3, CountsAssumption DEF Lumis
<1>5. IsFiniteSet(Lumis) /\ Cardinality(Lumis) = n
  BY <1>3, <1>4, Interval
<1>6. IsFiniteSet(Streams) /\ Cardinality(Streams) = NumberOfStreams
  BY <1>4, Interval DEF Streams
<1> QED BY <1>3, <1>4, <1>5, <1>6 DEF Streams

(* A lumi in which a stream is, or will be, has not got beyond "open".     *)
LEMMA Where ==
    ASSUME TypeOK, Phased, Placed, Counted, NEW s \in Streams, NEW k \in Lumis
    PROVE  /\ Pends(s, k) => lumi[k].phase \notin Closed /\ lumi[k].left > 0
           /\ Queued(s, k) \/ Within(s, k) \/ Finishes(s, k) => lumi[k].phase \in {"pushing", "open"}
           /\ ToCome(s, k) => lumi[k].phase \in Unpushed \cup {"pushing"}
<1>1. lumi[k] \in Statuses /\ lumi[k].phase \in Phases /\ lumi[k].left \in Nat /\ lumi[k].toPush \in Nat
  BY DEF TypeOK, Statuses
<1>2. ASSUME Pends(s, k) PROVE lumi[k].phase \notin Closed /\ lumi[k].left > 0
  <2>1. PICK P : P = {p \in Streams : Pends(p, k)}
    OBVIOUS
  <2>2. IsFiniteSet(P) /\ P # {}
    BY <1>2, <2>1, Finite, FS_Subset
  <2>3. Cardinality(P) # 0
    BY <2>2, FS_EmptySet
  <2>4. lumi[k].left # 0
    BY <2>1, <2>3 DEF Counted
  <2> QED BY <1>1, <2>4 DEF Phased
<1>3. s \in Nat /\ 1 <= s /\ s <= NumberOfStreams /\ NumberOfStreams \in Nat
  BY CountsAssumption DEF Streams
<1>4. ASSUME Queued(s, k) \/ Within(s, k) \/ Finishes(s, k) PROVE lumi[k].phase \in {"pushing", "open"}
  <2>1. ~ToCome(s, k) /\ Pends(s, k)
    BY <1>4 DEF Placed, Pends
  <2>2. lumi[k].toPush # 1
    BY <1>3, <2>1 DEF ToCome
  <2>3. lumi[k].phase \notin Unpushed
    BY <2>2 DEF Phased
  <2> QED BY <1>1, <1>2, <2>1, <2>3 DEF Phases, Unpushed, Unread, Closed
<1>5. ASSUME ToCome(s, k) PROVE lumi[k].phase \in Unpushed \cup {"pushing"}
  <2>1. lumi[k].toPush # NumberOfStreams + 1
    BY <1>1, <1>3, <1>5 DEF ToCome
  <2>2. lumi[k].phase \notin Closed \cup {"open"}
    BY <2>1 DEF Phased
  <2> QED BY <1>1, <2>2 DEF Phases, Unpushed, Unread, Closed
<1> QED BY <1>2, <1>4, <1>5

(* Most steps of a lumi take it from one phase to the next and leave the   *)
(* streams alone.                                                          *)
Transitions == {<<"iov", "queued">>, <<"iov", "dropped">>, <<"queued", "source">>, <<"queued", "dropped">>,
                <<"source", "globalBegin">>, <<"source", "dropped">>,
                <<"globalBegin", "pushing">>, <<"globalBegin", "dropped">>,
                <<"globalEnd", "ended">>, <<"ended", "iovReleased">>, <<"iovReleased", "principalReleased">>,
                <<"principalReleased", "slotReleased">>, <<"slotReleased", "done">>}
PhaseStep(k, a, b) ==
    /\ <<a, b>> \in Transitions /\ lumi[k].phase = a /\ lumi'[k].phase = b
    /\ lumi' \in [Lumis -> Statuses] /\ \A j \in Lumis : j # k => lumi'[j] = lumi[j]
    /\ UNCHANGED <<lumi[k].sync, lumi[k].run, lumi[k].toPush, lumi[k].left, lumi[k].stop,
                   lumi[k].ending, lumi[k].continuing, lumi[k].startedNext>>
    /\ lumi'[k].begun = (lumi[k].begun \/ b = "pushing")
    /\ lumi'[k].item = IF b = "globalBegin" THEN pos ELSE lumi[k].item
    /\ UNCHANGED <<pos, last, signalled, full, deferred, stream, active, locals, mainVars>>
    /\ failed => failed'

(* An update of a status leaves the others alone. *)
Becomes(k, status) == /\ lumi' \in [Lumis -> Statuses] /\ lumi'[k] = status
                      /\ \A j \in Lumis : j # k => lumi'[j] = lumi[j]
(* An update of a status changes only that one.                            *)
LEMMA Updates ==
    ASSUME lumi \in [Lumis -> Statuses], NEW k \in Lumis, NEW status \in Statuses,
           lumi' = [lumi EXCEPT ![k] = status]
    PROVE  Becomes(k, status)
  BY DEF Becomes

(* The steps of a lumi that are of this kind are transitions of its phase. *)
LEMMA PhaseSteps ==
    ASSUME TypeOK, NEW k \in Lumis,
           \/ ChangeIov(k) \/ LumiWork(k) \/ ReadLumi(k) \/ GlobalBegun(k) \/ GlobalEnded(k)
           \/ ReleaseIov(k) \/ ReleasePrincipal(k) \/ ReleaseSlot(k) \/ ReleaseRun(k)
    PROVE  \E a, b \in Phases : PhaseStep(k, a, b)
<1> USE DEF mainVars, sourceVars, queueVars, runVars
<1>1. lumi \in [Lumis -> Statuses] /\ lumi[k] \in Statuses /\ pos \in Nat /\ failed \in BOOLEAN
  BY DEF TypeOK
<1>2. ASSUME NEW b \in Phases, SetPhase(k, b), b # "globalBegin", b # "pushing", <<lumi[k].phase, b>> \in Transitions,
             UNCHANGED <<pos, last, signalled, full, deferred, stream, active, locals, mainVars>>, failed => failed'
      PROVE  PhaseStep(k, lumi[k].phase, b)
  <2>1. PICK r \in Statuses : r = [lumi[k] EXCEPT !.phase = b]
    BY <1>1 DEF Statuses
  <2>2. lumi' = [lumi EXCEPT ![k] = r]
    BY <1>2, <2>1 DEF SetPhase
  <2>3. Becomes(k, r)
    BY <1>1, <2>2, Updates
  <2> QED BY <1>1, <1>2, <2>1, <2>3 DEF PhaseStep, Becomes, Statuses
<1>3. lumi[k].phase \in Phases /\ Unread \subseteq Phases /\ Closed \subseteq Phases /\ "dropped" \in Phases
  BY <1>1 DEF Statuses, Phases, Unread, Closed
<1>4. CASE ChangeIov(k)
  BY <1>2, <1>3, <1>4 DEF ChangeIov, Drop, Transitions, Unread
<1>5. CASE LumiWork(k)
  <2>1. UNCHANGED <<pos, last, signalled, full, deferred, stream, active, locals, mainVars, failed>>
        /\ lumi[k].phase = "queued"
    BY <1>5 DEF LumiWork
  <2>2. CASE failed
    BY <1>2, <1>3, <1>5, <2>1, <2>2 DEF LumiWork, Transitions
  <2>3. CASE ~failed
    BY <1>2, <1>3, <1>5, <2>1, <2>3 DEF LumiWork, Transitions, Unread
  <2> QED BY <2>2, <2>3
<1>6. CASE ReadLumi(k)
  <2>1. CASE Drop(k)
    BY <1>2, <1>3, <1>6, <2>1 DEF ReadLumi, Drop, Transitions
  <2>2. CASE ~Drop(k)
    <3>1. /\ lumi' = [lumi EXCEPT ![k].phase = "globalBegin", ![k].item = pos] /\ lumi[k].phase = "source"
          /\ UNCHANGED <<pos, last, signalled, full, deferred, stream, active, locals, mainVars, failed>>
      BY <1>6, <2>2 DEF ReadLumi
    <3>2. PICK r \in Statuses : r = [lumi[k] EXCEPT !.phase = "globalBegin", !.item = pos]
      BY <1>1, <1>3 DEF Statuses, Phases
    <3>3. lumi' = [lumi EXCEPT ![k] = r]
      BY <3>1, <3>2
    <3>4. Becomes(k, r)
      BY <1>1, <3>3, Updates
    <3>5. PhaseStep(k, "source", "globalBegin")
      BY <1>1, <3>1, <3>2, <3>4 DEF PhaseStep, Becomes, Statuses, Transitions
    <3> QED BY <3>5 DEF Phases
  <2> QED BY <2>1, <2>2
<1>7. CASE GlobalBegun(k)
  <2>1. CASE Drop(k)
    BY <1>2, <1>3, <1>7, <2>1 DEF GlobalBegun, Drop, Transitions
  <2>2. CASE ~Drop(k)
    <3>1. /\ lumi' = [lumi EXCEPT ![k].phase = "pushing", ![k].begun = TRUE] /\ lumi[k].phase = "globalBegin"
          /\ UNCHANGED <<pos, last, signalled, full, deferred, stream, active, locals, mainVars, failed>>
      BY <1>7, <2>2 DEF GlobalBegun
    <3>2. PICK r \in Statuses : r = [lumi[k] EXCEPT !.phase = "pushing", !.begun = TRUE]
      BY <1>1, <1>3 DEF Statuses, Phases
    <3>3. lumi' = [lumi EXCEPT ![k] = r]
      BY <3>1, <3>2
    <3>4. Becomes(k, r)
      BY <1>1, <3>3, Updates
    <3>5. PhaseStep(k, "globalBegin", "pushing")
      BY <1>1, <3>1, <3>2, <3>4 DEF PhaseStep, Becomes, Statuses, Transitions
    <3> QED BY <3>5 DEF Phases
  <2> QED BY <2>1, <2>2
<1>8. CASE GlobalEnded(k)
  <2>1. PICK e \in BOOLEAN :
            /\ lumi' = [lumi EXCEPT ![k].phase = "ended", ![k].endFailed = e] /\ lumi[k].phase = "globalEnd"
            /\ UNCHANGED <<pos, last, signalled, full, deferred, stream, active, locals, mainVars>>
            /\ failed' = (failed \/ e)
    BY <1>8 DEF GlobalEnded
  <2>2. PICK r \in Statuses : r = [lumi[k] EXCEPT !.phase = "ended", !.endFailed = e]
    BY <1>1, <1>3 DEF Statuses, Phases
  <2>3. lumi' = [lumi EXCEPT ![k] = r]
    BY <2>1, <2>2
  <2>4. Becomes(k, r)
    BY <1>1, <2>3, Updates
  <2>5. PhaseStep(k, "globalEnd", "ended")
    BY <1>1, <2>1, <2>2, <2>4 DEF PhaseStep, Becomes, Statuses, Transitions
  <2> QED BY <2>5 DEF Phases
<1>9. CASE ReleaseIov(k) \/ ReleasePrincipal(k) \/ ReleaseSlot(k)
  <2>1. UNCHANGED <<pos, last, signalled, full, deferred, stream, active, locals, mainVars, failed>>
    BY <1>9 DEF ReleaseIov, ReleasePrincipal, ReleaseSlot
  <2>2. \E b \in Phases : SetPhase(k, b) /\ b # "globalBegin" /\ b # "pushing" /\ <<lumi[k].phase, b>> \in Transitions
    BY <1>9 DEF ReleaseIov, ReleasePrincipal, ReleaseSlot, Transitions, Phases
  <2> QED BY <1>2, <1>3, <2>1, <2>2
<1>10. CASE ReleaseRun(k)
  <2>1. UNCHANGED <<pos, last, signalled, full, deferred, stream, active, locals, mainVars>> /\ (failed => failed')
    BY <1>10 DEF ReleaseRun
  <2>2. SetPhase(k, "done") /\ <<lumi[k].phase, "done">> \in Transitions /\ "done" \in Phases
    BY <1>10 DEF ReleaseRun, Transitions, Phases
  <2> QED BY <1>2, <1>3, <2>1, <2>2
<1> QED BY <1>4, <1>5, <1>6, <1>7, <1>8, <1>9, <1>10

(* Such a step keeps what the invariant says of the streams and of main.   *)
LEMMA PhaseStatused ==
    ASSUME Statused, NEW k \in Lumis, NEW a \in Phases, NEW b \in Phases, PhaseStep(k, a, b)
    PROVE  (Phased /\ Ordered /\ Placed /\ Counted /\ Occupied)'
<1>1. /\ TypeOK /\ Phased /\ Ordered /\ Placed /\ Counted /\ Occupied
      /\ \A j \in Lumis : j # k => lumi'[j] = lumi[j]
      /\ <<a, b>> \in Transitions /\ lumi[k].phase = a /\ lumi'[k].phase = b
      /\ UNCHANGED <<pos, last, stream, active, locals>>
  BY DEF Statused, PhaseStep
<1>2. /\ UNCHANGED <<lumi[k].sync, lumi[k].toPush, lumi[k].left, lumi[k].stop,
                     lumi[k].ending, lumi[k].continuing, lumi[k].startedNext>>
      /\ lumi'[k].begun = (lumi[k].begun \/ b = "pushing")
      /\ lumi'[k].item = IF b = "globalBegin" THEN pos ELSE lumi[k].item
  BY DEF PhaseStep
<1>3. Phased'
  <2> SUFFICES ASSUME NEW j \in Lumis
               PROVE  /\ ~Made(j)' => lumi'[j] = NoLumi
                      /\ lumi'[j].phase \in Unpushed <=> ~lumi'[j].begun
                      /\ lumi'[j].phase \in Unpushed => lumi'[j].toPush = 1
                      /\ lumi'[j].phase = "pushing" => lumi'[j].toPush <= NumberOfStreams
                      /\ lumi'[j].phase \in Closed \cup {"open"} => lumi'[j].toPush = NumberOfStreams + 1
                      /\ lumi'[j].phase \in Closed <=> lumi'[j].left = 0
                      /\ lumi'[j].phase \in Unread => pos' = lumi'[j].sync
                      /\ lumi'[j].item \in {0, lumi'[j].sync}
                      /\ lumi'[j].begun => lumi'[j].item = lumi'[j].sync
                      /\ lumi'[j].phase = "globalBegin" => lumi'[j].item = lumi'[j].sync
                      /\ lumi'[j].startedNext => lumi'[j].ending
                      /\ lumi'[j].ending => lumi'[j].stop /\ ~lumi'[j].continuing
    BY <1>1 DEF Phased
  <2>1. CASE j # k
    BY <1>1, <2>1 DEF Phased, Made
  <2>2. CASE j = k
    <3>1. /\ a \in Unpushed <=> ~lumi[k].begun
          /\ a \in Unpushed => lumi[k].toPush = 1
          /\ a \in Closed => lumi[k].toPush = NumberOfStreams + 1
          /\ a \in Closed <=> lumi[k].left = 0
          /\ a \in Unread => pos = lumi[k].sync
          /\ lumi[k].item \in {0, lumi[k].sync}
          /\ lumi[k].begun \/ a = "globalBegin" => lumi[k].item = lumi[k].sync
          /\ lumi[k].startedNext => lumi[k].ending
          /\ lumi[k].ending => lumi[k].stop /\ ~lumi[k].continuing
      BY <1>1 DEF Phased
    <3>2. /\ b # "none" /\ b # "open"
          /\ b \in Unpushed <=> a \in Unpushed /\ b # "pushing"
          /\ b = "pushing" => a = "globalBegin"
          /\ b \in Closed <=> a \in Closed
          /\ b \in Unread \cup {"globalBegin"} => a \in Unread
          /\ a \in Unread \cup {"globalBegin"} => a \in Unpushed
          /\ a \in Closed => a \notin Unpushed
      BY <1>1 DEF Transitions, Unpushed, Unread, Closed
    <3>3. 1 <= NumberOfStreams
      BY CountsAssumption
    <3>4. Made(k)'
      BY <1>1, <3>2 DEF Made
    <3> QED BY <1>1, <1>2, <2>2, <3>1, <3>2, <3>3, <3>4
  <2> QED BY <2>1, <2>2
<1>4. \A j \in Lumis : /\ Made(j)' <=> Made(j)
                       /\ Alive(j)' => Alive(j)
                       /\ lumi'[j].sync = lumi[j].sync /\ lumi'[j].startedNext = lumi[j].startedNext
                       /\ lumi'[j].toPush = lumi[j].toPush /\ lumi'[j].left = lumi[j].left
  BY <1>1, <1>2 DEF Made, Alive, Transitions
<1>5. Ordered'
  BY <1>1, <1>4 DEF Ordered, Begins
<1>6. \A s \in Streams, j \in Lumis :
         /\ ToCome(s, j)' <=> ToCome(s, j)
         /\ Queued(s, j)' <=> Queued(s, j)
         /\ Within(s, j)' <=> Within(s, j)
         /\ Finishes(s, j)' <=> Finishes(s, j)
  BY <1>1, <1>4 DEF ToCome, Queued, Within, Finishes, Finishing
<1>7. Placed'
  BY <1>1, <1>6 DEF Placed, Finishing
<1>8. Counted'
  BY <1>1, <1>4, <1>6 DEF Counted, Pends
<1>9. Occupied'
  BY <1>1 DEF Occupied
<1> QED BY <1>3, <1>5, <1>7, <1>8, <1>9

(* ... and what it says of the main thread and of the source.              *)
LEMMA PhaseScheduled ==
    ASSUME Statused, Scheduled, NEW k \in Lumis, NEW a \in Phases, NEW b \in Phases, PhaseStep(k, a, b)
    PROVE  Scheduled'
<1>1. /\ TypeOK /\ Phased /\ Quiet /\ Ended /\ AtSource /\ Remaining /\ AtLumis /\ Parked
      /\ \A j \in Lumis : j # k => lumi'[j] = lumi[j]
      /\ <<a, b>> \in Transitions /\ lumi[k].phase = a /\ lumi'[k].phase = b
      /\ UNCHANGED <<pos, last, full, deferred, stream, active, locals, main>> /\ (failed => failed')
  BY DEF Statused, Scheduled, PhaseStep, mainVars
<1>2. /\ UNCHANGED <<lumi[k].sync, lumi[k].toPush, lumi[k].stop, lumi[k].ending, lumi[k].startedNext, lumi[k].continuing>>
  BY DEF PhaseStep
<1>3. main.pc \in {"lumis", "endWait"}
  <2>1. Alive(k) /\ lumi[k].phase # "open"
    BY <1>1 DEF Alive, Transitions
  <2> QED BY <1>1, <2>1 DEF Quiet, Held
<1>4. \A j \in Lumis : /\ Made(j)' <=> Made(j)
                       /\ Alive(j)' => Alive(j)
                       /\ lumi'[j].sync = lumi[j].sync /\ lumi'[j].toPush = lumi[j].toPush
                       /\ lumi'[j].stop = lumi[j].stop /\ lumi'[j].ending = lumi[j].ending
                       /\ lumi'[j].startedNext = lumi[j].startedNext /\ lumi'[j].continuing = lumi[j].continuing
  BY <1>1, <1>2 DEF Made, Alive, Transitions
<1>5. Quiet' /\ Parked'
  BY <1>1, <1>3 DEF Quiet, Parked, Chosen, At
<1>6. Ended'
  <2>1. At("endWait") => lumi'[k].phase \in Closed
    BY <1>1 DEF Ended, At, Transitions, Alive, Closed
  <2> QED BY <1>1, <1>3, <1>4, <2>1 DEF Ended, At
<1>7. Fresh' <=> Fresh
  BY <1>1, <1>4 DEF Fresh, TypeAt
<1>8. AtSource'
  BY <1>1, <1>3, <1>7 DEF AtSource, Chosen, At, TypeAt
<1>9. Remaining'
  BY <1>1, <1>4 DEF Remaining, Remains, ToCome, Queued, Within, At
<1>10. AtLumis'
  <2>1. \A j \in Lumis : Noticed(j)' <=> Noticed(j)
    BY <1>1, <1>4, <1>7 DEF Noticed, Boundary
  <2>2. \A s \in Streams : stream[s].at = "stopped" => stream[s].lumi \in Lumis
    BY DEF TypeOK, Statused, Occupied, StreamStates
  <2>3. \A j \in Lumis : Stopped(j)' <=> Stopped(j)
    BY <1>1, <1>4 DEF Stopped, Boundary
  <2> QED BY <1>1, <1>4, <2>1, <2>2, <2>3 DEF AtLumis, At
<1> QED BY <1>5, <1>6, <1>8, <1>9, <1>10 DEF Scheduled

-----------------------------------------------------------------------------
(* Likewise for the streams.                                               *)
StreamBecomes(s, state) == /\ stream' \in [Streams -> StreamStates] /\ stream'[s] = state
                           /\ \A p \in Streams : p # s => stream'[p] = stream[p]
(* An update of a stream changes only that one.                            *)
LEMMA StreamUpdates ==
    ASSUME stream \in [Streams -> StreamStates], NEW s \in Streams, NEW state \in StreamStates,
           stream' = [stream EXCEPT ![s] = state]
    PROVE  StreamBecomes(s, state)
  BY DEF StreamBecomes

(* A lumi at the end of a stream's queue, and one taken from its front.    *)
LEMMA AppendFacts ==
    ASSUME NEW S, NEW q \in Seq(S), NEW e \in S
    PROVE  /\ Append(q, e) \in Seq(S) /\ Len(q) \in Nat /\ Len(Append(q, e)) = Len(q) + 1
           /\ Append(q, e)[Len(q) + 1] = e
           /\ \A i \in 1..Len(q) : Append(q, e)[i] = q[i] /\ q[i] \in S
  OBVIOUS

(* What is left of a queue when its front is taken.                        *)
LEMMA TailFacts ==
    ASSUME NEW S, NEW q \in Seq(S), q # <<>>
    PROVE  /\ Head(q) = q[1] /\ q[1] \in S /\ Tail(q) \in Seq(S)
           /\ Len(q) \in Nat /\ Len(q) > 0 /\ Len(Tail(q)) = Len(q) - 1
           /\ \A i \in 1..Len(Tail(q)) : Tail(q)[i] = q[i + 1] /\ q[i + 1] \in S
  OBVIOUS

(* The begin of a lumi is pushed to the next stream's queue.               *)
LEMMA PushFacts ==
    ASSUME TypeOK, Phased, NEW k \in Lumis, PushBegin(k)
    PROVE  LET s == lumi[k].toPush
               phase == IF s = NumberOfStreams THEN "open" ELSE "pushing"
           IN  /\ s \in Streams /\ lumi[k].phase = "pushing"
               /\ Becomes(k, [lumi[k] EXCEPT !.toPush = s + 1, !.phase = phase])
               /\ StreamBecomes(s, [stream[s] EXCEPT !.queue = Append(@, k)])
               /\ stream[s] \in StreamStates /\ lumi[k] \in Statuses
<1> DEFINE s == lumi[k].toPush
           phase == IF s = NumberOfStreams THEN "open" ELSE "pushing"
<1>1. /\ lumi[k].phase = "pushing" /\ stream' = [stream EXCEPT ![s].queue = Append(@, k)]
      /\ lumi' = [lumi EXCEPT ![k].toPush = @ + 1, ![k].phase = IF s = NumberOfStreams THEN "open" ELSE @]
  BY DEF PushBegin
<1>2. lumi \in [Lumis -> Statuses] /\ lumi[k] \in Statuses /\ stream \in [Streams -> StreamStates]
  BY DEF TypeOK
<1>3. s \in Nat /\ 1 <= s /\ s <= NumberOfStreams /\ NumberOfStreams \in Nat
  BY <1>1, <1>2, CountsAssumption DEF Phased, Statuses
<1>4. s \in Streams /\ s + 1 \in 1..(NumberOfStreams + 1) /\ phase \in Phases
  BY <1>3 DEF Streams, Phases
<1> HIDE DEF s, phase
<1>5. PICK r \in Statuses : r = [lumi[k] EXCEPT !.toPush = s + 1, !.phase = phase]
  BY <1>2, <1>4 DEF Statuses
<1>6. lumi' = [lumi EXCEPT ![k] = r]
  BY <1>1, <1>2, <1>5 DEF s, phase
<1>7. PICK q \in StreamStates : q = [stream[s] EXCEPT !.queue = Append(stream[s].queue, k)]
  <2>1. Append(stream[s].queue, k) \in Seq(Lumis)
    BY <1>2, <1>4, AppendFacts DEF StreamStates
  <2> QED BY <1>2, <1>4, <2>1 DEF StreamStates
<1>8. stream' = [stream EXCEPT ![s] = q]
  BY <1>1, <1>2, <1>4, <1>7
<1>9. Becomes(k, r) /\ StreamBecomes(s, q)
  BY <1>2, <1>4, <1>6, <1>8, Updates, StreamUpdates
<1> QED BY <1>1, <1>2, <1>4, <1>5, <1>7, <1>9 DEF s, phase

(* The begin of a lumi leaves "to come" and enters the queue.              *)
LEMMA PushPlaces ==
    ASSUME Statused, NEW k \in Lumis, PushBegin(k), NEW s \in Streams, s = lumi[k].toPush
    PROVE  /\ \A p \in Streams, j \in Lumis :
                 /\ ToCome(p, j)' <=> ToCome(p, j) /\ ~(p = s /\ j = k)
                 /\ Queued(p, j)' <=> Queued(p, j) \/ (p = s /\ j = k)
                 /\ Within(p, j)' <=> Within(p, j)
                 /\ Finishes(p, j)' <=> Finishes(p, j)
           /\ Placed' /\ Counted'
<1>1. TypeOK /\ Phased /\ Placed /\ Counted
  BY DEF Statused
<1>2. /\ stream[s] \in StreamStates /\ lumi[k] \in Statuses /\ UNCHANGED locals
      /\ lumi'[k].toPush = s + 1 /\ \A j \in Lumis : j # k => lumi'[j] = lumi[j]
      /\ lumi'[k].left = lumi[k].left
      /\ stream'[s] = [stream[s] EXCEPT !.queue = Append(stream[s].queue, k)]
      /\ \A p \in Streams : p # s => stream'[p] = stream[p]
  BY <1>1, PushFacts DEF Becomes, StreamBecomes, Statuses, PushBegin
<1>3. PICK q \in Seq(Lumis) : q = stream[s].queue
  BY <1>2 DEF StreamStates
<1>4. stream'[s].queue = Append(q, k) /\ stream'[s].lumi = stream[s].lumi
  BY <1>2, <1>3 DEF StreamStates
<1>5. /\ Len(q) \in Nat /\ Len(Append(q, k)) = Len(q) + 1 /\ Append(q, k)[Len(q) + 1] = k
      /\ \A i \in 1..Len(q) : Append(q, k)[i] = q[i]
  <2>1. PICK S : S = Lumis
    OBVIOUS
  <2>2. q \in Seq(S) /\ k \in S
    BY <2>1
  <2> QED BY <2>2, AppendFacts
<1>6. s \in Nat
  BY Finite
<1>7. ASSUME NEW p \in Streams, NEW j \in Lumis
      PROVE  /\ ToCome(p, j)' <=> ToCome(p, j) /\ ~(p = s /\ j = k)
             /\ Queued(p, j)' <=> Queued(p, j) \/ (p = s /\ j = k)
             /\ Within(p, j)' <=> Within(p, j)
             /\ Finishes(p, j)' <=> Finishes(p, j)
  <2>1. ToCome(p, j)' <=> ToCome(p, j) /\ ~(p = s /\ j = k)
    <3>1. p \in Nat
      BY Finite
    <3>2. CASE j = k
      BY <1>2, <1>6, <3>1, <3>2 DEF ToCome
    <3>3. CASE j # k
      BY <1>2, <3>3 DEF ToCome
    <3> QED BY <3>2, <3>3
  <2>2. Queued(p, j)' <=> Queued(p, j) \/ (p = s /\ j = k)
    <3>1. CASE p # s
      BY <1>2, <3>1 DEF Queued
    <3>2. CASE p = s
      <4>1. Queued(p, j)' <=> \E i \in 1..(Len(q) + 1) : Append(q, k)[i] = j
        BY <1>4, <1>5, <3>2 DEF Queued
      <4>2. Queued(p, j) <=> \E i \in 1..Len(q) : q[i] = j
        BY <1>3, <3>2 DEF Queued
      <4>3. \A i \in 1..(Len(q) + 1) : i \in 1..Len(q) \/ i = Len(q) + 1
        BY <1>5
      <4>4. \A i \in 1..Len(q) : i \in 1..(Len(q) + 1)
        BY <1>5
      <4>5. Len(q) + 1 \in 1..(Len(q) + 1)
        BY <1>5
      <4> QED BY <1>5, <3>2, <4>1, <4>2, <4>3, <4>4, <4>5
    <3> QED BY <3>1, <3>2
  <2>3. Within(p, j)' <=> Within(p, j)
    BY <1>2, <1>4 DEF Within
  <2>4. Finishes(p, j)' <=> Finishes(p, j)
    BY <1>2 DEF Finishes, Finishing
  <2> QED BY <2>1, <2>2, <2>3, <2>4
<1>8. ToCome(s, k)
  BY <1>6 DEF ToCome
<1>9. ~Queued(s, k) /\ ~Within(s, k) /\ ~Finishes(s, k)
  BY <1>1, <1>8 DEF Placed
<1>10. \A p \in Streams, j \in Lumis : \A i, n \in 1..Len(stream'[p].queue) :
          stream'[p].queue[i] = j /\ stream'[p].queue[n] = j => i = n
  <2> SUFFICES ASSUME NEW p \in Streams, NEW j \in Lumis, NEW i \in 1..Len(stream'[p].queue),
                      NEW n \in 1..Len(stream'[p].queue), stream'[p].queue[i] = j, stream'[p].queue[n] = j
               PROVE  i = n
    OBVIOUS
  <2>1. CASE p # s
    BY <1>1, <1>2, <2>1 DEF Placed
  <2>2. CASE p = s
    <3>1. i \in 1..(Len(q) + 1) /\ n \in 1..(Len(q) + 1) /\ Append(q, k)[i] = j /\ Append(q, k)[n] = j
      BY <1>4, <1>5, <2>2
    <3>2. \A m \in 1..Len(q) : q[m] # k
      BY <1>3, <1>9 DEF Queued
    <3>3. \A m, r \in 1..Len(q) : q[m] = j /\ q[r] = j => m = r
      BY <1>1, <1>3 DEF Placed
    <3>4. CASE j = k
      BY <1>5, <3>1, <3>2, <3>4
    <3>5. CASE j # k
      <4>1. i # Len(q) + 1 /\ n # Len(q) + 1
        BY <1>5, <3>1, <3>5
      <4>2. i \in 1..Len(q) /\ n \in 1..Len(q)
        BY <1>5, <3>1, <4>1
      <4> QED BY <1>5, <3>1, <3>3, <4>2
    <3> QED BY <3>4, <3>5
  <2> QED BY <2>1, <2>2
<1>11. Placed'
  <2>1. \A p \in Streams, j \in Lumis : \A l, m \in locals' : Finishing(l, p, j) /\ Finishing(m, p, j) => l = m
    BY <1>1, <1>2 DEF Placed
  <2>2. \A p \in Streams, j \in Lumis :
           /\ ToCome(p, j) => ~Queued(p, j) /\ ~Within(p, j) /\ ~Finishes(p, j)
           /\ Queued(p, j) => ~Within(p, j) /\ ~Finishes(p, j)
           /\ Within(p, j) => ~Finishes(p, j)
    BY <1>1 DEF Placed
  <2>3. \A p \in Streams, j \in Lumis :
           /\ ToCome(p, j)' => ~Queued(p, j)' /\ ~Within(p, j)' /\ ~Finishes(p, j)'
           /\ Queued(p, j)' => ~Within(p, j)' /\ ~Finishes(p, j)'
           /\ Within(p, j)' => ~Finishes(p, j)'
    BY <1>7, <1>9, <2>2
  <2> QED BY <1>10, <2>1, <2>3 DEF Placed, Finishing
<1>12. Counted'
  <2>1. \A p \in Streams, j \in Lumis : Pends(p, j)' <=> Pends(p, j)
    BY <1>7, <1>8 DEF Pends
  <2>2. \A j \in Lumis : lumi'[j].left = lumi[j].left
    BY <1>2
  <2> QED BY <1>1, <2>1, <2>2 DEF Counted
<1> QED BY <1>7, <1>11, <1>12

(* A push keeps the invariant.                                             *)
LEMMA PushKeeps ==
    ASSUME IInv, NEW k \in Lumis, PushBegin(k)
    PROVE  IInv'
<1>1. /\ Statused /\ Scheduled /\ TypeOK /\ Phased /\ Ordered /\ Placed /\ Counted /\ Occupied
      /\ Quiet /\ Ended /\ AtSource /\ Remaining /\ AtLumis /\ Parked
  BY DEF IInv, Statused, Scheduled
<1>2. PICK s \in Streams : s = lumi[k].toPush
  BY <1>1, PushFacts
<1>3. /\ stream[s] \in StreamStates /\ lumi[k] \in Statuses /\ lumi[k].phase = "pushing"
      /\ lumi' \in [Lumis -> Statuses] /\ stream' \in [Streams -> StreamStates]
      /\ lumi'[k] = [lumi[k] EXCEPT !.toPush = s + 1, !.phase = IF s = NumberOfStreams THEN "open" ELSE "pushing"]
      /\ \A j \in Lumis : j # k => lumi'[j] = lumi[j]
      /\ stream'[s] = [stream[s] EXCEPT !.queue = Append(stream[s].queue, k)]
      /\ \A p \in Streams : p # s => stream'[p] = stream[p]
      /\ UNCHANGED <<pos, last, deferred, signalled, full, iov, iovHolds, slots, active, locals,
                     main, files, run, cached, lost, failed, failures>>
  BY <1>1, <1>2, PushFacts DEF Becomes, StreamBecomes, PushBegin, sourceVars, queueVars, mainVars, runVars
<1>4. /\ lumi'[k].toPush = s + 1
      /\ lumi'[k].phase = IF s = NumberOfStreams THEN "open" ELSE "pushing"
      /\ UNCHANGED <<lumi[k].sync, lumi[k].left, lumi[k].begun, lumi[k].item, lumi[k].stop, lumi[k].ending,
                     lumi[k].continuing, lumi[k].startedNext>>
      /\ \A p \in Streams : stream'[p].lumi = stream[p].lumi /\ stream'[p].at = stream[p].at
                            /\ stream'[p].paused = stream[p].paused
  BY <1>3 DEF Statuses, StreamStates
<1>5. /\ \A p \in Streams, j \in Lumis :
            /\ ToCome(p, j)' <=> ToCome(p, j) /\ ~(p = s /\ j = k)
            /\ Queued(p, j)' <=> Queued(p, j) \/ (p = s /\ j = k)
            /\ Within(p, j)' <=> Within(p, j)
      /\ Placed' /\ Counted'
  BY <1>1, <1>2, PushPlaces
<1>6. TypeOK'
  BY <1>1, <1>3 DEF TypeOK
<1>7. Alive(k) /\ lumi[k].phase # "open" /\ Alive(k)' /\ Made(k) /\ Made(k)'
  BY <1>3, <1>4 DEF Alive, Made
<1>8. main.pc = "lumis"
  <2>1. main.pc \in {"lumis", "endWait"}
    BY <1>1, <1>7 DEF Quiet, Held
  <2>2. main.pc # "endWait"
    BY <1>1, <1>3, <1>7 DEF Ended, At, Closed
  <2> QED BY <2>1, <2>2
<1>9. Phased'
  <2>1. \A j \in Lumis : j # k => (Made(j)' <=> Made(j))
    BY <1>3 DEF Made
  <2>2. /\ lumi[k].begun /\ lumi[k].left # 0 /\ lumi[k].item = lumi[k].sync
        /\ lumi[k].startedNext => lumi[k].ending
        /\ lumi[k].ending => lumi[k].stop /\ ~lumi[k].continuing
    BY <1>1, <1>3 DEF Phased, Unpushed, Unread, Closed
  <2>3. s \in Nat /\ NumberOfStreams \in Nat /\ s <= NumberOfStreams
    BY Finite, CountsAssumption DEF Streams
  <2>4. /\ Made(k)' /\ lumi'[k].begun /\ lumi'[k].left # 0 /\ lumi'[k].item = lumi'[k].sync
        /\ lumi'[k].phase \notin Unpushed \cup Closed \cup Unread \cup {"globalBegin"}
        /\ lumi'[k].phase = "pushing" => lumi'[k].toPush <= NumberOfStreams
        /\ lumi'[k].phase = "open" => lumi'[k].toPush = NumberOfStreams + 1
        /\ lumi'[k].startedNext => lumi'[k].ending
        /\ lumi'[k].ending => lumi'[k].stop /\ ~lumi'[k].continuing
    BY <1>4, <1>7, <2>2, <2>3 DEF Unpushed, Unread, Closed
  <2>5. ASSUME NEW j \in Lumis, j # k, Phased
        PROVE  /\ ~Made(j)' => lumi'[j] = NoLumi
               /\ lumi'[j].phase \in Unpushed <=> ~lumi'[j].begun
               /\ lumi'[j].phase \in Unpushed => lumi'[j].toPush = 1
               /\ lumi'[j].phase = "pushing" => lumi'[j].toPush <= NumberOfStreams
               /\ lumi'[j].phase \in Closed \cup {"open"} => lumi'[j].toPush = NumberOfStreams + 1
               /\ lumi'[j].phase \in Closed <=> lumi'[j].left = 0
               /\ lumi'[j].phase \in Unread => pos' = lumi'[j].sync
               /\ lumi'[j].item \in {0, lumi'[j].sync}
               /\ lumi'[j].begun => lumi'[j].item = lumi'[j].sync
               /\ lumi'[j].phase = "globalBegin" => lumi'[j].item = lumi'[j].sync
               /\ lumi'[j].startedNext => lumi'[j].ending
               /\ lumi'[j].ending => lumi'[j].stop /\ ~lumi'[j].continuing
    BY <1>3, <2>1, <2>5 DEF Phased
  <2> QED BY <1>1, <2>4, <2>5 DEF Phased
<1>10. \A j \in Lumis : /\ Made(j)' <=> Made(j)
                        /\ Alive(j)' <=> Alive(j)
                        /\ lumi'[j].sync = lumi[j].sync /\ lumi'[j].stop = lumi[j].stop
                        /\ lumi'[j].ending = lumi[j].ending /\ lumi'[j].startedNext = lumi[j].startedNext
                        /\ lumi'[j].continuing = lumi[j].continuing
  BY <1>3, <1>4, <1>7 DEF Made, Alive
<1>11. Ordered' /\ Occupied'
  <2>1. Ordered'
    BY <1>1, <1>3, <1>10 DEF Ordered, Begins
  <2>2. {p \in Streams : stream'[p].lumi # 0} = {p \in Streams : stream[p].lumi # 0}
    BY <1>4
  <2>3. active = Cardinality({p \in Streams : stream[p].lumi # 0})
    BY <1>1 DEF Occupied
  <2>4. \A p \in Streams : /\ stream[p].lumi = 0 <=> stream[p].at = "idle"
                           /\ stream[p].lumi = 0 <=> ~stream[p].paused
    BY <1>1 DEF Occupied
  <2>5. \A p \in Streams : /\ stream'[p].lumi = 0 <=> stream'[p].at = "idle"
                           /\ stream'[p].lumi = 0 <=> ~stream'[p].paused
    BY <1>4, <2>4
  <2>6. Occupied'
    BY <1>3, <2>2, <2>3, <2>5 DEF Occupied
  <2> QED BY <2>1, <2>6
<1>12. Quiet' /\ Ended' /\ AtSource' /\ Parked'
  BY <1>1, <1>3, <1>8 DEF Quiet, Ended, AtSource, Parked, At, Chosen, TypeAt
<1>13. Remaining'
  BY <1>1, <1>3, <1>4, <1>5, <1>10 DEF Remaining, Remains, At
<1>14. AtLumis'
  <2>1. Fresh' <=> Fresh
    BY <1>3, <1>10 DEF Fresh, TypeAt
  <2>2. \A j \in Lumis : (Noticed(j)' <=> Noticed(j)) /\ (Stopped(j)' <=> Stopped(j))
    BY <1>3, <1>10, <2>1 DEF Noticed, Stopped, Boundary
  <2>3. \A p \in Streams : stream[p].at = "stopped" => stream[p].lumi \in Lumis
    BY <1>1 DEF TypeOK, Occupied, StreamStates
  <2> QED BY <1>1, <1>3, <1>4, <1>10, <2>2, <2>3 DEF AtLumis, At
<1>15. Slots' /\ Pauses'
  <2>1. \A j \in Lumis : /\ lumi'[j].phase \in Slotted <=> lumi[j].phase \in Slotted
                         /\ lumi'[j].phase \in Pausing <=> lumi[j].phase \in Pausing
                         /\ lumi'[j].phase = "dropped" <=> lumi[j].phase = "dropped"
    BY <1>3, <1>4 DEF Slotted, Pausing
  <2>2. {j \in Lumis : lumi'[j].phase \in Slotted} = {j \in Lumis : lumi[j].phase \in Slotted}
        /\ Pausers' = Pausers
    BY <2>1 DEF Pausers
  <2> QED BY <1>3, <2>1, <2>2 DEF IInv, Slots, Pauses
<1> QED BY <1>5, <1>6, <1>9, <1>11, <1>12, <1>13, <1>14, <1>15 DEF IInv, Statused, Scheduled

-----------------------------------------------------------------------------
(* What one lumi's change of phase does to the count of the slots ...      *)
LEMMA SlotsStep ==
    ASSUME Slots, NEW k \in Lumis, \A j \in Lumis : j # k => lumi'[j].phase = lumi[j].phase,
           \/ UNCHANGED slots /\ (lumi'[k].phase \in Slotted <=> lumi[k].phase \in Slotted)
           \/ slots' = slots + 1 /\ lumi[k].phase \notin Slotted /\ lumi'[k].phase \in Slotted
           \/ slots' = slots - 1 /\ lumi[k].phase \in Slotted /\ lumi'[k].phase \notin Slotted
    PROVE  Slots' /\ slots' \in Nat
<1>1. PICK P : P = {j \in Lumis : lumi[j].phase \in Slotted}
  OBVIOUS
<1>2. PICK Q : Q = {j \in Lumis : lumi'[j].phase \in Slotted}
  OBVIOUS
<1>3. IsFiniteSet(P) /\ IsFiniteSet(Q) /\ Cardinality(P) \in Nat /\ Cardinality(Q) \in Nat /\ slots = Cardinality(P)
  <2>1. IsFiniteSet(P) /\ IsFiniteSet(Q)
    BY <1>1, <1>2, Finite, FS_Subset
  <2> QED BY <1>1, <2>1, FS_CardinalityType DEF Slots
<1>4. slots' = Cardinality(Q)
  <2>1. CASE UNCHANGED slots /\ (lumi'[k].phase \in Slotted <=> lumi[k].phase \in Slotted)
    <3>1. P = Q
      BY <1>1, <1>2, <2>1
    <3> QED BY <1>3, <2>1, <3>1
  <2>2. CASE slots' = slots + 1 /\ lumi[k].phase \notin Slotted /\ lumi'[k].phase \in Slotted
    <3>1. Q = P \cup {k} /\ k \notin P
      BY <1>1, <1>2, <2>2
    <3>2. Cardinality(P \cup {k}) = Cardinality(P) + 1
      BY <1>3, <3>1, FS_AddElement
    <3> QED BY <1>3, <2>2, <3>1, <3>2
  <2>3. CASE slots' = slots - 1 /\ lumi[k].phase \in Slotted /\ lumi'[k].phase \notin Slotted
    <3>1. Q = P \ {k} /\ k \in P
      BY <1>1, <1>2, <2>3
    <3>2. Cardinality(P \ {k}) = Cardinality(P) - 1
      BY <1>3, <3>1, FS_RemoveElement
    <3> QED BY <1>3, <2>3, <3>1, <3>2
  <2> QED BY <2>1, <2>2, <2>3
<1> QED BY <1>2, <1>3, <1>4 DEF Slots

(* ... and to the pauses of iovQueue_.                                     *)
LEMMA PausesStep ==
    ASSUME Pauses, NEW k \in Lumis, \A j \in Lumis : j # k => lumi'[j].phase = lumi[j].phase,
           lumi[k].phase = "dropped" => lumi'[k].phase = "dropped",
           \/ /\ UNCHANGED iovHolds /\ (lumi'[k].phase \in Pausing => lumi[k].phase \in Pausing)
              /\ lumi[k].phase \in Pausing => lumi'[k].phase \in Pausing \cup {"dropped"}
           \/ iovHolds' = iovHolds + 1 /\ lumi[k].phase \notin Pausing /\ lumi'[k].phase \in Pausing
           \/ iovHolds' = iovHolds - 1 /\ lumi[k].phase \in Pausing /\ lumi'[k].phase \notin Pausing
    PROVE  Pauses' /\ iovHolds' \in 0..Cardinality(Lumis)
<1>1. PICK H \in SUBSET Lumis : /\ Pausers \subseteq H /\ \A j \in H \ Pausers : lumi[j].phase = "dropped"
                                /\ iovHolds = Cardinality(H)
  BY DEF Pauses
<1>2. "dropped" \notin Pausing
  BY DEF Pausing
<1>3. \A G \in SUBSET Lumis : IsFiniteSet(G) /\ Cardinality(G) \in Nat /\ Cardinality(G) <= Cardinality(Lumis)
  BY Finite, FS_Subset, FS_CardinalityType
<1>4. \E G \in SUBSET Lumis : /\ Pausers' \subseteq G /\ \A j \in G \ Pausers' : lumi'[j].phase = "dropped"
                              /\ iovHolds' = Cardinality(G)
  <2>1. CASE /\ UNCHANGED iovHolds /\ (lumi'[k].phase \in Pausing => lumi[k].phase \in Pausing)
             /\ lumi[k].phase \in Pausing => lumi'[k].phase \in Pausing \cup {"dropped"}
    <3>1. Pausers' \subseteq H /\ \A j \in H \ Pausers' : lumi'[j].phase = "dropped"
      BY <1>1, <2>1 DEF Pausers
    <3> QED BY <1>1, <2>1, <3>1
  <2>2. CASE iovHolds' = iovHolds + 1 /\ lumi[k].phase \notin Pausing /\ lumi'[k].phase \in Pausing
    <3>1. k \notin H
      BY <1>1, <1>2, <2>2 DEF Pausers
    <3>2. Pausers' \subseteq H \cup {k} /\ \A j \in (H \cup {k}) \ Pausers' : lumi'[j].phase = "dropped"
      BY <1>1, <2>2 DEF Pausers
    <3>3. Cardinality(H \cup {k}) = Cardinality(H) + 1
      BY <1>3, <3>1, FS_AddElement
    <3> QED BY <1>1, <2>2, <3>2, <3>3
  <2>3. CASE iovHolds' = iovHolds - 1 /\ lumi[k].phase \in Pausing /\ lumi'[k].phase \notin Pausing
    <3>1. k \in H
      BY <1>1, <2>3 DEF Pausers
    <3>2. Pausers' \subseteq H \ {k} /\ \A j \in (H \ {k}) \ Pausers' : lumi'[j].phase = "dropped"
      BY <1>1, <2>3 DEF Pausers
    <3>3. Cardinality(H \ {k}) = Cardinality(H) - 1
      BY <1>3, <3>1, FS_RemoveElement
    <3> QED BY <1>1, <2>3, <3>2, <3>3
  <2> QED BY <2>1, <2>2, <2>3
<1>5. PICK G \in SUBSET Lumis : /\ Pausers' \subseteq G /\ \A j \in G \ Pausers' : lumi'[j].phase = "dropped"
                                /\ iovHolds' = Cardinality(G)
  BY <1>4
<1> QED BY <1>3, <1>4, <1>5, Finite DEF Pauses

(* The transitions of a lumi keep the types, the slots and the pauses.     *)
LEMMA PhaseResources ==
    ASSUME TypeOK, Ordered, Slots, Pauses, NEW k \in Lumis, NEW a \in Phases, NEW b \in Phases, PhaseStep(k, a, b),
           \/ ChangeIov(k) \/ LumiWork(k) \/ ReadLumi(k) \/ GlobalBegun(k) \/ GlobalEnded(k)
           \/ ReleaseIov(k) \/ ReleasePrincipal(k) \/ ReleaseSlot(k) \/ ReleaseRun(k)
    PROVE  TypeOK' /\ Slots' /\ Pauses'
<1>1. /\ lumi \in [Lumis -> Statuses] /\ lumi' \in [Lumis -> Statuses] /\ lumi[k].phase = a /\ lumi'[k].phase = b
      /\ <<a, b>> \in Transitions /\ \A j \in Lumis : j # k => lumi'[j].phase = lumi[j].phase
      /\ lumi[k] \in Statuses /\ lumi'[k] \in Statuses
      /\ slots \in 0..ConcurrentLumis /\ ConcurrentLumis \in Nat /\ iov \in Nat /\ iovHolds \in Nat
      /\ failed \in BOOLEAN /\ failures \in 0..MaxFailures /\ MaxFailures \in Nat
      /\ UNCHANGED <<pos, last, signalled, full, deferred, stream, active, locals, main, files, run, cached, lost>>
  BY Finite, CountsAssumption DEF TypeOK, PhaseStep, mainVars, runVars
<1>2. \A p : SetPhase(k, p) => p = b
  BY <1>1 DEF SetPhase, Statuses
<1>3. \A t : Fails(t) \/ Succeeds => failures' \in 0..MaxFailures
  BY <1>1 DEF Fails, Succeeds
<1> DEFINE Slot == \/ UNCHANGED slots /\ (b \in Slotted <=> a \in Slotted)
                   \/ slots' = slots + 1 /\ slots < ConcurrentLumis /\ a \notin Slotted /\ b \in Slotted
                   \/ slots' = slots - 1 /\ a \in Slotted /\ b \notin Slotted
           Pause == \/ UNCHANGED iovHolds /\ (b \in Pausing <=> a \in Pausing)
                    \/ UNCHANGED iovHolds /\ b = "dropped" /\ a \in Pausing
                    \/ iovHolds' = iovHolds + 1 /\ a \notin Pausing /\ b \in Pausing
                    \/ iovHolds' = iovHolds - 1 /\ a \in Pausing /\ b \notin Pausing
           Types == failed' \in BOOLEAN /\ failures' \in 0..MaxFailures /\ iov' \in Nat
<1>4. Slot /\ Pause /\ Types
  <2>1. CASE ChangeIov(k)
    <3>1. a = "iov" /\ iovHolds = 0 /\ UNCHANGED slots
      BY <1>1, <2>1 DEF ChangeIov
    <3>2. Items[lumi[k].sync].iov \in Nat
      BY <1>1, <3>1, ItemFacts DEF Ordered, Begins, Made
    <3>3. CASE Succeeds /\ iov' = Items[lumi[k].sync].iov /\ iovHolds' = 1 /\ SetPhase(k, "queued") /\ UNCHANGED failed
      <4>1. b = "queued"
        BY <1>2, <3>3
      <4> QED BY <1>1, <1>3, <3>1, <3>2, <3>3, <4>1 DEF Slotted, Pausing
    <3>4. CASE Fails("iov") /\ Drop(k) /\ UNCHANGED <<iov, iovHolds>>
      <4>1. b = "dropped" /\ failed'
        BY <1>2, <3>4 DEF Drop
      <4> QED BY <1>1, <1>3, <3>1, <3>4, <4>1 DEF Slotted, Pausing
    <3> QED BY <2>1, <3>3, <3>4 DEF ChangeIov
  <2>2. CASE LumiWork(k)
    <3>1. a = "queued" /\ slots < ConcurrentLumis /\ UNCHANGED <<iov, iovHolds, failed, failures>>
      BY <1>1, <2>2 DEF LumiWork
    <3>2. \/ b = "dropped" /\ UNCHANGED slots
          \/ b = "source" /\ slots' = slots + 1
      BY <1>2, <2>2 DEF LumiWork
    <3> QED BY <1>1, <3>1, <3>2 DEF Slotted, Pausing
  <2>3. CASE ReadLumi(k)
    <3>1. a = "source" /\ UNCHANGED <<iov, iovHolds>>
      BY <1>1, <2>3 DEF ReadLumi
    <3>2. CASE Succeeds /\ lumi' = [lumi EXCEPT ![k].phase = "globalBegin", ![k].item = pos] /\ UNCHANGED <<failed, slots>>
      <4>1. b = "globalBegin"
        BY <1>1, <3>2 DEF Statuses
      <4> QED BY <1>1, <1>3, <3>1, <3>2, <4>1 DEF Slotted, Pausing
    <3>3. CASE Fails("read") /\ Drop(k) /\ slots' = slots - 1
      <4>1. b = "dropped" /\ failed'
        BY <1>2, <3>3 DEF Drop
      <4> QED BY <1>1, <1>3, <3>1, <3>3, <4>1 DEF Slotted, Pausing
    <3> QED BY <2>3, <3>2, <3>3 DEF ReadLumi
  <2>4. CASE GlobalBegun(k)
    <3>1. a = "globalBegin" /\ UNCHANGED <<iov, iovHolds>>
      BY <1>1, <2>4 DEF GlobalBegun
    <3>2. CASE Succeeds /\ lumi' = [lumi EXCEPT ![k].phase = "pushing", ![k].begun = TRUE] /\ UNCHANGED <<failed, slots>>
      <4>1. b = "pushing"
        BY <1>1, <3>2 DEF Statuses
      <4> QED BY <1>1, <1>3, <3>1, <3>2, <4>1 DEF Slotted, Pausing
    <3>3. CASE Fails("globalBegin") /\ Drop(k) /\ slots' = slots - 1
      <4>1. b = "dropped" /\ failed'
        BY <1>2, <3>3 DEF Drop
      <4> QED BY <1>1, <1>3, <3>1, <3>3, <4>1 DEF Slotted, Pausing
    <3> QED BY <2>4, <3>2, <3>3 DEF GlobalBegun
  <2>5. CASE GlobalEnded(k)
    <3>1. a = "globalEnd" /\ UNCHANGED <<iov, iovHolds, slots>> /\ failed' \in BOOLEAN
      BY <1>1, <2>5 DEF GlobalEnded, queueVars
    <3>2. b = "ended" /\ (Fails("globalEnd") \/ Succeeds)
      <4>1. PICK error \in BOOLEAN : /\ IF error THEN Fails("globalEnd") ELSE Succeeds
                                     /\ lumi' = [lumi EXCEPT ![k].phase = "ended", ![k].endFailed = error]
        BY <2>5 DEF GlobalEnded
      <4>2. lumi'[k].phase = "ended"
        BY <1>1, <4>1 DEF Statuses
      <4> QED BY <1>1, <4>1, <4>2
    <3> QED BY <1>1, <1>3, <3>1, <3>2 DEF Slotted, Pausing
  <2>6. CASE ReleaseIov(k)
    <3>1. a = "ended" /\ b = "iovReleased" /\ iovHolds' = iovHolds - 1 /\ UNCHANGED <<iov, slots, failed, failures>>
      BY <1>1, <1>2, <2>6 DEF ReleaseIov
    <3> QED BY <1>1, <3>1 DEF Slotted, Pausing
  <2>7. CASE ReleasePrincipal(k)
    <3>1. a = "iovReleased" /\ b = "principalReleased" /\ UNCHANGED <<iov, iovHolds, slots, failed, failures>>
      BY <1>1, <1>2, <2>7 DEF ReleasePrincipal, queueVars
    <3> QED BY <1>1, <3>1 DEF Slotted, Pausing
  <2>8. CASE ReleaseSlot(k)
    <3>1. a = "principalReleased" /\ b = "slotReleased" /\ slots' = slots - 1 /\ UNCHANGED <<iov, iovHolds, failed, failures>>
      BY <1>1, <1>2, <2>8 DEF ReleaseSlot
    <3> QED BY <1>1, <3>1 DEF Slotted, Pausing
  <2>9. CASE ReleaseRun(k)
    <3>1. a = "slotReleased" /\ b = "done" /\ UNCHANGED <<iov, iovHolds, slots, failures>> /\ failed' \in BOOLEAN
      BY <1>1, <1>2, <2>9 DEF ReleaseRun, queueVars, Statuses
    <3> QED BY <1>1, <3>1 DEF Slotted, Pausing
  <2> QED BY <2>1, <2>2, <2>3, <2>4, <2>5, <2>6, <2>7, <2>8, <2>9
<1>5. a # "dropped"
  BY <1>1 DEF Transitions
<1>6. Slots' /\ slots' \in Nat
  BY <1>1, <1>4, SlotsStep
<1>7. slots' \in 0..ConcurrentLumis
  BY <1>1, <1>4, <1>6
<1>8. Pauses' /\ iovHolds' \in 0..Cardinality(Lumis)
  BY <1>1, <1>4, <1>5, PausesStep
<1> QED BY <1>1, <1>4, <1>6, <1>7, <1>8 DEF TypeOK

-----------------------------------------------------------------------------
(* A stream takes the lumi at the front of its queue.                      *)
LEMMA TakeFacts ==
    ASSUME TypeOK, Occupied, NEW s \in Streams, BeginStream(s)
    PROVE  \E k \in Lumis, q \in Seq(Lumis) :
              /\ q = stream[s].queue /\ q # <<>> /\ k = q[1] /\ stream[s].lumi = 0
              /\ StreamBecomes(s, [lumi |-> k, at |-> "begin", queue |-> Tail(q), paused |-> TRUE])
<1>1. /\ stream[s].queue # <<>> /\ ~stream[s].paused
      /\ stream' = [stream EXCEPT ![s] = [lumi |-> Head(stream[s].queue), at |-> "begin",
                                          queue |-> Tail(stream[s].queue), paused |-> TRUE]]
  BY DEF BeginStream, TypeOK
<1>2. stream \in [Streams -> StreamStates] /\ stream[s] \in StreamStates
  BY DEF TypeOK
<1>3. PICK S : S = Lumis
  OBVIOUS
<1>4. PICK q \in Seq(S) : q = stream[s].queue
  BY <1>2, <1>3 DEF StreamStates
<1>5. Head(q) = q[1] /\ q[1] \in S /\ Tail(q) \in Seq(S)
  BY <1>1, <1>4, TailFacts
<1>6. PICK r \in StreamStates : r = [lumi |-> q[1], at |-> "begin", queue |-> Tail(q), paused |-> TRUE]
  BY <1>3, <1>5 DEF StreamStates
<1>7. stream' = [stream EXCEPT ![s] = r]
  BY <1>1, <1>4, <1>5, <1>6
<1>8. StreamBecomes(s, r)
  BY <1>2, <1>7, StreamUpdates
<1>9. stream[s].lumi = 0
  BY <1>1 DEF Occupied
<1> QED BY <1>1, <1>3, <1>4, <1>5, <1>6, <1>8, <1>9

(* It leaves the queue and is the stream's.                                *)
LEMMA TakePlaces ==
    ASSUME Statused, NEW s \in Streams, BeginStream(s), NEW k \in Lumis, NEW q \in Seq(Lumis),
           q = stream[s].queue, q # <<>>, k = q[1], stream[s].lumi = 0,
           StreamBecomes(s, [lumi |-> k, at |-> "begin", queue |-> Tail(q), paused |-> TRUE])
    PROVE  /\ \A p \in Streams, j \in Lumis :
                 /\ ToCome(p, j)' <=> ToCome(p, j)
                 /\ Queued(p, j)' <=> Queued(p, j) /\ ~(p = s /\ j = k)
                 /\ Within(p, j)' <=> Within(p, j) \/ (p = s /\ j = k)
                 /\ Finishes(p, j)' <=> Finishes(p, j)
           /\ Placed' /\ Counted'
<1>0. PICK t : t = Tail(q)
  OBVIOUS
<1>1. /\ TypeOK /\ Phased /\ Placed /\ Counted /\ UNCHANGED lumi
      /\ stream'[s].lumi = k /\ stream'[s].queue = t
      /\ \A p \in Streams : p # s => stream'[p] = stream[p]
  BY <1>0 DEF Statused, StreamBecomes, BeginStream
<1>2. \A l : l.holds = "finish" => (l \in locals' <=> l \in locals)
  BY DEF BeginStream
<1>3. /\ Len(q) \in Nat /\ Len(q) > 0 /\ Len(t) = Len(q) - 1
      /\ \A i \in 1..Len(t) : t[i] = q[i + 1]
  <2>1. PICK S : S = Lumis
    OBVIOUS
  <2>2. q \in Seq(S)
    BY <2>1
  <2> QED BY <1>0, <2>2, TailFacts
<1>4. ASSUME NEW j \in Lumis, NEW m \in 1..Len(q), NEW n \in 1..Len(q), q[m] = j, q[n] = j
      PROVE  m = n
  <2>1. \A i, o \in 1..Len(stream[s].queue) : stream[s].queue[i] = j /\ stream[s].queue[o] = j => i = o
    BY <1>1 DEF Placed
  <2> QED BY <1>4, <2>1
<1>5. ASSUME NEW p \in Streams, NEW j \in Lumis
      PROVE  /\ ToCome(p, j)' <=> ToCome(p, j)
             /\ Queued(p, j)' <=> Queued(p, j) /\ ~(p = s /\ j = k)
             /\ Within(p, j)' <=> Within(p, j) \/ (p = s /\ j = k)
             /\ Finishes(p, j)' <=> Finishes(p, j)
  <2>1. ToCome(p, j)' <=> ToCome(p, j)
    BY <1>1 DEF ToCome
  <2>2. Queued(p, j)' <=> Queued(p, j) /\ ~(p = s /\ j = k)
    <3>1. CASE p # s
      BY <1>1, <3>1 DEF Queued
    <3>2. CASE p = s
      <4>1. Queued(p, j)' <=> \E i \in 1..(Len(q) - 1) : q[i + 1] = j
        <5>1. Queued(p, j)' <=> \E i \in 1..Len(t) : t[i] = j
          BY <1>1, <3>2 DEF Queued
        <5>2. Len(t) = Len(q) - 1
          BY <1>3
        <5>3. \A i \in 1..Len(t) : t[i] = j <=> q[i + 1] = j
          BY <1>3
        <5> QED BY <5>1, <5>2, <5>3
      <4>2. Queued(p, j) <=> \E i \in 1..Len(q) : q[i] = j
        BY <3>2 DEF Queued
      <4>3. \A i \in 1..(Len(q) - 1) : i + 1 \in 1..Len(q) /\ i + 1 # 1
        BY <1>3
      <4>4. \A i \in 1..Len(q) : i # 1 => i - 1 \in 1..(Len(q) - 1) /\ (i - 1) + 1 = i
        BY <1>3
      <4>5. 1 \in 1..Len(q)
        BY <1>3
      <4>6. CASE j = k
        <5>1. \A i \in 1..Len(q) : q[i] = j => i = 1
          BY <1>4, <4>5, <4>6
        <5> QED BY <3>2, <4>1, <4>3, <4>6, <5>1
      <4>7. CASE j # k
        <5>1. \A i \in 1..Len(q) : q[i] = j => i # 1
          BY <4>7
        <5> QED BY <3>2, <4>1, <4>2, <4>3, <4>4, <4>7, <5>1
      <4> QED BY <4>6, <4>7
    <3> QED BY <3>1, <3>2
  <2>3. Within(p, j)' <=> Within(p, j) \/ (p = s /\ j = k)
    <3>1. 0 \notin Lumis
      BY Finite
    <3> QED BY <1>1, <3>1 DEF Within
  <2>4. Finishes(p, j)' <=> Finishes(p, j)
    BY <1>2 DEF Finishes, Finishing
  <2> QED BY <2>1, <2>2, <2>3, <2>4
<1>6. Queued(s, k)
  BY <1>3 DEF Queued
<1>7. ~ToCome(s, k) /\ ~Within(s, k) /\ ~Finishes(s, k)
  BY <1>1, <1>6 DEF Placed
<1>8. \A p \in Streams, j \in Lumis : \A i, n \in 1..Len(stream'[p].queue) :
         stream'[p].queue[i] = j /\ stream'[p].queue[n] = j => i = n
  <2> SUFFICES ASSUME NEW p \in Streams, NEW j \in Lumis, NEW i \in 1..Len(stream'[p].queue),
                      NEW n \in 1..Len(stream'[p].queue), stream'[p].queue[i] = j, stream'[p].queue[n] = j
               PROVE  i = n
    OBVIOUS
  <2>1. CASE p # s
    BY <1>1, <2>1 DEF Placed
  <2>2. CASE p = s
    <3>1. i \in 1..(Len(q) - 1) /\ n \in 1..(Len(q) - 1) /\ q[i + 1] = j /\ q[n + 1] = j
      BY <1>1, <1>3, <2>2
    <3>2. i + 1 \in 1..Len(q) /\ n + 1 \in 1..Len(q)
      BY <1>3, <3>1
    <3>3. i + 1 = n + 1
      BY <1>4, <3>1, <3>2
    <3> QED BY <3>1, <3>3
  <2> QED BY <2>1, <2>2
<1>9. Placed'
  <2>1. \A p \in Streams, j \in Lumis : \A l, m \in locals' : Finishing(l, p, j) /\ Finishing(m, p, j) => l = m
    BY <1>1, <1>2 DEF Placed, Finishing
  <2>2. \A p \in Streams, j \in Lumis :
           /\ ToCome(p, j) => ~Queued(p, j) /\ ~Within(p, j) /\ ~Finishes(p, j)
           /\ Queued(p, j) => ~Within(p, j) /\ ~Finishes(p, j)
           /\ Within(p, j) => ~Finishes(p, j)
    BY <1>1 DEF Placed
  <2>3. \A p \in Streams, j \in Lumis :
           /\ ToCome(p, j)' => ~Queued(p, j)' /\ ~Within(p, j)' /\ ~Finishes(p, j)'
           /\ Queued(p, j)' => ~Within(p, j)' /\ ~Finishes(p, j)'
           /\ Within(p, j)' => ~Finishes(p, j)'
    BY <1>5, <1>7, <2>2
  <2> QED BY <1>8, <2>1, <2>3 DEF Placed, Finishing
<1>10. Counted'
  <2>1. \A p \in Streams, j \in Lumis : Pends(p, j)' <=> Pends(p, j)
    BY <1>5, <1>6 DEF Pends
  <2> QED BY <1>1, <2>1 DEF Counted
<1> QED BY <1>5, <1>9, <1>10

(* Nothing else is under way for main while the streams work.              *)
LEMMA WaitFrame ==
    ASSUME At("lumis"), UNCHANGED main, last' # "stop" => last' = TypeAt(pos')
    PROVE  Quiet' /\ Ended' /\ AtSource' /\ Parked'
<1>1. main'.pc = "lumis"
  BY DEF At
<1>2. TypeAt(pos)' = TypeAt(pos')
  BY DEF TypeAt
<1> QED BY <1>1, <1>2 DEF Quiet, Ended, AtSource, Parked, At, Chosen

(* The begin of a stream keeps the invariant.                              *)
LEMMA BeginStreamKeeps ==
    ASSUME IInv, NEW s \in Streams, BeginStream(s)
    PROVE  IInv'
<1>1. /\ Statused /\ TypeOK /\ Phased /\ Ordered /\ Placed /\ Counted /\ Occupied /\ Slots /\ Pauses
      /\ Quiet /\ Ended /\ AtSource /\ Remaining /\ AtLumis
  BY DEF IInv, Statused, Scheduled
<1>2. PICK k \in Lumis, q \in Seq(Lumis) :
              /\ q = stream[s].queue /\ q # <<>> /\ k = q[1] /\ stream[s].lumi = 0
              /\ StreamBecomes(s, [lumi |-> k, at |-> "begin", queue |-> Tail(q), paused |-> TRUE])
  BY <1>1, TakeFacts
<1>3. /\ \A p \in Streams, j \in Lumis :
            /\ ToCome(p, j)' <=> ToCome(p, j)
            /\ Queued(p, j)' <=> Queued(p, j) /\ ~(p = s /\ j = k)
            /\ Within(p, j)' <=> Within(p, j) \/ (p = s /\ j = k)
            /\ Finishes(p, j)' <=> Finishes(p, j)
      /\ Placed' /\ Counted'
  <2>1. Statused
    BY <1>1
  <2> QED BY <1>2, <2>1, TakePlaces
<1>4. /\ stream' \in [Streams -> StreamStates] /\ \A p \in Streams : p # s => stream'[p] = stream[p]
      /\ stream'[s].lumi = k /\ stream'[s].at = "begin" /\ stream'[s].paused
      /\ active' = active + 1
      /\ UNCHANGED <<pos, last, deferred, signalled, full, iov, iovHolds, slots, lumi,
                     main, files, run, cached, lost, failed, failures>>
  BY <1>2 DEF StreamBecomes, BeginStream, sourceVars, queueVars, mainVars, runVars
<1>5. At("lumis")
  <2>1. Held
    BY <1>2 DEF Held
  <2>2. main.pc # "endWait"
    BY <1>1, <1>2 DEF Ended, At
  <2> QED BY <1>1, <2>1, <2>2 DEF Quiet, At
<1>6. Phased' /\ Ordered'
  BY <1>1, <1>4 DEF Phased, Ordered, Made, Begins, Alive
<1>7. Occupied' /\ active' \in 0..NumberOfStreams
  <2>1. PICK P : P = {p \in Streams : stream[p].lumi # 0}
    OBVIOUS
  <2>2. P \subseteq Streams /\ s \notin P /\ IsFiniteSet(P)
    BY <1>2, <2>1, Finite, FS_Subset
  <2>3. Cardinality(P \cup {s}) = Cardinality(P) + 1
    BY <2>2, FS_AddElement
  <2>4. k # 0
    BY Finite
  <2>5. {p \in Streams : stream'[p].lumi # 0} = P \cup {s}
    BY <1>4, <2>1, <2>4
  <2>6. active = Cardinality(P)
    BY <1>1, <2>1 DEF Occupied
  <2>7. \A p \in Streams : /\ stream'[p].lumi = 0 <=> stream'[p].at = "idle"
                           /\ stream'[p].lumi = 0 <=> ~stream'[p].paused
    <3>1. \A p \in Streams : /\ stream[p].lumi = 0 <=> stream[p].at = "idle"
                             /\ stream[p].lumi = 0 <=> ~stream[p].paused
      BY <1>1 DEF Occupied
    <3> QED BY <1>4, <2>4, <3>1
  <2>8. active' = Cardinality(P \cup {s})
    BY <1>4, <2>3, <2>6
  <2>9. Occupied'
    BY <2>5, <2>7, <2>8 DEF Occupied
  <2>10. Cardinality(P \cup {s}) \in Nat /\ Cardinality(P \cup {s}) <= NumberOfStreams
    BY <2>2, Finite, FS_Subset, FS_CardinalityType
  <2>11. active' \in 0..NumberOfStreams
    BY <2>8, <2>10, CountsAssumption
  <2> QED BY <2>9, <2>11
<1>8. locals' \subseteq Copies
  <2>1. [stream |-> s, lumi |-> k, holds |-> "principal", error |-> FALSE] \in Copies
    BY DEF Copies
  <2>2. Head(stream[s].queue) = k
    BY <1>2
  <2> QED BY <1>1, <2>1, <2>2 DEF BeginStream, TypeOK
<1>9. TypeOK'
  BY <1>1, <1>4, <1>7, <1>8 DEF TypeOK
<1>10. Quiet' /\ Ended' /\ AtSource' /\ Parked'
  <2>1. last' # "stop" => last' = TypeAt(pos')
    BY <1>1, <1>4 DEF AtSource
  <2> QED BY <1>4, <1>5, <2>1, WaitFrame
<1>11. Remaining'
  <2>1. \A j \in Lumis, p \in Streams : Remains(p, j) => Remains(p, j)'
    BY <1>3, <1>4 DEF Remains, Within
  <2> QED BY <1>1, <1>4, <2>1 DEF Remaining, Alive, At
<1>12. AtLumis'
  <2>1. \A p \in Streams : stream'[p].at = "stopped" => stream[p].at = "stopped" /\ stream'[p].lumi = stream[p].lumi
    BY <1>4
  <2>2. Fresh' <=> Fresh
    BY <1>4 DEF Fresh, Made, TypeAt
  <2>3. \A j \in Lumis : Noticed(j)' <=> Noticed(j)
    BY <1>4, <2>2 DEF Noticed, Boundary
  <2>4. ASSUME NEW p \in Streams, stream'[p].at = "stopped" PROVE failed \/ deferred \/ Stopped(stream'[p].lumi)
    BY <1>1, <1>5, <2>1, <2>4 DEF AtLumis
  <2> QED BY <1>1, <1>4, <2>3, <2>4 DEF AtLumis, At, Alive, Stopped, Boundary
<1>13. Slots' /\ Pauses'
  BY <1>1, <1>4 DEF Slots, Pauses, Pausers
<1> QED BY <1>3, <1>6, <1>7, <1>9, <1>10, <1>11, <1>12, <1>13 DEF IInv, Statused, Scheduled

-----------------------------------------------------------------------------
(* Streams that go on to something else stay in their lumis.               *)
Stays(p) == /\ stream'[p].lumi = stream[p].lumi /\ stream'[p].queue = stream[p].queue
            /\ stream'[p].paused = stream[p].paused
            /\ stream'[p].at = "idle" <=> stream[p].at = "idle"
(* Streams that stay where they are have the same lumis before them.       *)
LEMMA StayPlaces ==
    ASSUME Statused, \A p \in Streams : Stays(p), UNCHANGED <<active, locals>>,
           \A j \in Lumis : lumi'[j].toPush = lumi[j].toPush /\ lumi'[j].left = lumi[j].left
    PROVE  /\ \A p \in Streams, j \in Lumis :
                 /\ ToCome(p, j)' <=> ToCome(p, j)
                 /\ Queued(p, j)' <=> Queued(p, j)
                 /\ Within(p, j)' <=> Within(p, j)
                 /\ Finishes(p, j)' <=> Finishes(p, j)
           /\ Placed' /\ Counted' /\ Occupied'
<1>1. /\ Placed /\ Counted /\ Occupied /\ UNCHANGED <<active, locals>>
      /\ \A p \in Streams : /\ stream'[p].lumi = stream[p].lumi /\ stream'[p].queue = stream[p].queue
                            /\ stream'[p].paused = stream[p].paused
                            /\ stream'[p].at = "idle" <=> stream[p].at = "idle"
      /\ \A j \in Lumis : lumi'[j].toPush = lumi[j].toPush /\ lumi'[j].left = lumi[j].left
  BY DEF Statused, Stays
<1>2. ASSUME NEW p \in Streams, NEW j \in Lumis
      PROVE  /\ ToCome(p, j)' <=> ToCome(p, j)
             /\ Queued(p, j)' <=> Queued(p, j)
             /\ Within(p, j)' <=> Within(p, j)
             /\ Finishes(p, j)' <=> Finishes(p, j)
  BY <1>1 DEF ToCome, Queued, Within, Finishes, Finishing
<1>3. Placed'
  BY <1>1, <1>2 DEF Placed, Finishing
<1>4. Counted'
  BY <1>1, <1>2 DEF Counted, Pends
<1>5. {p \in Streams : stream'[p].lumi # 0} = {p \in Streams : stream[p].lumi # 0}
  BY <1>1
<1>6. \A p \in Streams : /\ stream'[p].lumi = 0 <=> stream'[p].at = "idle"
                         /\ stream'[p].lumi = 0 <=> ~stream'[p].paused
  <2>1. \A p \in Streams : /\ stream[p].lumi = 0 <=> stream[p].at = "idle"
                           /\ stream[p].lumi = 0 <=> ~stream[p].paused
    BY <1>1 DEF Occupied
  <2> QED BY <1>1, <2>1
<1>7. Occupied'
  BY <1>1, <1>5, <1>6 DEF Occupied
<1> QED BY <1>2, <1>3, <1>4, <1>7

(* A stream that goes on, stops or ends its lumi with a reason, while the  *)
(* lumis stay as they are.                                                 *)
GoesOn(s, at) ==
    /\ stream[s].at \in {"begin", "next", "event"} /\ at \in {"next", "stopped", "end"}
    /\ stream' = [stream EXCEPT ![s].at = at]
    /\ at = "stopped" => failed' \/ deferred' \/ Stopped(stream[s].lumi)
    /\ at = "end" => lumi[stream[s].lumi].ending
    /\ deferred' \in {deferred, TRUE} /\ full' \in {full, TRUE} /\ failed' \in {failed, TRUE}
    /\ failures' \in 0..MaxFailures
    /\ UNCHANGED <<pos, last, signalled, iov, iovHolds, slots, lumi, active, locals,
                   main, files, run, cached, lost>>
(* A stream that goes on in its lumi keeps the invariant.                  *)
LEMMA GoesOnKeeps ==
    ASSUME IInv, NEW s \in Streams, NEW at, GoesOn(s, at)
    PROVE  IInv'
<1>1. /\ Statused /\ TypeOK /\ Phased /\ Ordered /\ Placed /\ Counted /\ Occupied /\ Slots /\ Pauses
      /\ Quiet /\ Ended /\ AtSource /\ Remaining /\ AtLumis
  BY DEF IInv, Statused, Scheduled
<1>2. /\ stream[s].at \in {"begin", "next", "event"} /\ at \in {"next", "stopped", "end"}
      /\ at = "stopped" => failed' \/ deferred' \/ Stopped(stream[s].lumi)
      /\ at = "end" => lumi[stream[s].lumi].ending
      /\ deferred \in BOOLEAN /\ full \in BOOLEAN /\ failed \in BOOLEAN /\ failures' \in 0..MaxFailures
      /\ deferred' \in {deferred, TRUE} /\ full' \in {full, TRUE} /\ failed' \in {failed, TRUE}
      /\ UNCHANGED <<pos, last, signalled, iov, iovHolds, slots, lumi, active, locals,
                     main, files, run, cached, lost>>
  BY <1>1 DEF GoesOn, TypeOK
<1>3. /\ stream' \in [Streams -> StreamStates] /\ stream'[s].at = at
      /\ \A p \in Streams : p # s => stream'[p] = stream[p]
      /\ \A p \in Streams : Stays(p)
  <2>1. stream \in [Streams -> StreamStates] /\ stream[s] \in StreamStates /\ stream[s].at # "idle"
    BY <1>1, <1>2 DEF TypeOK
  <2>2. PICK r \in StreamStates : r = [stream[s] EXCEPT !.at = at]
    <3>1. at \in {"idle", "begin", "next", "event", "end", "stopped"}
      BY <1>2
    <3> QED BY <2>1, <3>1 DEF StreamStates
  <2>3. stream' = [stream EXCEPT ![s] = r]
    BY <2>2 DEF GoesOn
  <2>4. StreamBecomes(s, r)
    BY <2>1, <2>3, StreamUpdates
  <2>5. /\ r.lumi = stream[s].lumi /\ r.queue = stream[s].queue /\ r.paused = stream[s].paused /\ r.at = at
        /\ at = "idle" <=> stream[s].at = "idle"
    BY <1>2, <2>1, <2>2 DEF StreamStates
  <2>6. Stays(s)
    BY <2>4, <2>5 DEF StreamBecomes, Stays
  <2>7. \A p \in Streams : p # s => Stays(p)
    BY <2>4 DEF StreamBecomes, Stays
  <2> QED BY <2>1, <2>4, <2>5, <2>6, <2>7 DEF StreamBecomes
<1>4. /\ \A p \in Streams, j \in Lumis :
            /\ ToCome(p, j)' <=> ToCome(p, j)
            /\ Queued(p, j)' <=> Queued(p, j)
            /\ Within(p, j)' <=> Within(p, j)
            /\ Finishes(p, j)' <=> Finishes(p, j)
      /\ Placed' /\ Counted' /\ Occupied'
  BY <1>1, <1>2, <1>3, StayPlaces
<1>5. At("lumis")
  <2>1. Held
    BY <1>2 DEF Held
  <2>2. main.pc # "endWait"
    BY <1>1, <1>2 DEF Ended, At
  <2> QED BY <1>1, <2>1, <2>2 DEF Quiet, At
<1>6. Phased' /\ Ordered'
  BY <1>1, <1>2 DEF Phased, Ordered, Made, Begins, Alive
<1>7. TypeOK'
  <2>1. deferred' \in BOOLEAN /\ full' \in BOOLEAN /\ failed' \in BOOLEAN
    BY <1>2
  <2> QED BY <1>1, <1>2, <1>3, <2>1 DEF TypeOK
<1>8. Quiet' /\ Ended' /\ AtSource' /\ Parked'
  <2>1. last' # "stop" => last' = TypeAt(pos')
    BY <1>1, <1>2 DEF AtSource
  <2> QED BY <1>2, <1>5, <2>1, WaitFrame
<1>9. Remaining'
  <2>1. \A j \in Lumis, p \in Streams : Remains(p, j) /\ ~lumi[j].ending => Remains(p, j)'
    BY <1>2, <1>3, <1>4 DEF Remains, Within
  <2> QED BY <1>1, <1>2, <2>1 DEF Remaining, Alive, At
<1>10. AtLumis'
  <2>1. Fresh' <=> Fresh
    BY <1>2 DEF Fresh, Made, TypeAt
  <2>2. \A j \in Lumis : Noticed(j) => Noticed(j)'
    BY <1>2, <2>1 DEF Noticed, Boundary
  <2>3. ASSUME NEW p \in Streams, stream'[p].at = "stopped"
        PROVE  failed' \/ deferred' \/ Stopped(stream[p].lumi)
    <3>1. CASE p = s
      BY <1>2, <1>3, <2>3, <3>1
    <3>2. CASE p # s
      BY <1>1, <1>2, <1>3, <1>5, <2>3, <3>2 DEF AtLumis
    <3> QED BY <3>1, <3>2
  <2>4. \A j \in Lumis : Alive(j)' => Noticed(j)'
    BY <1>1, <1>2, <1>5, <2>2 DEF AtLumis, Alive
  <2>5. \A p \in Streams : stream'[p].lumi = stream[p].lumi
    BY <1>3 DEF Stays
  <2> QED BY <1>2, <2>3, <2>4, <2>5 DEF AtLumis, Stopped, Boundary
<1>11. Slots' /\ Pauses'
  BY <1>1, <1>2 DEF Slots, Pauses, Pausers
<1> QED BY <1>4, <1>6, <1>7, <1>8, <1>9, <1>10, <1>11 DEF IInv, Statused, Scheduled

(* The end of a stream's begin, and of an event, are of this kind.         *)
LEMMA StreamBegunKeeps ==
    ASSUME IInv, NEW s \in Streams, StreamBegun(s)
    PROVE  IInv'
<1>1. /\ stream[s].at = "begin" /\ failures \in 0..MaxFailures /\ MaxFailures \in Nat
      /\ UNCHANGED <<pos, last, deferred, signalled, full, iov, iovHolds, slots, lumi, active, locals,
                     main, files, run, cached, lost>>
  BY CountsAssumption DEF StreamBegun, IInv, Statused, TypeOK, sourceVars, queueVars, mainVars, runVars
<1>2. CASE Succeeds /\ stream' = [stream EXCEPT ![s].at = "next"] /\ UNCHANGED failed
  <2>1. GoesOn(s, "next")
    BY <1>1, <1>2 DEF GoesOn, Succeeds
  <2> QED BY <2>1, GoesOnKeeps
<1>3. CASE Fails("streamBegin") /\ stream' = [stream EXCEPT ![s].at = "stopped"] /\ failed' = TRUE
  <2>1. GoesOn(s, "stopped")
    BY <1>1, <1>3 DEF GoesOn, Fails
  <2> QED BY <2>1, GoesOnKeeps
<1> QED BY <1>2, <1>3 DEF StreamBegun

(* What a failed event does is deferred.                                   *)
LEMMA EventDoneKeeps ==
    ASSUME IInv, NEW s \in Streams, EventDone(s)
    PROVE  IInv'
<1>1. /\ stream[s].at = "event" /\ failures \in 0..MaxFailures /\ MaxFailures \in Nat
      /\ deferred \in BOOLEAN /\ failed \in BOOLEAN
      /\ UNCHANGED <<pos, last, signalled, iov, iovHolds, slots, lumi, active, locals,
                     main, files, run, cached, lost>>
  BY CountsAssumption DEF EventDone, IInv, Statused, TypeOK, sourceVars, queueVars, mainVars, runVars
<1>2. CASE /\ Succeeds /\ stream' = [stream EXCEPT ![s].at = "next"]
           /\ full' \in {full} \cup (IF "limit" \in Early THEN {TRUE} ELSE {})
           /\ UNCHANGED <<deferred, failed>>
  <2>1. GoesOn(s, "next")
    BY <1>1, <1>2 DEF GoesOn, Succeeds
  <2> QED BY <2>1, GoesOnKeeps
<1>3. CASE /\ Fails("event") /\ stream' = [stream EXCEPT ![s].at = "stopped"]
           /\ deferred' = TRUE /\ failed' = (failed \/ ~deferred) /\ UNCHANGED full
  <2>1. failed' \in {failed, TRUE}
    BY <1>1, <1>3
  <2>2. stream' = [stream EXCEPT ![s].at = "stopped"] /\ deferred' = TRUE /\ UNCHANGED full
        /\ failures' \in 0..MaxFailures
    BY <1>1, <1>3 DEF Fails
  <2>3. GoesOn(s, "stopped")
    BY <1>1, <2>1, <2>2 DEF GoesOn
  <2> QED BY <2>3, GoesOnKeeps
<1> QED BY <1>2, <1>3 DEF EventDone

-----------------------------------------------------------------------------
(* Steps that touch neither lumis nor streams: a functor reports or        *)
(* returns, a signal arrives.                                              *)
Aside ==
    /\ UNCHANGED <<pos, last, full, iovHolds, slots, lumi, stream, active, main, files, run>>
    /\ \A l : l.holds = "finish" => (l \in locals' <=> l \in locals)
    /\ deferred => deferred'
    /\ failed => failed'
    /\ main.pc \in {"lumis", "endWait"} \/ \A l \in locals' : l.holds # "status" => l \in locals
(* So does a step that only drops copies or notes an exception.            *)
LEMMA AsideKeeps ==
    ASSUME IInv, TypeOK', Aside
    PROVE  IInv'
<1>1. /\ Statused /\ TypeOK /\ Phased /\ Ordered /\ Placed /\ Counted /\ Occupied /\ Slots /\ Pauses
      /\ Quiet /\ Ended /\ AtSource /\ Remaining /\ AtLumis /\ Parked
  BY DEF IInv, Statused, Scheduled
<1>2. /\ UNCHANGED <<pos, last, full, iovHolds, slots, lumi, stream, active, main, files, run>>
      /\ \A l : l.holds = "finish" => (l \in locals' <=> l \in locals)
      /\ deferred => deferred'
      /\ failed => failed'
      /\ main.pc \in {"lumis", "endWait"} \/ \A l \in locals' : l.holds # "status" => l \in locals
  BY DEF Aside
<1>3. ASSUME NEW p \in Streams, NEW j \in Lumis
      PROVE  /\ ToCome(p, j)' <=> ToCome(p, j)
             /\ Queued(p, j)' <=> Queued(p, j)
             /\ Within(p, j)' <=> Within(p, j)
             /\ Finishes(p, j)' <=> Finishes(p, j)
  BY <1>2 DEF ToCome, Queued, Within, Finishes, Finishing
<1>4. Placed'
  <2>1. \A p \in Streams, j \in Lumis : \A l, m \in locals' : Finishing(l, p, j) /\ Finishing(m, p, j) => l = m
    BY <1>1, <1>2 DEF Placed, Finishing
  <2> QED BY <1>1, <1>2, <1>3, <2>1 DEF Placed, Finishing
<1>5. Counted'
  BY <1>1, <1>2, <1>3 DEF Counted, Pends
<1>6. Phased' /\ Ordered' /\ Occupied'
  BY <1>1, <1>2 DEF Phased, Ordered, Occupied, Made, Begins, Alive
<1>7. Quiet'
  BY <1>1, <1>2 DEF Quiet, Held, Alive
<1>8. Ended' /\ Parked' /\ AtSource'
  BY <1>1, <1>2 DEF Ended, Parked, Together, AtSource, Alive, Within, Fresh, Made, At, Chosen, TypeAt
<1>9. Remaining'
  BY <1>1, <1>2, <1>3 DEF Remaining, Remains, Alive, At
<1>10. AtLumis'
  BY <1>1, <1>2 DEF AtLumis, Noticed, Stopped, Boundary, Fresh, Alive, Made, At, TypeAt
<1>11. Slots' /\ Pauses'
  BY <1>1, <1>2 DEF Slots, Pauses, Pausers
<1> QED BY <1>4, <1>5, <1>6, <1>7, <1>8, <1>9, <1>10, <1>11 DEF IInv, Statused, Scheduled

(* A signal only raises its flag.                                          *)
LEMMA SignalKeeps ==
    ASSUME IInv, Signal
    PROVE  IInv'
<1>1. /\ UNCHANGED <<pos, last, deferred, full, iov, iovHolds, slots, lumi, stream, active, locals,
                     main, files, run, cached, lost, failed, failures>>
      /\ signalled' = TRUE
  BY DEF Signal, sourceVars, queueVars, mainVars, runVars
<1>2. TypeOK'
  BY <1>1 DEF IInv, Statused, TypeOK
<1>3. Aside
  BY <1>1 DEF Aside
<1> QED BY <1>2, <1>3, AsideKeeps

(* What a functor holds when it has reported, or returned.                 *)
LEMMA ReplaceFacts ==
    ASSUME TypeOK, NEW l \in locals, NEW holds \in {"report", "reportLast", "status"}
    PROVE  /\ locals \subseteq Copies /\ l.stream \in Streams /\ l.lumi \in Lumis /\ l.error \in BOOLEAN
           /\ Replace(l, holds) \subseteq Copies
           /\ \A m : m.holds \notin {holds, l.holds} => (m \in Replace(l, holds) <=> m \in locals)
           /\ \A m \in Replace(l, holds) : m.holds # holds => m \in locals
           /\ \A m \in locals : m # l => m \in Replace(l, holds)
           /\ l.holds # holds => l \notin Replace(l, holds)
<1>1. locals \subseteq Copies /\ l \in Copies
  BY DEF TypeOK
<1>2. PICK r \in Copies : r = [l EXCEPT !.holds = holds]
  BY <1>1 DEF Copies
<1>3. r.holds = holds
  BY <1>1, <1>2 DEF Copies
<1>4. Replace(l, holds) = (locals \ {l}) \cup {r}
  BY <1>2 DEF Replace
<1> QED BY <1>1, <1>3, <1>4 DEF Copies

(* The report of a stream's end.                                           *)
LEMMA StreamReportsKeeps ==
    ASSUME IInv, NEW l \in locals, StreamReports(l)
    PROVE  IInv'
<1>1. /\ l.holds \in {"report", "reportLast"} /\ failed' = (failed \/ l.error)
      /\ locals' = Replace(l, "status") \/ locals' = locals \ {l}
      /\ UNCHANGED <<pos, last, deferred, signalled, full, iov, iovHolds, slots, lumi, stream, active,
                     main, files, run, cached, lost, failures>>
  BY DEF StreamReports, sourceVars, queueVars, mainVars, runVars
<1>2. TypeOK
  BY DEF IInv, Statused
<1>3. /\ locals \subseteq Copies /\ l.error \in BOOLEAN /\ Replace(l, "status") \subseteq Copies
      /\ \A m : m.holds = "finish" => (m \in Replace(l, "status") <=> m \in locals)
  BY <1>1, <1>2, ReplaceFacts
<1>4. failed' \in BOOLEAN /\ (failed => failed')
  BY <1>1
<1>5. locals' \subseteq Copies
  BY <1>1, <1>3
<1>6. TypeOK'
  BY <1>1, <1>2, <1>4, <1>5 DEF TypeOK
<1>7. main.pc \in {"lumis", "endWait"}
  BY <1>1 DEF IInv, Scheduled, Quiet, Held
<1>8. \A m : m.holds = "finish" => (m \in locals' <=> m \in locals)
  BY <1>1, <1>3
<1>9. Aside
  BY <1>1, <1>4, <1>7, <1>8 DEF Aside
<1> QED BY <1>6, <1>9, AsideKeeps

(* The end of a run: there is an interval to load, ...                     *)
LEMMA EndIovFacts ==
    ASSUME NEW i \in 1..Len(Items)
    PROVE  EndIov(Items[i].run) \in Nat
<1>1. PICK n \in Nat : n = Len(Items)
  BY ItemFacts
<1>2. PICK T : T = {j \in 1..n : Items[j].run = Items[i].run}
  OBVIOUS
<1>3. T \in SUBSET (0..n) /\ T # {}
  BY <1>1, <1>2
<1>4. PICK m \in T : \A j \in T : j <= m
  BY <1>1, <1>3, Greatest
<1>5. \E m2 \in DOMAIN Items : /\ Items[m2].run = Items[i].run
                               /\ \A j \in DOMAIN Items : Items[j].run = Items[i].run => j <= m2
  BY <1>1, <1>2, <1>4, ItemFacts
<1>6. PICK c : c = CHOOSE m2 \in DOMAIN Items : /\ Items[m2].run = Items[i].run
                                                /\ \A j \in DOMAIN Items : Items[j].run = Items[i].run => j <= m2
  OBVIOUS
<1>7. c \in 1..Len(Items)
  BY <1>5, <1>6, ItemFacts
<1>8. EndIov(Items[i].run) = Items[c].iov
  BY <1>6 DEF EndIov
<1> QED BY <1>7, <1>8, ItemFacts

(* ... and what it changes keeps its type.                                 *)
RunTypes == /\ iov' \in Nat /\ cached' \in DOMAIN Items \cup {0} /\ lost' \in BOOLEAN
            /\ deferred' \in BOOLEAN /\ failures' \in 0..MaxFailures
            /\ deferred => deferred'
(* The end of a run, whether it throws or not, keeps the types.            *)
LEMMA RunEndsTypes ==
    ASSUME TypeOK, NEW number, RunEnds(number)
    PROVE  RunTypes
<1>1. /\ iov \in Nat /\ cached \in DOMAIN Items \cup {0} /\ lost \in BOOLEAN /\ deferred \in BOOLEAN
      /\ failures \in 0..MaxFailures /\ MaxFailures \in Nat
  BY CountsAssumption DEF TypeOK
<1>2. (deferred \/ main.outcome = "none") \in BOOLEAN /\ (deferred => (deferred \/ main.outcome = "none"))
  BY <1>1
<1>3. CASE cached = 0 \/ Items[cached].run # number
  <2>1. deferred' = (deferred \/ main.outcome = "none") /\ UNCHANGED <<cached, lost, iov, failures>>
    BY <1>3 DEF RunEnds
  <2> QED BY <1>1, <1>2, <2>1 DEF RunTypes
<1>4. CASE cached # 0 /\ Items[cached].run = number
  <2>1. cached \in 1..Len(Items)
    BY <1>1, <1>4, ItemFacts
  <2>2. EndIov(number) \in Nat
    BY <1>4, <2>1, EndIovFacts
  <2>3. CASE Succeeds /\ cached' = 0 /\ iov' = EndIov(number) /\ UNCHANGED <<lost, deferred>>
    BY <1>1, <2>2, <2>3 DEF RunTypes, Succeeds
  <2>4. CASE /\ Fails("endRun") /\ lost' = TRUE /\ iov' \in {iov, EndIov(number)}
             /\ deferred' = (deferred \/ main.outcome = "none")
             /\ UNCHANGED cached
    <3>1. failures' \in 0..MaxFailures
      BY <1>1, <2>4 DEF Fails
    <3>2. deferred' \in BOOLEAN /\ (deferred => deferred')
      BY <1>2, <2>4
    <3>3. lost' \in BOOLEAN /\ iov' \in Nat /\ cached' = cached
      BY <1>1, <2>2, <2>4
    <3> QED BY <1>1, <3>1, <3>2, <3>3 DEF RunTypes
  <2> QED BY <1>4, <2>3, <2>4 DEF RunEnds
<1> QED BY <1>3, <1>4

(* A functor returns; the run it kept may end.                             *)
LEMMA FunctorReturnsKeeps ==
    ASSUME IInv, NEW l \in locals, FunctorReturns(l)
    PROVE  IInv'
<1>1. UNCHANGED <<pos, last, signalled, full, iovHolds, slots, lumi, stream, active, main, files, run, failed>>
  BY DEF FunctorReturns, sourceVars
<1>2. TypeOK /\ Quiet
  BY DEF IInv, Statused, Scheduled
<1>3. CASE /\ l.holds = "principal"
           /\ locals' = Replace(l, "status")
           /\ UNCHANGED <<iov, cached, lost, deferred, failures>>
  <2>1. /\ Replace(l, "status") \subseteq Copies
        /\ \A m : m.holds = "finish" => (m \in Replace(l, "status") <=> m \in locals)
    BY <1>2, <1>3, ReplaceFacts
  <2>2. main.pc \in {"lumis", "endWait"}
    BY <1>2, <1>3 DEF Quiet, Held
  <2>3. TypeOK'
    BY <1>1, <1>2, <1>3, <2>1 DEF TypeOK
  <2>4. Aside
    BY <1>1, <1>3, <2>1, <2>2 DEF Aside
  <2> QED BY <2>3, <2>4, AsideKeeps
<1>4. CASE /\ l.holds = "status"
           /\ locals' = locals \ {l}
           /\ LET id == lumi[l.lumi].run
              IN  IF run.id = id \/ Kept(id, locals')
                    THEN UNCHANGED <<iov, cached, lost, deferred, failures>>
                    ELSE RunEnds(Items[id].run)
  <2>1. RunTypes
    <3>1. CASE UNCHANGED <<iov, cached, lost, deferred, failures>>
      BY <1>2, <3>1 DEF RunTypes, TypeOK
    <3>2. CASE RunEnds(Items[lumi[l.lumi].run].run)
      BY <1>2, <3>2, RunEndsTypes
    <3> QED BY <1>4, <3>1, <3>2
  <2>2. TypeOK'
    <3>1. locals' \subseteq Copies
      BY <1>2, <1>4 DEF TypeOK
    <3> QED BY <1>1, <1>2, <2>1, <3>1 DEF TypeOK, RunTypes
  <2>3. Aside
    <3>1. \A m : m.holds = "finish" => (m \in locals' <=> m \in locals)
      BY <1>4
    <3> QED BY <1>1, <1>4, <2>1, <3>1 DEF Aside, RunTypes
  <2> QED BY <2>2, <2>3, AsideKeeps
<1> QED BY <1>3, <1>4 DEF FunctorReturns, Return

-----------------------------------------------------------------------------
(* A stream that has ended its lumi leaves it; its end is to be counted.   *)
LEMMA LeaveFacts ==
    ASSUME TypeOK, Occupied, NEW s \in Streams, StreamEnded(s)
    PROVE  \E k \in Lumis, l \in Copies :
              /\ k = stream[s].lumi /\ Finishing(l, s, k) /\ locals' = locals \cup {l}
              /\ StreamBecomes(s, [stream[s] EXCEPT !.lumi = 0, !.at = "idle", !.paused = FALSE])
              /\ failures' \in 0..MaxFailures
<1>1. /\ stream \in [Streams -> StreamStates] /\ stream[s] \in StreamStates
      /\ failures \in 0..MaxFailures /\ MaxFailures \in Nat
  BY CountsAssumption DEF TypeOK
<1>2. stream[s].at = "end" /\ stream[s].lumi # 0
  BY DEF StreamEnded, Occupied
<1>3. PICK k \in Lumis : k = stream[s].lumi
  BY <1>1, <1>2 DEF StreamStates
<1>4. PICK error \in BOOLEAN : /\ IF error THEN Fails("streamEnd") ELSE Succeeds
                               /\ locals' = locals \cup {Local(s, stream[s].lumi, "finish", error)}
  BY DEF StreamEnded
<1>5. PICK l \in Copies : l = Local(s, k, "finish", error)
  BY DEF Local, Copies
<1>6. Finishing(l, s, k) /\ locals' = locals \cup {l}
  BY <1>3, <1>4, <1>5 DEF Finishing, Local
<1>7. PICK r \in StreamStates : r = [stream[s] EXCEPT !.lumi = 0, !.at = "idle", !.paused = FALSE]
  BY <1>1 DEF StreamStates
<1>8. stream' = [stream EXCEPT ![s] = r]
  BY <1>1, <1>7 DEF StreamEnded
<1>9. StreamBecomes(s, r)
  BY <1>1, <1>8, StreamUpdates
<1>10. failures' \in 0..MaxFailures
  BY <1>1, <1>4 DEF Fails, Succeeds
<1> QED BY <1>3, <1>5, <1>6, <1>7, <1>9, <1>10

(* Where the stream now is.                                                *)
LEMMA LeavePlaces ==
    ASSUME Statused, NEW s \in Streams, NEW k \in Lumis, NEW l \in Copies, k = stream[s].lumi,
           Finishing(l, s, k), locals' = locals \cup {l}, UNCHANGED lumi,
           stream'[s].lumi = 0, stream'[s].queue = stream[s].queue,
           \A p \in Streams : p # s => stream'[p] = stream[p]
    PROVE  /\ \A p \in Streams, j \in Lumis :
                 /\ ToCome(p, j)' <=> ToCome(p, j)
                 /\ Queued(p, j)' <=> Queued(p, j)
                 /\ Within(p, j)' <=> Within(p, j) /\ ~(p = s /\ j = k)
                 /\ Finishes(p, j)' <=> Finishes(p, j) \/ (p = s /\ j = k)
           /\ Placed' /\ Counted'
<1>1. /\ Placed /\ Counted /\ 0 \notin Lumis
      /\ l.stream = s /\ l.lumi = k /\ l.holds = "finish"
  BY Finite DEF Statused, Finishing
<1>2. ASSUME NEW p \in Streams, NEW j \in Lumis
      PROVE  /\ ToCome(p, j)' <=> ToCome(p, j)
             /\ Queued(p, j)' <=> Queued(p, j)
             /\ Within(p, j)' <=> Within(p, j) /\ ~(p = s /\ j = k)
             /\ Finishes(p, j)' <=> Finishes(p, j) \/ (p = s /\ j = k)
  <2>1. ToCome(p, j)' <=> ToCome(p, j)
    BY DEF ToCome
  <2>2. Queued(p, j)' <=> Queued(p, j)
    BY DEF Queued
  <2>3. Within(p, j)' <=> Within(p, j) /\ ~(p = s /\ j = k)
    BY <1>1 DEF Within
  <2>4. Finishes(p, j)' <=> Finishes(p, j) \/ (p = s /\ j = k)
    BY <1>1 DEF Finishes, Finishing
  <2> QED BY <2>1, <2>2, <2>3, <2>4
<1>3. Within(s, k)
  BY DEF Within
<1>4. ~ToCome(s, k) /\ ~Queued(s, k) /\ ~Finishes(s, k)
  BY <1>1, <1>3 DEF Placed
<1>5. Placed'
  <2>1. ASSUME NEW p \in Streams, NEW j \in Lumis, NEW m \in locals', NEW n \in locals',
               Finishing(m, p, j), Finishing(n, p, j)
        PROVE  m = n
    <3>1. CASE p = s /\ j = k
      BY <1>4, <2>1, <3>1 DEF Finishes
    <3>2. CASE ~(p = s /\ j = k)
      <4>1. m # l /\ n # l
        BY <1>1, <2>1, <3>2 DEF Finishing
      <4> QED BY <1>1, <2>1, <4>1 DEF Placed
    <3> QED BY <3>1, <3>2
  <2>2. \A p \in Streams, j \in Lumis :
           /\ ToCome(p, j) => ~Queued(p, j) /\ ~Within(p, j) /\ ~Finishes(p, j)
           /\ Queued(p, j) => ~Within(p, j) /\ ~Finishes(p, j)
           /\ Within(p, j) => ~Finishes(p, j)
    BY <1>1 DEF Placed
  <2>3. \A p \in Streams, j \in Lumis :
           /\ ToCome(p, j)' => ~Queued(p, j)' /\ ~Within(p, j)' /\ ~Finishes(p, j)'
           /\ Queued(p, j)' => ~Within(p, j)' /\ ~Finishes(p, j)'
           /\ Within(p, j)' => ~Finishes(p, j)'
    BY <1>2, <1>4, <2>2
  <2>4. \A p \in Streams : stream'[p].queue = stream[p].queue
    OBVIOUS
  <2>5. \A p \in Streams, j \in Lumis : \A i, n \in 1..Len(stream'[p].queue) :
           stream'[p].queue[i] = j /\ stream'[p].queue[n] = j => i = n
    BY <1>1, <2>4 DEF Placed
  <2> QED BY <2>1, <2>3, <2>5 DEF Placed, Finishing
<1>6. Counted'
  <2>1. \A p \in Streams, j \in Lumis : Pends(p, j)' <=> Pends(p, j)
    BY <1>2, <1>3 DEF Pends
  <2> QED BY <1>1, <2>1 DEF Counted
<1> QED BY <1>2, <1>5, <1>6

(* The end of a stream keeps the invariant.                                *)
LEMMA StreamEndedKeeps ==
    ASSUME IInv, NEW s \in Streams, StreamEnded(s)
    PROVE  IInv'
<1>1. /\ Statused /\ TypeOK /\ Phased /\ Ordered /\ Placed /\ Counted /\ Occupied /\ Slots /\ Pauses
      /\ Quiet /\ Ended /\ AtSource /\ Remaining /\ AtLumis /\ Parked
  BY DEF IInv, Statused, Scheduled
<1>2. PICK k \in Lumis, l \in Copies :
              /\ k = stream[s].lumi /\ Finishing(l, s, k) /\ locals' = locals \cup {l}
              /\ StreamBecomes(s, [stream[s] EXCEPT !.lumi = 0, !.at = "idle", !.paused = FALSE])
              /\ failures' \in 0..MaxFailures
  BY <1>1, LeaveFacts
<1>3. /\ stream \in [Streams -> StreamStates] /\ stream' \in [Streams -> StreamStates]
      /\ \A p \in Streams : p # s => stream'[p] = stream[p]
      /\ stream'[s].lumi = 0 /\ stream'[s].at = "idle" /\ ~stream'[s].paused /\ stream'[s].queue = stream[s].queue
      /\ active' = active - 1 /\ stream[s].at = "end"
      /\ UNCHANGED <<pos, last, deferred, signalled, full, iov, iovHolds, slots, lumi,
                     main, files, run, cached, lost, failed>>
  BY <1>1, <1>2 DEF TypeOK, StreamBecomes, StreamStates, StreamEnded, sourceVars, queueVars, mainVars, runVars
<1>4. /\ \A p \in Streams, j \in Lumis :
            /\ ToCome(p, j)' <=> ToCome(p, j)
            /\ Queued(p, j)' <=> Queued(p, j)
            /\ Within(p, j)' <=> Within(p, j) /\ ~(p = s /\ j = k)
            /\ Finishes(p, j)' <=> Finishes(p, j) \/ (p = s /\ j = k)
      /\ Placed' /\ Counted'
  <2>1. UNCHANGED lumi
    BY <1>3
  <2> QED BY <1>1, <1>2, <1>3, <2>1, LeavePlaces
<1>5. main.pc \in {"lumis", "endWait"}
  BY <1>1, <1>3 DEF Quiet, Held
<1>6. Phased' /\ Ordered'
  BY <1>1, <1>3 DEF Phased, Ordered, Made, Begins, Alive
<1>7. Occupied' /\ active' \in 0..NumberOfStreams
  <2>1. PICK P : P = {p \in Streams : stream[p].lumi # 0}
    OBVIOUS
  <2>2. k # 0
    BY Finite
  <2>3. s \in P /\ IsFiniteSet(P) /\ Cardinality(P) <= NumberOfStreams
    BY <1>2, <2>1, <2>2, Finite, FS_Subset
  <2>4. Cardinality(P \ {s}) = Cardinality(P) - 1 /\ Cardinality(P \ {s}) \in Nat /\ Cardinality(P) \in Nat
    BY <2>3, FS_RemoveElement, FS_CardinalityType
  <2>5. {p \in Streams : stream'[p].lumi # 0} = P \ {s}
    BY <1>3, <2>1
  <2>6. active = Cardinality(P)
    BY <1>1, <2>1 DEF Occupied
  <2>7. \A p \in Streams : /\ stream'[p].lumi = 0 <=> stream'[p].at = "idle"
                           /\ stream'[p].lumi = 0 <=> ~stream'[p].paused
    <3>1. \A p \in Streams : /\ stream[p].lumi = 0 <=> stream[p].at = "idle"
                             /\ stream[p].lumi = 0 <=> ~stream[p].paused
      BY <1>1 DEF Occupied
    <3> QED BY <1>3, <3>1
  <2>8. active' = Cardinality(P \ {s})
    BY <1>3, <2>4, <2>6
  <2>9. Occupied'
    BY <2>5, <2>7, <2>8 DEF Occupied
  <2> QED BY <2>3, <2>4, <2>8, <2>9, CountsAssumption
<1>8. TypeOK'
  <2>1. locals' \subseteq Copies
    BY <1>1, <1>2 DEF TypeOK
  <2> QED BY <1>1, <1>2, <1>3, <1>7, <2>1 DEF TypeOK
<1>9. Quiet' /\ Parked' /\ AtSource'
  BY <1>1, <1>3, <1>5 DEF Quiet, Parked, AtSource, At, Chosen, TypeAt
<1>10. Ended'
  <2>1. \A p \in Streams : At("endWait") => stream[p].at \in {"idle", "end"} /\ stream[p].queue = <<>>
    BY <1>1 DEF Ended
  <2> QED BY <1>1, <1>3, <1>5, <2>1 DEF Ended, Alive, At
<1>11. Remaining'
  <2>1. \A j \in Lumis, p \in Streams : Remains(p, j) => Remains(p, j)'
    BY <1>3, <1>4 DEF Remains, Within
  <2> QED BY <1>1, <1>3, <2>1 DEF Remaining, Alive, At
<1>12. AtLumis'
  <2>1. Fresh' <=> Fresh
    BY <1>3 DEF Fresh, Made, TypeAt
  <2>2. \A j \in Lumis : Noticed(j)' <=> Noticed(j)
    BY <1>3, <2>1 DEF Noticed, Boundary
  <2>3. \A p \in Streams : stream'[p].at = "stopped" => stream[p].at = "stopped" /\ stream'[p].lumi = stream[p].lumi
    BY <1>3
  <2>4. ASSUME NEW p \in Streams, stream'[p].at = "stopped", At("lumis")
        PROVE  failed \/ deferred \/ Stopped(stream'[p].lumi)
    BY <1>1, <2>3, <2>4 DEF AtLumis
  <2> QED BY <1>1, <1>3, <2>2, <2>4 DEF AtLumis, At, Alive, Stopped, Boundary
<1>13. Slots' /\ Pauses'
  BY <1>1, <1>3 DEF Slots, Pauses, Pausers
<1> QED BY <1>4, <1>6, <1>7, <1>8, <1>9, <1>10, <1>11, <1>12, <1>13 DEF IInv, Statused, Scheduled

-----------------------------------------------------------------------------
(* The end of a stream is counted; the last one ends the lumi.             *)
LEMMA CountFacts ==
    ASSUME Statused, NEW l \in locals, StreamFinished(l)
    PROVE  LET k == l.lumi
               isLast == lumi[k].left = 1
           IN  /\ k \in Lumis /\ l.stream \in Streams /\ Finishing(l, l.stream, k)
               /\ lumi[k].left > 0 /\ lumi[k] \in Statuses
               /\ lumi[k].phase \in {"pushing", "open"} /\ (isLast => lumi[k].phase = "open")
               /\ Becomes(k, [lumi[k] EXCEPT !.left = lumi[k].left - 1,
                                             !.phase = IF isLast THEN "globalEnd" ELSE lumi[k].phase])
               /\ locals' \subseteq Copies /\ \A m \in locals' : m.holds = "finish" => m \in locals /\ m # l
               /\ \A m \in locals : m # l => m \in locals'
<1>1. TypeOK /\ Phased /\ Placed /\ Counted /\ l.holds = "finish" /\ l \in Copies
  BY DEF Statused, TypeOK, StreamFinished
<1>2. PICK k \in Lumis, s \in Streams : k = l.lumi /\ s = l.stream
  BY <1>1 DEF Copies
<1>3. Finishing(l, s, k) /\ Finishes(s, k) /\ Pends(s, k)
  BY <1>1, <1>2 DEF Finishing, Finishes, Pends
<1>4. lumi[k].phase \in {"pushing", "open"} /\ lumi[k].left > 0 /\ lumi[k].left \in Nat
      /\ lumi[k] \in Statuses /\ lumi \in [Lumis -> Statuses] /\ lumi[k].left <= NumberOfStreams
  <2>1. lumi[k] \in Statuses /\ lumi \in [Lumis -> Statuses]
    BY <1>1 DEF TypeOK
  <2>2. lumi[k].left \in Nat /\ lumi[k].left <= NumberOfStreams
    BY <2>1, CountsAssumption DEF Statuses
  <2>3. lumi[k].phase \in {"pushing", "open"} /\ lumi[k].left > 0
    BY <1>1, <1>3, Where
  <2> QED BY <2>1, <2>2, <2>3
<1>5. ASSUME lumi[k].left = 1, lumi[k].phase = "pushing" PROVE FALSE
  <2>1. lumi[k].toPush \in Nat /\ 1 <= lumi[k].toPush /\ lumi[k].toPush <= NumberOfStreams /\ NumberOfStreams \in Nat
    BY <1>1, <1>4, <1>5, CountsAssumption DEF Phased, Statuses
  <2>2. PICK p \in Streams : p = lumi[k].toPush
    BY <2>1 DEF Streams
  <2>3. ToCome(p, k) /\ Pends(p, k) /\ p # s
    BY <1>1, <1>3, <2>1, <2>2 DEF ToCome, Pends, Placed
  <2>4. PICK P : P = {q \in Streams : Pends(q, k)}
    OBVIOUS
  <2>5. s \in P /\ p \in P /\ IsFiniteSet(P) /\ Cardinality(P) = 1
    BY <1>1, <1>3, <1>5, <2>3, <2>4, Finite, FS_Subset DEF Counted
  <2>6. Cardinality(P \ {s}) = 0 /\ IsFiniteSet(P \ {s})
    BY <2>5, FS_RemoveElement
  <2>7. P \ {s} = {}
    BY <2>6, FS_EmptySet
  <2> QED BY <2>3, <2>5, <2>7
<1>6. PICK b : b = IF lumi[k].left = 1 THEN "globalEnd" ELSE lumi[k].phase
  OBVIOUS
<1>7. PICK r \in Statuses : r = [lumi[k] EXCEPT !.left = lumi[k].left - 1, !.phase = b]
  <2>1. b \in Phases /\ lumi[k].left - 1 \in 0..NumberOfStreams
    BY <1>4, <1>6, CountsAssumption DEF Statuses, Phases
  <2> QED BY <1>4, <2>1 DEF Statuses
<1>8. lumi' = [lumi EXCEPT ![k] = r]
  BY <1>2, <1>4, <1>6, <1>7 DEF StreamFinished
<1>9. Becomes(k, r)
  BY <1>4, <1>8, Updates
<1>10. PICK holds \in {"report", "reportLast"} : locals' = Replace(l, holds)
  BY DEF StreamFinished
<1>11. /\ locals' \subseteq Copies /\ \A m \in locals' : m.holds = "finish" => m \in locals /\ m # l
       /\ \A m \in locals : m # l => m \in locals'
  <2>1. holds \in {"report", "reportLast", "status"} /\ holds # "finish"
    BY <1>10
  <2> QED BY <1>1, <1>10, <2>1, ReplaceFacts
<1> QED BY <1>2, <1>3, <1>4, <1>5, <1>6, <1>7, <1>9, <1>11

(* The stream is then no longer pending.                                   *)
LEMMA CountPlaces ==
    ASSUME Statused, NEW l \in locals, NEW k \in Lumis, NEW s \in Streams, Finishing(l, s, k), UNCHANGED stream,
           lumi'[k].left = lumi[k].left - 1, lumi'[k].toPush = lumi[k].toPush,
           \A j \in Lumis : j # k => lumi'[j] = lumi[j],
           \A m \in locals' : m.holds = "finish" => m \in locals /\ m # l,
           \A m \in locals : m # l => m \in locals'
    PROVE  /\ \A p \in Streams, j \in Lumis :
                 /\ ToCome(p, j)' <=> ToCome(p, j)
                 /\ Queued(p, j)' <=> Queued(p, j)
                 /\ Within(p, j)' <=> Within(p, j)
                 /\ Finishes(p, j)' <=> Finishes(p, j) /\ ~(p = s /\ j = k)
           /\ Placed' /\ Counted'
<1>1. /\ Placed /\ Counted /\ l.stream = s /\ l.lumi = k /\ l.holds = "finish"
  BY DEF Statused, Finishing
<1>2. \A m \in locals : Finishing(m, s, k) => m = l
  BY <1>1 DEF Placed
<1>3. ASSUME NEW p \in Streams, NEW j \in Lumis
      PROVE  /\ ToCome(p, j)' <=> ToCome(p, j)
             /\ Queued(p, j)' <=> Queued(p, j)
             /\ Within(p, j)' <=> Within(p, j)
             /\ Finishes(p, j)' <=> Finishes(p, j) /\ ~(p = s /\ j = k)
  <2>1. ToCome(p, j)' <=> ToCome(p, j)
    BY DEF ToCome
  <2>2. Queued(p, j)' <=> Queued(p, j)
    BY DEF Queued
  <2>3. Within(p, j)' <=> Within(p, j)
    BY DEF Within
  <2>4. Finishes(p, j)' <=> Finishes(p, j) /\ ~(p = s /\ j = k)
    <3>1. CASE p = s /\ j = k
      BY <1>2, <3>1 DEF Finishes, Finishing
    <3>2. CASE ~(p = s /\ j = k)
      BY <1>1, <3>2 DEF Finishes, Finishing
    <3> QED BY <3>1, <3>2
  <2> QED BY <2>1, <2>2, <2>3, <2>4
<1>4. Finishes(s, k)
  BY DEF Finishes
<1>5. ~ToCome(s, k) /\ ~Queued(s, k) /\ ~Within(s, k)
  BY <1>1, <1>4 DEF Placed
<1>6. Placed'
  <2>1. \A p \in Streams, j \in Lumis : \A m, n \in locals' : Finishing(m, p, j) /\ Finishing(n, p, j) => m = n
    BY <1>1 DEF Placed, Finishing
  <2>2. \A p \in Streams, j \in Lumis :
           /\ ToCome(p, j) => ~Queued(p, j) /\ ~Within(p, j) /\ ~Finishes(p, j)
           /\ Queued(p, j) => ~Within(p, j) /\ ~Finishes(p, j)
           /\ Within(p, j) => ~Finishes(p, j)
    BY <1>1 DEF Placed
  <2>3. \A p \in Streams, j \in Lumis :
           /\ ToCome(p, j)' => ~Queued(p, j)' /\ ~Within(p, j)' /\ ~Finishes(p, j)'
           /\ Queued(p, j)' => ~Within(p, j)' /\ ~Finishes(p, j)'
           /\ Within(p, j)' => ~Finishes(p, j)'
    BY <1>3, <2>2
  <2>4. \A p \in Streams, j \in Lumis : \A i, n \in 1..Len(stream'[p].queue) :
           stream'[p].queue[i] = j /\ stream'[p].queue[n] = j => i = n
    BY <1>1 DEF Placed
  <2> QED BY <2>1, <2>3, <2>4 DEF Placed, Finishing
<1>7. Counted'
  <2> SUFFICES ASSUME NEW j \in Lumis
               PROVE  lumi'[j].left = Cardinality({p \in Streams : Pends(p, j)'})
    BY DEF Counted
  <2>1. CASE j # k
    <3>1. \A p \in Streams : Pends(p, j)' <=> Pends(p, j)
      BY <1>3, <2>1 DEF Pends
    <3> QED BY <1>1, <2>1, <3>1 DEF Counted
  <2>2. CASE j = k
    <3>1. PICK P : P = {p \in Streams : Pends(p, k)}
      OBVIOUS
    <3>2. s \in P /\ IsFiniteSet(P) /\ Cardinality(P) = lumi[k].left
      BY <1>1, <1>4, <3>1, Finite, FS_Subset DEF Counted, Pends
    <3>3. \A p \in Streams : Pends(p, k)' <=> Pends(p, k) /\ p # s
      BY <1>3, <1>5 DEF Pends
    <3>4. {p \in Streams : Pends(p, k)'} = P \ {s}
      BY <3>1, <3>3
    <3>5. Cardinality(P \ {s}) = Cardinality(P) - 1
      BY <3>2, FS_RemoveElement
    <3> QED BY <2>2, <3>2, <3>4, <3>5
  <2> QED BY <2>1, <2>2
<1> QED BY <1>3, <1>6, <1>7

(* Counting the end of a stream keeps the invariant.                       *)
LEMMA StreamFinishedKeeps ==
    ASSUME IInv, NEW l \in locals, StreamFinished(l)
    PROVE  IInv'
<1>1. /\ Statused /\ TypeOK /\ Phased /\ Ordered /\ Placed /\ Counted /\ Occupied /\ Slots /\ Pauses
      /\ Quiet /\ Ended /\ AtSource /\ Remaining /\ AtLumis /\ Parked
  BY DEF IInv, Statused, Scheduled
<1>2. PICK k \in Lumis, s \in Streams : k = l.lumi /\ s = l.stream
  BY <1>1, CountFacts
<1>3. PICK b : b = IF lumi[k].left = 1 THEN "globalEnd" ELSE lumi[k].phase
  OBVIOUS
<1>4. /\ Finishing(l, s, k) /\ lumi[k].left > 0 /\ lumi[k] \in Statuses
      /\ lumi[k].phase \in {"pushing", "open"}
      /\ b = IF lumi[k].left = 1 THEN "globalEnd" ELSE lumi[k].phase
      /\ b = "globalEnd" => lumi[k].phase = "open"
      /\ Becomes(k, [lumi[k] EXCEPT !.left = lumi[k].left - 1, !.phase = b])
      /\ locals' \subseteq Copies
      /\ \A m \in locals' : m.holds = "finish" => m \in locals /\ m # l
      /\ \A m \in locals : m # l => m \in locals'
  BY <1>1, <1>2, <1>3, CountFacts
<1>5. /\ lumi' \in [Lumis -> Statuses] /\ \A j \in Lumis : j # k => lumi'[j] = lumi[j]
      /\ lumi'[k].left = lumi[k].left - 1 /\ lumi'[k].phase = b
      /\ UNCHANGED <<lumi[k].sync, lumi[k].toPush, lumi[k].begun, lumi[k].item, lumi[k].stop, lumi[k].ending,
                     lumi[k].continuing, lumi[k].startedNext>>
  BY <1>4 DEF Becomes, Statuses
<1>6. UNCHANGED <<pos, last, deferred, signalled, full, iov, iovHolds, slots, stream, active,
                  main, files, run, cached, lost, failed, failures>>
  BY DEF StreamFinished, sourceVars, queueVars, mainVars, runVars
<1>7. /\ \A p \in Streams, j \in Lumis :
            /\ ToCome(p, j)' <=> ToCome(p, j)
            /\ Queued(p, j)' <=> Queued(p, j)
            /\ Within(p, j)' <=> Within(p, j)
            /\ Finishes(p, j)' <=> Finishes(p, j) /\ ~(p = s /\ j = k)
      /\ Placed' /\ Counted'
  <2>1. UNCHANGED stream /\ lumi'[k].toPush = lumi[k].toPush
    BY <1>5, <1>6
  <2> QED BY <1>1, <1>4, <1>5, <2>1, CountPlaces
<1>8. main.pc \in {"lumis", "endWait"}
  BY <1>1, <1>4 DEF Quiet, Held, Finishing
<1>9. \A j \in Lumis : /\ Made(j)' <=> Made(j)
                       /\ Alive(j)' <=> Alive(j)
                       /\ lumi'[j].sync = lumi[j].sync /\ lumi'[j].toPush = lumi[j].toPush
                       /\ lumi'[j].stop = lumi[j].stop /\ lumi'[j].ending = lumi[j].ending
                       /\ lumi'[j].startedNext = lumi[j].startedNext /\ lumi'[j].continuing = lumi[j].continuing
                       /\ lumi'[j].begun = lumi[j].begun /\ lumi'[j].item = lumi[j].item
  <2>1. b # "none" /\ b # "done" /\ b # "dropped"
    BY <1>4
  <2> QED BY <1>4, <1>5, <2>1 DEF Made, Alive
<1>10. Phased'
  <2>1. /\ lumi[k].begun /\ lumi[k].item = lumi[k].sync
        /\ lumi[k].startedNext => lumi[k].ending
        /\ lumi[k].ending => lumi[k].stop /\ ~lumi[k].continuing
        /\ lumi[k].phase = "pushing" => lumi[k].toPush <= NumberOfStreams
        /\ lumi[k].phase = "open" => lumi[k].toPush = NumberOfStreams + 1
    BY <1>1, <1>4 DEF Phased, Unpushed, Unread, Closed
  <2>2. lumi[k].left \in Nat
    BY <1>1, CountsAssumption DEF TypeOK, Statuses
  <2>3. lumi'[k].phase \in Closed <=> lumi'[k].left = 0
    BY <1>4, <1>5, <2>2 DEF Closed
  <2>4. /\ Made(k)' /\ lumi'[k].begun /\ lumi'[k].item = lumi'[k].sync
        /\ lumi'[k].phase \notin Unpushed \cup Unread \cup {"globalBegin"}
        /\ lumi'[k].phase = "pushing" => lumi'[k].toPush <= NumberOfStreams
        /\ lumi'[k].phase \in Closed \cup {"open"} => lumi'[k].toPush = NumberOfStreams + 1
        /\ lumi'[k].startedNext => lumi'[k].ending
        /\ lumi'[k].ending => lumi'[k].stop /\ ~lumi'[k].continuing
    BY <1>4, <1>5, <2>1 DEF Unpushed, Unread, Closed, Made
  <2>5. ASSUME NEW j \in Lumis, j # k
        PROVE  /\ ~Made(j)' => lumi'[j] = NoLumi
               /\ lumi'[j].phase \in Unpushed <=> ~lumi'[j].begun
               /\ lumi'[j].phase \in Unpushed => lumi'[j].toPush = 1
               /\ lumi'[j].phase = "pushing" => lumi'[j].toPush <= NumberOfStreams
               /\ lumi'[j].phase \in Closed \cup {"open"} => lumi'[j].toPush = NumberOfStreams + 1
               /\ lumi'[j].phase \in Closed <=> lumi'[j].left = 0
               /\ lumi'[j].phase \in Unread => pos' = lumi'[j].sync
               /\ lumi'[j].item \in {0, lumi'[j].sync}
               /\ lumi'[j].begun => lumi'[j].item = lumi'[j].sync
               /\ lumi'[j].phase = "globalBegin" => lumi'[j].item = lumi'[j].sync
               /\ lumi'[j].startedNext => lumi'[j].ending
               /\ lumi'[j].ending => lumi'[j].stop /\ ~lumi'[j].continuing
    BY <1>1, <1>5, <1>6, <1>9, <2>5 DEF Phased
  <2> QED BY <2>3, <2>4, <2>5 DEF Phased
<1>11. Ordered'
  BY <1>1, <1>6, <1>9 DEF Ordered, Begins
<1>12. Occupied' /\ TypeOK'
  BY <1>1, <1>4, <1>5, <1>6 DEF Occupied, TypeOK
<1>13. Quiet' /\ Parked' /\ AtSource'
  BY <1>1, <1>6, <1>8 DEF Quiet, Parked, AtSource, At, Chosen, TypeAt
<1>14. Ended'
  <2>1. lumi'[k].phase \in Closed \cup {"open"} \/ ~At("endWait")
    BY <1>1, <1>4, <1>5, <1>9 DEF Ended, Closed, Alive
  <2> QED BY <1>1, <1>5, <1>6, <1>8, <1>9, <2>1 DEF Ended, At
<1>15. Remaining'
  <2>1. \A j \in Lumis, p \in Streams : Remains(p, j) => Remains(p, j)'
    BY <1>6, <1>7 DEF Remains
  <2> QED BY <1>1, <1>6, <1>9, <2>1 DEF Remaining, At
<1>16. AtLumis'
  <2>1. Fresh' <=> Fresh
    BY <1>6, <1>9 DEF Fresh, TypeAt
  <2>2. \A j \in Lumis : (Noticed(j)' <=> Noticed(j)) /\ (Stopped(j)' <=> Stopped(j))
    BY <1>6, <1>9, <2>1 DEF Noticed, Stopped, Boundary
  <2>3. \A p \in Streams : stream[p].at = "stopped" => stream[p].lumi \in Lumis
    BY <1>1 DEF TypeOK, Occupied, StreamStates
  <2> QED BY <1>1, <1>6, <1>9, <2>2, <2>3 DEF AtLumis, At
<1>17. Slots' /\ Pauses'
  <2>1. /\ b \in Slotted <=> lumi[k].phase \in Slotted
        /\ b \in Pausing <=> lumi[k].phase \in Pausing
        /\ b # "dropped" /\ lumi[k].phase # "dropped"
    BY <1>4 DEF Slotted, Pausing
  <2>2. {j \in Lumis : lumi'[j].phase \in Slotted} = {j \in Lumis : lumi[j].phase \in Slotted}
        /\ Pausers' = Pausers /\ \A j \in Lumis : lumi[j].phase = "dropped" => lumi'[j].phase = "dropped"
    BY <1>5, <2>1 DEF Pausers
  <2> QED BY <1>1, <1>6, <2>2 DEF Slots, Pauses
<1> QED BY <1>7, <1>10, <1>11, <1>12, <1>13, <1>14, <1>15, <1>16, <1>17 DEF IInv, Statused, Scheduled

-----------------------------------------------------------------------------
(* Repeated items of a lumi are skipped up to the first other one.         *)
LEMMA PastFacts ==
    ASSUME NEW k \in Lumis, NEW first \in 1..Len(Items)
    PROVE  /\ PastLumi(k, first) \in first..(Len(Items) + 1) /\ ~SameLumi(k, PastLumi(k, first))
           /\ \A m \in first..(PastLumi(k, first) - 1) : SameLumi(k, m)
<1>1. PICK n \in Nat : n = Len(Items) /\ DOMAIN Items = 1..n
  BY ItemFacts
<1>2. PICK T : T = {j \in first..(n + 1) : ~SameLumi(k, j)}
  OBVIOUS
<1>3. n + 1 \in T /\ T \in SUBSET Nat
  <2>1. ~SameLumi(k, n + 1)
    BY <1>1 DEF SameLumi, TypeAt
  <2> QED BY <1>1, <1>2, <2>1
<1>4. PICK m \in T : \A j \in T : m <= j
  BY <1>3, Least
<1>5. m \in first..(Len(Items) + 1) /\ ~SameLumi(k, m) /\ \A j \in first..(m - 1) : SameLumi(k, j)
  BY <1>1, <1>2, <1>4
<1>6. PICK c : c = PastLumi(k, first)
  OBVIOUS
<1>7. c \in first..(Len(Items) + 1) /\ ~SameLumi(k, c) /\ \A j \in first..(c - 1) : SameLumi(k, j)
  BY <1>5, <1>6 DEF PastLumi
<1> QED BY <1>6, <1>7

(* Where a stream of lumi k takes the source when it asks for an event.    *)
LEMMA FoundFacts ==
    ASSUME TypeOK, NEW k \in Lumis, 1 <= pos, lumi[k].continuing => Fresh
    PROVE  /\ Found(k).pos \in 1..(Len(Items) + 1) /\ pos <= Found(k).pos
           /\ Found(k).type \in ItemTypes \cup {"stop"}
           /\ Found(k).type # "stop" => Found(k).type = TypeAt(Found(k).pos)
           /\ Found(k).type = "lumi" => pos < Found(k).pos \/ (Fresh /\ pos = Found(k).pos)
<1>1. PICK n \in Nat : n = Len(Items) /\ DOMAIN Items = 1..n
  BY ItemFacts
<1>2. pos \in 1..(n + 1)
  BY <1>1 DEF TypeOK
<1>3. \A i \in 1..(n + 1) : TypeAt(i) \in ItemTypes \cup {"stop"}
  BY <1>1, ItemFacts DEF TypeAt
<1>4. \A i : TypeAt(i) # "stop" => i \in 1..n
  BY <1>1 DEF TypeAt
<1>5. PICK first : first = IF lumi[k].continuing THEN pos ELSE After(pos)
  OBVIOUS
<1>6. /\ first \in 1..(n + 1) /\ pos <= first
      /\ TypeAt(first) = "lumi" => pos < first \/ (Fresh /\ pos = first)
  <2>1. CASE lumi[k].continuing
    BY <1>2, <1>5, <2>1
  <2>2. CASE ~lumi[k].continuing
    <3>1. first = IF pos \in 0..n THEN pos + 1 ELSE pos
      <4>1. DOMAIN Items \cup {0} = 0..n
        BY <1>1
      <4> QED BY <1>5, <2>2, <4>1 DEF After
    <3>2. CASE pos \in 0..n
      BY <1>2, <3>1, <3>2
    <3>3. CASE pos \notin 0..n
      <4>1. first = n + 1 /\ pos = n + 1
        BY <1>2, <3>1, <3>3
      <4> QED BY <1>2, <1>4, <4>1
    <3> QED BY <3>2, <3>3
  <2> QED BY <2>1, <2>2
<1>7. PICK type : type = IF signalled /\ ~lumi[k].continuing THEN "stop" ELSE TypeAt(first)
  OBVIOUS
<1>8. Found(k) = IF type = "lumi" /\ SameLumi(k, first)
                   THEN IF signalled THEN [pos |-> first + 1, type |-> "stop"]
                                     ELSE [pos |-> PastLumi(k, first), type |-> TypeAt(PastLumi(k, first))]
                   ELSE [pos |-> first, type |-> type]
  BY <1>5, <1>7 DEF Found
<1>9. CASE ~(type = "lumi" /\ SameLumi(k, first))
  <2>1. Found(k).pos = first /\ Found(k).type = type
    BY <1>8, <1>9
  <2>2. type # "stop" => type = TypeAt(first)
    BY <1>7
  <2> QED BY <1>1, <1>3, <1>6, <2>1, <2>2 DEF ItemTypes
<1>10. CASE type = "lumi" /\ SameLumi(k, first)
  <2>1. first \in 1..n
    BY <1>4, <1>10 DEF SameLumi
  <2>2. CASE signalled
    <3>1. Found(k).pos = first + 1 /\ Found(k).type = "stop"
      BY <1>8, <1>10, <2>2
    <3> QED BY <1>1, <1>2, <1>6, <2>1, <3>1
  <2>3. CASE ~signalled
    <3>1. PICK c : c = PastLumi(k, first)
      OBVIOUS
    <3>2. c \in first..(Len(Items) + 1) /\ ~SameLumi(k, c)
      BY <1>1, <2>1, <3>1, PastFacts
    <3>3. c \in 1..(n + 1) /\ first < c
      BY <1>1, <1>10, <2>1, <3>2
    <3>4. Found(k).pos = c /\ Found(k).type = TypeAt(c)
      BY <1>8, <1>10, <2>3, <3>1
    <3> QED BY <1>1, <1>2, <1>3, <1>6, <3>3, <3>4
  <2> QED BY <2>2, <2>3
<1> QED BY <1>9, <1>10

(* There is a status left for a lumi of the source that is not begun yet.  *)
LEMMA FreeExists ==
    ASSUME TypeOK, Ordered, NEW i \in 1..Len(Items), Items[i].type = "lumi",
           \A k \in Lumis : Made(k) => lumi[k].sync < i
    PROVE  \E k \in Lumis : ~Made(k)
<1> SUFFICES ASSUME \A k \in Lumis : Made(k) PROVE FALSE
  OBVIOUS
<1>1. PICK L : L = {j \in DOMAIN Items : Items[j].type = "lumi"}
  OBVIOUS
<1>2. IsFiniteSet(L) /\ i \in L /\ Cardinality(L) \in Nat
  <2>1. IsFiniteSet(1..Len(Items))
    <3>1. Len(Items) \in Nat
      BY ItemFacts
    <3> QED BY <3>1, Interval
  <2>2. IsFiniteSet(L) /\ i \in L
    BY <1>1, <2>1, ItemFacts, FS_Subset
  <2> QED BY <2>2, FS_CardinalityType
<1>3. IsFiniteSet(L \ {i}) /\ Cardinality(L \ {i}) = Cardinality(L) - 1
  BY <1>2, FS_RemoveElement
<1>4. PICK f : f = [k \in Lumis |-> lumi[k].sync]
  OBVIOUS
<1>5. f \in [Lumis -> L \ {i}]
  <2>1. \A k \in Lumis : lumi[k].sync \in L \ {i}
    BY <1>1, ItemFacts DEF Ordered, Begins
  <2> QED BY <1>4, <2>1
<1>6. \A j, k \in Lumis : f[j] = f[k] => j = k
  <2> SUFFICES ASSUME NEW j \in Lumis, NEW k \in Lumis, f[j] = f[k], j # k PROVE FALSE
    OBVIOUS
  <2>1. j \in Nat /\ k \in Nat
    BY Finite
  <2>2. lumi[j].sync \in Nat /\ lumi[k].sync \in Nat
    BY DEF TypeOK, Statuses
  <2>3. j < k \/ k < j
    BY <2>1
  <2>4. lumi[j].sync < lumi[k].sync \/ lumi[k].sync < lumi[j].sync
    BY <2>3 DEF Ordered
  <2> QED BY <1>4, <2>2, <2>4
<1>7. f \in Injection(Lumis, L \ {i})
  BY <1>5, <1>6 DEF Injection, IsInjective
<1>8. Cardinality(Lumis) <= Cardinality(L \ {i})
  BY <1>3, <1>7, Finite, FS_Injection
<1>9. Cardinality(Lumis) = Cardinality(L)
  <2>1. PICK m \in Nat : m = Cardinality(L)
    BY <1>2
  <2>2. Lumis = 1..m
    BY <1>1, <2>1 DEF Lumis
  <2> QED BY <2>1, <2>2, Interval
<1> QED BY <1>2, <1>3, <1>8, <1>9

(* beginLumiAsync() takes the first status that is free.                   *)
Renews(n, sync, ofRun, phase) ==
    /\ phase \in {"iov", "queued"}
    /\ lumi'[n] = [NoLumi EXCEPT !.phase = phase, !.sync = sync, !.run = ofRun]
    /\ iovHolds' = IF phase = "queued" THEN iovHolds + 1 ELSE iovHolds
(* beginLumiAsync() takes the first status that is not made yet.           *)
LEMMA BeginLumiFacts ==
    ASSUME TypeOK, Ordered, NEW sync \in 1..Len(Items), Items[sync].type = "lumi",
           \A k \in Lumis : Made(k) => lumi[k].sync < sync, NEW ofRun \in Nat,
           NEW statuses \in [Lumis -> Statuses], ~failed, BeginLumi(statuses, sync, ofRun)
    PROVE  \E n \in Lumis, phase \in Phases :
              /\ \A j \in Lumis : Made(j) <=> j < n
              /\ Renews(n, sync, ofRun, phase)
              /\ lumi' \in [Lumis -> Statuses] /\ \A j \in Lumis : j # n => lumi'[j] = statuses[j]
<1>1. PICK F \in SUBSET Nat : F = Free
  BY Finite DEF Free
<1>2. F # {} /\ Lumis \subseteq Nat
  BY <1>1, FreeExists, Finite DEF Free, Made
<1>3. PICK m \in F : \A j \in F : m <= j
  BY <1>2, Least
<1>4. PICK n : n = NextLumi
  OBVIOUS
<1>5. n \in F /\ \A j \in F : n <= j
  BY <1>1, <1>3, <1>4 DEF NextLumi
<1>6. n \in Lumis /\ ~Made(n) /\ \A j \in Lumis : ~Made(j) => n <= j
  BY <1>1, <1>5 DEF Free, Made
<1>7. \A j \in Lumis : Made(j) <=> j < n
  <2> SUFFICES ASSUME NEW j \in Lumis PROVE Made(j) <=> j < n
    OBVIOUS
  <2>1. j \in Nat /\ n \in Nat
    BY <1>2, <1>6
  <2>2. CASE j < n
    BY <1>6, <2>1, <2>2
  <2>3. CASE j = n
    BY <1>6, <2>1, <2>3
  <2>4. CASE n < j
    BY <1>6, <2>1, <2>4 DEF Ordered
  <2> QED BY <2>1, <2>2, <2>3, <2>4
<1>8. PICK phase : phase = IF Items[sync].iov = iov THEN "queued" ELSE "iov"
  OBVIOUS
<1>9. phase \in Phases /\ phase \in {"iov", "queued"}
  BY <1>8 DEF Phases
<1>10. PICK r \in Statuses : r = [NoLumi EXCEPT !.phase = phase, !.sync = sync, !.run = ofRun]
  <2>1. sync \in Nat /\ 1 \in 1..(NumberOfStreams + 1) /\ NumberOfStreams \in 0..NumberOfStreams
    BY ItemFacts, CountsAssumption
  <2> QED BY <1>9, <2>1 DEF Statuses, NoLumi
<1>11. lumi' = [statuses EXCEPT ![n] = r]
  BY <1>4, <1>8, <1>10 DEF BeginLumi
<1>12. iovHolds' = IF phase = "queued" THEN iovHolds + 1 ELSE iovHolds
  BY <1>8 DEF BeginLumi
<1>13. lumi'[n] = r /\ lumi' \in [Lumis -> Statuses] /\ \A j \in Lumis : j # n => lumi'[j] = statuses[j]
  BY <1>6, <1>10, <1>11
<1> QED BY <1>6, <1>7, <1>9, <1>10, <1>12, <1>13 DEF Renews

(* A status in which only flags are changed.                               *)
Rewrites(j) ==
    /\ UNCHANGED <<lumi[j].phase, lumi[j].sync, lumi[j].item, lumi[j].toPush, lumi[j].left, lumi[j].begun>>
    /\ ~Made(j) => lumi'[j] = lumi[j]
    /\ lumi[j].startedNext => lumi'[j].startedNext
    /\ lumi[j].ending => lumi'[j].ending
    /\ lumi'[j].startedNext => lumi'[j].ending
    /\ lumi'[j].ending => lumi'[j].stop /\ ~lumi'[j].continuing

(* Streams, or main, note in the statuses what they found, and begin the   *)
(* lumis in N, of which there is at most one.                              *)
Notes(N) ==
    /\ lumi' \in [Lumis -> Statuses] /\ pos \in Nat /\ pos' \in Nat /\ pos <= pos'
    /\ pos' = pos \/ \A j \in Lumis : lumi[j].phase \notin Unread
    /\ \A j \in Lumis \ N : Rewrites(j)
    /\ \A n \in N : /\ \E ofRun \in Nat, phase \in Phases : Renews(n, pos', ofRun, phase)
                    /\ \A j \in Lumis : Made(j) <=> j < n
                    /\ pos' \in 1..Len(Items) /\ Items[pos'].type = "lumi"
                    /\ \A j \in Lumis : Made(j) => lumi[j].sync < pos'
                    /\ \A j \in Lumis : Alive(j) => lumi'[j].startedNext
(* What is noted, and the lumi begun, keep the statuses in order.          *)
LEMMA NotesStatused ==
    ASSUME Statused, NEW N \in SUBSET Lumis, Notes(N)
    PROVE  /\ Phased' /\ Ordered'
           /\ \A j \in Lumis : /\ lumi'[j].toPush = lumi[j].toPush /\ lumi'[j].left = lumi[j].left
                               /\ j \notin N => (Made(j)' <=> Made(j)) /\ (Alive(j)' <=> Alive(j))
           /\ \A n \in N : /\ ~Made(n) /\ Made(n)' /\ Alive(n)' /\ lumi'[n].toPush = 1 /\ lumi'[n].sync = pos'
                           /\ lumi'[n].phase \in {"iov", "queued"}
                           /\ ~lumi'[n].stop /\ ~lumi'[n].ending /\ ~lumi'[n].continuing /\ ~lumi'[n].startedNext
<1>1. TypeOK /\ Phased /\ Ordered /\ NumberOfStreams \in Nat \ {0}
  BY CountsAssumption DEF Statused
<1>2. /\ lumi' \in [Lumis -> Statuses] /\ pos \in Nat /\ pos' \in Nat /\ pos <= pos'
      /\ pos' = pos \/ \A j \in Lumis : lumi[j].phase \notin Unread
      /\ \A j \in Lumis \ N : Rewrites(j)
  BY DEF Notes
<1>3. ASSUME NEW n \in N
      PROVE  /\ lumi[n] = NoLumi /\ ~Made(n) /\ Made(n)' /\ Alive(n)'
             /\ lumi'[n].phase \in {"iov", "queued"} /\ lumi'[n].sync = pos' /\ lumi'[n].item = 0
             /\ lumi'[n].toPush = 1 /\ lumi'[n].left = NumberOfStreams /\ ~lumi'[n].begun
             /\ ~lumi'[n].stop /\ ~lumi'[n].ending /\ ~lumi'[n].continuing /\ ~lumi'[n].startedNext
             /\ \A j \in Lumis : Made(j) <=> j < n
             /\ pos' \in 1..Len(Items) /\ Items[pos'].type = "lumi"
             /\ \A j \in Lumis : Made(j) => lumi[j].sync < pos'
             /\ \A j \in Lumis : Alive(j) => lumi'[j].startedNext
  <2>1. PICK ofRun \in Nat, phase \in Phases : Renews(n, pos', ofRun, phase)
    BY DEF Notes
  <2>2. /\ \A j \in Lumis : Made(j) <=> j < n
        /\ pos' \in 1..Len(Items) /\ Items[pos'].type = "lumi"
        /\ \A j \in Lumis : Made(j) => lumi[j].sync < pos'
        /\ \A j \in Lumis : Alive(j) => lumi'[j].startedNext
    BY DEF Notes
  <2>3. n \in Nat /\ n \in Lumis
    BY Finite
  <2>4. ~Made(n)
    BY <2>2, <2>3
  <2>5. lumi[n] = NoLumi
    BY <1>1, <2>3, <2>4 DEF Phased
  <2>6. lumi'[n] = [NoLumi EXCEPT !.phase = phase, !.sync = pos', !.run = ofRun] /\ phase \in {"iov", "queued"}
    BY <2>1 DEF Renews
  <2>7. /\ lumi'[n].phase = phase /\ lumi'[n].sync = pos' /\ lumi'[n].item = 0 /\ lumi'[n].toPush = 1
        /\ lumi'[n].left = NumberOfStreams /\ lumi'[n].begun = FALSE /\ lumi'[n].stop = FALSE
        /\ lumi'[n].ending = FALSE /\ lumi'[n].continuing = FALSE /\ lumi'[n].startedNext = FALSE
    BY <2>6 DEF NoLumi
  <2>8. Made(n)' /\ Alive(n)'
    BY <2>6, <2>7 DEF Made, Alive
  <2> QED BY <2>2, <2>4, <2>5, <2>6, <2>7, <2>8
<1>4. ASSUME NEW j \in Lumis, j \notin N
      PROVE  /\ UNCHANGED <<lumi[j].phase, lumi[j].sync, lumi[j].item, lumi[j].toPush, lumi[j].left, lumi[j].begun>>
             /\ ~Made(j) => lumi'[j] = lumi[j]
             /\ lumi[j].startedNext => lumi'[j].startedNext
             /\ lumi'[j].startedNext => lumi'[j].ending
             /\ lumi'[j].ending => lumi'[j].stop /\ ~lumi'[j].continuing
             /\ Made(j)' <=> Made(j)
             /\ Alive(j)' <=> Alive(j)
  BY <1>2, <1>4 DEF Rewrites, Made, Alive
<1>5. \A j \in Lumis : lumi'[j].toPush = lumi[j].toPush /\ lumi'[j].left = lumi[j].left
  <2>1. NoLumi.toPush = 1 /\ NoLumi.left = NumberOfStreams
    BY DEF NoLumi
  <2> QED BY <1>3, <1>4, <2>1
<1>6. Phased'
  <2> SUFFICES ASSUME NEW j \in Lumis
               PROVE  /\ ~Made(j)' => lumi'[j] = NoLumi
                      /\ lumi'[j].phase \in Unpushed <=> ~lumi'[j].begun
                      /\ lumi'[j].phase \in Unpushed => lumi'[j].toPush = 1
                      /\ lumi'[j].phase = "pushing" => lumi'[j].toPush <= NumberOfStreams
                      /\ lumi'[j].phase \in Closed \cup {"open"} => lumi'[j].toPush = NumberOfStreams + 1
                      /\ lumi'[j].phase \in Closed <=> lumi'[j].left = 0
                      /\ lumi'[j].phase \in Unread => pos' = lumi'[j].sync
                      /\ lumi'[j].item \in {0, lumi'[j].sync}
                      /\ lumi'[j].begun => lumi'[j].item = lumi'[j].sync
                      /\ lumi'[j].phase = "globalBegin" => lumi'[j].item = lumi'[j].sync
                      /\ lumi'[j].startedNext => lumi'[j].ending
                      /\ lumi'[j].ending => lumi'[j].stop /\ ~lumi'[j].continuing
    BY DEF Phased
  <2>1. CASE j \in N
    <3>1. lumi'[j].phase \in Unpushed /\ lumi'[j].phase \notin Closed \cup {"open", "pushing", "globalBegin"}
      BY <1>3, <2>1 DEF Unpushed, Unread, Closed
    <3> QED BY <1>1, <1>3, <2>1, <3>1
  <2>2. CASE j \notin N
    <3>1. /\ ~Made(j) => lumi[j] = NoLumi
          /\ lumi[j].phase \in Unpushed <=> ~lumi[j].begun
          /\ lumi[j].phase \in Unpushed => lumi[j].toPush = 1
          /\ lumi[j].phase = "pushing" => lumi[j].toPush <= NumberOfStreams
          /\ lumi[j].phase \in Closed \cup {"open"} => lumi[j].toPush = NumberOfStreams + 1
          /\ lumi[j].phase \in Closed <=> lumi[j].left = 0
          /\ lumi[j].phase \in Unread => pos = lumi[j].sync
          /\ lumi[j].item \in {0, lumi[j].sync}
          /\ lumi[j].begun => lumi[j].item = lumi[j].sync
          /\ lumi[j].phase = "globalBegin" => lumi[j].item = lumi[j].sync
      BY <1>1 DEF Phased
    <3> QED BY <1>2, <1>4, <2>2, <3>1
  <2> QED BY <2>1, <2>2
<1>7. Ordered'
  <2>1. ASSUME NEW j \in Lumis, Made(j)' PROVE Begins(j)'
    <3>1. CASE j \in N
      BY <1>2, <1>3, <3>1 DEF Begins
    <3>2. CASE j \notin N
      <4>1. lumi[j].sync \in 1..Len(Items) /\ Items[lumi[j].sync].type = "lumi" /\ lumi[j].sync <= pos
        BY <1>1, <1>4, <2>1, <3>2 DEF Ordered, Begins
      <4>2. lumi[j].sync <= pos'
        BY <1>2, <4>1, ItemFacts
      <4> QED BY <1>4, <3>2, <4>1, <4>2 DEF Begins
    <3> QED BY <3>1, <3>2
  <2>2. ASSUME NEW j \in Lumis, NEW k \in Lumis, j < k, Made(k)'
        PROVE  /\ Made(j)' /\ lumi'[j].sync < lumi'[k].sync
               /\ lumi'[j].startedNext \/ ~Alive(j)'
    <3>1. CASE k \in N
      <4>1. Made(j) /\ j \notin N
        BY <1>3, <2>2, <3>1
      <4> QED BY <1>3, <1>4, <3>1, <4>1
    <3>2. CASE k \notin N
      <4>1. Made(k)
        BY <1>4, <2>2, <3>2
      <4>2. Made(j) /\ lumi[j].sync < lumi[k].sync /\ (lumi[j].startedNext \/ ~Alive(j))
        BY <1>1, <2>2, <4>1 DEF Ordered
      <4>3. j \notin N
        BY <1>3, <4>2
      <4> QED BY <1>4, <3>2, <4>2, <4>3
    <3> QED BY <3>1, <3>2
  <2> QED BY <2>1, <2>2 DEF Ordered
<1> QED BY <1>3, <1>4, <1>5, <1>6, <1>7

-----------------------------------------------------------------------------
(* A stream that asks for an event is in a lumi that is open; ...          *)
LEMMA AskFacts ==
    ASSUME IInv, NEW s \in Streams, stream[s].at = "next"
    PROVE  /\ At("lumis") /\ stream[s].lumi \in Lumis
           /\ lumi[stream[s].lumi].phase \in {"pushing", "open"} /\ Alive(stream[s].lumi)
           /\ Noticed(stream[s].lumi) /\ Begins(stream[s].lumi) /\ 1 <= pos
<1>1. /\ TypeOK /\ Phased /\ Ordered /\ Placed /\ Counted /\ Occupied /\ Quiet /\ Ended /\ AtLumis
  BY DEF IInv, Statused, Scheduled
<1>2. At("lumis")
  <2>1. Held
    BY DEF Held
  <2>2. main.pc # "endWait"
    BY <1>1 DEF Ended, At
  <2> QED BY <1>1, <2>1, <2>2 DEF Quiet, At
<1>3. PICK k \in Lumis : k = stream[s].lumi
  BY <1>1 DEF TypeOK, StreamStates, Occupied
<1>4. lumi[k].phase \in {"pushing", "open"}
  BY <1>1, <1>3, Where DEF Within
<1>5. Alive(k) /\ Made(k)
  BY <1>4 DEF Alive, Made
<1>6. Noticed(k) /\ Begins(k)
  BY <1>1, <1>2, <1>5 DEF AtLumis, Ordered
<1>7. 1 <= pos
  BY <1>1, <1>6 DEF Begins, TypeOK
<1> QED BY <1>2, <1>3, <1>4, <1>5, <1>6, <1>7

(* ... unless the lumi has been stopped, no other one may be read, nor is  *)
(* another one waiting for events.                                         *)
LEMMA AskAlone ==
    ASSUME IInv, NEW s \in Streams, stream[s].at = "next", NEW k \in Lumis, k = stream[s].lumi,
           ~full, ~deferred, ~lumi[k].stop
    PROVE  /\ \A j \in Lumis : lumi[j].phase \notin Unread
           /\ \A j \in Lumis : Alive(j) /\ j # k => lumi[j].startedNext /\ lumi[j].ending /\ ~lumi[j].continuing
           /\ \A p \in Streams : stream[p].at = "stopped" => failed
           /\ ~lumi[k].ending /\ ~lumi[k].startedNext
           /\ lumi[k].continuing => Fresh
<1>1. /\ TypeOK /\ Phased /\ Ordered /\ Placed /\ Counted /\ Occupied /\ AtLumis
  BY DEF IInv, Statused, Scheduled
<1>2. At("lumis") /\ Alive(k) /\ Made(k) /\ Noticed(k) /\ lumi[k].sync <= pos /\ lumi[k].phase \in {"pushing", "open"}
  BY AskFacts DEF Begins, Alive, Made
<1>3. ~lumi[k].ending /\ ~lumi[k].startedNext
  BY <1>1 DEF Phased
<1>4. ASSUME NEW j \in Lumis, Alive(j), j # k PROVE lumi[j].startedNext /\ lumi[j].ending /\ ~lumi[j].continuing
  <2>1. j \in Nat /\ k \in Nat /\ Made(j)
    BY <1>4, Finite DEF Alive, Made
  <2>2. ~(k < j)
    BY <1>1, <1>2, <1>3, <2>1 DEF Ordered
  <2>3. j < k
    BY <1>4, <2>1, <2>2
  <2>4. lumi[j].startedNext
    BY <1>1, <1>2, <1>4, <2>3 DEF Ordered
  <2> QED BY <1>1, <2>4 DEF Phased
<1>5. ASSUME NEW j \in Lumis, lumi[j].phase \in Unread PROVE FALSE
  <2>1. Alive(j) /\ Made(j) /\ j # k /\ pos = lumi[j].sync
    BY <1>1, <1>2, <1>5 DEF Alive, Made, Unread, Phased
  <2>2. j \in Nat /\ k \in Nat /\ lumi[j].sync \in Nat /\ lumi[k].sync \in Nat
    BY <1>1, Finite DEF TypeOK, Statuses
  <2>3. ~(k < j)
    BY <1>1, <1>2, <1>3, <2>1 DEF Ordered
  <2>4. j < k
    BY <2>1, <2>2, <2>3
  <2>5. lumi[j].sync < lumi[k].sync
    BY <1>1, <1>2, <2>4 DEF Ordered
  <2> QED BY <1>2, <2>1, <2>2, <2>5
<1>6. ASSUME NEW p \in Streams, stream[p].at = "stopped", ~failed PROVE FALSE
  <2>1. PICK j \in Lumis : j = stream[p].lumi
    BY <1>1, <1>6 DEF TypeOK, StreamStates, Occupied
  <2>2. Stopped(j)
    BY <1>1, <1>2, <1>6, <2>1 DEF AtLumis
  <2>3. lumi[j].phase \in {"pushing", "open"}
    BY <1>1, <2>1, Where DEF Within
  <2>4. Alive(j) /\ lumi[j].stop /\ ~lumi[j].ending
    BY <2>2, <2>3 DEF Alive, Stopped
  <2> QED BY <1>4, <2>4
<1>7. lumi[k].continuing => Fresh
  BY <1>2 DEF Noticed
<1> QED BY <1>3, <1>4, <1>5, <1>6, <1>7

(* What a stream has found in the source keeps the invariant, whatever     *)
(* becomes of the stream and of its lumi, within these bounds.             *)
Finds(s, k, N, at) ==
    /\ Notes(N) /\ k \notin N /\ \A j \in Lumis \ N : j # k => lumi'[j] = lumi[j]
    /\ pos' \in 0..(Len(Items) + 1) /\ last' \in ItemTypes \cup {"stop"}
    /\ last' # "stop" => last' = TypeAt(pos')
    /\ at \in {"event", "stopped", "end"} /\ stream' = [stream EXCEPT ![s].at = at]
    /\ at = "stopped" => deferred' \/ (lumi'[k].stop /\ ~lumi'[k].ending)
    /\ at = "end" => lumi'[k].ending
    /\ lumi'[k].stop /\ ~lumi'[k].ending => last' \in {"file", "run"}
    /\ lumi'[k].ending /\ ~lumi'[k].startedNext => last' # "lumi"
    /\ lumi'[k].ending => failed \/ last' # "lumi" \/ N # {}
    /\ ~lumi'[k].continuing
    /\ deferred' \in BOOLEAN /\ failures' \in 0..MaxFailures
    /\ UNCHANGED <<signalled, full, iov, slots, active, locals, main, files, run, cached, lost, failed>>
(* A stream that asks the source and passes on what it finds keeps the     *)
(* invariant.                                                              *)
LEMMA FindsKeeps ==
    ASSUME IInv, NEW s \in Streams, stream[s].at = "next", NEW k \in Lumis, k = stream[s].lumi,
           ~full, ~deferred, ~lumi[k].stop, NEW N \in SUBSET Lumis, NEW at, Finds(s, k, N, at),
           Slots', Pauses', iovHolds' \in 0..Cardinality(Lumis)
    PROVE  IInv' /\ Handed'
<1>1. /\ Statused /\ TypeOK /\ Phased /\ Ordered /\ Placed /\ Counted /\ Occupied
      /\ Quiet /\ Ended /\ AtSource /\ Remaining /\ AtLumis
  BY DEF IInv, Statused, Scheduled
<1>2. /\ \A j \in Lumis : Alive(j) /\ j # k => lumi[j].startedNext /\ lumi[j].ending /\ ~lumi[j].continuing
      /\ \A p \in Streams : stream[p].at = "stopped" => failed
      /\ ~lumi[k].ending
  BY AskAlone
<1>3. At("lumis") /\ Alive(k)
  BY AskFacts
<1>4. /\ Notes(N) /\ k \notin N /\ \A j \in Lumis \ N : j # k => lumi'[j] = lumi[j]
      /\ pos' \in 0..(Len(Items) + 1) /\ last' \in ItemTypes \cup {"stop"}
      /\ last' # "stop" => last' = TypeAt(pos')
      /\ at \in {"event", "stopped", "end"}
      /\ at = "stopped" => deferred' \/ (lumi'[k].stop /\ ~lumi'[k].ending)
      /\ at = "end" => lumi'[k].ending
      /\ lumi'[k].stop /\ ~lumi'[k].ending => last' \in {"file", "run"}
      /\ lumi'[k].ending /\ ~lumi'[k].startedNext => last' # "lumi"
      /\ lumi'[k].ending => failed \/ last' # "lumi" \/ N # {}
      /\ ~lumi'[k].continuing
      /\ deferred' \in BOOLEAN /\ failures' \in 0..MaxFailures
      /\ UNCHANGED <<signalled, full, iov, slots, active, locals, main, files, run, cached, lost, failed>>
  BY DEF Finds
<1>5. /\ lumi' \in [Lumis -> Statuses] /\ Phased' /\ Ordered'
      /\ \A j \in Lumis : /\ lumi'[j].toPush = lumi[j].toPush /\ lumi'[j].left = lumi[j].left
                          /\ j \notin N => (Alive(j)' <=> Alive(j))
      /\ \A n \in N : /\ ~Made(n) /\ Alive(n)' /\ lumi'[n].toPush = 1
                      /\ ~lumi'[n].stop /\ ~lumi'[n].ending /\ ~lumi'[n].continuing
  BY <1>1, <1>4, NotesStatused DEF Notes
<1>6. /\ stream \in [Streams -> StreamStates] /\ stream' \in [Streams -> StreamStates] /\ stream'[s].at = at
      /\ \A p \in Streams : p # s => stream'[p] = stream[p]
      /\ \A p \in Streams : Stays(p)
  <2>1. stream \in [Streams -> StreamStates] /\ stream[s] \in StreamStates
    BY <1>1 DEF TypeOK
  <2>2. PICK r \in StreamStates : r = [stream[s] EXCEPT !.at = at]
    <3>1. at \in {"idle", "begin", "next", "event", "end", "stopped"}
      BY <1>4
    <3> QED BY <2>1, <3>1 DEF StreamStates
  <2>3. stream' = [stream EXCEPT ![s] = r]
    BY <2>2 DEF Finds
  <2>4. StreamBecomes(s, r)
    BY <2>1, <2>3, StreamUpdates
  <2>5. /\ r.lumi = stream[s].lumi /\ r.queue = stream[s].queue /\ r.paused = stream[s].paused /\ r.at = at
        /\ at = "idle" <=> stream[s].at = "idle"
    BY <1>4, <2>1, <2>2 DEF StreamStates
  <2>6. Stays(s)
    BY <2>4, <2>5 DEF StreamBecomes, Stays
  <2>7. \A p \in Streams : p # s => Stays(p)
    BY <2>4 DEF StreamBecomes, Stays
  <2> QED BY <2>1, <2>4, <2>5, <2>6, <2>7 DEF StreamBecomes
<1>7. /\ \A p \in Streams, j \in Lumis :
            /\ ToCome(p, j)' <=> ToCome(p, j)
            /\ Queued(p, j)' <=> Queued(p, j)
            /\ Within(p, j)' <=> Within(p, j)
      /\ Placed' /\ Counted' /\ Occupied'
  BY <1>1, <1>4, <1>5, <1>6, StayPlaces
<1>8. TypeOK'
  BY <1>1, <1>4, <1>5, <1>6 DEF TypeOK
<1>9. Quiet' /\ Ended' /\ AtSource' /\ Parked'
  BY <1>3, <1>4, WaitFrame
<1>10. Remaining'
  <2> SUFFICES ASSUME NEW j \in Lumis, Alive(j)', ~lumi'[j].ending, NEW p \in Streams PROVE Remains(p, j)'
    BY DEF Remaining
  <2>1. CASE j \in N
    <3>1. p >= lumi'[j].toPush
      BY <1>5, <2>1, CountsAssumption DEF Streams
    <3> QED BY <3>1 DEF Remains, ToCome
  <2>2. CASE j \notin N
    <3>1. j = k
      BY <1>2, <1>4, <1>5, <2>2
    <3>2. Remains(p, k)
      BY <1>1, <1>2, <1>3 DEF Remaining, At
    <3>3. Within(p, k) /\ stream[p].at # "end" => stream'[p].at # "end"
      BY <1>4, <1>6, <3>1
    <3> QED BY <1>7, <3>1, <3>2, <3>3 DEF Remains
  <2> QED BY <2>1, <2>2
<1>11. AtLumis'
  <2>1. ASSUME NEW j \in Lumis, Alive(j)'
        PROVE  /\ lumi'[j].stop /\ ~lumi'[j].ending => last' \in {"file", "run"}
               /\ lumi'[j].ending /\ ~lumi'[j].startedNext => deferred' \/ last' # "lumi"
               /\ ~lumi'[j].continuing
    <3>1. CASE j \in N
      BY <1>5, <3>1
    <3>2. CASE j = k
      BY <1>4, <3>2
    <3>3. CASE j \notin N /\ j # k
      BY <1>2, <1>4, <1>5, <2>1, <3>3
    <3> QED BY <3>1, <3>2, <3>3
  <2>2. ASSUME NEW p \in Streams, stream'[p].at = "stopped"
        PROVE  failed' \/ deferred' \/ (~lumi'[stream'[p].lumi].ending /\ lumi'[stream'[p].lumi].stop /\ last' \in {"file", "run"})
    <3>1. CASE p = s
      <4>1. stream'[s].lumi = k
        BY <1>6 DEF Stays
      <4> QED BY <1>4, <1>6, <2>2, <3>1, <4>1
    <3>2. CASE p # s
      BY <1>2, <1>4, <1>6, <2>2, <3>2
    <3> QED BY <3>1, <3>2
  <2> QED BY <2>1, <2>2 DEF AtLumis, Noticed, Stopped, Boundary
<1>12. Handed'
  <2>1. CASE ~lumi'[k].ending
    <3>1. Alive(k)'
      BY <1>3, <1>4, <1>5
    <3> QED BY <2>1, <3>1 DEF Handed
  <2>2. CASE lumi'[k].ending /\ N # {}
    <3>1. PICK n \in N : Alive(n)' /\ ~lumi'[n].ending
      BY <1>5, <2>2
    <3> QED BY <3>1 DEF Handed
  <2>3. CASE failed \/ last' # "lumi"
    BY <1>4, <2>3 DEF Handed
  <2> QED BY <1>4, <2>1, <2>2, <2>3
<1> QED BY <1>5, <1>7, <1>8, <1>9, <1>10, <1>11, <1>12 DEF IInv, Statused, Scheduled

(* What is noted in the status of the stream's lumi.                       *)
LEMMA NotedFacts ==
    ASSUME TypeOK, NEW k \in Lumis, NEW f, f.pos \in Nat
    PROVE  \E r \in Statuses :
              /\ Noted(k, f) = [lumi EXCEPT ![k] = r]
              /\ r.phase = lumi[k].phase /\ r.sync = lumi[k].sync /\ r.item = lumi[k].item /\ r.run = lumi[k].run
              /\ r.toPush = lumi[k].toPush /\ r.left = lumi[k].left /\ r.begun = lumi[k].begun
              /\ r.startedNext = lumi[k].startedNext /\ r.continuing = FALSE /\ r.endFailed = lumi[k].endFailed
              /\ r.stop = (f.type # "event") /\ r.ending = EndsLumi(k, f)
              /\ f.type = "lumi" => r.next = f.pos
<1>1. lumi \in [Lumis -> Statuses] /\ lumi[k] \in Statuses
  BY DEF TypeOK
<1>2. EndsLumi(k, f) \in BOOLEAN
  BY DEF EndsLumi
<1>3. PICK e \in BOOLEAN : e = EndsLumi(k, f)
  BY <1>2
<1>4. PICK n \in Nat : n = IF f.type = "lumi" THEN f.pos ELSE lumi[k].next
  BY <1>1 DEF Statuses
<1>5. PICK t \in BOOLEAN : t = (f.type # "event")
  OBVIOUS
<1>6. PICK r \in Statuses : r = [lumi[k] EXCEPT !.continuing = FALSE, !.next = n, !.stop = t, !.ending = e]
  BY <1>1 DEF Statuses
<1>7. Noted(k, f) = [lumi EXCEPT ![k] = r]
  BY <1>1, <1>3, <1>4, <1>5, <1>6 DEF Noted
<1>8. /\ r.phase = lumi[k].phase /\ r.sync = lumi[k].sync /\ r.item = lumi[k].item /\ r.run = lumi[k].run
      /\ r.toPush = lumi[k].toPush /\ r.left = lumi[k].left /\ r.begun = lumi[k].begun
      /\ r.startedNext = lumi[k].startedNext /\ r.continuing = FALSE /\ r.endFailed = lumi[k].endFailed
      /\ r.stop = t /\ r.ending = e /\ r.next = n
  BY <1>1, <1>6 DEF Statuses
<1> QED BY <1>3, <1>4, <1>5, <1>7, <1>8

(* A lumi that has been begun stays until it is told to end, or throws.    *)
LEMMA HandedStep ==
    ASSUME Handed, UNCHANGED <<pos, last, main>>, failed => failed', deferred => deferred',
           \A j \in Lumis : Made(j)' => Made(j) /\ lumi'[j].sync = lumi[j].sync,
           \A j \in Lumis : Alive(j) /\ ~lumi[j].ending => failed' \/ (Alive(j)' /\ ~lumi'[j].ending)
    PROVE  Handed'
<1>1. Fresh => Fresh'
  BY DEF Fresh, TypeAt
<1> QED BY <1>1 DEF Handed, At

(* A stream that has been told to stop does so.                            *)
LEMMA StopKeeps ==
    ASSUME IInv, Handed, NEW s \in Streams, stream[s].at = "next", NEW k \in Lumis, k = stream[s].lumi,
           full \/ deferred \/ lumi[k].stop, StopStream(s, lumi),
           UNCHANGED <<pos, last, deferred, signalled, full, iov, slots, active, locals,
                       main, files, run, cached, lost, failed, failures>>
    PROVE  IInv' /\ Handed'
<1>1. TypeOK /\ failures \in 0..MaxFailures
  BY DEF IInv, Statused, TypeOK
<1>2. Noticed(k)
  BY AskFacts
<1>3. CASE lumi[k].ending
  <2>1. stream' = [stream EXCEPT ![s].at = "end"] /\ UNCHANGED <<lumi, iovHolds>>
    <3>1. ~(~deferred /\ last' = "lumi" /\ ~lumi[k].startedNext)
      BY <1>2, <1>3 DEF Noticed
    <3> QED BY <1>3, <3>1 DEF StopStream
  <2>2. GoesOn(s, "end")
    BY <1>1, <1>3, <2>1 DEF GoesOn
  <2>3. Handed'
    BY <2>1, HandedStep DEF Made, Alive
  <2> QED BY <2>2, <2>3, GoesOnKeeps
<1>4. CASE ~lumi[k].ending
  <2>1. stream' = [stream EXCEPT ![s].at = "stopped"] /\ UNCHANGED <<lumi, iovHolds>>
    BY <1>4 DEF StopStream
  <2>2. deferred \/ Stopped(k)
    BY <1>2, <1>4 DEF Noticed, Stopped
  <2>3. GoesOn(s, "stopped")
    BY <1>1, <2>1, <2>2 DEF GoesOn
  <2>4. Handed'
    BY <2>1, HandedStep DEF Made, Alive
  <2> QED BY <2>3, <2>4, GoesOnKeeps
<1> QED BY <1>3, <1>4

(* A stream that finds an event, or the end of its lumi.                   *)
LEMMA FoundKeeps ==
    ASSUME IInv, NEW s \in Streams, stream[s].at = "next", NEW k \in Lumis, k = stream[s].lumi,
           ~full, ~deferred, ~lumi[k].stop, pos' = Found(k).pos, last' = Found(k).type,
           IF Found(k).type = "event"
             THEN ReadEvent(s, Noted(k, Found(k)))
             ELSE StopStream(s, Noted(k, Found(k))) /\ UNCHANGED <<deferred, failures>>,
           UNCHANGED <<signalled, full, iov, slots, active, locals, main, files, run, cached, lost, failed>>
    PROVE  IInv' /\ Handed'
<1>1. /\ TypeOK /\ Phased /\ Ordered /\ Slots /\ Pauses /\ lumi \in [Lumis -> Statuses] /\ iovHolds \in 0..Cardinality(Lumis)
      /\ failures \in 0..MaxFailures /\ MaxFailures \in Nat /\ deferred \in BOOLEAN /\ pos \in Nat
  BY CountsAssumption DEF IInv, Statused, TypeOK
<1>2. /\ 1 <= pos /\ Alive(k) /\ Made(k) /\ lumi[k].phase # "none"
  BY AskFacts DEF Alive, Made
<1>3. /\ \A j \in Lumis : lumi[j].phase \notin Unread
      /\ \A j \in Lumis : Alive(j) /\ j # k => lumi[j].startedNext /\ lumi[j].ending /\ ~lumi[j].continuing
      /\ ~lumi[k].ending /\ ~lumi[k].startedNext
      /\ lumi[k].continuing => Fresh
  BY AskAlone
<1>4. PICK f : f = Found(k)
  OBVIOUS
<1>5. /\ f.pos \in 1..(Len(Items) + 1) /\ pos <= f.pos /\ f.pos \in Nat
      /\ f.type \in ItemTypes \cup {"stop"}
      /\ f.type # "stop" => f.type = TypeAt(f.pos)
      /\ f.type = "lumi" => pos < f.pos \/ (Fresh /\ pos = f.pos)
  BY <1>1, <1>2, <1>3, <1>4, FoundFacts, ItemFacts
<1>6. PICK r \in Statuses :
              /\ Noted(k, f) = [lumi EXCEPT ![k] = r]
              /\ r.phase = lumi[k].phase /\ r.sync = lumi[k].sync /\ r.item = lumi[k].item /\ r.run = lumi[k].run
              /\ r.toPush = lumi[k].toPush /\ r.left = lumi[k].left /\ r.begun = lumi[k].begun
              /\ r.startedNext = lumi[k].startedNext /\ r.continuing = FALSE
              /\ r.stop = (f.type # "event") /\ r.ending = EndsLumi(k, f)
              /\ f.type = "lumi" => r.next = f.pos
  BY <1>1, <1>5, NotedFacts
<1>7. /\ EndsLumi(k, f) => f.type \in {"stop", "lumi", "run"}
      /\ f.type = "lumi" => EndsLumi(k, f)
      /\ ~EndsLumi(k, f) => f.type \in {"event", "file", "run"}
  BY <1>5 DEF EndsLumi, ItemTypes
<1>8. PICK S \in [Lumis -> Statuses] : S = [lumi EXCEPT ![k] = r]
  BY <1>1
<1>9. /\ S[k] = r /\ \A j \in Lumis : j # k => S[j] = lumi[j]
      /\ pos' = f.pos /\ last' = f.type
  BY <1>1, <1>4, <1>8
<1>10. ASSUME UNCHANGED iovHolds, lumi' = S
       PROVE  Notes({}) /\ Slots' /\ Pauses' /\ iovHolds' \in 0..Cardinality(Lumis)
  <2>1. Rewrites(k)
    BY <1>2, <1>3, <1>6, <1>7, <1>9, <1>10 DEF Rewrites, Made
  <2>2. \A j \in Lumis : j # k => Rewrites(j)
    BY <1>1, <1>9, <1>10 DEF Rewrites, Phased
  <2>3. Notes({})
    BY <1>1, <1>3, <1>5, <1>8, <1>9, <1>10, <2>1, <2>2 DEF Notes
  <2>4. \A j \in Lumis : lumi'[j].phase = lumi[j].phase
    BY <1>6, <1>9, <1>10
  <2>5. Slots'
    BY <1>1, <2>4, SlotsStep
  <2>6. Pauses' /\ iovHolds' \in 0..Cardinality(Lumis)
    BY <1>1, <1>10, <2>4, PausesStep
  <2> QED BY <2>3, <2>5, <2>6
<1>11. CASE f.type = "event"
  <2>1. ReadEvent(s, S)
    BY <1>4, <1>6, <1>8, <1>11
  <2>2. lumi' = S /\ UNCHANGED iovHolds
    BY <2>1 DEF ReadEvent
  <2>3. PICK at \in {"event", "stopped"} : /\ stream' = [stream EXCEPT ![s].at = at]
                                           /\ at = "stopped" => deferred'
                                           /\ deferred' \in BOOLEAN /\ failures' \in 0..MaxFailures
    <3>1. CASE Succeeds /\ stream' = [stream EXCEPT ![s].at = "event"] /\ UNCHANGED deferred
      BY <1>1, <3>1 DEF Succeeds
    <3>2. CASE Fails("readEvent") /\ stream' = [stream EXCEPT ![s].at = "stopped"] /\ deferred' = TRUE
      <4>1. failures' \in 0..MaxFailures /\ deferred'
        BY <1>1, <3>2 DEF Fails
      <4>2. deferred' \in BOOLEAN
        BY <3>2
      <4> QED BY <3>2, <4>1, <4>2
    <3> QED BY <2>1, <3>1, <3>2 DEF ReadEvent
  <2>4. ~lumi'[k].stop /\ ~lumi'[k].ending /\ ~lumi'[k].continuing
    BY <1>6, <1>7, <1>9, <1>11, <2>2
  <2>5. Finds(s, k, {}, at)
    BY <1>5, <1>9, <1>10, <2>2, <2>3, <2>4, ItemFacts DEF Finds
  <2> QED BY <1>10, <2>2, <2>5, FindsKeeps
<1>12. CASE f.type # "event" /\ ~EndsLumi(k, f)
  <2>1. StopStream(s, S) /\ UNCHANGED <<deferred, failures>>
    BY <1>4, <1>6, <1>8, <1>12
  <2>2. lumi' = S /\ UNCHANGED iovHolds /\ stream' = [stream EXCEPT ![s].at = "stopped"]
    BY <1>6, <1>9, <1>12, <2>1 DEF StopStream
  <2>3. lumi'[k].stop /\ ~lumi'[k].ending /\ ~lumi'[k].continuing /\ last' \in {"file", "run"}
    BY <1>6, <1>7, <1>9, <1>12, <2>2
  <2>4. Finds(s, k, {}, "stopped")
    BY <1>1, <1>5, <1>9, <1>10, <2>1, <2>2, <2>3, ItemFacts DEF Finds
  <2> QED BY <1>10, <2>2, <2>4, FindsKeeps
<1>13. CASE EndsLumi(k, f) /\ f.type # "lumi"
  <2>1. StopStream(s, S) /\ UNCHANGED <<deferred, failures>>
    BY <1>4, <1>6, <1>7, <1>8, <1>13
  <2>2. lumi' = S /\ UNCHANGED iovHolds /\ stream' = [stream EXCEPT ![s].at = "end"]
    BY <1>6, <1>9, <1>13, <2>1 DEF StopStream
  <2>3. lumi'[k].stop /\ lumi'[k].ending /\ ~lumi'[k].continuing /\ last' # "lumi"
    BY <1>6, <1>7, <1>9, <1>13, <2>2
  <2>4. Finds(s, k, {}, "end")
    BY <1>1, <1>5, <1>9, <1>10, <2>1, <2>2, <2>3, ItemFacts DEF Finds
  <2> QED BY <1>10, <2>2, <2>4, FindsKeeps
<1>14. CASE f.type = "lumi"
  <2>1. StopStream(s, S) /\ UNCHANGED <<deferred, failures>>
    BY <1>4, <1>6, <1>8, <1>14
  <2>2. PICK r2 \in Statuses : r2 = [r EXCEPT !.startedNext = TRUE]
    BY <1>6 DEF Statuses
  <2>3. PICK S2 \in [Lumis -> Statuses] : S2 = [S EXCEPT ![k] = r2]
    BY <1>8
  <2>4. S2 = [S EXCEPT ![k].startedNext = TRUE]
    BY <1>8, <1>9, <2>2, <2>3
  <2>5. BeginLumi(S2, f.pos, r.run) /\ stream' = [stream EXCEPT ![s].at = "end"]
    <3>1. S[k].ending /\ ~deferred /\ last' = "lumi" /\ ~S[k].startedNext /\ S[k].next = f.pos /\ S[k].run = r.run
      BY <1>3, <1>6, <1>7, <1>9, <1>14
    <3> QED BY <2>1, <2>4, <3>1 DEF StopStream
  <2>6. /\ r2.phase = lumi[k].phase /\ r2.sync = lumi[k].sync /\ r2.item = lumi[k].item
        /\ r2.toPush = lumi[k].toPush /\ r2.left = lumi[k].left /\ r2.begun = lumi[k].begun
        /\ r2.startedNext = TRUE /\ r2.continuing = FALSE /\ r2.stop = TRUE /\ r2.ending = TRUE
    BY <1>6, <1>7, <1>14, <2>2 DEF Statuses
  <2>7. S2[k] = r2 /\ \A j \in Lumis : j # k => S2[j] = lumi[j]
    BY <1>8, <1>9, <2>3
  <2>8. f.pos \in 1..Len(Items) /\ Items[f.pos].type = "lumi"
    BY <1>5, <1>14, ItemFacts DEF TypeAt
  <2>9. \A j \in Lumis : Made(j) => lumi[j].sync < f.pos
    <3> SUFFICES ASSUME NEW j \in Lumis, Made(j) PROVE lumi[j].sync < f.pos
      OBVIOUS
    <3>1. lumi[j].sync <= pos /\ lumi[j].sync \in Nat
      BY <1>1 DEF Ordered, Begins, Statuses
    <3> QED BY <1>1, <1>5, <1>14, <3>1 DEF Fresh
  <2>10. lumi'[k] = r2 => /\ Rewrites(k) /\ lumi'[k].startedNext
                          /\ lumi'[k].stop /\ lumi'[k].ending /\ ~lumi'[k].continuing
    BY <1>2, <1>3, <2>6 DEF Rewrites, Made
  <2>11. \A j \in Lumis : lumi'[j] = lumi[j] => Rewrites(j)
    BY <1>1 DEF Rewrites, Phased
  <2>12. CASE failed
    <3>1. lumi' = S2 /\ UNCHANGED iovHolds
      BY <2>5, <2>12 DEF BeginLumi
    <3>2. Notes({})
      BY <1>1, <1>3, <1>5, <1>9, <2>3, <2>7, <2>10, <2>11, <3>1 DEF Notes
    <3>3. \A j \in Lumis : lumi'[j].phase = lumi[j].phase
      BY <2>6, <2>7, <3>1
    <3>4. Slots'
      BY <1>1, <3>3, SlotsStep
    <3>5. Pauses' /\ iovHolds' \in 0..Cardinality(Lumis)
      BY <1>1, <3>1, <3>3, PausesStep
    <3>6. Finds(s, k, {}, "end")
      BY <1>1, <1>5, <1>9, <2>1, <2>5, <2>7, <2>10, <2>12, <3>1, <3>2, ItemFacts DEF Finds
    <3> QED BY <3>4, <3>5, <3>6, FindsKeeps
  <2>13. CASE ~failed
    <3>1. r.run \in Nat
      BY <1>6 DEF Statuses
    <3>2. PICK n \in Lumis, phase \in Phases :
              /\ \A j \in Lumis : Made(j) <=> j < n
              /\ Renews(n, f.pos, r.run, phase)
              /\ lumi' \in [Lumis -> Statuses] /\ \A j \in Lumis : j # n => lumi'[j] = S2[j]
      <4>1. PICK i \in 1..Len(Items), u \in Nat : i = f.pos /\ u = r.run
        BY <2>8, <3>1
      <4>2. BeginLumi(S2, i, u) /\ Items[i].type = "lumi" /\ \A j \in Lumis : Made(j) => lumi[j].sync < i
        BY <2>5, <2>8, <2>9, <4>1
      <4>3. \E n \in Lumis, phase \in Phases :
              /\ \A j \in Lumis : Made(j) <=> j < n
              /\ Renews(n, i, u, phase)
              /\ lumi' \in [Lumis -> Statuses] /\ \A j \in Lumis : j # n => lumi'[j] = S2[j]
        BY <1>1, <2>13, <4>2, BeginLumiFacts
      <4> QED BY <4>1, <4>3
    <3>3. ~Made(n) /\ n # k
      BY <1>2, <3>2, Finite
    <3>4. lumi'[k] = r2 /\ \A j \in Lumis : j # n /\ j # k => lumi'[j] = lumi[j]
      BY <2>7, <3>2, <3>3
    <3>5. Notes({n})
      <4>1. \A j \in Lumis \ {n} : Rewrites(j)
        BY <2>10, <2>11, <3>4
      <4>2. \A j \in Lumis : Alive(j) => lumi'[j].startedNext
        <5>1. ~Alive(n)
          BY <3>3 DEF Made, Alive
        <5> QED BY <1>3, <2>10, <3>4, <5>1
      <4>3. \E ofRun \in Nat, p \in Phases : Renews(n, f.pos, ofRun, p)
        BY <3>1, <3>2
      <4> QED BY <1>1, <1>3, <1>5, <1>9, <2>8, <2>9, <3>2, <4>1, <4>2, <4>3 DEF Notes
    <3>6. /\ lumi[n].phase = "none" /\ phase \in {"iov", "queued"} /\ lumi'[n].phase = phase
          /\ iovHolds' = IF phase = "queued" THEN iovHolds + 1 ELSE iovHolds
      BY <3>2, <3>3 DEF Renews, Made, NoLumi
    <3>7. \A j \in Lumis : j # n => lumi'[j].phase = lumi[j].phase
      BY <2>6, <3>4
    <3>8. Slots'
      <4>1. lumi[n].phase \notin Slotted /\ lumi'[n].phase \notin Slotted
        BY <3>6 DEF Slotted
      <4> QED BY <1>1, <3>7, <4>1, SlotsStep
    <3>9. Pauses' /\ iovHolds' \in 0..Cardinality(Lumis)
      <4>1. /\ lumi[n].phase \notin Pausing /\ lumi[n].phase # "dropped"
            /\ phase = "queued" => lumi'[n].phase \in Pausing
            /\ phase = "iov" => lumi'[n].phase \notin Pausing
        BY <3>6 DEF Pausing
      <4> QED BY <1>1, <3>6, <3>7, <4>1, PausesStep
    <3>10. Finds(s, k, {n}, "end")
      BY <1>1, <1>5, <1>9, <2>1, <2>5, <2>10, <3>3, <3>4, <3>5, ItemFacts DEF Finds
    <3> QED BY <3>8, <3>9, <3>10, FindsKeeps
  <2> QED BY <2>12, <2>13
<1> QED BY <1>7, <1>11, <1>12, <1>13, <1>14

(* handleNextEventForStreamAsync() keeps the invariant, whatever it finds. *)
LEMMA NextEventKeeps ==
    ASSUME IInv, Handed, NEW s \in Streams, NextEvent(s)
    PROVE  IInv' /\ Handed'
<1>1. stream[s].at = "next" /\ UNCHANGED <<signalled, full, iov, slots, active, locals, main, files, run, cached, lost, failed>>
  BY DEF NextEvent, mainVars, runVars
<1>2. PICK k \in Lumis : k = stream[s].lumi
  BY <1>1, AskFacts
<1>3. failures \in 0..MaxFailures /\ MaxFailures \in Nat /\ failed \in BOOLEAN /\ full \in BOOLEAN
  BY CountsAssumption DEF IInv, Statused, TypeOK
<1>4. CASE full \/ deferred \/ lumi[k].stop
  <2>1. UNCHANGED <<pos, last, deferred, failures>> /\ StopStream(s, lumi)
    BY <1>2, <1>4 DEF NextEvent, sourceVars
  <2> QED BY <1>1, <1>2, <1>4, <2>1, StopKeeps
<1>5. CASE ~(full \/ deferred \/ lumi[k].stop)
  <2>1. \/ /\ pos' = Found(k).pos /\ last' = Found(k).type
           /\ IF Found(k).type = "event"
                THEN ReadEvent(s, Noted(k, Found(k)))
                ELSE StopStream(s, Noted(k, Found(k))) /\ UNCHANGED <<deferred, failures>>
        \/ /\ Fails("nextItem") /\ deferred' = TRUE
           /\ stream' = [stream EXCEPT ![s].at = "stopped"]
           /\ UNCHANGED <<pos, last, lumi, iovHolds>>
    BY <1>2, <1>5 DEF NextEvent, sourceVars
  <2>2. CASE /\ Fails("nextItem") /\ deferred' = TRUE
             /\ stream' = [stream EXCEPT ![s].at = "stopped"]
             /\ UNCHANGED <<pos, last, lumi, iovHolds>>
    <3>1. failures' \in 0..MaxFailures
      BY <1>3, <2>2 DEF Fails
    <3>2. GoesOn(s, "stopped")
      BY <1>1, <2>2, <3>1 DEF GoesOn
    <3>3. Handed'
      BY <1>1, <2>2, HandedStep DEF Made, Alive
    <3> QED BY <3>2, <3>3, GoesOnKeeps
  <2>3. CASE /\ pos' = Found(k).pos /\ last' = Found(k).type
             /\ IF Found(k).type = "event"
                  THEN ReadEvent(s, Noted(k, Found(k)))
                  ELSE StopStream(s, Noted(k, Found(k))) /\ UNCHANGED <<deferred, failures>>
    BY <1>1, <1>2, <1>5, <2>3, FoundKeeps
  <2> QED BY <2>1, <2>2, <2>3
<1> QED BY <1>4, <1>5

(* The steps of a lumi that leave the streams alone.                       *)
LEMMA PhaseKeeps ==
    ASSUME IInv, Handed, NEW k \in Lumis,
           \/ ChangeIov(k) \/ LumiWork(k) \/ ReadLumi(k) \/ GlobalBegun(k) \/ GlobalEnded(k)
           \/ ReleaseIov(k) \/ ReleasePrincipal(k) \/ ReleaseSlot(k) \/ ReleaseRun(k)
    PROVE  IInv' /\ Handed'
<1>1. /\ Statused /\ Scheduled /\ TypeOK /\ Ordered /\ Slots /\ Pauses
  BY DEF IInv, Statused
<1>2. PICK a \in Phases, b \in Phases : PhaseStep(k, a, b)
  BY <1>1, PhaseSteps
<1>3. (Phased /\ Ordered /\ Placed /\ Counted /\ Occupied)'
  BY <1>1, <1>2, PhaseStatused
<1>4. Scheduled'
  BY <1>1, <1>2, <1>3, PhaseScheduled
<1>5. Slots' /\ Pauses'
  BY <1>1, <1>2, PhaseResources
<1>6. TypeOK'
  BY <1>1, <1>2, PhaseResources
<1>7. Handed'
  <2>1. /\ <<a, b>> \in Transitions /\ lumi[k].phase = a /\ lumi'[k].phase = b
        /\ \A j \in Lumis : j # k => lumi'[j] = lumi[j]
        /\ lumi'[k].sync = lumi[k].sync /\ lumi'[k].ending = lumi[k].ending
        /\ UNCHANGED <<pos, last, main, deferred>> /\ (failed => failed')
    BY <1>2 DEF PhaseStep, mainVars
  <2>2. \A j \in Lumis : Made(j)' => Made(j) /\ lumi'[j].sync = lumi[j].sync
    BY <2>1 DEF Made, Transitions
  <2>3. CASE b = "dropped"
    <3>1. failed'
      <4>1. lumi \in [Lumis -> Statuses] /\ a \in {"iov", "queued", "source", "globalBegin"}
        BY <1>1, <2>1, <2>3 DEF TypeOK, Transitions
      <4>2. \A q : SetPhase(k, q) => lumi'[k].phase = q
        BY <4>1 DEF SetPhase, Statuses
      <4>3. CASE a = "iov"
        <5>1. ChangeIov(k)
          BY <2>1, <4>3 DEF LumiWork, ReadLumi, GlobalBegun, GlobalEnded, ReleaseIov, ReleasePrincipal, ReleaseSlot, ReleaseRun
        <5> QED BY <2>1, <2>3, <4>2, <5>1 DEF ChangeIov, Drop
      <4>4. CASE a = "queued"
        <5>1. LumiWork(k)
          BY <2>1, <4>4 DEF ChangeIov, ReadLumi, GlobalBegun, GlobalEnded, ReleaseIov, ReleasePrincipal, ReleaseSlot, ReleaseRun
        <5> QED BY <2>1, <2>3, <4>2, <5>1 DEF LumiWork
      <4>5. CASE a = "source"
        <5>1. ReadLumi(k)
          BY <2>1, <4>5 DEF ChangeIov, LumiWork, GlobalBegun, GlobalEnded, ReleaseIov, ReleasePrincipal, ReleaseSlot, ReleaseRun
        <5>2. lumi' = [lumi EXCEPT ![k].phase = "globalBegin", ![k].item = pos] => lumi'[k].phase = "globalBegin"
          BY <4>1 DEF Statuses
        <5> QED BY <2>1, <2>3, <5>1, <5>2 DEF ReadLumi, Drop
      <4>6. CASE a = "globalBegin"
        <5>1. GlobalBegun(k)
          BY <2>1, <4>6 DEF ChangeIov, LumiWork, ReadLumi, GlobalEnded, ReleaseIov, ReleasePrincipal, ReleaseSlot, ReleaseRun
        <5>2. lumi' = [lumi EXCEPT ![k].phase = "pushing", ![k].begun = TRUE] => lumi'[k].phase = "pushing"
          BY <4>1 DEF Statuses
        <5> QED BY <2>1, <2>3, <5>1, <5>2 DEF GlobalBegun, Drop
      <4> QED BY <4>1, <4>3, <4>4, <4>5, <4>6
    <3> QED BY <2>1, <2>2, <3>1, HandedStep
  <2>4. CASE b = "done"
    <3>1. a \in Closed /\ Alive(k)
      BY <2>1, <2>4 DEF Transitions, Closed, Alive
    <3>2. CASE At("lumis")
      <4>1. lumi[k].ending
        <5>1. ~Pends(1, k) /\ 1 \in Streams
          BY <1>1, <2>1, <3>1, Where, Finite DEF Statused
        <5>2. ~Remains(1, k)
          BY <5>1 DEF Remains, Pends
        <5> QED BY <1>1, <3>1, <3>2, <5>1, <5>2 DEF Scheduled, Remaining, At
      <4>2. \A j \in Lumis : Alive(j) /\ ~lumi[j].ending => Alive(j)' /\ ~lumi'[j].ending
        BY <2>1, <4>1 DEF Alive
      <4> QED BY <2>1, <2>2, <4>2, HandedStep
    <3>3. CASE ~At("lumis")
      BY <2>1, <3>3 DEF Handed, At
    <3> QED BY <3>2, <3>3
  <2>5. CASE b \notin {"dropped", "done"}
    <3>1. \A j \in Lumis : Alive(j) /\ ~lumi[j].ending => Alive(j)' /\ ~lumi'[j].ending
      BY <2>1, <2>5 DEF Alive, Transitions
    <3> QED BY <2>1, <2>2, <3>1, HandedStep
  <2> QED BY <2>3, <2>4, <2>5
<1> QED BY <1>3, <1>4, <1>5, <1>6, <1>7 DEF IInv, Statused

-----------------------------------------------------------------------------
(* The main thread moves when nothing is held: lumis are open or gone,     *)
(* streams have stopped or have none.                                      *)
LEMMA NotHeld ==
    ASSUME TypeOK, ~Held
    PROVE  /\ \A k \in Lumis : Alive(k) => lumi[k].phase = "open"
           /\ \A k \in Lumis : lumi[k].phase \notin Unread
           /\ \A s \in Streams : stream[s].at \in {"idle", "stopped"} /\ stream[s].queue = <<>>
           /\ \A l \in locals : l.holds = "status"
<1>1. \A k \in Lumis : Alive(k) => lumi[k].phase = "open"
  BY DEF Held
<1>2. \A k \in Lumis : lumi[k].phase \notin Unread
  BY <1>1 DEF Alive, Unread
<1>3. \A s \in Streams : stream[s].at \in {"idle", "stopped"} /\ stream[s].queue = <<>>
  BY DEF Held, TypeOK, StreamStates
<1>4. \A l \in locals : l.holds = "status"
  BY DEF Held
<1> QED BY <1>1, <1>2, <1>3, <1>4

(* Then a lumi is open as long as a stream is in it, ...                   *)
LEMMA OpenFacts ==
    ASSUME Statused, ~Held, NEW k \in Lumis, Alive(k)
    PROVE  \E s \in Streams : Within(s, k) /\ stream[s].at = "stopped"
<1>1. TypeOK /\ Phased /\ Counted /\ Occupied /\ NumberOfStreams \in Nat
  BY CountsAssumption DEF Statused
<1>2. lumi[k].phase = "open"
  BY <1>1, NotHeld
<1>3. lumi[k].left # 0 /\ lumi[k].toPush = NumberOfStreams + 1
  BY <1>1, <1>2 DEF Phased, Closed
<1>4. PICK P : P = {s \in Streams : Pends(s, k)}
  OBVIOUS
<1>5. P # {}
  BY <1>1, <1>3, <1>4, FS_EmptySet DEF Counted
<1>6. PICK s \in Streams : Pends(s, k)
  BY <1>4, <1>5
<1>7. ~ToCome(s, k)
  BY <1>1, <1>3 DEF ToCome, Streams
<1>8. ~Queued(s, k) /\ ~Finishes(s, k)
  BY <1>1, NotHeld DEF Queued, Finishes, Finishing
<1>9. Within(s, k)
  BY <1>6, <1>7, <1>8 DEF Pends
<1>10. stream[s].at # "idle"
  BY <1>1, <1>9, Finite DEF Within, Occupied
<1> QED BY <1>1, <1>9, <1>10, NotHeld

(* ... and without lumis no stream is active.                              *)
LEMMA NoneActive ==
    ASSUME Statused, \A k \in Lumis : ~Alive(k)
    PROVE  active = 0
<1>1. TypeOK /\ Phased /\ Placed /\ Counted /\ Occupied
  BY DEF Statused
<1>2. ASSUME NEW s \in Streams, stream[s].lumi # 0 PROVE FALSE
  <2>1. stream[s].lumi \in Lumis
    BY <1>1, <1>2 DEF TypeOK, StreamStates
  <2>2. lumi[stream[s].lumi].phase \in {"pushing", "open"}
    BY <1>1, <2>1, Where DEF Within
  <2> QED BY <2>1, <2>2 DEF Alive
<1>3. {s \in Streams : stream[s].lumi # 0} = {}
  BY <1>2
<1> QED BY <1>1, <1>3, FS_EmptySet DEF Occupied

(* The statuses and the streams do not mind what main does elsewhere.      *)
LEMMA MainStatused ==
    ASSUME Statused, Slots, Pauses, UNCHANGED <<iovHolds, slots, lumi, stream, active, locals>>,
           pos' = pos \/ (pos <= pos' /\ ~Held), TypeOK'
    PROVE  Statused' /\ Slots' /\ Pauses'
<1>1. /\ TypeOK /\ Phased /\ Ordered /\ Placed /\ Counted /\ Occupied
      /\ UNCHANGED <<iovHolds, slots, lumi, stream, active, locals>>
      /\ pos \in Nat /\ pos' \in Nat /\ pos <= pos'
  <2>1. pos \in Nat /\ pos' \in Nat
    BY ItemFacts DEF Statused, TypeOK
  <2> QED BY <2>1 DEF Statused
<1>2. \A k \in Lumis : lumi[k].phase \in Unread => pos' = pos
  BY <1>1, NotHeld
<1>3. Phased'
  BY <1>1, <1>2 DEF Phased, Made
<1>4. Ordered'
  <2>1. ASSUME NEW k \in Lumis, Made(k) PROVE lumi[k].sync <= pos'
    <3>1. lumi[k].sync <= pos /\ lumi[k].sync \in Nat
      BY <1>1, <2>1, ItemFacts DEF Ordered, Begins, TypeOK, Statuses
    <3> QED BY <1>1, <3>1
  <2> QED BY <1>1, <2>1 DEF Ordered, Begins, Made, Alive
<1>5. Placed' /\ Counted'
  BY <1>1 DEF Placed, Counted, Pends, ToCome, Queued, Within, Finishes, Finishing
<1>6. Occupied'
  BY <1>1 DEF Occupied
<1>7. Slots' /\ Pauses'
  BY <1>1 DEF Slots, Pauses, Pausers
<1> QED BY <1>3, <1>4, <1>5, <1>6, <1>7 DEF Statused

(* The other steps leave the lumis that have been handed on alone.         *)
LEMMA OthersHand ==
    ASSUME Statused, Handed,
           \/ \E k \in Lumis : PushBegin(k)
           \/ \E s \in Streams : BeginStream(s) \/ StreamBegun(s) \/ EventDone(s) \/ StreamEnded(s)
           \/ Functor \/ Signal
    PROVE  Handed'
<1> USE DEF mainVars, sourceVars, queueVars, runVars
<1>1. CASE \E k \in Lumis : PushBegin(k)
  <2>1. PICK k \in Lumis : PushBegin(k)
    BY <1>1
  <2>2. PICK s \in Streams : s = lumi[k].toPush
    BY <2>1, PushFacts DEF Statused
  <2>3. /\ lumi[k] \in Statuses /\ lumi[k].phase = "pushing"
        /\ lumi'[k] = [lumi[k] EXCEPT !.toPush = s + 1, !.phase = IF s = NumberOfStreams THEN "open" ELSE "pushing"]
        /\ \A j \in Lumis : j # k => lumi'[j] = lumi[j]
    BY <2>1, <2>2, PushFacts DEF Becomes, Statused
  <2>4. lumi'[k].sync = lumi[k].sync /\ lumi'[k].ending = lumi[k].ending /\ lumi'[k].phase \in {"open", "pushing"}
    BY <2>3 DEF Statuses
  <2>5. UNCHANGED <<pos, last, main, failed, deferred>>
    BY <2>1 DEF PushBegin
  <2> QED BY <2>3, <2>4, <2>5, HandedStep DEF Made, Alive
<1>2. CASE \E s \in Streams : BeginStream(s) \/ StreamBegun(s) \/ EventDone(s) \/ StreamEnded(s)
  <2>0. PICK s \in Streams : BeginStream(s) \/ StreamBegun(s) \/ EventDone(s) \/ StreamEnded(s)
    BY <1>2
  <2>1. UNCHANGED <<pos, last, main, lumi>> /\ (failed => failed') /\ (deferred => deferred')
    <3>1. CASE BeginStream(s) \/ StreamEnded(s)
      <4>1. UNCHANGED <<pos, last, main, lumi, failed, deferred>>
        BY <3>1 DEF BeginStream, StreamEnded
      <4> QED BY <4>1
    <3>2. CASE StreamBegun(s)
      BY <3>2 DEF StreamBegun
    <3>3. CASE EventDone(s)
      <4>1. UNCHANGED <<pos, last, main, lumi>>
        BY <3>3 DEF EventDone
      <4>2. CASE UNCHANGED <<deferred, failed>>
        BY <4>1, <4>2
      <4>3. CASE deferred' = TRUE /\ failed' = (failed \/ ~deferred)
        BY <4>1, <4>3
      <4> QED BY <3>3, <4>2, <4>3 DEF EventDone
    <3> QED BY <2>0, <3>1, <3>2, <3>3
  <2> QED BY <2>1, HandedStep DEF Made, Alive
<1>3. CASE Signal
  BY <1>3, HandedStep DEF Signal, Made, Alive
<1>4. CASE Functor
  <2>1. PICK l \in locals : StreamFinished(l) \/ StreamReports(l) \/ FunctorReturns(l)
    BY <1>4 DEF Functor
  <2>2. CASE StreamReports(l)
    BY <2>2, HandedStep DEF StreamReports, Made, Alive
  <2>3. CASE FunctorReturns(l)
    <3>1. UNCHANGED <<pos, last, main, lumi, failed>>
      BY <2>3 DEF FunctorReturns
    <3>2. deferred => deferred'
      BY <2>3 DEF FunctorReturns, Return, RunEnds
    <3> QED BY <3>1, <3>2, HandedStep DEF Made, Alive
  <2>4. CASE StreamFinished(l)
    <3>1. UNCHANGED <<pos, last, main, failed, deferred>>
      BY <2>4 DEF StreamFinished
    <3>2. PICK k \in Lumis, isLast \in BOOLEAN :
              /\ lumi[k] \in Statuses /\ lumi[k].phase \in {"pushing", "open"}
              /\ Becomes(k, [lumi[k] EXCEPT !.left = lumi[k].left - 1,
                                            !.phase = IF isLast THEN "globalEnd" ELSE lumi[k].phase])
      <4>1. PICK k, isLast : k = l.lumi /\ isLast = (lumi[k].left = 1)
        OBVIOUS
      <4> QED BY <2>4, <4>1, CountFacts
    <3>3. /\ lumi'[k].sync = lumi[k].sync /\ lumi'[k].ending = lumi[k].ending
          /\ lumi'[k].phase \in {"open", "pushing", "globalEnd"} /\ \A j \in Lumis : j # k => lumi'[j] = lumi[j]
      BY <3>2 DEF Becomes, Statuses
    <3> QED BY <3>1, <3>2, <3>3, HandedStep DEF Made, Alive
  <2> QED BY <2>1, <2>2, <2>3, <2>4
<1> QED BY <1>1, <1>2, <1>3, <1>4

-----------------------------------------------------------------------------
(* Steps of the main thread that leave the lumis and the streams alone.    *)
Elsewhere ==
    /\ ~Held /\ main'.pc \notin {"lumis", "endWait"}
    /\ UNCHANGED <<full, iovHolds, slots, lumi, stream, active, locals>>
    /\ main'.pc \in {"file", "closeBoth", "closeOutput", "leave", "closeFiles", "end", "done"} \/ main.pc = "endWait"
          => \A k \in Lumis : ~Alive(k)
(* Such a step keeps the invariant if it knows where the source and the    *)
(* streams are.                                                            *)
LEMMA MainKeeps ==
    ASSUME IInv, TypeOK', Elsewhere, pos' = pos \/ pos <= pos', AtSource', Parked'
    PROVE  IInv' /\ Handed'
<1>1. /\ ~Held /\ main'.pc \notin {"lumis", "endWait"}
      /\ UNCHANGED <<full, iovHolds, slots, lumi, stream, active, locals>>
      /\ Statused /\ Scheduled /\ Slots /\ Pauses /\ Remaining
  BY DEF IInv, Scheduled, Elsewhere
<1>2. Statused' /\ Slots' /\ Pauses'
  BY <1>1, MainStatused
<1>3. Quiet'
  BY <1>1 DEF Quiet, Held, Alive
<1>4. Ended'
  BY <1>1 DEF Ended, At, Alive, Elsewhere
<1>5. Remaining'
  <2>1. CASE main.pc = "endWait"
    BY <1>1, <2>1 DEF Remaining, Alive, Elsewhere
  <2>2. CASE main.pc # "endWait"
    BY <1>1, <2>2 DEF Remaining, Remains, ToCome, Queued, Within, Alive, At
  <2> QED BY <2>1, <2>2
<1>6. AtLumis' /\ Handed'
  BY <1>1 DEF AtLumis, Handed, At
<1> QED BY <1>2, <1>3, <1>4, <1>5, <1>6 DEF IInv, Scheduled

(* Most of them do not look at the source either.                          *)
Moves ==
    /\ Elsewhere /\ UNCHANGED <<pos, last, signalled>>
    /\ main' \in MainStates /\ main'.pc # "choose"
    /\ main'.pc \in {"run", "readRun", "beginRun"} \/ (main'.pc = "endLumi" /\ main'.then = "run") => TypeAt(pos) = "run"
    /\ main'.pc \in {"closeInput", "readFile", "openOutput", "ask", "run", "readRun", "beginRun"} => Together
    /\ failed' \in BOOLEAN /\ RunTypes /\ run' \in [id : Nat, number : Nat]
    /\ files' \in [input : BOOLEAN, output : BOOLEAN, closed : {"nobody", "notYet", "closed", "failed"}]
(* A step of the main thread with no wait before or after it keeps the     *)
(* invariant.                                                              *)
LEMMA MovesKeep ==
    ASSUME IInv, Moves
    PROVE  IInv' /\ Handed'
<1>1. /\ TypeOK /\ AtSource /\ main'.pc \notin {"lumis", "endWait", "choose"}
      /\ UNCHANGED <<pos, last, signalled, full, iovHolds, slots, lumi, stream, active, locals>>
  BY DEF IInv, Statused, Scheduled, Moves, Elsewhere
<1>2. TypeOK'
  BY <1>1 DEF TypeOK, Moves, RunTypes
<1>3. AtSource'
  BY <1>1 DEF AtSource, Chosen, At, TypeAt, Moves
<1>4. Parked'
  BY <1>1 DEF Parked, Together, Within, Chosen, At, Moves
<1>5. Elsewhere
  BY DEF Moves
<1> QED BY <1>1, <1>2, <1>3, <1>4, <1>5, MainKeeps

(* Where main goes to.                                                     *)
LEMMA Gotos ==
    ASSUME TypeOK, NEW pc \in MainPlaces, main' = [main EXCEPT !.pc = pc]
    PROVE  main' \in MainStates /\ main'.pc = pc /\ UNCHANGED <<main.next, main.then, main.outcome>>
<1>1. main \in MainStates
  BY DEF TypeOK
<1> QED BY <1>1 DEF MainStates
(* Where the main thread is when it is to end the open lumi, ...           *)
LEMMA EndsLumis ==
    ASSUME TypeOK, NEW then \in {"file", "run", "leave"}, EndLumiThen(then)
    PROVE  main' \in MainStates /\ main'.pc = "endLumi" /\ main'.then = then /\ UNCHANGED <<main.next, main.outcome>>
<1>1. main \in MainStates /\ main' = [main EXCEPT !.pc = "endLumi", !.then = then]
  BY DEF TypeOK, EndLumiThen
<1> QED BY <1>1 DEF MainStates, MainPlaces
(* ... and when it throws.                                                 *)
LEMMA Throws ==
    ASSUME TypeOK, NEW what \in {"exception", "illegalRun"}, Throw(what)
    PROVE  main' \in MainStates /\ main'.pc = "endLumi" /\ main'.then = "leave" /\ main'.outcome = what
<1>1. main \in MainStates /\ main' = [main EXCEPT !.pc = "endLumi", !.then = "leave", !.outcome = what]
  BY DEF TypeOK, Throw
<1> QED BY <1>1 DEF MainStates, MainPlaces

(* Main asks the source for the next transition.                           *)
LEMMA AskKeeps ==
    ASSUME IInv, Ask
    PROVE  IInv' /\ Handed'
<1>1. /\ TypeOK /\ Ordered /\ Quiet /\ Ended /\ AtSource /\ Parked /\ At("ask")
  BY DEF IInv, Statused, Scheduled, Ask
<1>2. ~Held /\ Together /\ pos \in Nat /\ main.pc # "endWait"
  BY <1>1, ItemFacts DEF Quiet, Parked, At, TypeOK
<1>3. UNCHANGED <<signalled, full, iovHolds, slots, lumi, stream, active, locals, failed, deferred, iov, files, run, cached, lost>>
  BY DEF Ask, rest, runVars
<1>4. /\ failed \in BOOLEAN /\ failures \in 0..MaxFailures /\ MaxFailures \in Nat /\ iov \in Nat /\ deferred \in BOOLEAN
      /\ run \in [id : Nat, number : Nat] /\ cached \in DOMAIN Items \cup {0} /\ lost \in BOOLEAN
      /\ files \in [input : BOOLEAN, output : BOOLEAN, closed : {"nobody", "notYet", "closed", "failed"}]
  BY <1>1, CountsAssumption DEF TypeOK
<1>5. CASE ~deferred /\ Fails("nextItem") /\ Throw("exception") /\ UNCHANGED sourceVars
  <2>1. main' \in MainStates /\ main'.pc = "endLumi" /\ main'.then = "leave"
    BY <1>1, <1>5, Throws
  <2>2. failures' \in 0..MaxFailures
    BY <1>4, <1>5 DEF Fails
  <2>3. Moves
    BY <1>2, <1>3, <1>4, <1>5, <2>1, <2>2 DEF Moves, Elsewhere, RunTypes, sourceVars
  <2> QED BY <2>3, MovesKeep
<1>6. CASE Succeeds /\ NextTransition /\ main' = [main EXCEPT !.pc = "choose", !.next = last']
  <2>1. /\ pos' \in 0..(Len(Items) + 1) /\ pos <= pos' /\ last' \in ItemTypes \cup {"stop"}
        /\ last' # "stop" => last' = TypeAt(pos') /\ pos' \in 1..Len(Items) /\ pos' = pos + 1
    <3>1. pos \in 0..(Len(Items) + 1)
      BY <1>1 DEF TypeOK
    <3>2. CASE deferred
      BY <1>6, <3>1, <3>2, ItemFacts DEF NextTransition
    <3>3. CASE ~deferred
      <4>1. pos' = After(pos) /\ (last' = "stop" \/ last' = TypeAt(pos'))
        BY <1>6, <3>3 DEF NextTransition
      <4>2. pos' \in 0..(Len(Items) + 1) /\ pos <= pos' /\ (pos' \in 1..Len(Items) => pos' = pos + 1)
        BY <3>1, <4>1, ItemFacts DEF After
      <4>3. TypeAt(pos') \in ItemTypes \cup {"stop"} /\ (TypeAt(pos') # "stop" => pos' \in 1..Len(Items))
        BY ItemFacts DEF TypeAt
      <4> QED BY <4>1, <4>2, <4>3
    <3> QED BY <3>2, <3>3
  <2>2. PICK t \in ItemTypes \cup {"stop"} : t = last'
    BY <2>1
  <2>3. main' \in MainStates /\ main'.pc = "choose" /\ main'.next = t
    <3>1. main \in MainStates /\ main' = [main EXCEPT !.pc = "choose", !.next = t]
      BY <1>1, <1>6, <2>2 DEF TypeOK
    <3> QED BY <3>1 DEF MainStates, MainPlaces
  <2>4. TypeOK'
    BY <1>1, <1>3, <1>4, <1>6, <2>1, <2>3 DEF TypeOK, Succeeds
  <2>5. AtSource'
    <3>1. ASSUME t = "lumi" PROVE Fresh'
      <4>1. TypeAt(pos') = "lumi" /\ pos' = pos + 1
        BY <2>1, <2>2, <3>1
      <4>2. \A k \in Lumis : Made(k) => lumi[k].sync < pos'
        <5> SUFFICES ASSUME NEW k \in Lumis, Made(k) PROVE lumi[k].sync < pos'
          OBVIOUS
        <5>1. lumi[k].sync \in Nat /\ lumi[k].sync <= pos
          BY <1>1 DEF Ordered, Begins, TypeOK, Statuses
        <5> QED BY <1>2, <4>1, <5>1
      <4> QED BY <1>3, <4>1, <4>2 DEF Fresh, TypeAt, Made
    <3>2. TypeAt(pos)' = TypeAt(pos')
      BY DEF TypeAt
    <3> QED BY <2>1, <2>2, <2>3, <3>1, <3>2 DEF AtSource, Chosen, At
  <2>6. Parked'
    BY <1>2, <1>3 DEF Parked, Together, Within
  <2>7. Elsewhere
    BY <1>2, <1>3, <2>3 DEF Elsewhere
  <2> QED BY <2>1, <2>4, <2>5, <2>6, <2>7, MainKeeps
<1> QED BY <1>5, <1>6 DEF Ask

(* Main's own steps, when it does not wait.                                *)
Calm ==
    /\ main.pc \notin {"lumis", "endWait"} /\ UNCHANGED <<rest, sourceVars>>
    /\ main' \in MainStates /\ main'.pc \notin {"choose", "lumis", "endWait"}
    /\ main'.pc \in {"file", "closeBoth", "closeOutput", "leave", "closeFiles", "end", "done"} => \A k \in Lumis : ~Alive(k)
    /\ main'.pc \in {"run", "readRun", "beginRun"} \/ (main'.pc = "endLumi" /\ main'.then = "run") => TypeAt(pos) = "run"
    /\ main'.pc \in {"closeInput", "readFile", "openOutput", "ask", "run", "readRun", "beginRun"} => Together
    /\ RunTypes /\ run' \in [id : Nat, number : Nat]
    /\ files' \in [input : BOOLEAN, output : BOOLEAN, closed : {"nobody", "notYet", "closed", "failed"}]
(* Such a step keeps the invariant.                                        *)
LEMMA CalmKeeps ==
    ASSUME IInv, Calm
    PROVE  IInv' /\ Handed'
<1>1. /\ main.pc \notin {"lumis", "endWait"} /\ main'.pc \notin {"lumis", "endWait"} /\ Quiet
      /\ UNCHANGED <<pos, last, signalled, full, iovHolds, slots, lumi, stream, active, locals, failed>>
  BY DEF Calm, IInv, Scheduled, rest, sourceVars
<1>2. failed' \in BOOLEAN
  BY <1>1 DEF IInv, Statused, TypeOK
<1>3. Elsewhere
  BY <1>1 DEF Elsewhere, Quiet, Calm
<1>4. Moves
  BY <1>1, <1>2, <1>3 DEF Moves, Calm
<1> QED BY <1>4, MovesKeep

(* A transition that may have thrown.                                      *)
LEMMA Throwing ==
    ASSUME TypeOK, Succeeds \/ \E transition : Fails(transition)
    PROVE  failures' \in 0..MaxFailures
<1>1. failures \in 0..MaxFailures /\ MaxFailures \in Nat
  BY CountsAssumption DEF TypeOK
<1> QED BY <1>1 DEF Succeeds, Fails
(* A step that leaves the run alone keeps its types.                       *)
LEMMA SameRun ==
    ASSUME TypeOK, UNCHANGED <<iov, cached, lost, deferred>>, Succeeds \/ \E transition : Fails(transition)
    PROVE  RunTypes
<1>1. failures' \in 0..MaxFailures
  BY Throwing
<1> QED BY <1>1 DEF TypeOK, RunTypes

(* The ways to go on after a transition: to a file, ...                    *)
LEMMA GotoFileKeeps ==
    ASSUME IInv, GotoFile
    PROVE  IInv' /\ Handed'
<1>1. TypeOK /\ Chosen("file") /\ Parked
  BY DEF IInv, Statused, Scheduled, GotoFile
<1>2. /\ main.pc \notin {"lumis", "endWait"} /\ Together
      /\ UNCHANGED <<rest, sourceVars, deferred, iov, files, run, cached, lost, failures>>
  BY <1>1 DEF Parked, Chosen, At, GotoFile, runVars
<1>3. /\ RunTypes /\ run' \in [id : Nat, number : Nat]
      /\ files' \in [input : BOOLEAN, output : BOOLEAN, closed : {"nobody", "notYet", "closed", "failed"}]
  BY <1>1, <1>2, SameRun DEF Succeeds, TypeOK
<1>4. main' \in MainStates /\ (main'.pc \in {"readFile", "closeInput"} \/ (main'.pc = "endLumi" /\ main'.then = "file"))
  <2>1. CASE Goto("readFile") \/ Goto("closeInput")
    BY <1>1, <2>1, Gotos DEF Goto, MainPlaces
  <2>2. CASE EndLumiThen("file")
    BY <1>1, <2>2, EndsLumis
  <2> QED BY <2>1, <2>2 DEF GotoFile
<1>5. Calm
  BY <1>2, <1>3, <1>4 DEF Calm
<1> QED BY <1>5, CalmKeeps

(* ... to a run, ...                                                       *)
LEMMA GotoRunKeeps ==
    ASSUME IInv, GotoRun
    PROVE  IInv' /\ Handed'
<1>1. TypeOK /\ Chosen("run") /\ Parked /\ AtSource
  BY DEF IInv, Statused, Scheduled, GotoRun
<1>2. /\ main.pc \notin {"lumis", "endWait"} /\ Together /\ TypeAt(pos) = "run"
      /\ UNCHANGED <<rest, sourceVars, deferred, iov, files, run, cached, lost>>
  BY <1>1 DEF Parked, AtSource, Chosen, At, GotoRun, runVars
<1>3. /\ RunTypes /\ run' \in [id : Nat, number : Nat]
      /\ files' \in [input : BOOLEAN, output : BOOLEAN, closed : {"nobody", "notYet", "closed", "failed"}]
  <2>1. Succeeds \/ Fails("readRun")
    BY DEF GotoRun
  <2>2. RunTypes
    BY <1>1, <1>2, <2>1, SameRun
  <2> QED BY <1>1, <1>2, <2>2 DEF TypeOK
<1>4. main' \in MainStates /\ main'.pc \in {"ask", "run", "endLumi"}
  <2>1. CASE Goto("ask") \/ Goto("run")
    BY <1>1, <2>1, Gotos DEF Goto, MainPlaces
  <2>2. CASE EndLumiThen("run")
    BY <1>1, <2>2, EndsLumis
  <2>3. CASE Throw("exception")
    BY <1>1, <2>3, Throws
  <2> QED BY <2>1, <2>2, <2>3 DEF GotoRun
<1>5. Calm
  BY <1>2, <1>3, <1>4 DEF Calm
<1> QED BY <1>5, CalmKeeps

(* ... or to the end of the loops.                                         *)
LEMMA FinishKeeps ==
    ASSUME IInv, Finish
    PROVE  IInv' /\ Handed'
<1>1. TypeOK
  BY DEF IInv, Statused
<1>2. /\ main.pc \notin {"lumis", "endWait"}
      /\ UNCHANGED <<rest, sourceVars, deferred, iov, files, run, cached, lost, failures>>
  BY DEF Finish, Chosen, At, runVars
<1>3. /\ RunTypes /\ run' \in [id : Nat, number : Nat]
      /\ files' \in [input : BOOLEAN, output : BOOLEAN, closed : {"nobody", "notYet", "closed", "failed"}]
  BY <1>1, <1>2, SameRun DEF Succeeds, TypeOK
<1>4. main' \in MainStates /\ main'.pc = "endLumi" /\ main'.then = "leave"
  BY <1>1, EndsLumis DEF Finish
<1>5. Calm
  BY <1>2, <1>3, <1>4 DEF Calm
<1> QED BY <1>5, CalmKeeps

(* processLumis() returns: with a lumi that goes on, or when all are gone. *)
LEMMA LumisDoneKeeps ==
    ASSUME IInv, Handed, LumisDone
    PROVE  IInv' /\ Handed'
<1>1. /\ Statused /\ TypeOK /\ Ordered /\ Occupied /\ AtSource /\ AtLumis /\ At("lumis") /\ ~Held /\ main.pc = "lumis"
      /\ UNCHANGED <<pos, last, signalled, full, iovHolds, slots, lumi, stream, active, locals, failed>>
      /\ UNCHANGED <<deferred, iov, files, run, cached, lost, failures>>
  BY DEF IInv, Statused, Scheduled, LumisDone, At, rest, sourceVars, runVars
<1>2. /\ RunTypes /\ run' \in [id : Nat, number : Nat] /\ failed' \in BOOLEAN
      /\ files' \in [input : BOOLEAN, output : BOOLEAN, closed : {"nobody", "notYet", "closed", "failed"}]
  BY <1>1, SameRun DEF Succeeds, TypeOK
<1>3. CASE failed
  <2>1. main' \in MainStates /\ main'.pc = "endLumi" /\ main'.then = "leave"
    BY <1>1, <1>3, Throws DEF LumisDone
  <2>2. Moves
    BY <1>1, <1>2, <2>1 DEF Moves, Elsewhere
  <2> QED BY <2>2, MovesKeep
<1>4. CASE ~failed
  <2>1. PICK t \in ItemTypes \cup {"stop"} : t = LastTransition
    BY <1>1 DEF LastTransition, TypeOK
  <2>2. main' \in MainStates /\ main'.pc = "choose" /\ main'.next = t
    <3>1. main \in MainStates /\ main' = [main EXCEPT !.pc = "choose", !.next = t]
      BY <1>1, <1>4, <2>1 DEF TypeOK, LumisDone
    <3> QED BY <3>1 DEF MainStates, MainPlaces
  <2>3. t # "stop" => ~deferred /\ t = last /\ t = TypeAt(pos)
    BY <1>1, <2>1 DEF LastTransition, AtSource
  <2>4. ASSUME NEW s \in Streams, stream[s].lumi # 0, ~deferred PROVE stream[s].at = "stopped" /\ Stopped(stream[s].lumi)
    <3>1. stream[s].at = "stopped"
      BY <1>1, <2>4, NotHeld DEF Occupied
    <3> QED BY <1>1, <1>4, <2>4, <3>1 DEF AtLumis
  <2>5. ASSUME NEW k \in Lumis, Alive(k) PROVE \E s \in Streams : Within(s, k)
    BY <1>1, <2>5, OpenFacts
  <2>6. ASSUME ~deferred, active # 0 PROVE Together
    <3>1. ASSUME NEW k \in Lumis, Alive(k) PROVE ~lumi[k].ending /\ \A s \in Streams : Within(s, k)
      <4>1. PICK s \in Streams : Within(s, k)
        BY <2>5, <3>1
      <4>2. ~lumi[k].ending
        BY <2>4, <2>6, <3>1, <4>1, Finite DEF Within, Stopped
      <4>3. \A p \in Streams : Remains(p, k)
        BY <1>1, <3>1, <4>2 DEF IInv, Scheduled, Remaining, At
      <4>4. ASSUME NEW p \in Streams PROVE Within(p, k)
        <5>1. lumi[k].phase = "open"
          BY <1>1, <3>1, NotHeld
        <5>2. ~ToCome(p, k)
          BY <1>1, <5>1, Where DEF Statused, Unpushed, Unread
        <5>3. ~Queued(p, k)
          BY <1>1, NotHeld DEF Queued
        <5> QED BY <4>3, <5>2, <5>3 DEF Remains
      <4> QED BY <4>2, <4>4
    <3>2. PICK k \in Lumis : Alive(k)
      BY <1>1, <2>6, NoneActive
    <3>3. \A s \in Streams : Within(s, k) /\ stream[s].lumi # 0 /\ stream[s].at = "stopped"
      BY <2>4, <2>6, <3>1, <3>2, Finite DEF Within
    <3>4. stream[1].lumi = k
      BY <3>3, Finite DEF Within
    <3> QED BY <3>1, <3>2, <3>3, <3>4 DEF Together
  <2>7. ASSUME t = "lumi" PROVE (full /\ active > 0) \/ Fresh
    <3>1. ~deferred /\ last = "lumi"
      BY <2>3, <2>7
    <3>2. CASE Fresh
      BY <3>2
    <3>3. CASE \E k \in Lumis : Alive(k)
      <4>1. PICK k \in Lumis, s \in Streams : Within(s, k)
        BY <2>5, <3>3
      <4>2. stream[s].lumi # 0
        BY <4>1, Finite DEF Within
      <4>3. full
        BY <2>4, <3>1, <4>2 DEF Stopped, Boundary
      <4>4. active # 0
        BY <1>1, <4>2, Finite, FS_Subset, FS_EmptySet DEF Occupied
      <4>5. active > 0
        BY <1>1, <4>4, CountsAssumption DEF TypeOK
      <4> QED BY <4>3, <4>5
    <3> QED BY <1>1, <1>4, <3>1, <3>2, <3>3 DEF Handed
  <2>8. TypeOK'
    BY <1>1, <1>2, <2>2 DEF TypeOK, RunTypes
  <2>9. AtSource'
    <3>1. Fresh => Fresh'
      BY <1>1 DEF Fresh, Made, TypeAt
    <3> QED BY <1>1, <2>2, <2>3, <2>7, <3>1 DEF AtSource, Chosen, At, TypeAt
  <2>10. Parked'
    <3>1. t # "stop" => Together
      BY <2>3, <2>6 DEF Together
    <3>2. Together => Together'
      BY <1>1 DEF Together, Within
    <3> QED BY <2>2, <3>1, <3>2 DEF Parked, Chosen, At
  <2>11. Elsewhere
    BY <1>1, <2>2 DEF Elsewhere
  <2> QED BY <1>1, <2>8, <2>9, <2>10, <2>11, MainKeeps
<1> QED BY <1>3, <1>4

(* The unfinished lumi has ended, so there is none.                        *)
LEMMA UnfinishedLumiEndedKeeps ==
    ASSUME IInv, UnfinishedLumiEnded
    PROVE  IInv' /\ Handed'
<1>1. /\ Statused /\ TypeOK /\ Ended /\ AtSource /\ main.pc = "endWait" /\ ~Held
      /\ UNCHANGED <<pos, last, signalled, full, iov, iovHolds, slots, lumi, stream, active, locals, files,
                     run, cached, lost, failures>>
  BY DEF IInv, Statused, Scheduled, UnfinishedLumiEnded, At, queueVars, sourceVars, runVars
<1>2. \A k \in Lumis : ~Alive(k)
  <2> SUFFICES ASSUME NEW k \in Lumis, Alive(k) PROVE FALSE
    OBVIOUS
  <2>1. PICK s \in Streams : stream[s].at = "stopped"
    BY <1>1, OpenFacts
  <2> QED BY <1>1, <2>1 DEF Ended, At
<1>3. active = 0
  BY <1>1, <1>2, NoneActive
<1>4. /\ deferred' \in BOOLEAN /\ failed' \in BOOLEAN /\ (deferred => deferred')
      /\ run' \in [id : Nat, number : Nat] /\ iov' \in Nat /\ cached' \in DOMAIN Items \cup {0} /\ lost' \in BOOLEAN
      /\ failures' \in 0..MaxFailures
      /\ files' \in [input : BOOLEAN, output : BOOLEAN, closed : {"nobody", "notYet", "closed", "failed"}]
  <2>1. /\ deferred \in BOOLEAN /\ failed \in BOOLEAN /\ run \in [id : Nat, number : Nat] /\ iov \in Nat
        /\ cached \in DOMAIN Items \cup {0} /\ lost \in BOOLEAN /\ failures \in 0..MaxFailures
        /\ files \in [input : BOOLEAN, output : BOOLEAN, closed : {"nobody", "notYet", "closed", "failed"}]
    BY <1>1 DEF TypeOK
  <2>2. deferred' = (deferred \/ failed) /\ failed' = FALSE
    BY DEF UnfinishedLumiEnded
  <2> QED BY <1>1, <2>1, <2>2
<1>5. main' \in MainStates /\ main'.pc = main.then /\ main'.then = main.then /\ main.then \in {"file", "run", "leave"}
  <2>1. main.then \in {"file", "run", "leave"}
    BY <1>1 DEF TypeOK, MainStates
  <2>2. PICK t \in {"file", "run", "leave"} : t = main.then
    BY <2>1
  <2>3. main' = [main EXCEPT !.pc = t]
    BY <2>2 DEF UnfinishedLumiEnded, Goto
  <2> QED BY <1>1, <2>1, <2>2, <2>3, Gotos DEF MainPlaces
<1>6. main.then = "run" => TypeAt(pos) = "run"
  BY <1>1 DEF AtSource
<1>7. Moves
  BY <1>1, <1>2, <1>3, <1>4, <1>5, <1>6 DEF Moves, Elsewhere, RunTypes, Together
<1> QED BY <1>7, MovesKeep

(* Main lets go of its run, or gets the next one.                          *)
LEMMA LeaveRunTypes ==
    ASSUME TypeOK, LeaveRun
    PROVE  RunTypes
<1>1. CASE RunEnds(run.number)
  BY <1>1, RunEndsTypes
<1>2. CASE UNCHANGED <<cached, lost, iov, deferred, failures>>
  BY <1>2, SameRun DEF Succeeds
<1> QED BY <1>1, <1>2 DEF LeaveRun

(* Main leaves its run, and reads and begins the next one.                 *)
LEMMA RunKeeps ==
    ASSUME IInv, CloseRun \/ LeaveFiles \/ NewRun \/ ReadRun \/ BeginRun
    PROVE  IInv' /\ Handed'
<1>1. /\ Statused /\ TypeOK /\ Ended /\ AtSource /\ Parked
  BY DEF IInv, Statused, Scheduled
<1>2. /\ main.pc \in {"file", "leave", "run", "readRun", "beginRun"} /\ UNCHANGED <<rest, sourceVars, files>>
      /\ files' \in [input : BOOLEAN, output : BOOLEAN, closed : {"nobody", "notYet", "closed", "failed"}]
  BY <1>1 DEF TypeOK, CloseRun, LeaveFiles, NewRun, ReadRun, BeginRun, At, runVars
<1>3. main.pc \in {"run", "readRun", "beginRun"}
         => Together /\ TypeAt(pos) = "run" /\ pos \in DOMAIN Items /\ pos \in Nat
            /\ Items[pos].run \in Nat /\ Items[pos].iov \in Nat
  <2> HAVE main.pc \in {"run", "readRun", "beginRun"}
  <2>1. Together /\ TypeAt(pos) = "run"
    BY <1>1 DEF Parked, AtSource
  <2>2. pos \in DOMAIN Items
    BY <2>1 DEF TypeAt
  <2> QED BY <2>1, <2>2, ItemFacts
<1>4. CASE CloseRun \/ LeaveFiles
  <2>1. main' \in MainStates /\ main'.pc \in {"closeBoth", "closeFiles"} /\ (main.pc \in {"file", "leave"})
    <3>1. CASE CloseRun
      <4>1. main' = [main EXCEPT !.pc = "closeBoth"]
        BY <3>1 DEF CloseRun, Goto
      <4> QED BY <1>1, <3>1, <4>1, Gotos DEF MainPlaces, CloseRun, At
    <3>2. CASE LeaveFiles
      <4>1. main' = [main EXCEPT !.pc = "closeFiles"]
        BY <3>2 DEF LeaveFiles, Goto
      <4> QED BY <1>1, <3>2, <4>1, Gotos DEF MainPlaces, LeaveFiles, At
    <3> QED BY <1>4, <3>1, <3>2
  <2>2. RunTypes /\ run' \in [id : Nat, number : Nat]
    <3>1. LeaveRun /\ run' = NoRun
      BY <1>4 DEF CloseRun, LeaveFiles
    <3> QED BY <1>1, <3>1, LeaveRunTypes DEF NoRun
  <2>3. \A k \in Lumis : ~Alive(k)
    BY <1>1, <2>1 DEF Ended
  <2>4. Calm
    BY <1>2, <2>1, <2>2, <2>3 DEF Calm
  <2> QED BY <2>4, CalmKeeps
<1>5. CASE NewRun
  <2>1. main.pc = "run" /\ main' \in MainStates /\ main'.pc \in {"ask", "readRun"}
    <3>1. Goto("ask") \/ Goto("readRun")
      BY <1>5 DEF NewRun
    <3> QED BY <1>1, <1>5, <3>1, Gotos DEF MainPlaces, Goto, NewRun, At
  <2>2. RunTypes /\ run' \in [id : Nat, number : Nat]
    <3>1. CASE UNCHANGED <<run, cached, lost, iov, deferred, failures>>
      BY <1>1, <3>1, SameRun DEF Succeeds, TypeOK
    <3>2. CASE run' = [id |-> pos, number |-> Items[pos].run] /\ LeaveRun
      BY <1>1, <1>3, <2>1, <3>2, LeaveRunTypes
    <3> QED BY <1>5, <3>1, <3>2 DEF NewRun
  <2>3. Calm
    BY <1>2, <1>3, <2>1, <2>2 DEF Calm
  <2> QED BY <2>3, CalmKeeps
<1>6. CASE ReadRun
  <2>1. main.pc = "readRun" /\ UNCHANGED <<deferred, iov, run, lost>>
    BY <1>6 DEF ReadRun, At
  <2>2. main' \in MainStates /\ (main'.pc = "beginRun" \/ (main'.pc = "endLumi" /\ main'.then = "leave"))
    <3>1. CASE Goto("beginRun")
      BY <1>1, <3>1, Gotos DEF MainPlaces, Goto
    <3>2. CASE Throw("illegalRun") \/ Throw("exception")
      BY <1>1, <3>2, Throws
    <3> QED BY <1>6, <3>1, <3>2 DEF ReadRun
  <2>3. cached' \in {cached, pos} /\ (Succeeds \/ Fails("readRun"))
    BY <1>6 DEF ReadRun
  <2>4. RunTypes /\ run' \in [id : Nat, number : Nat]
    <3>1. failures' \in 0..MaxFailures
      BY <1>1, <2>3, Throwing
    <3> QED BY <1>1, <1>3, <2>1, <2>3, <3>1 DEF RunTypes, TypeOK
  <2>5. Calm
    BY <1>2, <1>3, <2>1, <2>2, <2>4 DEF Calm
  <2> QED BY <2>5, CalmKeeps
<1>7. CASE BeginRun
  <2>1. main.pc = "beginRun" /\ UNCHANGED <<deferred, run, cached, lost>>
    BY <1>7 DEF BeginRun, At, runVars
  <2>2. main' \in MainStates /\ (main'.pc = "ask" \/ (main'.pc = "endLumi" /\ main'.then = "leave"))
    <3>1. CASE Goto("ask")
      BY <1>1, <3>1, Gotos DEF MainPlaces, Goto
    <3>2. CASE Throw("exception")
      BY <1>1, <3>2, Throws
    <3> QED BY <1>7, <3>1, <3>2 DEF BeginRun
  <2>3. iov' \in {iov, Items[pos].iov} /\ (Succeeds \/ Fails("beginRun"))
    BY <1>7 DEF BeginRun
  <2>4. RunTypes /\ run' \in [id : Nat, number : Nat]
    <3>1. failures' \in 0..MaxFailures
      BY <1>1, <2>3, Throwing
    <3> QED BY <1>1, <1>3, <2>1, <2>3, <3>1 DEF RunTypes, TypeOK
  <2>5. Calm
    BY <1>2, <1>3, <2>1, <2>2, <2>4 DEF Calm
  <2> QED BY <2>5, CalmKeeps
<1> QED BY <1>4, <1>5, <1>6, <1>7

(* Main changes the files.                                                 *)
FileStates == [input : BOOLEAN, output : BOOLEAN, closed : {"nobody", "notYet", "closed", "failed"}]
(* A step of changing files only goes on or throws.                        *)
LEMMA FileStepFacts ==
    ASSUME TypeOK, NEW from, NEW transition, NEW done \in FileStates, NEW to \in MainPlaces,
           FileStep(from, transition, done, to)
    PROVE  /\ main.pc = from /\ main' \in MainStates /\ files' \in FileStates /\ RunTypes /\ run' = run
           /\ main'.pc = to \/ (main'.pc = "endLumi" /\ main'.then = "leave")
           /\ UNCHANGED <<rest, sourceVars>>
<1>1. /\ main.pc = from /\ UNCHANGED <<rest, sourceVars, deferred, iov, run, cached, lost>>
      /\ Succeeds \/ Fails(transition)
  BY DEF FileStep, At, runVars
<1>2. RunTypes
  BY <1>1, SameRun
<1>3. files \in FileStates
  BY DEF TypeOK, FileStates
<1>4. [done EXCEPT !.closed = files.closed] \in FileStates
  BY <1>3 DEF FileStates
<1>5. files' \in FileStates
  BY <1>3, <1>4 DEF FileStep
<1>6. main' \in MainStates /\ (main'.pc = to \/ (main'.pc = "endLumi" /\ main'.then = "leave"))
  <2>1. CASE Goto(to)
    <3>1. main' = [main EXCEPT !.pc = to]
      BY <2>1 DEF Goto
    <3> QED BY <3>1, Gotos
  <2>2. CASE Throw("exception")
    BY <2>2, Throws
  <2> QED BY <2>1, <2>2 DEF FileStep
<1> QED BY <1>1, <1>2, <1>5, <1>6

(* Each step of changing files keeps the invariant.                        *)
LEMMA FilesKeep ==
    ASSUME IInv, CloseInput \/ CloseOutput \/ ReadFile \/ OpenOutput
    PROVE  IInv' /\ Handed'
<1>1. /\ Statused /\ TypeOK /\ Ended /\ Parked /\ run \in [id : Nat, number : Nat] /\ files \in FileStates
  BY DEF IInv, Statused, Scheduled, TypeOK, FileStates
<1>2. PICK from \in {"closeInput", "closeBoth", "closeOutput", "readFile", "openOutput"},
           to \in {"readFile", "closeOutput", "ask", "openOutput"} :
              /\ main.pc = from /\ main' \in MainStates /\ files' \in FileStates /\ RunTypes /\ run' = run
              /\ main'.pc = to \/ (main'.pc = "endLumi" /\ main'.then = "leave")
              /\ UNCHANGED <<rest, sourceVars>>
              /\ from = "closeBoth" => to = "closeOutput"
              /\ to = "closeOutput" => from = "closeBoth"
  <2>1. CASE FileStep("closeInput", "closeInput", [files EXCEPT !.input = FALSE], "readFile")
    <3>1. PICK f \in FileStates : f = [files EXCEPT !.input = FALSE]
      BY <1>1 DEF FileStates
    <3>3. FileStep("closeInput", "closeInput", f, "readFile") /\ "readFile" \in MainPlaces
      BY <2>1, <3>1 DEF MainPlaces
    <3>4. /\ main.pc = "closeInput" /\ main' \in MainStates /\ files' \in FileStates /\ RunTypes /\ run' = run
          /\ main'.pc = "readFile" \/ (main'.pc = "endLumi" /\ main'.then = "leave")
          /\ UNCHANGED <<rest, sourceVars>>
      BY <1>1, <3>1, <3>3, FileStepFacts
    <3> QED BY <3>4
  <2>2. CASE FileStep("closeBoth", "closeInput", [files EXCEPT !.input = FALSE], "closeOutput")
    <3>1. PICK f \in FileStates : f = [files EXCEPT !.input = FALSE]
      BY <1>1 DEF FileStates
    <3>3. FileStep("closeBoth", "closeInput", f, "closeOutput") /\ "closeOutput" \in MainPlaces
      BY <2>2, <3>1 DEF MainPlaces
    <3>4. /\ main.pc = "closeBoth" /\ main' \in MainStates /\ files' \in FileStates /\ RunTypes /\ run' = run
          /\ main'.pc = "closeOutput" \/ (main'.pc = "endLumi" /\ main'.then = "leave")
          /\ UNCHANGED <<rest, sourceVars>>
      BY <1>1, <3>1, <3>3, FileStepFacts
    <3> QED BY <3>4
  <2>3. CASE CloseOutput
    <3>1. PICK f \in FileStates : f = [files EXCEPT !.output = FALSE]
      BY <1>1 DEF FileStates
    <3>3. FileStep("closeOutput", "closeOutput", f, "readFile") /\ "readFile" \in MainPlaces
      BY <2>3, <3>1 DEF MainPlaces, CloseOutput
    <3>4. /\ main.pc = "closeOutput" /\ main' \in MainStates /\ files' \in FileStates /\ RunTypes /\ run' = run
          /\ main'.pc = "readFile" \/ (main'.pc = "endLumi" /\ main'.then = "leave")
          /\ UNCHANGED <<rest, sourceVars>>
      BY <1>1, <3>1, <3>3, FileStepFacts
    <3> QED BY <3>4
  <2>4. CASE ReadFile
    <3>1. PICK f \in FileStates : f = [files EXCEPT !.input = TRUE]
      BY <1>1 DEF FileStates
    <3>2. PICK to \in {"ask", "openOutput"} : to = IF files.output THEN "ask" ELSE "openOutput"
      OBVIOUS
    <3>3. FileStep("readFile", "readFile", f, to) /\ to \in MainPlaces
      BY <2>4, <3>1, <3>2 DEF MainPlaces, ReadFile
    <3>4. /\ main.pc = "readFile" /\ main' \in MainStates /\ files' \in FileStates /\ RunTypes /\ run' = run
          /\ main'.pc = to \/ (main'.pc = "endLumi" /\ main'.then = "leave")
          /\ UNCHANGED <<rest, sourceVars>>
      BY <1>1, <3>1, <3>3, FileStepFacts
    <3> QED BY <3>4
  <2>5. CASE OpenOutput
    <3>1. PICK f \in FileStates : f = [files EXCEPT !.output = TRUE, !.closed = "notYet"]
      BY <1>1 DEF FileStates
    <3>3. FileStep("openOutput", "openOutput", f, "ask") /\ "ask" \in MainPlaces
      BY <2>5, <3>1 DEF MainPlaces, OpenOutput
    <3>4. /\ main.pc = "openOutput" /\ main' \in MainStates /\ files' \in FileStates /\ RunTypes /\ run' = run
          /\ main'.pc = "ask" \/ (main'.pc = "endLumi" /\ main'.then = "leave")
          /\ UNCHANGED <<rest, sourceVars>>
      BY <1>1, <3>1, <3>3, FileStepFacts
    <3> QED BY <3>4
  <2> QED BY <2>1, <2>2, <2>3, <2>4, <2>5 DEF CloseInput
<1>3. from \in {"closeBoth", "closeOutput"} => \A k \in Lumis : ~Alive(k)
  BY <1>1, <1>2 DEF Ended
<1>4. Together \/ to = "closeOutput"
  <2>1. CASE from \in {"closeInput", "readFile", "openOutput"}
    BY <1>1, <1>2, <2>1 DEF Parked
  <2>2. CASE from \in {"closeBoth", "closeOutput"}
    BY <1>1, <1>3, <2>2, NoneActive DEF Together
  <2> QED BY <2>1, <2>2
<1>5. Calm
  BY <1>1, <1>2, <1>3, <1>4 DEF Calm, FileStates
<1> QED BY <1>5, CalmKeeps

(* The job ends.                                                           *)
LEMMA EndKeeps ==
    ASSUME IInv, CloseFiles \/ EndJob
    PROVE  IInv' /\ Handed'
<1>1. /\ Statused /\ TypeOK /\ Ended /\ run \in [id : Nat, number : Nat] /\ files \in FileStates
      /\ deferred \in BOOLEAN /\ main \in MainStates
  BY DEF IInv, Statused, Scheduled, TypeOK, FileStates
<1>2. /\ main.pc \in {"closeFiles", "end"} /\ UNCHANGED <<rest, sourceVars, iov, run, cached, lost>>
  BY DEF CloseFiles, EndJob, At, runVars
<1>3. \A k \in Lumis : ~Alive(k)
  BY <1>1, <1>2 DEF Ended
<1>4. main' \in MainStates /\ main'.pc \in {"end", "done"}
  <2>1. CASE CloseFiles
    BY <1>1, <2>1, Gotos DEF MainPlaces, Goto, CloseFiles
  <2>2. CASE EndJob
    <3>1. PICK o \in {"success", "exception", "illegalRun", "badTransition"} : o = Outcome
      BY <1>1 DEF Outcome, MainStates
    <3>2. main' = [main EXCEPT !.pc = "done", !.outcome = o]
      BY <2>2, <3>1 DEF EndJob
    <3> QED BY <1>1, <3>2 DEF MainStates, MainPlaces
  <2> QED BY <2>1, <2>2
<1>5. files' \in FileStates /\ deferred' \in BOOLEAN /\ failures' \in 0..MaxFailures /\ (deferred => deferred')
  <2>1. CASE UNCHANGED <<files, deferred, failures>>
    BY <1>1, <2>1 DEF TypeOK
  <2>2. CASE Succeeds /\ UNCHANGED deferred /\ files' = [input |-> FALSE, output |-> FALSE, closed |-> "closed"]
    BY <1>1, <2>2, Throwing DEF FileStates
  <2>3. CASE /\ deferred' = (deferred \/ main.outcome = "none")
             /\ \/ Fails("closeInput") /\ files' = [files EXCEPT !.closed = "failed"]
                \/ Fails("closeOutput") /\ files' = [files EXCEPT !.closed = "failed", !.input = FALSE]
    <3>1. failures' \in 0..MaxFailures
      BY <1>1, <2>3, Throwing
    <3>2. files' \in FileStates
      BY <1>1, <2>3 DEF FileStates
    <3>3. deferred' \in BOOLEAN /\ (deferred => deferred')
      BY <1>1, <2>3
    <3> QED BY <3>1, <3>2, <3>3
  <2> QED BY <2>1, <2>2, <2>3 DEF CloseFiles, EndJob
<1>6. RunTypes
  BY <1>1, <1>2, <1>5 DEF RunTypes, TypeOK
<1>7. Calm
  BY <1>1, <1>2, <1>3, <1>4, <1>5, <1>6 DEF Calm, FileStates
<1> QED BY <1>7, CalmKeeps

(* endUnfinishedLumi() tells the streams to end the lumi.                  *)
LEMMA EndUnfinishedLumiKeeps ==
    ASSUME IInv, EndUnfinishedLumi
    PROVE  IInv' /\ Handed'
<1>1. /\ Statused /\ TypeOK /\ Phased /\ Ordered /\ Occupied /\ Slots /\ Pauses /\ Quiet /\ AtSource
      /\ main.pc = "endLumi" /\ main' = [main EXCEPT !.pc = "endWait"] /\ failed' = FALSE
      /\ stream' = [s \in Streams |-> IF stream[s].lumi # 0 THEN [stream[s] EXCEPT !.at = "end"] ELSE stream[s]]
      /\ UNCHANGED <<pos, last, deferred, signalled, full, iov, iovHolds, slots, lumi, active, locals,
                     files, run, cached, lost, failures>>
  BY DEF IInv, Statused, Scheduled, EndUnfinishedLumi, At, Goto, sourceVars, queueVars, runVars
<1>2. ~Held
  BY <1>1 DEF Quiet
<1>3. main' \in MainStates /\ main'.pc = "endWait" /\ main'.then = main.then
  BY <1>1, Gotos DEF MainPlaces
<1>4. stream' \in [Streams -> StreamStates]
  <2>1. \A s \in Streams : stream[s] \in StreamStates
    BY <1>1 DEF TypeOK
  <2>2. \A s \in Streams : [stream[s] EXCEPT !.at = "end"] \in StreamStates
    BY <2>1 DEF StreamStates
  <2> QED BY <1>1, <2>1, <2>2
<1>5. \A s \in Streams : /\ stream'[s].lumi = stream[s].lumi /\ stream'[s].queue = stream[s].queue
                         /\ stream'[s].paused = stream[s].paused
                         /\ stream'[s].at = IF stream[s].lumi # 0 THEN "end" ELSE stream[s].at
  <2>1. \A s \in Streams : stream[s] \in StreamStates
    BY <1>1 DEF TypeOK
  <2> QED BY <1>1, <2>1 DEF StreamStates
<1>6. \A s \in Streams : Stays(s)
  BY <1>1, <1>5 DEF Stays, Occupied
<1>7. Placed' /\ Counted' /\ Occupied'
  BY <1>1, <1>6, StayPlaces
<1>8. TypeOK'
  BY <1>1, <1>3, <1>4 DEF TypeOK
<1>9. Phased' /\ Ordered'
  BY <1>1 DEF Phased, Ordered, Made, Begins, Alive
<1>10. Slots' /\ Pauses'
  BY <1>1 DEF Slots, Pauses, Pausers
<1>11. Ended'
  <2>1. \A k \in Lumis : Alive(k) => lumi[k].phase = "open"
    BY <1>1, <1>2, NotHeld
  <2>2. \A s \in Streams : stream'[s].at \in {"idle", "end"} /\ stream'[s].queue = <<>>
    BY <1>1, <1>2, <1>5, NotHeld DEF Occupied
  <2> QED BY <1>1, <1>3, <2>1, <2>2 DEF Ended, Alive, At
<1>12. AtSource'
  BY <1>1, <1>3 DEF AtSource, Chosen, At, TypeAt
<1>13. Quiet' /\ Remaining' /\ AtLumis' /\ Parked' /\ Handed'
  BY <1>3 DEF Quiet, Remaining, AtLumis, Parked, Handed, At, Chosen
<1> QED BY <1>7, <1>8, <1>9, <1>10, <1>11, <1>12, <1>13 DEF IInv, Statused, Scheduled

(* processLumis() begins to wait.                                          *)
Waits(N) ==
    /\ main.pc = "choose" /\ main' \in MainStates /\ main'.pc = "lumis" /\ failed' = FALSE
    /\ Notes(N) /\ stream' \in [Streams -> StreamStates] /\ \A s \in Streams : Stays(s)
    /\ iovHolds' \in 0..Cardinality(Lumis)
    /\ UNCHANGED <<pos, last, deferred, signalled, full, iov, slots, active, locals,
                   files, run, cached, lost, failures>>
(* When the main thread starts to wait for the streams, the invariant      *)
(* holds.                                                                  *)
LEMMA WaitsKeep ==
    ASSUME IInv, NEW N \in SUBSET Lumis, Waits(N), Slots', Pauses', Remaining', AtLumis'
    PROVE  IInv'
<1>1. Statused /\ TypeOK /\ AtSource
  BY DEF IInv, Statused, Scheduled
<1>2. /\ main'.pc = "lumis" /\ main' \in MainStates /\ failed' = FALSE
      /\ Notes(N) /\ stream' \in [Streams -> StreamStates] /\ \A s \in Streams : Stays(s)
      /\ iovHolds' \in 0..Cardinality(Lumis) /\ lumi' \in [Lumis -> Statuses]
      /\ UNCHANGED <<pos, last, deferred, signalled, full, iov, slots, active, locals,
                     files, run, cached, lost, failures>>
  BY DEF Waits, Notes
<1>3. /\ Phased' /\ Ordered' /\ \A j \in Lumis : lumi'[j].toPush = lumi[j].toPush /\ lumi'[j].left = lumi[j].left
  BY <1>1, <1>2, NotesStatused
<1>4. Placed' /\ Counted' /\ Occupied'
  BY <1>1, <1>2, <1>3, StayPlaces
<1>5. TypeOK'
  BY <1>1, <1>2 DEF TypeOK
<1>6. Quiet' /\ Ended' /\ Parked'
  BY <1>2 DEF Quiet, Ended, Parked, At, Chosen
<1>7. AtSource'
  BY <1>1, <1>2 DEF AtSource, Chosen, At, TypeAt
<1> QED BY <1>3, <1>4, <1>5, <1>6, <1>7 DEF IInv, Statused, Scheduled

(* Lumis that stay in their phases keep what they hold.                    *)
LEMMA SamePhases ==
    ASSUME Slots, Pauses, UNCHANGED <<slots, iovHolds>>, \A j \in Lumis : lumi'[j].phase = lumi[j].phase
    PROVE  Slots' /\ Pauses'
<1>1. {j \in Lumis : lumi'[j].phase \in Slotted} = {j \in Lumis : lumi[j].phase \in Slotted}
  OBVIOUS
<1>2. {j \in Lumis : lumi'[j].phase \in Pausing} = {j \in Lumis : lumi[j].phase \in Pausing}
  OBVIOUS
<1>3. Slots'
  BY <1>1 DEF Slots
<1>4. PICK H \in SUBSET Lumis : /\ Pausers \subseteq H /\ \A k \in H \ Pausers : lumi[k].phase = "dropped"
                                /\ iovHolds = Cardinality(H)
  BY DEF Pauses
<1>5. Pausers' = Pausers
  BY <1>2 DEF Pausers
<1>6. Pauses'
  BY <1>4, <1>5 DEF Pauses
<1> QED BY <1>3, <1>6

(* processLumis(): the lumi that all streams are in goes on, ...           *)
LEMMA GoOnKeeps ==
    ASSUME IInv, GotoLumi, active > 0
    PROVE  IInv' /\ Handed'
<1>1. /\ Statused /\ TypeOK /\ Phased /\ Occupied /\ Slots /\ Pauses /\ Quiet /\ AtSource /\ Parked /\ Remaining
      /\ Chosen("lumi") /\ main.pc = "choose" /\ main' = [main EXCEPT !.pc = "lumis"] /\ failed' = FALSE
      /\ lumi' = [lumi EXCEPT ![stream[1].lumi].continuing = TRUE, ![stream[1].lumi].stop = FALSE]
      /\ stream' = [s \in Streams |-> [stream[s] EXCEPT !.at = "next"]]
      /\ UNCHANGED <<pos, last, deferred, signalled, full, iov, iovHolds, slots, active, locals,
                     files, run, cached, lost, failures>>
  BY DEF IInv, Statused, Scheduled, GotoLumi, Chosen, At, Goto, sourceVars, runVars
<1>2. ~Held
  BY <1>1 DEF Quiet
<1>3. main' \in MainStates /\ main'.pc = "lumis"
  BY <1>1, Gotos DEF MainPlaces
<1>4. active # 0
  BY <1>1 DEF TypeOK
<1>5. \A s \in Streams : Within(s, stream[1].lumi) /\ stream[s].at = "stopped" /\ ~lumi[stream[1].lumi].ending
  BY <1>1, <1>4 DEF Parked, Together
<1>6. stream[1].lumi \in Lumis
  BY <1>1, <1>5, Finite DEF TypeOK, StreamStates, Occupied
<1>7. PICK k \in Lumis : k = stream[1].lumi
  BY <1>6
<1>8. /\ ~lumi[k].ending /\ \A s \in Streams : stream[s].lumi = k /\ stream[s].at = "stopped"
  BY <1>5, <1>7, Finite DEF Within
<1>9. lumi[k] \in Statuses /\ lumi \in [Lumis -> Statuses]
  BY <1>1 DEF TypeOK
<1>10. PICK r \in Statuses : r = [lumi[k] EXCEPT !.continuing = TRUE, !.stop = FALSE]
  BY <1>9 DEF Statuses
<1>11. lumi' = [lumi EXCEPT ![k] = r]
  BY <1>1, <1>7, <1>9, <1>10
<1>12. lumi' \in [Lumis -> Statuses] /\ lumi'[k] = r /\ \A j \in Lumis : j # k => lumi'[j] = lumi[j]
  BY <1>9, <1>10, <1>11
<1>13. /\ r.phase = lumi[k].phase /\ r.sync = lumi[k].sync /\ r.item = lumi[k].item /\ r.run = lumi[k].run
       /\ r.toPush = lumi[k].toPush /\ r.left = lumi[k].left /\ r.begun = lumi[k].begun
       /\ r.startedNext = lumi[k].startedNext /\ r.continuing = TRUE /\ r.stop = FALSE /\ r.ending = FALSE
  BY <1>8, <1>9, <1>10 DEF Statuses
<1>14. lumi[k].phase = "open" /\ Alive(k) /\ Made(k)
  <2>1. lumi[k].phase \in {"pushing", "open"}
    BY <1>1, <1>8, Finite, Where DEF Statused, Within
  <2>2. Alive(k) /\ Made(k)
    BY <2>1 DEF Alive, Made
  <2> QED BY <1>1, <1>2, <2>2, NotHeld
<1>15. \A j \in Lumis : Alive(j) => j = k
  <2> SUFFICES ASSUME NEW j \in Lumis, Alive(j) PROVE j = k
    OBVIOUS
  <2>1. PICK s \in Streams : Within(s, j)
    BY <1>1, <1>2, OpenFacts
  <2> QED BY <1>8, <2>1 DEF Within
<1>16. Notes({})
  <2>1. ~lumi[k].startedNext
    BY <1>1, <1>8 DEF Phased
  <2>2. Rewrites(k)
    BY <1>8, <1>12, <1>13, <1>14, <2>1 DEF Rewrites
  <2>3. \A j \in Lumis : j # k => Rewrites(j)
    BY <1>1, <1>12 DEF Rewrites, Phased
  <2>4. pos \in Nat
    BY <1>1, ItemFacts DEF TypeOK
  <2> QED BY <1>1, <1>12, <2>2, <2>3, <2>4 DEF Notes
<1>17. stream' \in [Streams -> StreamStates] /\ \A s \in Streams : Stays(s) /\ stream'[s].at = "next"
  <2>1. \A s \in Streams : stream[s] \in StreamStates
    BY <1>1 DEF TypeOK
  <2>2. \A s \in Streams : [stream[s] EXCEPT !.at = "next"] \in StreamStates
    BY <2>1 DEF StreamStates
  <2>3. stream' \in [Streams -> StreamStates]
    BY <1>1, <2>2
  <2>4. \A s \in Streams : /\ stream'[s].lumi = stream[s].lumi /\ stream'[s].queue = stream[s].queue
                           /\ stream'[s].paused = stream[s].paused /\ stream'[s].at = "next"
    BY <1>1, <2>1 DEF StreamStates
  <2> QED BY <1>8, <2>3, <2>4 DEF Stays
<1>18. \A j \in Lumis : lumi'[j].phase = lumi[j].phase
  BY <1>12, <1>13
<1>19. Waits({})
  <2>1. iovHolds' \in 0..Cardinality(Lumis)
    BY <1>1 DEF TypeOK
  <2> QED BY <1>1, <1>3, <1>16, <1>17, <2>1 DEF Waits
<1>20. Slots' /\ Pauses'
  BY <1>1, <1>18, SamePhases
<1>21. Remaining'
  <2> SUFFICES ASSUME NEW j \in Lumis, Alive(j)', NEW s \in Streams PROVE Remains(s, j)'
    BY DEF Remaining
  <2>1. j = k
    BY <1>15, <1>18 DEF Alive
  <2>2. stream'[s].lumi = k /\ stream'[s].at = "next"
    BY <1>8, <1>17 DEF Stays
  <2> QED BY <2>1, <2>2 DEF Remains, Within
<1>22. AtLumis'
  <2>1. full \/ Fresh
    BY <1>1 DEF AtSource
  <2>2. Fresh => Fresh'
    BY <1>1, <1>12, <1>13 DEF Fresh, Made, TypeAt
  <2>3. \A j \in Lumis : Alive(j)' => j = k
    BY <1>15, <1>18 DEF Alive
  <2>4. Noticed(k)'
    BY <1>1, <1>12, <1>13, <2>1, <2>2 DEF Noticed
  <2> QED BY <1>17, <2>3, <2>4 DEF AtLumis
<1>23. Handed'
  BY <1>12, <1>13, <1>14 DEF Handed, Alive
<1>24. IInv'
  BY <1>19, <1>20, <1>21, <1>22, WaitsKeep
<1> QED BY <1>23, <1>24

(* ... or the lumi the source is at is begun.                              *)
LEMMA StartKeeps ==
    ASSUME IInv, GotoLumi, active = 0
    PROVE  IInv' /\ Handed'
<1>1. /\ Statused /\ TypeOK /\ Phased /\ Ordered /\ Occupied /\ Slots /\ Pauses /\ Quiet /\ AtSource
      /\ Chosen("lumi") /\ main.pc = "choose" /\ main' = [main EXCEPT !.pc = "lumis"] /\ failed' = FALSE
      /\ BeginLumi(lumi, pos, run.id)
      /\ UNCHANGED <<pos, last, deferred, signalled, full, iov, slots, stream, active, locals,
                     files, run, cached, lost, failures>>
  BY DEF IInv, Statused, Scheduled, GotoLumi, Chosen, At, Goto, sourceVars, runVars
<1>2. ~Held
  BY <1>1 DEF Quiet
<1>3. main' \in MainStates /\ main'.pc = "lumis"
  BY <1>1, Gotos DEF MainPlaces
<1>4. Fresh
  BY <1>1 DEF AtSource
<1>5. lumi \in [Lumis -> Statuses] /\ pos \in 1..Len(Items) /\ pos \in Nat /\ Items[pos].type = "lumi" /\ run.id \in Nat
  BY <1>1, <1>4, ItemFacts DEF TypeOK, Fresh, TypeAt
<1>6. \A s \in Streams : stream[s].lumi = 0 /\ stream[s].at = "idle"
  <2>1. {s \in Streams : stream[s].lumi # 0} = {}
    <3>1. PICK A : A = {s \in Streams : stream[s].lumi # 0}
      OBVIOUS
    <3>2. IsFiniteSet(A) /\ Cardinality(A) = 0
      BY <1>1, <3>1, Finite, FS_Subset DEF Occupied
    <3> QED BY <3>1, <3>2, FS_EmptySet
  <2> QED BY <1>1, <2>1 DEF Occupied
<1>7. \A j \in Lumis : ~Alive(j)
  <2> SUFFICES ASSUME NEW j \in Lumis, Alive(j) PROVE FALSE
    OBVIOUS
  <2>1. PICK s \in Streams : Within(s, j)
    BY <1>1, <1>2, OpenFacts
  <2> QED BY <1>6, <2>1, Finite DEF Within
<1>8. /\ stream' \in [Streams -> StreamStates] /\ \A s \in Streams : Stays(s)
      /\ \A s \in Streams : stream'[s].at # "stopped"
  BY <1>1, <1>6 DEF Stays, TypeOK
<1>9. \A j \in Lumis : lumi'[j] = lumi[j] => Rewrites(j)
  BY <1>1 DEF Rewrites, Phased
<1>10. \A j \in Lumis : lumi'[j] = lumi[j] => ~Alive(j)'
  BY <1>7 DEF Alive
<1>11. CASE failed
  <2>1. lumi' = lumi /\ UNCHANGED iovHolds
    BY <1>1, <1>11 DEF BeginLumi
  <2>2. Notes({})
    BY <1>1, <1>5, <1>9, <2>1 DEF Notes
  <2>3. Waits({})
    <3>1. iovHolds' \in 0..Cardinality(Lumis)
      BY <1>1, <2>1 DEF TypeOK
    <3> QED BY <1>1, <1>3, <1>8, <2>2, <3>1 DEF Waits
  <2>4. Slots' /\ Pauses'
    BY <1>1, <2>1, SamePhases
  <2>5. Remaining' /\ AtLumis'
    BY <1>8, <1>10, <2>1 DEF Remaining, AtLumis
  <2>6. Handed'
    <3>1. Fresh'
      BY <1>1, <1>4, <2>1 DEF Fresh, Made, TypeAt
    <3> QED BY <3>1 DEF Handed
  <2>7. IInv'
    BY <2>3, <2>4, <2>5, WaitsKeep
  <2> QED BY <2>6, <2>7
<1>12. CASE ~failed
  <2>1. PICK i \in 1..Len(Items), u \in Nat : i = pos /\ u = run.id
    BY <1>5
  <2>2. BeginLumi(lumi, i, u) /\ Items[i].type = "lumi" /\ \A j \in Lumis : Made(j) => lumi[j].sync < i
    BY <1>1, <1>4, <1>5, <2>1 DEF Fresh
  <2>3. PICK S \in [Lumis -> Statuses] : S = lumi
    BY <1>5
  <2>4. PICK n \in Lumis, phase \in Phases :
              /\ \A j \in Lumis : Made(j) <=> j < n
              /\ Renews(n, i, u, phase)
              /\ lumi' \in [Lumis -> Statuses] /\ \A j \in Lumis : j # n => lumi'[j] = S[j]
    BY <1>1, <1>12, <2>2, <2>3, BeginLumiFacts
  <2>5. \A j \in Lumis : j # n => lumi'[j] = lumi[j]
    BY <2>3, <2>4
  <2>6. ~Made(n)
    BY <2>4, Finite
  <2>7. /\ lumi[n].phase = "none" /\ phase \in {"iov", "queued"} /\ lumi'[n].phase = phase
        /\ lumi'[n].toPush = 1 /\ ~lumi'[n].stop /\ ~lumi'[n].ending /\ ~lumi'[n].continuing
        /\ iovHolds' = IF phase = "queued" THEN iovHolds + 1 ELSE iovHolds
    BY <2>4, <2>6 DEF Renews, Made, NoLumi
  <2>8. Notes({n})
    <3>1. \A j \in Lumis \ {n} : Rewrites(j)
      BY <1>9, <2>5
    <3>2. \E ofRun \in Nat, p \in Phases : Renews(n, pos', ofRun, p)
      BY <1>1, <2>1, <2>4
    <3> QED BY <1>1, <1>5, <1>7, <2>1, <2>2, <2>4, <3>1, <3>2 DEF Notes
  <2>9. Slots'
    <3>1. lumi[n].phase \notin Slotted /\ lumi'[n].phase \notin Slotted
      BY <2>7 DEF Slotted
    <3> QED BY <1>1, <2>5, <3>1, SlotsStep
  <2>10. Pauses' /\ iovHolds' \in 0..Cardinality(Lumis)
    <3>1. /\ lumi[n].phase \notin Pausing /\ lumi[n].phase # "dropped"
          /\ phase = "queued" => lumi'[n].phase \in Pausing
          /\ phase = "iov" => lumi'[n].phase \notin Pausing
      BY <2>7 DEF Pausing
    <3> QED BY <1>1, <2>5, <2>7, <3>1, PausesStep
  <2>11. Waits({n})
    BY <1>1, <1>3, <1>8, <2>8, <2>10 DEF Waits
  <2>12. \A j \in Lumis : Alive(j)' => j = n
    BY <1>10, <2>5
  <2>13. Remaining'
    <3> SUFFICES ASSUME NEW s \in Streams PROVE Remains(s, n)'
      BY <2>12 DEF Remaining
    <3>1. s >= lumi'[n].toPush
      BY <2>7, CountsAssumption DEF Streams
    <3> QED BY <3>1 DEF Remains, ToCome
  <2>14. AtLumis'
    <3>1. Noticed(n)'
      BY <2>7 DEF Noticed
    <3> QED BY <1>8, <2>12, <3>1 DEF AtLumis
  <2>15. Handed'
    BY <2>7 DEF Handed, Alive
  <2>16. IInv'
    BY <2>9, <2>10, <2>11, <2>13, <2>14, WaitsKeep
  <2> QED BY <2>15, <2>16
<1> QED BY <1>11, <1>12

(* The main thread keeps the invariant, ...                                *)
LEMMA MainThreadKeeps ==
    ASSUME IInv, Handed, Main
    PROVE  IInv' /\ Handed'
<1>1. CASE GotoLumi
  <2>1. active \in Nat
    BY CountsAssumption DEF IInv, Statused, TypeOK
  <2>2. active > 0 \/ active = 0
    BY <2>1
  <2> QED BY <1>1, <2>2, GoOnKeeps, StartKeeps
<1>2. CASE Ask \/ GotoFile \/ GotoRun \/ LumisDone \/ Finish
  BY <1>2, AskKeeps, GotoFileKeeps, GotoRunKeeps, LumisDoneKeeps, FinishKeeps
<1>3. CASE EndUnfinishedLumi \/ UnfinishedLumiEnded
  BY <1>3, EndUnfinishedLumiKeeps, UnfinishedLumiEndedKeeps
<1>4. CASE CloseRun \/ NewRun \/ ReadRun \/ BeginRun \/ LeaveFiles
  BY <1>4, RunKeeps
<1>5. CASE CloseInput \/ CloseOutput \/ ReadFile \/ OpenOutput \/ CloseFiles \/ EndJob
  BY <1>5, FilesKeep, EndKeeps
<1> QED BY <1>1, <1>2, <1>3, <1>4, <1>5 DEF Main

(* ... and so does everything else.                                        *)
Inv == IInv /\ Handed
(* All steps keep the invariant.                                           *)
LEMMA Inductive ==
    ASSUME Inv, [Next]_vars
    PROVE  Inv'
<1>1. IInv /\ Handed /\ Statused
  BY DEF Inv, IInv
<1>2. CASE Main
  BY <1>1, <1>2, MainThreadKeeps DEF Inv
<1>3. CASE Signal
  BY <1>1, <1>3, SignalKeeps, OthersHand DEF Inv
<1>4. CASE Functor
  <2>1. IInv'
    BY <1>1, <1>4, StreamFinishedKeeps, StreamReportsKeeps, FunctorReturnsKeeps DEF Functor
  <2> QED BY <1>1, <1>4, <2>1, OthersHand DEF Inv
<1>5. ASSUME NEW k \in Lumis, Lumi(k) PROVE Inv'
  <2>1. CASE PushBegin(k)
    BY <1>1, <2>1, PushKeeps, OthersHand DEF Inv
  <2>2. CASE ~PushBegin(k)
    BY <1>1, <1>5, <2>2, PhaseKeeps DEF Inv, Lumi
  <2> QED BY <2>1, <2>2
<1>6. ASSUME NEW s \in Streams, Stream(s) PROVE Inv'
  <2>1. CASE NextEvent(s)
    BY <1>1, <2>1, NextEventKeeps DEF Inv
  <2>2. CASE BeginStream(s) \/ StreamBegun(s) \/ EventDone(s) \/ StreamEnded(s)
    <3>1. IInv'
      BY <1>1, <2>2, BeginStreamKeeps, StreamBegunKeeps, EventDoneKeeps, StreamEndedKeeps
    <3>2. Handed'
      BY <1>1, <2>2, OthersHand
    <3> QED BY <3>1, <3>2 DEF Inv
  <2> QED BY <1>6, <2>1, <2>2 DEF Stream
<1>7. CASE UNCHANGED vars
  <2>1. UNCHANGED <<pos, last, deferred, signalled, full, iov, iovHolds, slots, lumi, stream, active, locals,
                    main, files, run, cached, lost, failed, failures>>
    BY <1>7 DEF vars, sourceVars, queueVars, mainVars, runVars
  <2>2. IInv'
    <3>1. TypeOK'
      BY <1>1, <2>1 DEF Statused, TypeOK
    <3>2. Aside
      BY <2>1 DEF Aside
    <3> QED BY <1>1, <3>1, <3>2, AsideKeeps
  <2>3. Handed'
    BY <1>1, <2>1, HandedStep DEF Made, Alive
  <2> QED BY <2>2, <2>3 DEF Inv
<1> QED BY <1>2, <1>3, <1>4, <1>5, <1>6, <1>7 DEF Next

(* At first there is nothing.                                              *)
LEMMA Initially ==
    ASSUME Init
    PROVE  Inv
<1>1. /\ pos = 0 /\ last = "stop" /\ deferred = FALSE /\ signalled = FALSE /\ full = FALSE
      /\ iov = 0 /\ iovHolds = 0 /\ slots = 0 /\ active = 0 /\ locals = {}
      /\ lumi = [k \in Lumis |-> NoLumi] /\ stream = [s \in Streams |-> NoStream]
      /\ main = [pc |-> "ask", next |-> "stop", then |-> "leave", outcome |-> "none"]
      /\ files = [input |-> FALSE, output |-> FALSE, closed |-> "nobody"]
      /\ run = NoRun /\ cached = 0 /\ lost = FALSE /\ failed = FALSE /\ failures = 0
  BY DEF Init
<1>2. NumberOfStreams \in Nat \ {0} /\ ConcurrentLumis \in Nat \ {0} /\ MaxFailures \in Nat /\ Len(Items) \in Nat
      /\ Cardinality(Lumis) \in Nat
  BY CountsAssumption, ItemFacts, Finite
<1>3. NoLumi \in Statuses /\ NoStream \in StreamStates
  BY <1>2 DEF NoLumi, NoStream, Statuses, StreamStates, Phases
<1>4. \A k \in Lumis : lumi[k] = NoLumi
  BY <1>1
<1>5. \A s \in Streams : stream[s] = NoStream
  BY <1>1
<1>6. TypeOK
  <2>1. lumi \in [Lumis -> Statuses] /\ stream \in [Streams -> StreamStates]
    BY <1>1, <1>3
  <2>2. main \in MainStates
    BY <1>1 DEF MainStates, MainPlaces
  <2>3. run \in [id : Nat, number : Nat]
    BY <1>1 DEF NoRun
  <2>4. files \in [input : BOOLEAN, output : BOOLEAN, closed : {"nobody", "notYet", "closed", "failed"}]
    BY <1>1
  <2>5. /\ pos \in 0..(Len(Items) + 1) /\ iovHolds \in 0..Cardinality(Lumis) /\ slots \in 0..ConcurrentLumis
        /\ active \in 0..NumberOfStreams /\ failures \in 0..MaxFailures /\ iov \in Nat
    BY <1>1, <1>2
  <2> QED BY <1>1, <2>1, <2>2, <2>3, <2>4, <2>5 DEF TypeOK
<1>7. \A k \in Lumis : ~Made(k) /\ ~Alive(k) /\ lumi[k].phase = "none"
  BY <1>4 DEF Made, Alive, NoLumi
<1>8. Phased
  <2>1. /\ NoLumi.phase = "none" /\ ~NoLumi.begun /\ NoLumi.toPush = 1 /\ NoLumi.left = NumberOfStreams
        /\ NoLumi.item = 0 /\ ~NoLumi.startedNext /\ ~NoLumi.ending
    BY DEF NoLumi
  <2>2. "none" \in Unpushed /\ "none" \notin Unread /\ "none" \notin Closed \cup {"open"}
    BY DEF Unpushed, Unread, Closed
  <2> QED BY <1>2, <1>4, <2>1, <2>2 DEF Phased, Made
<1>9. Ordered
  BY <1>7 DEF Ordered
<1>10. \A s \in Streams, k \in Lumis : ToCome(s, k) /\ ~Queued(s, k) /\ ~Within(s, k) /\ ~Finishes(s, k)
  BY <1>1, <1>2, <1>4, <1>5, Finite DEF ToCome, Queued, Within, Finishes, NoLumi, NoStream, Streams
<1>11. Placed
  BY <1>1, <1>5, <1>10 DEF Placed, NoStream
<1>12. Counted
  <2>1. \A k \in Lumis : {s \in Streams : Pends(s, k)} = Streams
    BY <1>10 DEF Pends
  <2> QED BY <1>4, <2>1, Finite DEF Counted, NoLumi
<1>13. Occupied
  <2>1. {s \in Streams : stream[s].lumi # 0} = {}
    BY <1>5 DEF NoStream
  <2> QED BY <1>1, <1>5, <2>1, FS_EmptySet DEF Occupied, NoStream
<1>14. ~Held
  BY <1>1, <1>5, <1>7 DEF Held, NoStream
<1>15. Quiet /\ Ended /\ AtSource /\ AtLumis /\ Parked /\ Handed
  BY <1>1, <1>14 DEF Quiet, Ended, AtSource, AtLumis, Parked, Together, Handed, At, Chosen
<1>16. Remaining
  BY <1>7 DEF Remaining
<1>17. Slots
  <2>1. {k \in Lumis : lumi[k].phase \in Slotted} = {}
    BY <1>7 DEF Slotted
  <2> QED BY <1>1, <2>1, FS_EmptySet DEF Slots
<1>18. Pauses
  <2>1. Pausers = {}
    BY <1>7 DEF Pausers, Pausing
  <2> QED BY <1>1, <2>1, FS_EmptySet DEF Pauses
<1> QED BY <1>6, <1>8, <1>9, <1>11, <1>12, <1>13, <1>15, <1>16, <1>17, <1>18 DEF Inv, IInv, Statused, Scheduled

(* So the invariant holds always, with it the types of all variables.      *)
THEOREM InvariantHolds == Spec => []Inv
<1>1. Init => Inv
  BY Initially
<1>2. Inv /\ [Next]_vars => Inv'
  BY Inductive
<1> QED BY <1>1, <1>2, PTL DEF Spec

(* The variables of the model have their types.                            *)
THEOREM Types == Spec => []TypeOK
<1>1. Inv => TypeOK
  BY DEF Inv, IInv, Statused
<1> QED BY <1>1, InvariantHolds, PTL

(* The global end of a lumi is the last of it: no stream is in it, on its  *)
(* way to it or yet to be counted, and no begin of it waits in a queue.    *)
THEOREM GlobalEndAlwaysLast == Spec => []GlobalEndIsLast
<1>1. ASSUME Inv PROVE GlobalEndIsLast
  <2>1. TypeOK /\ Phased /\ Placed /\ Counted
    BY <1>1 DEF Inv, IInv, Statused
  <2> SUFFICES ASSUME NEW k \in Lumis, lumi[k].phase \in {"globalEnd", "ended"}
               PROVE  /\ lumi[k].left = 0
                      /\ \A s \in Streams : stream[s].lumi # k /\ \A i \in DOMAIN stream[s].queue : stream[s].queue[i] # k
                      /\ \A l \in locals : l.lumi = k => l.holds # "finish"
    BY DEF GlobalEndIsLast
  <2>2. lumi[k].phase \in Closed
    BY DEF Closed
  <2>3. lumi[k].left = 0
    BY <2>1, <2>2 DEF Phased
  <2>4. \A s \in Streams : ~Pends(s, k)
    BY <2>1, <2>2, Where
  <2>5. ASSUME NEW s \in Streams
        PROVE  stream[s].lumi # k /\ \A i \in DOMAIN stream[s].queue : stream[s].queue[i] # k
    <3>1. ~Within(s, k) /\ ~Queued(s, k)
      BY <2>4 DEF Pends
    <3>2. PICK q \in Seq(Lumis) : q = stream[s].queue
      BY <2>1 DEF TypeOK, StreamStates
    <3>3. DOMAIN q = 1..Len(q)
      OBVIOUS
    <3> QED BY <3>1, <3>2, <3>3 DEF Within, Queued
  <2>6. ASSUME NEW l \in locals, l.lumi = k, l.holds = "finish" PROVE FALSE
    <3>1. l.stream \in Streams
      BY <2>1 DEF TypeOK, Copies
    <3> QED BY <2>4, <2>6, <3>1 DEF Pends, Finishes, Finishing
  <2> QED BY <2>3, <2>5, <2>6
<1> QED BY <1>1, InvariantHolds, PTL

(* When a lumi goes on after processLumis() has returned, every stream is  *)
(* in it and none has ended it.                                            *)
THEOREM AllStreamsAlwaysContinue == Spec => []AllStreamsContinue
<1>1. ASSUME Inv PROVE AllStreamsContinue
  <2>1. TypeOK /\ Occupied /\ Parked
    BY <1>1 DEF Inv, IInv, Statused, Scheduled
  <2> SUFFICES ASSUME Chosen("lumi"), active > 0
               PROVE  /\ active = NumberOfStreams
                      /\ \A s \in Streams : stream[s].lumi = stream[1].lumi /\ stream[s].at = "stopped"
                      /\ ~lumi[stream[1].lumi].ending
    BY DEF AllStreamsContinue
  <2>2. active # 0
    BY <2>1 DEF TypeOK
  <2>3. \A s \in Streams : stream[s].lumi = stream[1].lumi /\ stream[s].at = "stopped" /\ ~lumi[stream[1].lumi].ending
    BY <2>1, <2>2 DEF Parked, Together, Within
  <2>4. {s \in Streams : stream[s].lumi # 0} = Streams
    BY <2>1, <2>3 DEF Occupied
  <2>5. active = NumberOfStreams
    BY <2>1, <2>4, Finite DEF Occupied
  <2> QED BY <2>3, <2>5, Finite
<1> QED BY <1>1, InvariantHolds, PTL

-----------------------------------------------------------------------------
(* What a step of the streams or of main does to the status of a lumi: it  *)
(* leaves what it was made for and how far it is, or makes it.             *)
Resembles(status, j) ==
    /\ status.phase = lumi[j].phase /\ status.sync = lumi[j].sync /\ status.item = lumi[j].item
    /\ status.run = lumi[j].run /\ status.endFailed = lumi[j].endFailed
Starts(j, ofRun) ==
    /\ lumi'[j].phase \in {"iov", "queued"} /\ lumi'[j].run = ofRun /\ ~lumi'[j].endFailed
    /\ ~lumi'[j].startedNext /\ ~failed
    /\ lumi'[j].phase = "queued" => iov = Items[lumi'[j].sync].iov

(* beginLumiAsync() makes one status and leaves the others.                *)
LEMMA BeginLumiStarts ==
    ASSUME NEW S \in [Lumis -> Statuses], NEW sync, NEW ofRun, BeginLumi(S, sync, ofRun), NEW j \in Lumis
    PROVE  lumi'[j] = S[j] \/ Starts(j, ofRun)
<1>1. CASE failed
  BY <1>1 DEF BeginLumi
<1>2. CASE ~failed
  <2>1. PICK n, phase, r : /\ n = NextLumi /\ phase = (IF Items[sync].iov = iov THEN "queued" ELSE "iov")
                           /\ r = [NoLumi EXCEPT !.phase = phase, !.sync = sync, !.run = ofRun]
    OBVIOUS
  <2>2. lumi' = [S EXCEPT ![n] = r]
    BY <1>2, <2>1 DEF BeginLumi
  <2>3. /\ r.phase = phase /\ r.sync = sync /\ r.run = ofRun /\ ~r.endFailed /\ ~r.startedNext
        /\ phase \in {"iov", "queued"} /\ (phase = "queued" => Items[sync].iov = iov)
    BY <2>1 DEF NoLumi
  <2>4. CASE j = n
    <3>1. lumi'[j] = r
      BY <2>2, <2>4
    <3> QED BY <1>2, <2>3, <3>1 DEF Starts
  <2>5. CASE j # n
    BY <2>2, <2>5
  <2> QED BY <2>4, <2>5
<1> QED BY <1>1, <1>2

(* A stream that stops starts the next lumi in the run of its own, or      *)
(* leaves the lumis as they are.                                           *)
LEMMA StopStreamStarts ==
    ASSUME NEW S \in [Lumis -> Statuses], \A j \in Lumis : Resembles(S[j], j),
           NEW s \in Streams, stream[s].lumi \in Lumis, StopStream(s, S), NEW j \in Lumis
    PROVE  \/ /\ Resembles(lumi'[j], j)
              /\ lumi'[j].stop = S[j].stop /\ lumi'[j].continuing = S[j].continuing
           \/ Starts(j, lumi[stream[s].lumi].run)
<1>1. PICK k \in Lumis : k = stream[s].lumi
  OBVIOUS
<1>2. CASE lumi' = S
  BY <1>2
<1>3. CASE lumi' # S
  <2>1. BeginLumi([S EXCEPT ![k].startedNext = TRUE], S[k].next, S[k].run)
    BY <1>1, <1>3 DEF StopStream
  <2>2. PICK T : T = [S EXCEPT ![k].startedNext = TRUE]
    OBVIOUS
  <2>3. PICK r \in Statuses : r = [S[k] EXCEPT !.startedNext = TRUE]
    <3>1. S[k] \in Statuses
      OBVIOUS
    <3> QED BY <3>1 DEF Statuses
  <2>4. T = [S EXCEPT ![k] = r] /\ T \in [Lumis -> Statuses]
    BY <2>2, <2>3
  <2>5. /\ r.phase = S[k].phase /\ r.sync = S[k].sync /\ r.item = S[k].item /\ r.run = S[k].run
        /\ r.endFailed = S[k].endFailed /\ r.stop = S[k].stop /\ r.continuing = S[k].continuing
    BY <2>3 DEF Statuses
  <2>6. Resembles(T[j], j) /\ T[j].stop = S[j].stop /\ T[j].continuing = S[j].continuing
    BY <2>4, <2>5 DEF Resembles
  <2>7. lumi'[j] = T[j] \/ Starts(j, S[k].run)
    BY <2>1, <2>2, <2>4, BeginLumiStarts
  <2>8. S[k].run = lumi[k].run
    BY DEF Resembles
  <2> QED BY <1>1, <2>6, <2>7, <2>8
<1> QED BY <1>2, <1>3

(* What a stream notes is how its lumi goes on, not what it is.            *)
LEMMA NotedResembles ==
    ASSUME TypeOK, NEW k \in Lumis, NEW f, f.pos \in Nat
    PROVE  /\ Noted(k, f) \in [Lumis -> Statuses] /\ \A i \in Lumis : Resembles(Noted(k, f)[i], i)
           /\ Noted(k, f)[k].stop = (f.type # "event") /\ \A i \in Lumis : i # k => Noted(k, f)[i] = lumi[i]
<1>1. PICK r \in Statuses :
              /\ Noted(k, f) = [lumi EXCEPT ![k] = r]
              /\ r.phase = lumi[k].phase /\ r.sync = lumi[k].sync /\ r.item = lumi[k].item /\ r.run = lumi[k].run
              /\ r.toPush = lumi[k].toPush /\ r.left = lumi[k].left /\ r.begun = lumi[k].begun
              /\ r.startedNext = lumi[k].startedNext /\ r.continuing = FALSE /\ r.endFailed = lumi[k].endFailed
              /\ r.stop = (f.type # "event") /\ r.ending = EndsLumi(k, f)
              /\ f.type = "lumi" => r.next = f.pos
  BY NotedFacts
<1>2. lumi \in [Lumis -> Statuses]
  BY DEF TypeOK
<1>3. PICK S : S = Noted(k, f)
  OBVIOUS
<1>4. S = [lumi EXCEPT ![k] = r]
  BY <1>1, <1>3
<1>5. S \in [Lumis -> Statuses] /\ S[k] = r /\ \A i \in Lumis : i # k => S[i] = lumi[i]
  BY <1>2, <1>4
<1>6. \A i \in Lumis : Resembles(S[i], i)
  BY <1>1, <1>5 DEF Resembles
<1> QED BY <1>1, <1>3, <1>5, <1>6

(* So does one that asks for an event.                                     *)
LEMMA NextEventStarts ==
    ASSUME IInv, NEW s \in Streams, NextEvent(s), NEW j \in Lumis
    PROVE  Resembles(lumi'[j], j) \/ Starts(j, lumi[stream[s].lumi].run)
<1>1. stream[s].at = "next" /\ TypeOK /\ lumi \in [Lumis -> Statuses] /\ \A i \in Lumis : Resembles(lumi[i], i)
  BY DEF NextEvent, IInv, Statused, TypeOK, Resembles
<1>2. PICK k \in Lumis : k = stream[s].lumi
  BY <1>1, AskFacts
<1>3. CASE full \/ deferred \/ lumi[k].stop
  BY <1>1, <1>2, <1>3, StopStreamStarts DEF NextEvent
<1>4. CASE ~(full \/ deferred \/ lumi[k].stop) /\ UNCHANGED lumi
  BY <1>1, <1>4 DEF Resembles
<1>5. CASE /\ ~(full \/ deferred \/ lumi[k].stop)
           /\ IF Found(k).type = "event" THEN ReadEvent(s, Noted(k, Found(k))) ELSE StopStream(s, Noted(k, Found(k)))
  <2>1. Found(k).pos \in Nat
    <3>1. 1 <= pos
      BY <1>1, AskFacts
    <3>2. lumi[k].continuing => Fresh
      BY <1>1, <1>2, <1>5, AskAlone
    <3>3. Found(k).pos \in 1..(Len(Items) + 1)
      BY <1>1, <3>1, <3>2, FoundFacts
    <3> QED BY <3>3, ItemFacts
  <2>2. PICK f : f = Found(k) /\ f.pos \in Nat
    BY <2>1
  <2>3. PICK S : S = Noted(k, f)
    OBVIOUS
  <2>4. S \in [Lumis -> Statuses] /\ \A i \in Lumis : Resembles(S[i], i)
    BY <1>1, <2>2, <2>3, NotedResembles
  <2>6. CASE lumi' = S
    BY <2>4, <2>6
  <2>7. CASE StopStream(s, S)
    BY <1>2, <2>4, <2>7, StopStreamStarts
  <2> QED BY <1>5, <2>2, <2>3, <2>6, <2>7 DEF ReadEvent
<1> QED BY <1>2, <1>3, <1>4, <1>5 DEF NextEvent

(* Main begins a lumi in its run, or lets one go on.                       *)
LEMMA GotoLumiStarts ==
    ASSUME TypeOK, GotoLumi, NEW j \in Lumis
    PROVE  Resembles(lumi'[j], j) \/ Starts(j, run.id)
<1>1. lumi \in [Lumis -> Statuses]
  BY DEF TypeOK
<1>2. CASE active > 0
  <2>1. PICK k : k = stream[1].lumi
    OBVIOUS
  <2>2. lumi' = [lumi EXCEPT ![k].continuing = TRUE, ![k].stop = FALSE]
    BY <1>2, <2>1 DEF GotoLumi
  <2>3. CASE j = k
    BY <1>1, <2>2, <2>3 DEF Resembles, Statuses
  <2>4. CASE j # k
    BY <1>1, <2>2, <2>4 DEF Resembles
  <2> QED BY <2>3, <2>4
<1>3. CASE ~(active > 0)
  <2>1. BeginLumi(lumi, pos, run.id)
    BY <1>3 DEF GotoLumi
  <2>2. lumi'[j] = lumi[j] \/ Starts(j, run.id)
    BY <1>1, <2>1, BeginLumiStarts
  <2> QED BY <2>2 DEF Resembles
<1> QED BY <1>2, <1>3

-----------------------------------------------------------------------------
(* Once the global end of a lumi has thrown main is on its way out: it     *)
(* waits for what is left, or has deferred the exception and asks the      *)
(* source for nothing more.                                                *)
Leaving == \/ main.pc \in {"leave", "closeFiles", "end", "done"}
           \/ main.pc \in {"endLumi", "endWait"} /\ main.then = "leave"
Reported ==
    (\E k \in Lumis : lumi[k].endFailed) =>
        \/ main.pc \in {"lumis", "endWait"} /\ failed
        \/ Leaving
        \/ deferred /\ main.pc # "lumis" /\ ~Chosen("lumi")

(* It stays so while others go on, unless an end throws.                   *)
LEMMA ReportedStep ==
    ASSUME Reported, UNCHANGED main, failed => failed', deferred => deferred',
           \A j \in Lumis : lumi'[j].endFailed => lumi[j].endFailed \/ (failed' /\ main.pc \in {"lumis", "endWait"})
    PROVE  Reported'
<1>1. Leaving' <=> Leaving
  BY DEF Leaving
<1>2. Chosen("lumi")' <=> Chosen("lumi")
  BY DEF Chosen, At
<1> QED BY <1>1, <1>2 DEF Reported

(* Only a global end can fail that way.                                    *)
LEMMA PhaseFails ==
    ASSUME TypeOK, NEW k \in Lumis,
           \/ ChangeIov(k) \/ LumiWork(k) \/ ReadLumi(k) \/ GlobalBegun(k) \/ GlobalEnded(k)
           \/ ReleaseIov(k) \/ ReleasePrincipal(k) \/ ReleaseSlot(k) \/ ReleaseRun(k)
    PROVE  lumi'[k].endFailed => lumi[k].endFailed \/ (failed' /\ lumi[k].phase = "globalEnd")
<1>1. lumi \in [Lumis -> Statuses]
  BY DEF TypeOK
<1>2. \A phase : SetPhase(k, phase) => lumi'[k].endFailed = lumi[k].endFailed
  BY <1>1 DEF SetPhase, Statuses
<1>3. CASE ChangeIov(k) \/ LumiWork(k) \/ ReleaseIov(k) \/ ReleasePrincipal(k) \/ ReleaseSlot(k) \/ ReleaseRun(k)
  BY <1>2, <1>3 DEF ChangeIov, LumiWork, ReleaseIov, ReleasePrincipal, ReleaseSlot, ReleaseRun, Drop
<1>4. CASE ReadLumi(k)
  <2>1. lumi' = [lumi EXCEPT ![k].phase = "globalBegin", ![k].item = pos] => lumi'[k].endFailed = lumi[k].endFailed
    BY <1>1 DEF Statuses
  <2> QED BY <1>2, <1>4, <2>1 DEF ReadLumi, Drop
<1>5. CASE GlobalBegun(k)
  <2>1. lumi' = [lumi EXCEPT ![k].phase = "pushing", ![k].begun = TRUE] => lumi'[k].endFailed = lumi[k].endFailed
    BY <1>1 DEF Statuses
  <2> QED BY <1>2, <1>5, <2>1 DEF GlobalBegun, Drop
<1>6. CASE GlobalEnded(k)
  <2>1. PICK error \in BOOLEAN : /\ lumi' = [lumi EXCEPT ![k].phase = "ended", ![k].endFailed = error]
                                 /\ failed' = (failed \/ error)
    BY <1>6 DEF GlobalEnded
  <2>2. lumi'[k].endFailed = error
    BY <1>1, <2>1 DEF Statuses
  <2> QED BY <1>6, <2>1, <2>2 DEF GlobalEnded
<1> QED BY <1>3, <1>4, <1>5, <1>6

(* So it stays while main waits, ...                                       *)
LEMMA OthersReport ==
    ASSUME IInv, Reported,
           \/ \E k \in Lumis : Lumi(k)
           \/ \E s \in Streams : Stream(s)
           \/ Functor \/ Signal
    PROVE  Reported'
<1> USE DEF mainVars, sourceVars, queueVars, runVars
<1>0. Statused /\ TypeOK /\ Quiet /\ lumi \in [Lumis -> Statuses]
  BY DEF IInv, Scheduled, Statused, TypeOK
<1>1. ASSUME NEW k \in Lumis, Lumi(k) PROVE Reported'
  <2>1. CASE PushBegin(k)
    <3>1. UNCHANGED <<main, failed, deferred>>
      BY <2>1 DEF PushBegin
    <3>2. PICK s \in Streams : s = lumi[k].toPush
      BY <2>1, PushFacts DEF IInv, Statused
    <3>3. /\ lumi'[k] = [lumi[k] EXCEPT !.toPush = s + 1, !.phase = IF s = NumberOfStreams THEN "open" ELSE "pushing"]
          /\ \A j \in Lumis : j # k => lumi'[j] = lumi[j]
      BY <1>0, <2>1, <3>2, PushFacts DEF Becomes, Statused
    <3>4. lumi'[k].endFailed = lumi[k].endFailed
      BY <1>0, <3>3 DEF Statuses
    <3> QED BY <3>1, <3>3, <3>4, ReportedStep
  <2>2. CASE ~PushBegin(k)
    <3>1. \/ ChangeIov(k) \/ LumiWork(k) \/ ReadLumi(k) \/ GlobalBegun(k) \/ GlobalEnded(k)
          \/ ReleaseIov(k) \/ ReleasePrincipal(k) \/ ReleaseSlot(k) \/ ReleaseRun(k)
      BY <1>1, <2>2 DEF Lumi
    <3>2. PICK a \in Phases, b \in Phases : PhaseStep(k, a, b)
      BY <1>0, <3>1, PhaseSteps
    <3>3. /\ UNCHANGED <<main, deferred>> /\ (failed => failed')
          /\ \A j \in Lumis : j # k => lumi'[j] = lumi[j]
      BY <3>2 DEF PhaseStep
    <3>4. lumi'[k].endFailed => lumi[k].endFailed \/ (failed' /\ lumi[k].phase = "globalEnd")
      BY <1>0, <3>1, PhaseFails
    <3>5. lumi[k].phase = "globalEnd" => main.pc \in {"lumis", "endWait"}
      BY <1>0 DEF Quiet, Held, Alive
    <3> QED BY <3>3, <3>4, <3>5, ReportedStep
  <2> QED BY <2>1, <2>2
<1>2. ASSUME NEW s \in Streams, Stream(s) PROVE Reported'
  <2>1. CASE NextEvent(s)
    <3>1. UNCHANGED <<main, failed>>
      BY <2>1 DEF NextEvent
    <3>2. deferred => deferred'
      BY <2>1 DEF NextEvent, ReadEvent
    <3>3. \A j \in Lumis : lumi'[j].endFailed => lumi[j].endFailed
      BY <2>1, NextEventStarts DEF Resembles, Starts
    <3> QED BY <3>1, <3>2, <3>3, ReportedStep
  <2>2. CASE BeginStream(s) \/ StreamEnded(s)
    <3>1. UNCHANGED <<lumi, main, failed, deferred>>
      BY <2>2 DEF BeginStream, StreamEnded
    <3> QED BY <3>1, ReportedStep
  <2>3. CASE StreamBegun(s)
    <3>1. UNCHANGED <<lumi, main, deferred>> /\ (failed => failed')
      BY <2>3 DEF StreamBegun
    <3> QED BY <3>1, ReportedStep
  <2>4. CASE EventDone(s)
    <3>1. UNCHANGED <<lumi, main>>
      BY <2>4 DEF EventDone
    <3>2. UNCHANGED <<deferred, failed>> \/ (deferred' = TRUE /\ failed' = (failed \/ ~deferred))
      BY <2>4 DEF EventDone
    <3>3. deferred => deferred'
      BY <3>2
    <3>4. failed => failed'
      BY <3>2
    <3> QED BY <3>1, <3>3, <3>4, ReportedStep
  <2> QED BY <1>2, <2>1, <2>2, <2>3, <2>4 DEF Stream
<1>3. CASE Signal
  <2>1. UNCHANGED <<lumi, main, failed, deferred>>
    BY <1>3 DEF Signal
  <2> QED BY <2>1, ReportedStep
<1>4. CASE Functor
  <2>1. PICK l \in locals : StreamFinished(l) \/ StreamReports(l) \/ FunctorReturns(l)
    BY <1>4 DEF Functor
  <2>2. CASE StreamReports(l)
    <3>1. UNCHANGED <<lumi, main, deferred>> /\ (failed => failed')
      BY <2>2 DEF StreamReports
    <3> QED BY <3>1, ReportedStep
  <2>3. CASE FunctorReturns(l)
    <3>1. UNCHANGED <<lumi, main, failed>>
      BY <2>3 DEF FunctorReturns
    <3>2. deferred => deferred'
      BY <2>3 DEF FunctorReturns, Return, RunEnds
    <3> QED BY <3>1, <3>2, ReportedStep
  <2>4. CASE StreamFinished(l)
    <3>1. UNCHANGED <<main, failed, deferred>>
      BY <2>4 DEF StreamFinished
    <3>2. PICK k \in Lumis, isLast \in BOOLEAN :
              /\ lumi[k] \in Statuses
              /\ Becomes(k, [lumi[k] EXCEPT !.left = lumi[k].left - 1,
                                            !.phase = IF isLast THEN "globalEnd" ELSE lumi[k].phase])
      <4>1. PICK k, isLast : k = l.lumi /\ isLast = (lumi[k].left = 1)
        OBVIOUS
      <4> QED BY <1>0, <2>4, <4>1, CountFacts
    <3>3. lumi'[k].endFailed = lumi[k].endFailed /\ \A j \in Lumis : j # k => lumi'[j] = lumi[j]
      BY <3>2 DEF Becomes, Statuses
    <3> QED BY <3>1, <3>2, <3>3, ReportedStep
  <2> QED BY <2>1, <2>2, <2>3, <2>4
<1> QED BY <1>1, <1>2, <1>3, <1>4

-----------------------------------------------------------------------------
Thrown == main'.pc = "endLumi" /\ main'.then = "leave"
Filing(from, to) == main.pc = from /\ (main'.pc = to \/ Thrown)

(* Where each step of the main thread leads.                               *)
LEMMA MainFlow ==
    ASSUME TypeOK
    PROVE  /\ Ask => main.pc = "ask" /\ ((main'.pc = "choose" /\ main'.next = last') \/ Thrown)
           /\ GotoFile => /\ Chosen("file")
                          /\ main'.pc \in {"readFile", "closeInput"} \/ (main'.pc = "endLumi" /\ main'.then = "file")
           /\ GotoRun => /\ Chosen("run")
                         /\ \/ main'.pc = "ask" /\ run.id # 0
                            \/ main'.pc = "run" /\ run.id = 0
                            \/ main'.pc = "endLumi" /\ main'.then = "run"
                            \/ Thrown
           /\ GotoLumi => Chosen("lumi") /\ main'.pc = "lumis"
           /\ LumisDone => /\ main.pc = "lumis"
                           /\ (failed /\ Thrown) \/ (~failed /\ main'.pc = "choose" /\ main'.next = LastTransition)
           /\ Finish => main.pc = "choose" /\ Thrown
           /\ EndUnfinishedLumi => main.pc = "endLumi" /\ main'.pc = "endWait" /\ main'.then = main.then
           /\ UnfinishedLumiEnded => main.pc = "endWait" /\ main'.pc = main.then
           /\ CloseRun => main.pc = "file" /\ main'.pc = "closeBoth"
           /\ NewRun => main.pc = "run" /\ ((main'.pc = "ask" /\ run.id # 0) \/ main'.pc = "readRun")
           /\ ReadRun => main.pc = "readRun" /\ (main'.pc = "beginRun" \/ Thrown)
           /\ BeginRun => main.pc = "beginRun" /\ (main'.pc = "ask" \/ Thrown)
<1>1. \A pc \in MainPlaces : Goto(pc) => main'.pc = pc /\ main'.then = main.then
  BY Gotos DEF Goto
<1>2. \A then \in {"file", "run", "leave"} : EndLumiThen(then) => main'.pc = "endLumi" /\ main'.then = then
  BY EndsLumis
<1>3. \A what \in {"exception", "illegalRun"} : Throw(what) => Thrown
  BY Throws DEF Thrown
<1>4. \A t : main' = [main EXCEPT !.pc = "choose", !.next = t] => main'.pc = "choose" /\ main'.next = t
  BY DEF TypeOK, MainStates
<1>5. ASSUME UnfinishedLumiEnded PROVE main.pc = "endWait" /\ main'.pc = main.then
  <2>1. PICK t \in {"file", "run", "leave"} : t = main.then
    BY DEF TypeOK, MainStates
  <2>2. t \in MainPlaces
    BY DEF MainPlaces
  <2> QED BY <1>1, <1>5, <2>1, <2>2 DEF UnfinishedLumiEnded, At
<1>6. Ask => main.pc = "ask" /\ ((main'.pc = "choose" /\ main'.next = last') \/ Thrown)
  BY <1>3, <1>4 DEF Ask, At
<1>7. GotoFile => /\ Chosen("file")
                  /\ main'.pc \in {"readFile", "closeInput"} \/ (main'.pc = "endLumi" /\ main'.then = "file")
  BY <1>1, <1>2 DEF GotoFile, MainPlaces
<1>8. GotoRun => /\ Chosen("run")
                 /\ \/ main'.pc = "ask" /\ run.id # 0
                    \/ main'.pc = "run" /\ run.id = 0
                    \/ main'.pc = "endLumi" /\ main'.then = "run"
                    \/ Thrown
  BY <1>1, <1>2, <1>3 DEF GotoRun, MainPlaces
<1>9. LumisDone => /\ main.pc = "lumis"
                   /\ (failed /\ Thrown) \/ (~failed /\ main'.pc = "choose" /\ main'.next = LastTransition)
  BY <1>3, <1>4 DEF LumisDone, At
<1>10. /\ GotoLumi => Chosen("lumi") /\ main'.pc = "lumis"
       /\ EndUnfinishedLumi => main.pc = "endLumi" /\ main'.pc = "endWait" /\ main'.then = main.then
       /\ CloseRun => main.pc = "file" /\ main'.pc = "closeBoth"
  BY <1>1 DEF GotoLumi, EndUnfinishedLumi, CloseRun, MainPlaces, At
<1>11. Finish => main.pc = "choose" /\ Thrown
  BY <1>2 DEF Finish, Chosen, At, Thrown
<1>12. NewRun => main.pc = "run" /\ ((main'.pc = "ask" /\ run.id # 0) \/ main'.pc = "readRun")
  BY <1>1 DEF NewRun, At, MainPlaces
<1>13. /\ ReadRun => main.pc = "readRun" /\ (main'.pc = "beginRun" \/ Thrown)
       /\ BeginRun => main.pc = "beginRun" /\ (main'.pc = "ask" \/ Thrown)
  BY <1>1, <1>3 DEF ReadRun, BeginRun, At, MainPlaces
<1> QED BY <1>5, <1>6, <1>7, <1>8, <1>9, <1>10, <1>11, <1>12, <1>13

(* The same for the steps that change files.                               *)
LEMMA FilesFlow ==
    ASSUME TypeOK
    PROVE  /\ CloseInput => Filing("closeInput", "readFile") \/ Filing("closeBoth", "closeOutput")
           /\ CloseOutput => Filing("closeOutput", "readFile")
           /\ ReadFile => Filing("readFile", "ask") \/ Filing("readFile", "openOutput")
           /\ OpenOutput => Filing("openOutput", "ask")
           /\ LeaveFiles => main.pc = "leave" /\ main'.pc = "closeFiles"
           /\ CloseFiles => main.pc = "closeFiles" /\ main'.pc = "end"
           /\ EndJob => main.pc = "end" /\ main'.pc = "done"
<1>1. \A from, transition, done : \A to \in MainPlaces : FileStep(from, transition, done, to) => Filing(from, to)
  <2> SUFFICES ASSUME NEW from, NEW transition, NEW done, NEW to \in MainPlaces, FileStep(from, transition, done, to)
               PROVE  Filing(from, to)
    OBVIOUS
  <2>1. main.pc = from /\ (Goto(to) \/ Throw("exception"))
    BY DEF FileStep, At
  <2>2. Goto(to) => main'.pc = to
    BY Gotos DEF Goto
  <2>3. Throw("exception") => Thrown
    BY Throws DEF Thrown
  <2> QED BY <2>1, <2>2, <2>3 DEF Filing
<1>2. /\ CloseInput => Filing("closeInput", "readFile") \/ Filing("closeBoth", "closeOutput")
      /\ CloseOutput => Filing("closeOutput", "readFile")
      /\ OpenOutput => Filing("openOutput", "ask")
  BY <1>1 DEF CloseInput, CloseOutput, OpenOutput, MainPlaces
<1>3. ReadFile => Filing("readFile", "ask") \/ Filing("readFile", "openOutput")
  BY <1>1 DEF ReadFile, MainPlaces
<1>4. \A pc \in MainPlaces : Goto(pc) => main'.pc = pc
  BY Gotos DEF Goto
<1>5. /\ LeaveFiles => main.pc = "leave" /\ main'.pc = "closeFiles"
      /\ CloseFiles => main.pc = "closeFiles" /\ main'.pc = "end"
  BY <1>4 DEF LeaveFiles, CloseFiles, At, MainPlaces
<1>6. EndJob => main.pc = "end" /\ main'.pc = "done"
  <2> HAVE EndJob
  <2>1. PICK o : main' = [main EXCEPT !.pc = "done", !.outcome = o]
    BY DEF EndJob
  <2> QED BY <2>1 DEF EndJob, At, TypeOK, MainStates
<1> QED BY <1>2, <1>3, <1>5, <1>6

(* ... and main goes where it may.                                         *)
LEMMA MainReports ==
    ASSUME IInv, Reported, Main
    PROVE  Reported'
<1>1. TypeOK /\ main.pc \in MainPlaces
  BY DEF IInv, Statused, TypeOK, MainStates
<1>2. \A j \in Lumis : lumi'[j].endFailed => lumi[j].endFailed
  <2>1. CASE GotoLumi
    BY <1>1, <2>1, GotoLumiStarts DEF Resembles, Starts
  <2>2. CASE ~GotoLumi
    <3>1. UNCHANGED lumi
      BY <2>2 DEF Main, Ask, GotoFile, GotoRun, LumisDone, Finish, EndUnfinishedLumi, UnfinishedLumiEnded, CloseRun,
                  NewRun, ReadRun, BeginRun, CloseInput, CloseOutput, ReadFile, OpenOutput, FileStep, LeaveFiles,
                  CloseFiles, EndJob, rest
    <3> QED BY <3>1
  <2> QED BY <2>1, <2>2
<1>3. SUFFICES ASSUME \E k \in Lumis : lumi'[k].endFailed,
                      \/ main.pc \in {"lumis", "endWait"} /\ failed
                      \/ Leaving
                      \/ deferred /\ main.pc # "lumis" /\ ~Chosen("lumi")
               PROVE  \/ main'.pc \in {"lumis", "endWait"} /\ failed'
                      \/ Leaving'
                      \/ deferred' /\ main'.pc # "lumis" /\ ~Chosen("lumi")'
  BY <1>2 DEF Reported
<1>4. Thrown => Leaving'
  BY DEF Thrown, Leaving
<1>5. CASE Ask
  <2>1. main.pc = "ask" /\ ((main'.pc = "choose" /\ main'.next = last') \/ Thrown)
    BY <1>1, <1>5, MainFlow
  <2>2. deferred
    BY <1>3, <2>1 DEF Leaving
  <2>3. deferred' /\ last' = "stop"
    BY <1>5, <2>2 DEF Ask, NextTransition
  <2> QED BY <1>4, <2>1, <2>3 DEF Chosen, At
<1>6. CASE GotoFile \/ GotoRun
  <2>1. deferred' /\ main.pc = "choose"
    BY <1>3, <1>6 DEF GotoFile, GotoRun, Chosen, At, Leaving
  <2>2. Leaving' \/ main'.pc \notin {"lumis", "choose"}
    BY <1>1, <1>4, <1>6, MainFlow
  <2> QED BY <2>1, <2>2 DEF Chosen, At
<1>7. CASE GotoLumi
  BY <1>1, <1>3, <1>7, MainFlow DEF Leaving, Chosen, At
<1>8. CASE LumisDone
  <2>1. main.pc = "lumis" /\ (~failed \/ Thrown)
    BY <1>1, <1>8, MainFlow
  <2> QED BY <1>3, <1>4, <2>1 DEF Leaving
<1>9. CASE Finish
  BY <1>1, <1>4, <1>9, MainFlow
<1>10. CASE EndUnfinishedLumi
  <2>1. main.pc = "endLumi" /\ main'.pc = "endWait" /\ main'.then = main.then /\ UNCHANGED deferred
    BY <1>1, <1>10, MainFlow DEF EndUnfinishedLumi
  <2> QED BY <1>3, <2>1 DEF Leaving, Chosen, At
<1>11. CASE UnfinishedLumiEnded
  <2>1. main.pc = "endWait" /\ main'.pc = main.then /\ main.then \in {"file", "run", "leave"}
    BY <1>1, <1>11, MainFlow DEF TypeOK, MainStates
  <2>2. deferred \/ failed => deferred'
    BY <1>11 DEF UnfinishedLumiEnded
  <2> QED BY <1>3, <2>1, <2>2 DEF Leaving, Chosen, At
<1>12. CASE CloseRun \/ NewRun \/ ReadRun \/ BeginRun
  <2>1. main.pc \in {"file", "run", "readRun", "beginRun"} /\ (Thrown \/ main'.pc \in {"closeBoth", "ask", "readRun", "beginRun"})
    BY <1>1, <1>12, MainFlow
  <2>2. deferred => deferred'
    BY <1>12 DEF CloseRun, NewRun, ReadRun, BeginRun, LeaveRun, RunEnds
  <2> QED BY <1>3, <1>4, <2>1, <2>2 DEF Leaving, Chosen, At
<1>13. CASE CloseInput \/ CloseOutput \/ ReadFile \/ OpenOutput
  <2>1. /\ main.pc \in {"closeInput", "closeBoth", "closeOutput", "readFile", "openOutput"}
        /\ Thrown \/ main'.pc \in {"closeOutput", "readFile", "openOutput", "ask"}
    BY <1>1, <1>13, FilesFlow DEF Filing
  <2>2. UNCHANGED deferred
    BY <1>13 DEF CloseInput, CloseOutput, ReadFile, OpenOutput, FileStep
  <2> QED BY <1>3, <1>4, <2>1, <2>2 DEF Leaving, Chosen, At
<1>14. CASE LeaveFiles \/ CloseFiles \/ EndJob
  BY <1>1, <1>14, FilesFlow DEF Leaving
<1> QED BY <1>5, <1>6, <1>7, <1>8, <1>9, <1>10, <1>11, <1>12, <1>13, <1>14 DEF Main

-----------------------------------------------------------------------------
(* What everything but its own steps does to a lumi: a stream that is the  *)
(* last to end it starts its global end, or it is made.                    *)
LEMMA OthersStart ==
    ASSUME IInv, NEW j \in Lumis, Main \/ Signal \/ Functor \/ \E s \in Streams : Stream(s)
    PROVE  \/ Resembles(lumi'[j], j)
           \/ /\ lumi[j].phase = "open" /\ lumi'[j].phase = "globalEnd" /\ lumi'[j].sync = lumi[j].sync
              /\ lumi'[j].run = lumi[j].run
           \/ \E s \in Streams : stream[s].at = "next" /\ Starts(j, lumi[stream[s].lumi].run)
           \/ Chosen("lumi") /\ Starts(j, run.id)
<1>1. TypeOK /\ Statused /\ lumi \in [Lumis -> Statuses]
  BY DEF IInv, Statused, TypeOK
<1>2. lumi' = lumi => Resembles(lumi'[j], j)
  BY DEF Resembles
<1>3. CASE Main
  <2>1. CASE GotoLumi
    BY <1>1, <2>1, GotoLumiStarts DEF GotoLumi
  <2>2. CASE ~GotoLumi
    <3>1. UNCHANGED lumi
      BY <1>3, <2>2 DEF Main, Ask, GotoFile, GotoRun, LumisDone, Finish, EndUnfinishedLumi, UnfinishedLumiEnded, CloseRun,
                        NewRun, ReadRun, BeginRun, CloseInput, CloseOutput, ReadFile, OpenOutput, FileStep, LeaveFiles,
                        CloseFiles, EndJob, rest
    <3> QED BY <1>2, <3>1
  <2> QED BY <2>1, <2>2
<1>4. CASE Signal
  BY <1>2, <1>4 DEF Signal
<1>5. CASE Functor
  <2>1. PICK l \in locals : StreamFinished(l) \/ StreamReports(l) \/ FunctorReturns(l)
    BY <1>5 DEF Functor
  <2>2. CASE StreamReports(l) \/ FunctorReturns(l)
    BY <1>2, <2>2 DEF StreamReports, FunctorReturns
  <2>3. CASE StreamFinished(l)
    <3>1. PICK k \in Lumis, isLast \in BOOLEAN :
              /\ lumi[k] \in Statuses /\ (isLast => lumi[k].phase = "open")
              /\ Becomes(k, [lumi[k] EXCEPT !.left = lumi[k].left - 1,
                                            !.phase = IF isLast THEN "globalEnd" ELSE lumi[k].phase])
      <4>1. PICK k, isLast : k = l.lumi /\ isLast = (lumi[k].left = 1)
        OBVIOUS
      <4> QED BY <1>1, <2>3, <4>1, CountFacts
    <3>2. /\ lumi'[k].phase = IF isLast THEN "globalEnd" ELSE lumi[k].phase
          /\ lumi'[k].sync = lumi[k].sync /\ lumi'[k].run = lumi[k].run
          /\ lumi'[k].item = lumi[k].item /\ lumi'[k].endFailed = lumi[k].endFailed
          /\ \A i \in Lumis : i # k => lumi'[i] = lumi[i]
      BY <3>1 DEF Becomes, Statuses
    <3> QED BY <3>1, <3>2 DEF Resembles
  <2> QED BY <2>1, <2>2, <2>3
<1>6. ASSUME NEW s \in Streams, Stream(s)
      PROVE  Resembles(lumi'[j], j) \/ (stream[s].at = "next" /\ Starts(j, lumi[stream[s].lumi].run))
  <2>1. CASE NextEvent(s)
    BY <2>1, NextEventStarts DEF NextEvent
  <2>2. CASE ~NextEvent(s)
    BY <1>2, <1>6, <2>2 DEF Stream, BeginStream, StreamBegun, EventDone, StreamEnded
  <2> QED BY <2>1, <2>2
<1> QED BY <1>3, <1>4, <1>5, <1>6

(* A lumi gets its slot in lumiQueue_ while main waits for the streams and *)
(* nothing has failed.                                                     *)
LEMMA GetsSlot ==
    ASSUME IInv, [Next]_vars, NEW k \in Lumis, lumi[k].phase = "queued", lumi'[k].phase = "source"
    PROVE  main.pc = "lumis" /\ ~failed
<1>1. TypeOK /\ Statused /\ lumi \in [Lumis -> Statuses] /\ Quiet /\ Ended
  BY DEF IInv, Statused, TypeOK, Scheduled
<1>2. main.pc = "lumis"
  BY <1>1 DEF Quiet, Held, Alive, Ended, At, Closed
<1>3. ASSUME NEW j \in Lumis, Lumi(j) PROVE ~failed
  <2>1. CASE j = k
    <3>1. LumiWork(k)
      BY <1>3, <2>1 DEF Lumi, ChangeIov, ReadLumi, GlobalBegun, GlobalEnded, PushBegin,
                        ReleaseIov, ReleasePrincipal, ReleaseSlot, ReleaseRun
    <3>2. SetPhase(k, "dropped") => lumi'[k].phase = "dropped"
      BY <1>1 DEF SetPhase, Statuses
    <3> QED BY <3>1, <3>2 DEF LumiWork
  <2>2. CASE j # k
    <3>1. lumi'[k] = lumi[k]
      <4>1. CASE PushBegin(j)
        <5>1. PICK s \in Streams : s = lumi[j].toPush
          BY <4>1, PushFacts DEF IInv, Statused
        <5> QED BY <1>1, <2>2, <4>1, <5>1, PushFacts DEF Becomes, Statused
      <4>2. CASE ~PushBegin(j)
        <5>1. \/ ChangeIov(j) \/ LumiWork(j) \/ ReadLumi(j) \/ GlobalBegun(j) \/ GlobalEnded(j)
              \/ ReleaseIov(j) \/ ReleasePrincipal(j) \/ ReleaseSlot(j) \/ ReleaseRun(j)
          BY <1>3, <4>2 DEF Lumi
        <5>2. PICK a \in Phases, b \in Phases : PhaseStep(j, a, b)
          BY <1>1, <5>1, PhaseSteps
        <5> QED BY <2>2, <5>2 DEF PhaseStep
      <4> QED BY <4>1, <4>2
    <3> QED BY <3>1
  <2> QED BY <2>1, <2>2
<1>4. CASE Main \/ Signal \/ Functor \/ \E s \in Streams : Stream(s)
  BY <1>4, OthersStart DEF Resembles, Starts
<1>5. CASE UNCHANGED vars
  BY <1>5 DEF vars
<1> QED BY <1>2, <1>3, <1>4, <1>5 DEF Next

(* A lumi that waits while another one's global end fails is not begun.    *)
THEOREM NeverAfterFailedEnd == Spec => NoLumiAfterFailedEnd
<1>1. Init => Reported
  <2>1. Init => \A k \in Lumis : ~lumi[k].endFailed
    BY DEF Init, NoLumi
  <2> QED BY <2>1 DEF Reported
<1>2. Inv /\ Reported /\ [Next]_vars => Reported'
  <2> SUFFICES ASSUME Inv, Reported, [Next]_vars PROVE Reported'
    OBVIOUS
  <2>1. IInv
    BY DEF Inv
  <2>2. CASE UNCHANGED vars
    <3>1. UNCHANGED <<lumi, main, failed, deferred>>
      BY <2>2 DEF vars, mainVars
    <3> QED BY <3>1, ReportedStep
  <2>3. CASE Main
    BY <2>1, <2>3, MainReports
  <2>4. CASE Signal \/ Functor \/ (\E k \in Lumis : Lumi(k)) \/ (\E s \in Streams : Stream(s))
    BY <2>1, <2>4, OthersReport
  <2> QED BY <2>2, <2>3, <2>4 DEF Next
<1>3. Inv /\ Reported /\ [Next]_vars
        => [\A k \in Lumis : lumi[k].phase = "queued" /\ lumi'[k].phase = "source"
              => \A j \in Lumis : ~lumi[j].endFailed]_vars
  <2> SUFFICES ASSUME Inv, Reported, [Next]_vars, NEW k \in Lumis, lumi[k].phase = "queued", lumi'[k].phase = "source"
               PROVE  \A j \in Lumis : ~lumi[j].endFailed
    OBVIOUS
  <2>1. main.pc = "lumis" /\ ~failed
    BY GetsSlot DEF Inv
  <2> QED BY <2>1 DEF Reported, Leaving
<1> QED BY <1>1, <1>2, <1>3, InvariantHolds, PTL DEF Spec, NoLumiAfterFailedEnd

-----------------------------------------------------------------------------
(* Runs.  Where main is tells whether the source is at a file, and whether *)
(* main has a run, which is then the one in the cache.                     *)
AtFile ==
    \/ Chosen("file") \/ main.pc \in {"file", "closeInput", "closeBoth", "closeOutput", "readFile", "openOutput"}
    \/ main.pc \in {"endLumi", "endWait"} /\ main.then = "file"
    => TypeAt(pos) = "file"
InRun ==
    /\ Chosen("lumi") \/ main.pc \in {"lumis", "beginRun"} => run.id # 0
    /\ main.pc = "readRun" => run.id = pos
    /\ main.pc = "ask" /\ run.id = 0 => deferred \/ pos = 0 \/ TypeAt(pos) = "file"
RunCached ==
    \/ main.pc \in {"ask", "choose", "lumis", "file", "run", "beginRun", "closeInput", "closeBoth", "closeOutput",
                    "readFile", "openOutput"}
    \/ main.pc \in {"endLumi", "endWait"} /\ main.then # "leave"
    => (run.id # 0 => run.id = cached)

(* A lumi in progress, or of which a functor holds a copy, is in that run; *)
(* between runs there is none.                                             *)
AliveRun == \A k \in Lumis : Alive(k) => lumi[k].run = cached /\ cached # 0 /\ run.id = cached
LocalRun == main.pc \notin {"closeFiles", "end", "done"} => \A l \in locals : lumi[l.lumi].run = cached /\ cached # 0
NoneAtRun == main.pc \in {"run", "readRun", "beginRun"} => \A k \in Lumis : ~Alive(k)

(* The EventSetup has the interval of every lumi that holds iovQueue_.     *)
IovLoaded == \A k \in Lumis : lumi[k].phase \in Pausing => iov = Items[lumi[k].sync].iov

Routed == AtFile /\ InRun /\ RunCached
InItsRun == AliveRun /\ LocalRun /\ NoneAtRun
RunInv == Routed /\ InItsRun /\ IovLoaded

(* They stay so while main waits or stands still.                          *)
LEMMA RoutedStep ==
    ASSUME Routed, UNCHANGED <<main, run>>, UNCHANGED cached \/ run.id # cached, deferred => deferred',
           UNCHANGED pos \/ main.pc = "lumis"
    PROVE  Routed'
<1>1. \A type : Chosen(type)' <=> Chosen(type)
  BY DEF Chosen, At
<1>2. UNCHANGED pos => TypeAt(pos)' = TypeAt(pos)
  BY DEF TypeAt
<1>3. AtFile'
  BY <1>1, <1>2 DEF Routed, AtFile, Chosen, At
<1>4. InRun'
  BY <1>1, <1>2 DEF Routed, InRun
<1>5. RunCached'
  BY <1>1 DEF Routed, RunCached
<1> QED BY <1>3, <1>4, <1>5 DEF Routed

(* A step that keeps lumis in their runs, and makes copies of those in     *)
(* progress only.                                                          *)
LEMMA InItsRunStep ==
    ASSUME InItsRun, UNCHANGED <<main, run, cached>>,
           \A j \in Lumis : \/ lumi'[j].run = lumi[j].run /\ (Alive(j)' => Alive(j))
                            \/ main.pc = "lumis" /\ \E k \in Lumis : Alive(k) /\ lumi'[j].run = lumi[k].run,
           \A l \in locals' : l.lumi \in Lumis /\ (Alive(l.lumi) \/ \E m \in locals : m.lumi = l.lumi)
    PROVE  InItsRun'
<1>1. AliveRun'
  BY DEF InItsRun, AliveRun, Alive
<1>2. LocalRun'
  <2> SUFFICES ASSUME main.pc \notin {"closeFiles", "end", "done"}, NEW l \in locals'
               PROVE  lumi'[l.lumi].run = cached /\ cached # 0
    BY DEF LocalRun
  <2>1. PICK j \in Lumis : j = l.lumi
    OBVIOUS
  <2>2. lumi[j].run = cached /\ cached # 0
    BY <2>1 DEF InItsRun, AliveRun, LocalRun
  <2>3. \A k \in Lumis : Alive(k) => lumi[k].run = cached
    BY DEF InItsRun, AliveRun
  <2> QED BY <2>1, <2>2, <2>3
<1>3. NoneAtRun'
  BY DEF InItsRun, NoneAtRun
<1> QED BY <1>1, <1>2, <1>3 DEF InItsRun

(* A step that leaves the EventSetup alone; a lumi that comes to hold      *)
(* iovQueue_ does so because its interval is there.                        *)
LEMMA IovStep ==
    ASSUME IovLoaded, UNCHANGED iov,
           \A j \in Lumis : \/ lumi'[j].sync = lumi[j].sync /\ (lumi'[j].phase \in Pausing => lumi[j].phase \in Pausing)
                            \/ lumi'[j].phase \in Pausing => iov = Items[lumi'[j].sync].iov
    PROVE  IovLoaded'
  BY DEF IovLoaded

(* What the steps of a lumi but the first leave alone.                     *)
LEMMA LumiRuns ==
    ASSUME IInv, RunInv, NEW k \in Lumis, Lumi(k)
    PROVE  RunInv'
<1>1. TypeOK /\ Statused /\ lumi \in [Lumis -> Statuses] /\ locals \subseteq Copies
  BY DEF IInv, Statused, TypeOK
<1>2. UNCHANGED <<main, run, cached, pos, deferred, locals>>
  BY DEF Lumi, ChangeIov, LumiWork, ReadLumi, GlobalBegun, PushBegin, GlobalEnded, ReleaseIov, ReleasePrincipal,
         ReleaseSlot, ReleaseRun, sourceVars, mainVars, runVars
<1>3. Routed'
  BY <1>2, RoutedStep DEF RunInv
<1>4. \A l \in locals : l.lumi \in Lumis
  BY <1>1 DEF Copies
<1>5. CASE PushBegin(k)
  <2>1. PICK s \in Streams : s = lumi[k].toPush
    BY <1>5, PushFacts DEF IInv, Statused
  <2>2. /\ lumi'[k] = [lumi[k] EXCEPT !.toPush = s + 1, !.phase = IF s = NumberOfStreams THEN "open" ELSE "pushing"]
        /\ lumi[k].phase = "pushing" /\ \A j \in Lumis : j # k => lumi'[j] = lumi[j]
    BY <1>1, <1>5, <2>1, PushFacts DEF Becomes, Statused
  <2>3. /\ lumi'[k].run = lumi[k].run /\ lumi'[k].sync = lumi[k].sync
        /\ Alive(k) /\ lumi[k].phase \in Pausing
    BY <1>1, <2>2 DEF Statuses, Alive, Pausing
  <2>4. InItsRun'
    <3>1. \A j \in Lumis : lumi'[j].run = lumi[j].run /\ (Alive(j)' => Alive(j))
      BY <2>2, <2>3 DEF Alive
    <3> QED BY <1>2, <1>4, <3>1, InItsRunStep DEF RunInv
  <2>5. IovLoaded'
    <3>1. UNCHANGED iov
      BY <1>5 DEF PushBegin, queueVars
    <3> QED BY <2>2, <2>3, <3>1, IovStep DEF RunInv
  <2> QED BY <1>3, <2>4, <2>5 DEF RunInv
<1>6. CASE ~PushBegin(k)
  <2>1. \/ ChangeIov(k) \/ LumiWork(k) \/ ReadLumi(k) \/ GlobalBegun(k) \/ GlobalEnded(k)
        \/ ReleaseIov(k) \/ ReleasePrincipal(k) \/ ReleaseSlot(k) \/ ReleaseRun(k)
    BY <1>6 DEF Lumi
  <2>2. PICK a \in Phases, b \in Phases : PhaseStep(k, a, b)
    BY <1>1, <2>1, PhaseSteps
  <2>3. /\ <<a, b>> \in Transitions /\ lumi[k].phase = a /\ lumi'[k].phase = b
        /\ lumi'[k].sync = lumi[k].sync /\ lumi'[k].run = lumi[k].run
        /\ \A j \in Lumis : j # k => lumi'[j] = lumi[j]
    BY <2>2 DEF PhaseStep
  <2>4. InItsRun'
    <3>1. Alive(k)
      BY <2>3 DEF Transitions, Alive
    <3>2. \A j \in Lumis : lumi'[j].run = lumi[j].run /\ (Alive(j)' => Alive(j))
      BY <2>3, <3>1 DEF Alive
    <3> QED BY <1>2, <1>4, <3>2, InItsRunStep DEF RunInv
  <2>5. IovLoaded'
    <3>1. CASE a = "iov"
      <4>1. ChangeIov(k)
        BY <2>1, <2>3, <3>1 DEF LumiWork, ReadLumi, GlobalBegun, GlobalEnded, ReleaseIov, ReleasePrincipal, ReleaseSlot, ReleaseRun
      <4>2. Pausers = {}
        <5>1. PICK H \in SUBSET Lumis : Pausers \subseteq H /\ iovHolds = Cardinality(H)
          BY DEF IInv, Pauses
        <5>2. IsFiniteSet(H) /\ Cardinality(H) = 0
          BY <4>1, <5>1, Finite, FS_Subset DEF ChangeIov
        <5> QED BY <5>1, <5>2, FS_EmptySet
      <4>3. \A j \in Lumis : lumi[j].phase \notin Pausing
        BY <4>2 DEF Pausers
      <4>4. iov' = Items[lumi[k].sync].iov \/ lumi'[k].phase = "dropped"
        <5>1. SetPhase(k, "dropped") => lumi'[k].phase = "dropped"
          BY <1>1 DEF SetPhase, Statuses
        <5> QED BY <4>1, <5>1 DEF ChangeIov, Drop
      <4>5. "dropped" \notin Pausing
        BY DEF Pausing
      <4> QED BY <2>3, <4>3, <4>4, <4>5 DEF IovLoaded
    <3>2. CASE a # "iov"
      <4>1. UNCHANGED iov
        BY <2>1, <2>3, <3>2 DEF ChangeIov, LumiWork, ReadLumi, GlobalBegun, GlobalEnded, ReleaseIov, ReleasePrincipal,
                                ReleaseSlot, ReleaseRun, queueVars
      <4>2. lumi'[k].phase \in Pausing => lumi[k].phase \in Pausing
        BY <2>3, <3>2 DEF Transitions, Pausing
      <4> QED BY <2>3, <4>1, <4>2, IovStep DEF RunInv
    <3> QED BY <3>1, <3>2
  <2> QED BY <1>3, <2>4, <2>5 DEF RunInv
<1> QED BY <1>5, <1>6


(* So do those of the streams and their functors: a stream begins the next *)
(* lumi in the run of its own.                                             *)
LEMMA OthersRun ==
    ASSUME IInv, RunInv,
           Signal \/ (\E s \in Streams : Stream(s)) \/ (\E l \in locals : StreamFinished(l) \/ StreamReports(l))
    PROVE  RunInv'
<1>1. TypeOK /\ Statused /\ lumi \in [Lumis -> Statuses] /\ locals \subseteq Copies
  BY DEF IInv, Statused, TypeOK
<1>2. UNCHANGED <<main, run, cached, iov>>
  BY DEF Signal, Stream, BeginStream, StreamBegun, NextEvent, EventDone, StreamEnded, StreamFinished, StreamReports,
         mainVars, runVars, queueVars
<1>3. Routed'
  <2>1. UNCHANGED pos \/ main.pc = "lumis"
    <3>1. ASSUME NEW s \in Streams, Stream(s) PROVE UNCHANGED pos \/ main.pc = "lumis"
      <4>1. CASE NextEvent(s)
        BY <4>1, AskFacts DEF NextEvent, At
      <4>2. CASE ~NextEvent(s)
        BY <3>1, <4>2 DEF Stream, BeginStream, StreamBegun, EventDone, StreamEnded, sourceVars
      <4> QED BY <4>1, <4>2
    <3> QED BY <3>1 DEF Signal, StreamFinished, StreamReports, sourceVars
  <2>2. deferred => deferred'
    BY DEF Signal, Stream, BeginStream, StreamBegun, NextEvent, EventDone, StreamEnded, StreamFinished, StreamReports, ReadEvent
  <2> QED BY <1>2, <2>1, <2>2, RoutedStep DEF RunInv
<1>4. \A j \in Lumis : \/ Resembles(lumi'[j], j)
                       \/ /\ lumi[j].phase = "open" /\ lumi'[j].phase = "globalEnd" /\ lumi'[j].sync = lumi[j].sync
                          /\ lumi'[j].run = lumi[j].run
                       \/ \E s \in Streams : stream[s].at = "next" /\ Starts(j, lumi[stream[s].lumi].run)
  <2> TAKE j \in Lumis
  <2>1. CASE \E s \in Streams : Stream(s) /\ NextEvent(s)
    BY <2>1, NextEventStarts DEF NextEvent
  <2>2. CASE ~\E s \in Streams : Stream(s) /\ NextEvent(s)
    <3>1. CASE UNCHANGED lumi
      BY <3>1 DEF Resembles
    <3>2. CASE ~UNCHANGED lumi
      <4>1. PICK l \in locals : StreamFinished(l)
        BY <2>2, <3>2 DEF Signal, StreamReports, Stream, BeginStream, StreamBegun, EventDone, StreamEnded
      <4>2. PICK k \in Lumis, isLast \in BOOLEAN :
                /\ lumi[k] \in Statuses /\ (isLast => lumi[k].phase = "open")
                /\ Becomes(k, [lumi[k] EXCEPT !.left = lumi[k].left - 1,
                                              !.phase = IF isLast THEN "globalEnd" ELSE lumi[k].phase])
        <5>1. PICK k, isLast : k = l.lumi /\ isLast = (lumi[k].left = 1)
          OBVIOUS
        <5> QED BY <1>1, <4>1, <5>1, CountFacts
      <4>3. /\ lumi'[k].phase = IF isLast THEN "globalEnd" ELSE lumi[k].phase
            /\ lumi'[k].sync = lumi[k].sync /\ lumi'[k].run = lumi[k].run
            /\ lumi'[k].item = lumi[k].item /\ lumi'[k].endFailed = lumi[k].endFailed
            /\ \A i \in Lumis : i # k => lumi'[i] = lumi[i]
        BY <4>2 DEF Becomes, Statuses
      <4> QED BY <4>2, <4>3 DEF Resembles
    <3> QED BY <3>1, <3>2
  <2> QED BY <2>1, <2>2
<1>5. IovLoaded'
  <2>1. \A j \in Lumis : \/ lumi'[j].sync = lumi[j].sync /\ (lumi'[j].phase \in Pausing => lumi[j].phase \in Pausing)
                         \/ lumi'[j].phase \in Pausing => iov = Items[lumi'[j].sync].iov
    BY <1>4 DEF Resembles, Starts, Pausing
  <2> QED BY <1>2, <2>1, IovStep DEF RunInv
<1>6. InItsRun'
  <2>1. \A j \in Lumis : \/ lumi'[j].run = lumi[j].run /\ (Alive(j)' => Alive(j))
                         \/ main.pc = "lumis" /\ \E k \in Lumis : Alive(k) /\ lumi'[j].run = lumi[k].run
    <3> TAKE j \in Lumis
    <3>1. CASE \E s \in Streams : stream[s].at = "next" /\ Starts(j, lumi[stream[s].lumi].run)
      BY <3>1, AskFacts DEF Starts, At
    <3>2. CASE ~\E s \in Streams : stream[s].at = "next" /\ Starts(j, lumi[stream[s].lumi].run)
      BY <1>4, <3>2 DEF Resembles, Alive
    <3> QED BY <3>1, <3>2
  <2>2. \A l \in locals : l.lumi \in Lumis
    BY <1>1 DEF Copies
  <2>3. \A l \in locals' : l.lumi \in Lumis /\ (Alive(l.lumi) \/ \E m \in locals : m.lumi = l.lumi)
    <3>1. CASE UNCHANGED locals
      BY <2>2, <3>1
    <3>2. ASSUME NEW s \in Streams, BeginStream(s)
          PROVE  \A l \in locals' : l.lumi \in Lumis /\ (Alive(l.lumi) \/ \E m \in locals : m.lumi = l.lumi)
      <4>1. PICK k \in Lumis, q \in Seq(Lumis) : q = stream[s].queue /\ q # <<>> /\ k = q[1]
        BY <1>1, <3>2, TakeFacts DEF Statused
      <4>2. lumi[k].phase \in {"pushing", "open"}
        <5>1. Queued(s, k)
          BY <4>1 DEF Queued
        <5> QED BY <1>1, <5>1, Where DEF Statused
      <4>3. \A l \in locals' : l \in locals \/ l.lumi = k
        BY <3>2, <4>1 DEF BeginStream
      <4> QED BY <2>2, <4>2, <4>3 DEF Alive
    <3>3. ASSUME NEW s \in Streams, StreamEnded(s)
          PROVE  \A l \in locals' : l.lumi \in Lumis /\ (Alive(l.lumi) \/ \E m \in locals : m.lumi = l.lumi)
      <4>1. PICK k \in Lumis, l \in Copies : k = stream[s].lumi /\ Finishing(l, s, k) /\ locals' = locals \cup {l}
        BY <1>1, <3>3, LeaveFacts DEF Statused
      <4>2. lumi[k].phase \in {"pushing", "open"}
        BY <1>1, <4>1, Where DEF Statused, Within
      <4> QED BY <2>2, <4>1, <4>2 DEF Alive, Finishing
    <3>4. ASSUME NEW l \in locals, StreamFinished(l) \/ StreamReports(l)
          PROVE  \A m \in locals' : m.lumi \in Lumis /\ (Alive(m.lumi) \/ \E o \in locals : o.lumi = m.lumi)
      <4>1. \A holds : [l EXCEPT !.holds = holds].lumi = l.lumi
        BY <1>1 DEF Copies
      <4>2. \A holds : \A m \in Replace(l, holds) : m \in locals \/ m.lumi = l.lumi
        BY <4>1 DEF Replace
      <4>3. \A m \in locals' : m \in locals \/ m.lumi = l.lumi
        BY <3>4, <4>2 DEF StreamFinished, StreamReports
      <4> QED BY <2>2, <4>3
    <3>5. ASSUME NEW s \in Streams, StreamBegun(s) \/ NextEvent(s) \/ EventDone(s) PROVE UNCHANGED locals
      BY <3>5 DEF StreamBegun, NextEvent, EventDone
    <3> QED BY <3>1, <3>2, <3>3, <3>4, <3>5 DEF Stream, Signal
  <2> QED BY <1>2, <2>1, <2>3, InItsRunStep DEF RunInv
<1> QED BY <1>3, <1>5, <1>6 DEF RunInv


(* A functor that returns ends the run if it was the last to hold it, that *)
(* is, when main has left it and no lumi is in progress.                   *)
LEMMA ReturnRuns ==
    ASSUME IInv, RunInv, NEW l \in locals, FunctorReturns(l)
    PROVE  RunInv'
<1>1. TypeOK /\ Ended /\ locals \subseteq Copies /\ l \in Copies
  BY DEF IInv, Statused, Scheduled, TypeOK
<1>2. UNCHANGED <<lumi, main, run, pos>>
  BY DEF FunctorReturns, sourceVars
<1>3. deferred => deferred'
  BY DEF FunctorReturns, Return, RunEnds
<1>4. \A k \in Lumis : lumi[k].phase \in Pausing => Alive(k)
  BY DEF Pausing, Alive
<1>5. \A m \in locals' : m.lumi \in Lumis /\ \E o \in locals : o.lumi = m.lumi
  <2>1. \A holds : [l EXCEPT !.holds = holds].lumi = l.lumi
    BY <1>1 DEF Copies
  <2>2. \A holds : \A m \in Replace(l, holds) : m \in locals \/ m.lumi = l.lumi
    BY <2>1 DEF Replace
  <2>3. \A m \in locals' : m \in locals \/ m.lumi = l.lumi
    BY <2>2 DEF FunctorReturns, Return
  <2>4. \A m \in locals : m.lumi \in Lumis
    BY <1>1 DEF Copies
  <2> QED BY <2>3, <2>4
<1>6. CASE UNCHANGED <<cached, iov>>
  <2>1. Routed'
    BY <1>2, <1>3, <1>6, RoutedStep DEF RunInv
  <2>2. InItsRun'
    <3>1. \A j \in Lumis : lumi'[j].run = lumi[j].run /\ (Alive(j)' => Alive(j))
      BY <1>2 DEF Alive
    <3> QED BY <1>2, <1>5, <1>6, <3>1, InItsRunStep DEF RunInv
  <2>3. IovLoaded'
    BY <1>2, <1>6 DEF RunInv, IovLoaded
  <2> QED BY <2>1, <2>2, <2>3 DEF RunInv
<1>7. CASE ~UNCHANGED <<cached, iov>>
  <2>1. PICK id : id = lumi[l.lumi].run
    OBVIOUS
  <2>2. locals' = locals \ {l} /\ run.id # id /\ ~Kept(id, locals')
    BY <1>7, <2>1 DEF FunctorReturns, Return
  <2>3. CASE main.pc \in {"closeFiles", "end", "done"}
    <3>1. \A k \in Lumis : ~Alive(k)
      BY <1>1, <2>3 DEF Ended
    <3>2. \A k \in Lumis : ~Alive(k)'
      BY <1>2, <3>1 DEF Alive
    <3>3. Routed'
      <4>1. \A type : ~Chosen(type)'
        BY <1>2, <2>3 DEF Chosen, At
      <4> QED BY <1>2, <2>3, <4>1 DEF Routed, AtFile, InRun, RunCached
    <3>4. InItsRun'
      BY <1>2, <2>3, <3>2 DEF InItsRun, AliveRun, LocalRun, NoneAtRun
    <3>5. IovLoaded'
      BY <1>2, <1>4, <3>1 DEF IovLoaded
    <3> QED BY <3>3, <3>4, <3>5 DEF RunInv
  <2>4. CASE main.pc \notin {"closeFiles", "end", "done"}
    <3>1. \A m \in locals : lumi[m.lumi].run = cached
      BY <2>4 DEF RunInv, InItsRun, LocalRun
    <3>2. id = cached /\ run.id # cached
      BY <2>1, <2>2, <3>1
    <3>3. locals' = {}
      BY <2>2, <3>1, <3>2 DEF Kept
    <3>4. \A k \in Lumis : ~Alive(k)
      BY <3>2 DEF RunInv, InItsRun, AliveRun
    <3>5. \A k \in Lumis : ~Alive(k)'
      BY <1>2, <3>4 DEF Alive
    <3>6. Routed'
      BY <1>2, <1>3, <3>2, RoutedStep DEF RunInv
    <3>7. InItsRun'
      BY <3>3, <3>5 DEF InItsRun, AliveRun, LocalRun, NoneAtRun
    <3>8. IovLoaded'
      BY <1>2, <1>4, <3>4 DEF IovLoaded
    <3> QED BY <3>6, <3>7, <3>8 DEF RunInv
  <2> QED BY <2>3, <2>4
<1> QED BY <1>6, <1>7


-----------------------------------------------------------------------------
(* The items come in order: no lumi follows directly on a file, nor is it  *)
(* the first.                                                              *)
LEMMA FirstItems ==
    ASSUME TypeOK, pos = 0 \/ TypeAt(pos) = "file"
    PROVE  TypeAt(After(pos)) # "lumi"
<1>1. Len(Items) \in Nat /\ DOMAIN Items = 1..Len(Items)
  BY ItemFacts
<1>2. PICK p \in Nat : p = pos
  BY <1>1 DEF TypeOK
<1>3. p = 0 \/ p \in 1..Len(Items)
  BY <1>1, <1>2 DEF TypeAt
<1>4. After(pos) = p + 1
  BY <1>1, <1>2, <1>3 DEF After
<1>5. SUFFICES ASSUME p + 1 \in 1..Len(Items), Items[p + 1].type = "lumi" PROVE FALSE
  BY <1>1, <1>4 DEF TypeAt
<1>6. CASE p = 0
  <2>1. Items # <<>> /\ Items[1].type = "lumi"
    BY <1>1, <1>5, <1>6
  <2> QED BY <2>1, OrderAssumption
<1>7. CASE p # 0
  <2>1. Items[p].type = "file"
    BY <1>1, <1>2, <1>3, <1>7 DEF TypeAt
  <2>2. PICK i \in 2..Len(Items) : i = p + 1
    BY <1>1, <1>2, <1>5, <1>7
  <2>3. Items[i].type = "lumi" /\ Items[i - 1].type = "file"
    BY <1>2, <1>5, <2>1, <2>2
  <2> QED BY <2>3, OrderAssumption
<1> QED BY <1>6, <1>7

(* Main keeps to the way of its runs.                                      *)
LEMMA MainRoutes ==
    ASSUME IInv, RunInv, Main
    PROVE  Routed'
<1>1. TypeOK /\ AtSource /\ Routed /\ main.pc \in MainPlaces /\ main.then \in {"file", "run", "leave"}
  BY DEF IInv, Statused, Scheduled, TypeOK, MainStates, RunInv
<1>2. Thrown => Routed'
  BY DEF Thrown, Routed, AtFile, InRun, RunCached, Chosen, At
<1>3. UNCHANGED pos => TypeAt(pos)' = TypeAt(pos)
  BY DEF TypeAt
<1>4. CASE Ask
  <2>1. main.pc = "ask" /\ ((main'.pc = "choose" /\ main'.next = last') \/ Thrown)
    BY <1>1, <1>4, MainFlow
  <2>2. UNCHANGED <<run, cached>>
    BY <1>4 DEF Ask, runVars
  <2>3. SUFFICES ASSUME main'.pc = "choose", main'.next = last' PROVE Routed'
    BY <1>2, <2>1
  <2>4. ~Thrown /\ (Throw("exception") => Thrown)
    BY <1>1, <2>3, Throws DEF Thrown
  <2>5. NextTransition
    BY <1>4, <2>4 DEF Ask
  <2>6. last' # "stop" => ~deferred /\ pos' = After(pos) /\ last' = TypeAt(After(pos))
    BY <2>5 DEF NextTransition
  <2>7. last' # "stop" => last' = TypeAt(pos)'
    BY <2>6 DEF TypeAt
  <2>8. AtFile'
    BY <2>3, <2>7 DEF AtFile, Chosen, At
  <2>9. InRun'
    <3>1. last' = "lumi" => run.id # 0
      BY <1>1, <2>1, <2>6, FirstItems DEF Routed, InRun
    <3> QED BY <2>2, <2>3, <3>1 DEF InRun, Chosen, At
  <2>10. RunCached'
    BY <1>1, <2>1, <2>2, <2>3 DEF Routed, RunCached
  <2> QED BY <2>8, <2>9, <2>10 DEF Routed
<1>5. CASE GotoFile
  <2>1. Chosen("file") /\ (main'.pc \in {"readFile", "closeInput"} \/ (main'.pc = "endLumi" /\ main'.then = "file"))
    BY <1>1, <1>5, MainFlow
  <2>2. UNCHANGED <<run, cached, pos>>
    BY <1>5 DEF GotoFile, runVars, sourceVars
  <2> QED BY <1>1, <1>3, <2>1, <2>2 DEF Routed, AtFile, InRun, RunCached, Chosen, At
<1>6. CASE GotoRun
  <2>1. /\ Chosen("run")
        /\ \/ main'.pc = "ask" /\ run.id # 0
           \/ main'.pc = "run" /\ run.id = 0
           \/ main'.pc = "endLumi" /\ main'.then = "run"
           \/ Thrown
    BY <1>1, <1>6, MainFlow
  <2>2. UNCHANGED <<run, cached, pos>>
    BY <1>6 DEF GotoRun, runVars, sourceVars
  <2>3. CASE ~Thrown
    BY <1>1, <2>1, <2>2, <2>3 DEF Routed, AtFile, InRun, RunCached, Chosen, At
  <2> QED BY <1>2, <2>3
<1>7. CASE GotoLumi
  <2>1. Chosen("lumi") /\ main'.pc = "lumis" /\ UNCHANGED <<run, cached>>
    BY <1>1, <1>7, MainFlow DEF GotoLumi, runVars
  <2> QED BY <1>1, <2>1 DEF Routed, AtFile, InRun, RunCached, Chosen, At
<1>8. CASE LumisDone
  <2>1. main.pc = "lumis" /\ (Thrown \/ (main'.pc = "choose" /\ main'.next = LastTransition))
    BY <1>1, <1>8, MainFlow
  <2>2. UNCHANGED <<run, cached, pos>>
    BY <1>8 DEF LumisDone, runVars, sourceVars
  <2>3. LastTransition = "file" => TypeAt(pos) = "file"
    BY <1>1 DEF LastTransition, AtSource
  <2> QED BY <1>1, <1>2, <1>3, <2>1, <2>2, <2>3 DEF Routed, AtFile, InRun, RunCached, Chosen, At
<1>9. CASE Finish
  BY <1>1, <1>2, <1>9, MainFlow
<1>10. CASE EndUnfinishedLumi
  <2>1. main.pc = "endLumi" /\ main'.pc = "endWait" /\ main'.then = main.then
    BY <1>1, <1>10, MainFlow
  <2>2. UNCHANGED <<run, cached, pos>>
    BY <1>10 DEF EndUnfinishedLumi, runVars, sourceVars
  <2> QED BY <1>1, <1>3, <2>1, <2>2 DEF Routed, AtFile, InRun, RunCached, Chosen, At
<1>11. CASE UnfinishedLumiEnded
  <2>1. main.pc = "endWait" /\ main'.pc = main.then
    BY <1>1, <1>11, MainFlow
  <2>2. UNCHANGED <<run, cached, pos>>
    BY <1>11 DEF UnfinishedLumiEnded, runVars, sourceVars
  <2> QED BY <1>1, <1>3, <2>1, <2>2 DEF Routed, AtFile, InRun, RunCached, Chosen, At
<1>12. CASE CloseRun
  <2>1. main.pc = "file" /\ main'.pc = "closeBoth"
    BY <1>1, <1>12, MainFlow
  <2>2. run'.id = 0 /\ UNCHANGED pos
    BY <1>12 DEF CloseRun, NoRun, sourceVars
  <2> QED BY <1>1, <1>3, <2>1, <2>2 DEF Routed, AtFile, InRun, RunCached, Chosen, At
<1>13. CASE NewRun
  <2>1. main.pc = "run" /\ ((main'.pc = "ask" /\ run.id # 0) \/ main'.pc = "readRun")
    BY <1>1, <1>13, MainFlow
  <2>2. UNCHANGED pos
    BY <1>13 DEF NewRun, sourceVars
  <2>3. (main'.pc = "ask" /\ UNCHANGED <<run, cached>>) \/ (main'.pc = "readRun" /\ run'.id = pos)
    <3>1. Goto("ask") => main'.pc = "ask"
      BY <1>1, Gotos DEF Goto, MainPlaces
    <3>2. Goto("readRun") => main'.pc = "readRun"
      BY <1>1, Gotos DEF Goto, MainPlaces
    <3> QED BY <1>13, <3>1, <3>2 DEF NewRun
  <2> QED BY <1>1, <1>3, <2>1, <2>2, <2>3 DEF Routed, AtFile, InRun, RunCached, Chosen, At
<1>14. CASE ReadRun
  <2>1. main.pc = "readRun" /\ (main'.pc = "beginRun" \/ Thrown)
    BY <1>1, <1>14, MainFlow
  <2>2. main'.pc = "beginRun" => cached' = pos /\ UNCHANGED run
    <3>1. Throw("exception") \/ Throw("illegalRun") => main'.pc = "endLumi"
      BY <1>1, Throws
    <3> QED BY <1>14, <3>1 DEF ReadRun
  <2>3. run.id = pos /\ pos # 0
    BY <1>1, <2>1, ItemFacts DEF Routed, InRun, AtSource, TypeAt
  <2>4. CASE main'.pc = "beginRun"
    BY <2>2, <2>3, <2>4 DEF Routed, AtFile, InRun, RunCached, Chosen, At
  <2> QED BY <1>2, <2>1, <2>4
<1>15. CASE BeginRun
  <2>1. main.pc = "beginRun" /\ (main'.pc = "ask" \/ Thrown) /\ UNCHANGED <<run, cached>>
    BY <1>1, <1>15, MainFlow DEF BeginRun, runVars
  <2> QED BY <1>1, <1>2, <2>1 DEF Routed, AtFile, InRun, RunCached, Chosen, At
<1>16. CASE CloseInput \/ CloseOutput \/ ReadFile \/ OpenOutput
  <2>1. /\ main.pc \in {"closeInput", "closeBoth", "closeOutput", "readFile", "openOutput"}
        /\ Thrown \/ main'.pc \in {"closeOutput", "readFile", "openOutput", "ask"}
    BY <1>1, <1>16, FilesFlow DEF Filing
  <2>2. UNCHANGED <<run, cached, pos>>
    BY <1>16 DEF CloseInput, CloseOutput, ReadFile, OpenOutput, FileStep, runVars, sourceVars
  <2> QED BY <1>1, <1>2, <1>3, <2>1, <2>2 DEF Routed, AtFile, InRun, RunCached, Chosen, At
<1>17. CASE LeaveFiles \/ CloseFiles \/ EndJob
  <2>1. main'.pc \in {"closeFiles", "end", "done"}
    BY <1>1, <1>17, FilesFlow
  <2> QED BY <2>1 DEF Routed, AtFile, InRun, RunCached, Chosen, At
<1> QED BY <1>4, <1>5, <1>6, <1>7, <1>8, <1>9, <1>10, <1>11, <1>12, <1>13, <1>14, <1>15, <1>16, <1>17 DEF Main


(* A step of main that leaves the lumis, the run in the cache and the      *)
(* EventSetup alone, ...                                                   *)
LEMMA CalmRuns ==
    ASSUME InItsRun, IovLoaded, UNCHANGED <<lumi, locals, cached, iov>>, UNCHANGED run \/ \A k \in Lumis : ~Alive(k),
           main.pc \in {"closeFiles", "end", "done"} => main'.pc \in {"closeFiles", "end", "done"},
           main'.pc \in {"run", "readRun", "beginRun"} => \A k \in Lumis : ~Alive(k)
    PROVE  InItsRun' /\ IovLoaded'
<1>1. \A k \in Lumis : Alive(k)' <=> Alive(k)
  BY DEF Alive
<1>2. AliveRun'
  BY <1>1 DEF InItsRun, AliveRun
<1>3. LocalRun'
  BY DEF InItsRun, LocalRun
<1>4. NoneAtRun'
  BY <1>1 DEF NoneAtRun
<1>5. IovLoaded'
  BY DEF IovLoaded
<1> QED BY <1>2, <1>3, <1>4, <1>5 DEF InItsRun

(* ... and one that may change them when no lumi is in progress.           *)
LEMMA EmptyRuns ==
    ASSUME InItsRun, \A k \in Lumis : ~Alive(k), UNCHANGED <<lumi, locals>>,
           \/ main'.pc \in {"closeFiles", "end", "done"}
           \/ main.pc \notin {"closeFiles", "end", "done"} /\ (UNCHANGED cached \/ locals = {})
    PROVE  InItsRun' /\ IovLoaded'
<1>1. \A k \in Lumis : ~Alive(k)'
  BY DEF Alive
<1>2. AliveRun' /\ NoneAtRun'
  BY <1>1 DEF AliveRun, NoneAtRun
<1>3. LocalRun'
  BY DEF InItsRun, LocalRun
<1>4. IovLoaded'
  <2>1. \A k \in Lumis : lumi[k].phase \in Pausing => Alive(k)
    BY DEF Pausing, Alive
  <2> QED BY <2>1 DEF IovLoaded
<1> QED BY <1>2, <1>3, <1>4 DEF InItsRun

(* Main ends its run when no functor keeps it, and reads the next one when *)
(* it is out of the cache.                                                 *)
LEMMA MainRuns ==
    ASSUME IInv, RunInv, Main
    PROVE  RunInv'
<1>1. TypeOK /\ Statused /\ Quiet /\ Ended /\ InItsRun /\ IovLoaded /\ Routed
  BY DEF IInv, Statused, Scheduled, RunInv
<1>2. main.pc \in MainPlaces /\ main.then \in {"file", "run", "leave"} /\ locals \subseteq Copies
  BY <1>1 DEF TypeOK, MainStates
<1>3. Routed'
  BY MainRoutes
<1>4. SUFFICES InItsRun' /\ IovLoaded'
  BY <1>3 DEF RunInv
<1>5. run.id = 0 => \A k \in Lumis : ~Alive(k)
  BY <1>1 DEF InItsRun, AliveRun
<1>6. CASE Ask \/ GotoFile \/ GotoRun \/ LumisDone \/ Finish \/ EndUnfinishedLumi \/ UnfinishedLumiEnded
  <2>1. UNCHANGED <<lumi, locals, run, cached, iov>>
    BY <1>6 DEF Ask, GotoFile, GotoRun, LumisDone, Finish, EndUnfinishedLumi, UnfinishedLumiEnded, rest, runVars, queueVars
  <2>2. main.pc \in {"ask", "choose", "lumis", "endLumi", "endWait"}
    BY <1>1, <1>6, MainFlow DEF Chosen, At
  <2>3. main'.pc \in {"run", "readRun", "beginRun"} => \A k \in Lumis : ~Alive(k)
    <3>1. CASE UnfinishedLumiEnded
      <4>1. At("endWait") /\ ~Held
        BY <3>1 DEF UnfinishedLumiEnded
      <4>2. ASSUME NEW k \in Lumis, Alive(k) PROVE FALSE
        <5>1. \E s \in Streams : stream[s].at = "stopped"
          BY <1>1, <4>1, <4>2, OpenFacts
        <5> QED BY <1>1, <4>1, <5>1 DEF Ended
      <4> QED BY <4>2
    <3>2. CASE ~UnfinishedLumiEnded
      <4>1. main'.pc \in {"run", "readRun", "beginRun"} => run.id = 0
        BY <1>1, <1>6, <3>2, MainFlow DEF Thrown
      <4> QED BY <1>5, <4>1
    <3> QED BY <3>1, <3>2
  <2> QED BY <1>1, <2>1, <2>2, <2>3, CalmRuns
<1>7. CASE GotoLumi
  <2>1. Chosen("lumi") /\ main'.pc = "lumis" /\ UNCHANGED <<run, cached, iov, locals>>
    BY <1>1, <1>7, MainFlow DEF GotoLumi, runVars
  <2>2. run.id # 0 /\ run.id = cached
    BY <1>1, <2>1 DEF Routed, InRun, RunCached, Chosen, At
  <2>3. \A j \in Lumis : Resembles(lumi'[j], j) \/ Starts(j, run.id)
    BY <1>1, <1>7, GotoLumiStarts
  <2>4. AliveRun'
    BY <1>1, <2>1, <2>2, <2>3 DEF InItsRun, AliveRun, Resembles, Starts, Alive
  <2>5. LocalRun'
    <3>1. \A l \in locals : l.lumi \in Lumis /\ lumi[l.lumi].run = cached
      BY <1>1, <1>2, <2>1 DEF InItsRun, LocalRun, Chosen, At, Copies
    <3>2. \A j \in Lumis : lumi[j].run = cached => lumi'[j].run = cached
      BY <2>2, <2>3 DEF Resembles, Starts
    <3> QED BY <2>1, <2>2, <3>1, <3>2 DEF LocalRun
  <2>6. NoneAtRun'
    BY <2>1 DEF NoneAtRun
  <2>7. IovLoaded'
    <3>1. \A j \in Lumis : \/ lumi'[j].sync = lumi[j].sync /\ (lumi'[j].phase \in Pausing => lumi[j].phase \in Pausing)
                           \/ lumi'[j].phase \in Pausing => iov = Items[lumi'[j].sync].iov
      BY <2>3 DEF Resembles, Starts, Pausing
    <3> QED BY <1>1, <2>1, <3>1, IovStep
  <2> QED BY <2>4, <2>5, <2>6, <2>7 DEF InItsRun
<1>8. CASE CloseRun \/ NewRun \/ LeaveFiles
  <2>1. UNCHANGED <<lumi, locals>>
    BY <1>8 DEF CloseRun, NewRun, LeaveFiles, rest
  <2>2. /\ main.pc \in {"file", "run", "leave"}
        /\ main.pc = "leave" => main'.pc \in {"closeFiles", "end", "done"}
    BY <1>1, <1>8, MainFlow, FilesFlow
  <2>3. \A k \in Lumis : ~Alive(k)
    BY <1>1, <2>2 DEF Ended, InItsRun, NoneAtRun
  <2>4. main.pc # "leave" => UNCHANGED cached \/ locals = {}
    <3>1. SUFFICES ASSUME main.pc \in {"file", "run"}, ~UNCHANGED cached PROVE locals = {}
      BY <2>2
    <3>2. LeaveRun
      BY <1>8, <3>1 DEF CloseRun, NewRun, LeaveFiles
    <3>3. run.id # 0 /\ ~Kept(run.id, locals)
      BY <3>1, <3>2 DEF LeaveRun
    <3>4. run.id = cached
      BY <1>1, <3>1, <3>3 DEF Routed, RunCached
    <3>5. \A l \in locals : lumi[l.lumi].run = cached
      BY <1>1, <3>1 DEF InItsRun, LocalRun
    <3> QED BY <3>3, <3>4, <3>5 DEF Kept
  <2> QED BY <1>1, <2>1, <2>2, <2>3, <2>4, EmptyRuns
<1>9. CASE ReadRun \/ BeginRun
  <2>1. UNCHANGED <<lumi, locals>> /\ main.pc \in {"readRun", "beginRun"}
    BY <1>9 DEF ReadRun, BeginRun, rest, At
  <2>2. \A k \in Lumis : ~Alive(k)
    BY <1>1, <2>1 DEF InItsRun, NoneAtRun
  <2>3. UNCHANGED cached \/ locals = {}
    <3>1. SUFFICES ASSUME cached = 0 PROVE locals = {}
      BY <1>9 DEF ReadRun, BeginRun, runVars
    <3> QED BY <1>1, <2>1, <3>1 DEF InItsRun, LocalRun
  <2> QED BY <1>1, <2>1, <2>2, <2>3, EmptyRuns
<1>10. CASE CloseInput \/ CloseOutput \/ ReadFile \/ OpenOutput \/ CloseFiles \/ EndJob
  <2>1. UNCHANGED <<lumi, locals, run, cached, iov>>
    BY <1>10 DEF CloseInput, CloseOutput, ReadFile, OpenOutput, FileStep, CloseFiles, EndJob, rest, runVars
  <2>2. /\ main.pc \in {"closeFiles", "end", "done"} => main'.pc \in {"closeFiles", "end", "done"}
        /\ main'.pc \notin {"run", "readRun", "beginRun"}
    BY <1>1, <1>10, FilesFlow DEF Filing, Thrown
  <2> QED BY <1>1, <2>1, <2>2, CalmRuns
<1> QED BY <1>6, <1>7, <1>8, <1>9, <1>10 DEF Main

(* Main, the runs and the interval of validity agree.                      *)
LEMMA RunInvAlways == Spec => []RunInv
<1>1. Init => RunInv
  <2> SUFFICES ASSUME Init PROVE RunInv
    OBVIOUS
  <2>1. \A k \in Lumis : lumi[k].phase = "none"
    BY DEF Init, NoLumi
  <2>2. /\ main.pc = "ask" /\ main.then = "leave" /\ locals = {} /\ pos = 0 /\ run.id = 0
    BY DEF Init, NoRun
  <2>3. Routed
    BY <2>2 DEF Routed, AtFile, InRun, RunCached, Chosen, At
  <2>4. InItsRun
    BY <2>1, <2>2 DEF InItsRun, AliveRun, LocalRun, NoneAtRun, Alive
  <2>5. IovLoaded
    BY <2>1 DEF IovLoaded, Pausing
  <2> QED BY <2>3, <2>4, <2>5 DEF RunInv
<1>2. Inv /\ RunInv /\ [Next]_vars => RunInv'
  <2> SUFFICES ASSUME Inv, RunInv, [Next]_vars PROVE RunInv'
    OBVIOUS
  <2>1. IInv
    BY DEF Inv
  <2>2. CASE UNCHANGED vars
    <3>1. UNCHANGED <<main, run, cached, iov, pos, deferred, lumi, locals>>
      BY <2>2 DEF vars, mainVars, runVars, queueVars, sourceVars
    <3>2. TypeAt(pos)' = TypeAt(pos)
      BY <3>1 DEF TypeAt
    <3>3. Routed'
      BY <3>1, <3>2 DEF RunInv, Routed, AtFile, InRun, RunCached, Chosen, At
    <3>4. InItsRun' /\ IovLoaded'
      BY <3>1, CalmRuns DEF RunInv, InItsRun, NoneAtRun
    <3> QED BY <3>3, <3>4 DEF RunInv
  <2>3. CASE Main
    BY <2>1, <2>3, MainRuns
  <2>4. CASE \E k \in Lumis : Lumi(k)
    BY <2>1, <2>4, LumiRuns
  <2>5. CASE Functor
    BY <2>1, <2>5, OthersRun, ReturnRuns DEF Functor
  <2>6. CASE Signal \/ \E s \in Streams : Stream(s)
    BY <2>1, <2>6, OthersRun
  <2> QED BY <2>2, <2>3, <2>4, <2>5, <2>6 DEF Next
<1> QED BY <1>1, <1>2, InvariantHolds, PTL DEF Spec

(* From the moment it leaves iovQueue_ until it releases it a lumi sees    *)
(* its own interval of validity.                                           *)
THEOREM IovAlwaysStable == Spec => []IovStable
<1>1. RunInv /\ TypeOK => IovStable
  <2> SUFFICES ASSUME RunInv, TypeOK, NEW k \in Lumis, Alive(k),
                      lumi[k].phase \in Phases \ {"iov", "iovReleased", "principalReleased", "slotReleased"}
               PROVE  iov = Items[lumi[k].sync].iov
    BY DEF IovStable
  <2>1. lumi[k].phase \in Pausing
    BY DEF Alive, Phases, Pausing
  <2> QED BY <2>1 DEF RunInv, IovLoaded
<1> QED BY <1>1, RunInvAlways, Types, PTL

-----------------------------------------------------------------------------
(* Events.  While main waits for the streams the source is at the lumi     *)
(* that may be given events, or at one of them.                            *)
SameNumbers(i, j) == Items[i].run = Items[j].run /\ Items[i].lumi = Items[j].lumi
Asking(k) == lumi[k].phase \in {"globalBegin", "pushing", "open"} /\ ~lumi[k].stop /\ ~lumi[k].continuing
AtLumi(k) == TypeAt(pos) \in {"lumi", "event"} /\ SameNumbers(pos, lumi[k].item)
Synced == At("lumis") => \A k \in Lumis : Asking(k) => AtLumi(k)

(* An event is in the lumi of the item before it.                          *)
LEMMA EventFollows ==
    ASSUME NEW i \in 2..Len(Items), Items[i].type = "event"
    PROVE  Items[i - 1].type \in {"lumi", "event"} /\ SameNumbers(i, i - 1)
  BY OrderAssumption DEF SameNumbers

(* The event that a stream finds is in the stream's lumi.                  *)
LEMMA EventFound ==
    ASSUME IInv, Synced, NEW s \in Streams, stream[s].at = "next", NEW k \in Lumis, k = stream[s].lumi,
           ~full, ~deferred, ~lumi[k].stop, Found(k).type = "event"
    PROVE  TypeAt(Found(k).pos) = "event" /\ SameNumbers(Found(k).pos, lumi[k].item)
<1>1. TypeOK /\ At("lumis") /\ lumi[k].phase \in {"pushing", "open"} /\ 1 <= pos /\ (lumi[k].continuing => Fresh)
  BY AskFacts, AskAlone DEF IInv, Statused
<1>2. PICK n \in Nat : n = Len(Items) /\ DOMAIN Items = 1..n
  BY ItemFacts
<1>3. PICK first : first = IF lumi[k].continuing THEN pos ELSE After(pos)
  OBVIOUS
<1>4. PICK type : type = IF signalled /\ ~lumi[k].continuing THEN "stop" ELSE TypeAt(first)
  OBVIOUS
<1>5. Found(k) = IF type = "lumi" /\ SameLumi(k, first)
                   THEN IF signalled THEN [pos |-> first + 1, type |-> "stop"]
                                     ELSE [pos |-> PastLumi(k, first), type |-> TypeAt(PastLumi(k, first))]
                   ELSE [pos |-> first, type |-> type]
  BY <1>3, <1>4 DEF Found
<1>6. CASE type = "lumi" /\ SameLumi(k, first)
  <2>1. first \in 1..n
    BY <1>2, <1>6 DEF SameLumi, TypeAt
  <2>2. PICK c : c = PastLumi(k, first)
    OBVIOUS
  <2>3. c \in first..(n + 1) /\ ~SameLumi(k, c) /\ \A m \in first..(c - 1) : SameLumi(k, m)
    BY <1>2, <2>1, <2>2, PastFacts
  <2>4. Found(k).pos = c /\ TypeAt(c) = "event"
    BY <1>5, <1>6, <2>2
  <2>5. c # first /\ c \in 2..n /\ Items[c].type = "event" /\ c - 1 \in first..(c - 1)
    <3>1. c \in 1..n /\ Items[c].type = "event"
      BY <1>2, <2>4 DEF TypeAt
    <3>2. c # first
      BY <1>6, <2>3
    <3> QED BY <1>2, <2>1, <2>3, <3>1, <3>2
  <2>6. SameNumbers(c, c - 1) /\ SameLumi(k, c - 1)
    BY <1>2, <2>3, <2>5, EventFollows
  <2> QED BY <2>4, <2>6 DEF SameNumbers, SameLumi
<1>7. CASE ~(type = "lumi" /\ SameLumi(k, first))
  <2>1. Found(k).pos = first /\ TypeAt(first) = "event"
    BY <1>4, <1>5, <1>7
  <2>2. ~lumi[k].continuing /\ first = After(pos)
    BY <1>1, <1>3, <2>1 DEF Fresh
  <2>3. PICK p \in Nat : p = pos
    BY <1>1, <1>2 DEF TypeOK
  <2>4. AtLumi(k)
    BY <1>1, <2>2 DEF Synced, Asking
  <2>5. p \in 1..n
    BY <1>2, <2>3, <2>4 DEF AtLumi, TypeAt
  <2>6. first = p + 1
    BY <1>2, <2>2, <2>3, <2>5 DEF After
  <2>7. first \in 2..n /\ Items[first].type = "event" /\ first - 1 = p
    BY <1>2, <2>1, <2>5, <2>6 DEF TypeAt
  <2>8. SameNumbers(first, first - 1)
    BY <1>2, <2>7, EventFollows
  <2> QED BY <2>1, <2>3, <2>4, <2>7, <2>8 DEF AtLumi, SameNumbers
<1> QED BY <1>6, <1>7

(* A step that leaves the source where it is; a lumi that is read is there. *)
LEMMA SyncedStep ==
    ASSUME Synced, UNCHANGED pos, main'.pc = "lumis" => main.pc = "lumis",
           \A j \in Lumis : Asking(j)' => \/ Asking(j) /\ lumi'[j].item = lumi[j].item
                                          \/ lumi'[j].item = pos /\ TypeAt(pos) = "lumi"
    PROVE  Synced'
<1> SUFFICES ASSUME main'.pc = "lumis", NEW j \in Lumis, Asking(j)' PROVE AtLumi(j)'
  BY DEF Synced, At
<1>1. TypeAt(pos)' = TypeAt(pos)
  BY DEF TypeAt
<1>2. CASE Asking(j) /\ lumi'[j].item = lumi[j].item
  <2>1. AtLumi(j)
    BY <1>2 DEF Synced, At
  <2> QED BY <1>1, <1>2, <2>1 DEF AtLumi, SameNumbers
<1>3. CASE lumi'[j].item = pos /\ TypeAt(pos) = "lumi"
  BY <1>1, <1>3 DEF AtLumi, SameNumbers
<1> QED BY <1>2, <1>3


(* What main does: it waits for the streams only after it has begun a lumi *)
(* or told one to go on.                                                   *)
LEMMA MainSyncs ==
    ASSUME IInv, Main
    PROVE  Synced'
<1>1. TypeOK /\ Statused /\ Quiet /\ Parked /\ main.then \in {"file", "run", "leave"}
  BY DEF IInv, Statused, Scheduled, TypeOK, MainStates
<1>2. CASE ~GotoLumi
  <2>1. main'.pc # "lumis"
    <3>1. CASE CloseInput \/ CloseOutput \/ ReadFile \/ OpenOutput \/ LeaveFiles \/ CloseFiles \/ EndJob
      BY <1>1, <3>1, FilesFlow DEF Filing, Thrown
    <3>2. CASE ~(CloseInput \/ CloseOutput \/ ReadFile \/ OpenOutput \/ LeaveFiles \/ CloseFiles \/ EndJob)
      BY <1>1, <1>2, <3>2, MainFlow DEF Main, Thrown
    <3> QED BY <3>1, <3>2
  <2> QED BY <2>1 DEF Synced, At
<1>3. CASE GotoLumi
  <2> SUFFICES ASSUME NEW j \in Lumis, Asking(j)' PROVE FALSE
    BY DEF Synced
  <2>1. Chosen("lumi") /\ ~Held /\ Together
    BY <1>1, <1>3 DEF GotoLumi, Quiet, Parked, Chosen, At
  <2>2. Resembles(lumi'[j], j) \/ Starts(j, run.id)
    BY <1>1, <1>3, GotoLumiStarts
  <2>3. Alive(j)
    BY <2>2 DEF Resembles, Starts, Asking, Alive
  <2>4. PICK s \in Streams : Within(s, j)
    BY <1>1, <2>1, <2>3, OpenFacts
  <2>5. active > 0
    <3>1. PICK A : A = {p \in Streams : stream[p].lumi # 0}
      OBVIOUS
    <3>2. s \in A /\ IsFiniteSet(A)
      BY <2>4, <3>1, Finite, FS_Subset DEF Within
    <3>3. Cardinality(A) # 0
      BY <3>2, FS_EmptySet
    <3>4. active = Cardinality(A) /\ active \in 0..NumberOfStreams
      BY <1>1, <3>1 DEF Statused, Occupied, TypeOK
    <3> QED BY <3>3, <3>4, CountsAssumption
  <2>6. j = stream[1].lumi
    <3>1. active # 0
      BY <1>1, <2>5, CountsAssumption DEF TypeOK
    <3>2. Within(s, stream[1].lumi)
      BY <2>1, <3>1 DEF Together
    <3> QED BY <2>4, <3>2 DEF Within
  <2>7. lumi' = [lumi EXCEPT ![j].continuing = TRUE, ![j].stop = FALSE]
    BY <1>3, <2>5, <2>6 DEF GotoLumi
  <2>8. lumi'[j].continuing
    BY <1>1, <2>7 DEF TypeOK, Statuses
  <2> QED BY <2>8 DEF Asking
<1> QED BY <1>2, <1>3

(* What the streams do: only one whose lumi may have events moves the      *)
(* source on, and of the other lumis none may be given events then.        *)
LEMMA NextEventSyncs ==
    ASSUME IInv, Synced, NEW s \in Streams, NextEvent(s)
    PROVE  Synced'
<1>1. /\ stream[s].at = "next" /\ TypeOK /\ Phased /\ lumi \in [Lumis -> Statuses] /\ UNCHANGED main
      /\ \A i \in Lumis : Resembles(lumi[i], i)
  BY DEF NextEvent, IInv, Statused, TypeOK, Resembles, mainVars
<1>2. PICK k \in Lumis : k = stream[s].lumi
  BY <1>1, AskFacts
<1>3. CASE UNCHANGED <<pos, lumi>>
  BY <1>1, <1>3, SyncedStep DEF Asking
<1>4. CASE (full \/ deferred \/ lumi[k].stop) /\ StopStream(s, lumi) /\ UNCHANGED pos
  <2>1. \A j \in Lumis : \/ /\ Resembles(lumi'[j], j)
                            /\ lumi'[j].stop = lumi[j].stop /\ lumi'[j].continuing = lumi[j].continuing
                         \/ Starts(j, lumi[stream[s].lumi].run)
    BY <1>1, <1>2, <1>4, StopStreamStarts
  <2>2. \A j \in Lumis : Asking(j)' => Asking(j) /\ lumi'[j].item = lumi[j].item
    BY <2>1 DEF Resembles, Starts, Asking
  <2> QED BY <1>1, <1>4, <2>2, SyncedStep
<1>5. CASE /\ ~(full \/ deferred \/ lumi[k].stop)
           /\ pos' = Found(k).pos
           /\ IF Found(k).type = "event" THEN ReadEvent(s, Noted(k, Found(k))) ELSE StopStream(s, Noted(k, Found(k)))
  <2>1. Found(k).pos \in Nat
    <3>1. 1 <= pos
      BY <1>1, AskFacts
    <3>2. lumi[k].continuing => Fresh
      BY <1>1, <1>2, <1>5, AskAlone
    <3>3. Found(k).pos \in 1..(Len(Items) + 1)
      BY <1>1, <3>1, <3>2, FoundFacts
    <3> QED BY <3>3, ItemFacts
  <2>2. PICK f : f = Found(k) /\ f.pos \in Nat
    BY <2>1
  <2>3. PICK S : S = Noted(k, f)
    OBVIOUS
  <2>4. /\ S \in [Lumis -> Statuses] /\ \A i \in Lumis : Resembles(S[i], i)
        /\ S[k].stop = (f.type # "event") /\ \A i \in Lumis : i # k => S[i] = lumi[i]
    BY <1>1, <2>2, <2>3, NotedResembles
  <2>5. \A j \in Lumis : \/ Resembles(lumi'[j], j) /\ lumi'[j].stop = S[j].stop
                         \/ Starts(j, lumi[stream[s].lumi].run)
    <3>1. CASE lumi' = S
      BY <2>4, <3>1
    <3>2. CASE StopStream(s, S)
      BY <1>2, <2>4, <3>2, StopStreamStarts
    <3> QED BY <1>5, <2>2, <2>3, <3>1, <3>2 DEF ReadEvent
  <2>6. SUFFICES ASSUME NEW j \in Lumis, Asking(j)' PROVE AtLumi(j)'
    BY DEF Synced
  <2>7. Resembles(lumi'[j], j) /\ ~S[j].stop
    BY <2>5, <2>6 DEF Starts, Asking
  <2>8. CASE j = k
    <3>1. f.type = "event"
      BY <2>4, <2>7, <2>8
    <3>2. TypeAt(f.pos) = "event" /\ SameNumbers(f.pos, lumi[k].item)
      BY <1>1, <1>2, <1>5, <2>2, <3>1, EventFound
    <3>3. pos' = f.pos /\ lumi'[k].item = lumi[k].item
      BY <1>5, <2>2, <2>7, <2>8 DEF Resembles
    <3> QED BY <2>8, <3>2, <3>3 DEF AtLumi, SameNumbers, TypeAt
  <2>9. CASE j # k
    <3>1. Alive(j)
      BY <2>6, <2>7 DEF Resembles, Asking, Alive
    <3>2. lumi[j].ending
      BY <1>1, <1>2, <1>5, <2>9, <3>1, AskAlone
    <3>3. lumi[j].stop
      BY <1>1, <3>2 DEF Phased
    <3> QED BY <2>4, <2>7, <2>9, <3>3
  <2> QED BY <2>8, <2>9
<1> QED BY <1>2, <1>3, <1>4, <1>5 DEF NextEvent, sourceVars

(* The other steps leave the source alone.                                 *)
LEMMA OthersSync ==
    ASSUME IInv, Synced,
           \/ \E k \in Lumis : Lumi(k)
           \/ \E s \in Streams : Stream(s) /\ ~NextEvent(s)
           \/ Functor \/ Signal
    PROVE  Synced'
<1>1. TypeOK /\ Statused /\ Phased /\ Ordered /\ lumi \in [Lumis -> Statuses]
  BY DEF IInv, Statused, TypeOK
<1>2. UNCHANGED <<pos, main>>
  BY DEF Lumi, ChangeIov, LumiWork, ReadLumi, GlobalBegun, PushBegin, GlobalEnded, ReleaseIov, ReleasePrincipal,
         ReleaseSlot, ReleaseRun, Stream, BeginStream, StreamBegun, EventDone, StreamEnded,
         Functor, StreamFinished, StreamReports, FunctorReturns, Signal, sourceVars, mainVars
<1>3. CASE UNCHANGED lumi
  BY <1>2, <1>3, SyncedStep DEF Asking
<1>4. ASSUME NEW k \in Lumis, PushBegin(k) PROVE Synced'
  <2>1. PICK s \in Streams : s = lumi[k].toPush
    BY <1>4, PushFacts DEF IInv, Statused
  <2>2. /\ lumi'[k] = [lumi[k] EXCEPT !.toPush = s + 1, !.phase = IF s = NumberOfStreams THEN "open" ELSE "pushing"]
        /\ lumi[k].phase = "pushing" /\ \A j \in Lumis : j # k => lumi'[j] = lumi[j]
    BY <1>1, <1>4, <2>1, PushFacts DEF Becomes, Statused
  <2>3. lumi'[k].item = lumi[k].item /\ lumi'[k].stop = lumi[k].stop /\ lumi'[k].continuing = lumi[k].continuing
    BY <1>1, <2>2 DEF Statuses
  <2>4. \A j \in Lumis : Asking(j)' => Asking(j) /\ lumi'[j].item = lumi[j].item
    BY <2>2, <2>3 DEF Asking
  <2> QED BY <1>2, <2>4, SyncedStep
<1>5. ASSUME NEW k \in Lumis, Lumi(k), ~PushBegin(k) PROVE Synced'
  <2>1. \/ ChangeIov(k) \/ LumiWork(k) \/ ReadLumi(k) \/ GlobalBegun(k) \/ GlobalEnded(k)
        \/ ReleaseIov(k) \/ ReleasePrincipal(k) \/ ReleaseSlot(k) \/ ReleaseRun(k)
    BY <1>5 DEF Lumi
  <2>2. PICK a \in Phases, b \in Phases : PhaseStep(k, a, b)
    BY <1>1, <2>1, PhaseSteps
  <2>3. /\ <<a, b>> \in Transitions /\ lumi[k].phase = a /\ lumi'[k].phase = b
        /\ lumi'[k].stop = lumi[k].stop /\ lumi'[k].continuing = lumi[k].continuing
        /\ lumi'[k].item = IF b = "globalBegin" THEN pos ELSE lumi[k].item
        /\ \A j \in Lumis : j # k => lumi'[j] = lumi[j]
    BY <2>2 DEF PhaseStep
  <2>4. a = "source" => TypeAt(pos) = "lumi"
    <3> HAVE a = "source"
    <3>1. pos = lumi[k].sync /\ Begins(k)
      BY <1>1, <2>3 DEF Phased, Ordered, Unread, Made
    <3> QED BY <3>1, ItemFacts DEF Begins, TypeAt
  <2>5. \A j \in Lumis : Asking(j)' => \/ Asking(j) /\ lumi'[j].item = lumi[j].item
                                       \/ lumi'[j].item = pos /\ TypeAt(pos) = "lumi"
    BY <2>3, <2>4 DEF Asking, Transitions
  <2> QED BY <1>2, <2>5, SyncedStep
<1>6. ASSUME NEW l \in locals, StreamFinished(l) PROVE Synced'
  <2>1. PICK k \in Lumis, isLast \in BOOLEAN :
            /\ lumi[k] \in Statuses
            /\ Becomes(k, [lumi[k] EXCEPT !.left = lumi[k].left - 1,
                                          !.phase = IF isLast THEN "globalEnd" ELSE lumi[k].phase])
    <3>1. PICK k, isLast : k = l.lumi /\ isLast = (lumi[k].left = 1)
      OBVIOUS
    <3> QED BY <1>1, <1>6, <3>1, CountFacts
  <2>2. /\ lumi'[k].phase = IF isLast THEN "globalEnd" ELSE lumi[k].phase
        /\ lumi'[k].stop = lumi[k].stop /\ lumi'[k].continuing = lumi[k].continuing
        /\ lumi'[k].item = lumi[k].item /\ \A i \in Lumis : i # k => lumi'[i] = lumi[i]
    BY <2>1 DEF Becomes, Statuses
  <2>3. \A j \in Lumis : Asking(j)' => Asking(j) /\ lumi'[j].item = lumi[j].item
    BY <2>2 DEF Asking
  <2> QED BY <1>2, <2>3, SyncedStep
<1>7. ASSUME NEW s \in Streams, Stream(s), ~NextEvent(s) PROVE UNCHANGED lumi
  BY <1>7 DEF Stream, BeginStream, StreamBegun, EventDone, StreamEnded
<1>8. Signal => UNCHANGED lumi
  BY DEF Signal
<1>9. \A l \in locals : StreamReports(l) \/ FunctorReturns(l) => UNCHANGED lumi
  BY DEF StreamReports, FunctorReturns
<1> QED BY <1>3, <1>4, <1>5, <1>6, <1>7, <1>8, <1>9 DEF Functor

(* The lumi that is read is the one it was begun for, and a stream is      *)
(* given events of its own lumi only.                                      *)
THEOREM EventsAlwaysInTheirLumi == Spec => EventsInTheirLumi
<1>1. Init => Synced
  BY DEF Init, Synced, At
<1>2. Inv /\ Synced /\ [Next]_vars => Synced'
  <2> SUFFICES ASSUME Inv, Synced, [Next]_vars PROVE Synced'
    OBVIOUS
  <2>1. IInv
    BY DEF Inv
  <2>2. CASE UNCHANGED vars
    <3>1. UNCHANGED <<pos, main, lumi>>
      BY <2>2 DEF vars, mainVars, sourceVars
    <3> QED BY <3>1, SyncedStep DEF Asking
  <2>3. CASE Main
    BY <2>1, <2>3, MainSyncs
  <2>4. CASE \E s \in Streams : NextEvent(s)
    BY <2>1, <2>4, NextEventSyncs
  <2>5. CASE Signal \/ Functor \/ (\E k \in Lumis : Lumi(k)) \/ \E s \in Streams : Stream(s) /\ ~NextEvent(s)
    BY <2>1, <2>5, OthersSync
  <2> QED BY <2>2, <2>3, <2>4, <2>5 DEF Next
<1>3. Inv' => \A k \in Lumis : lumi'[k].item # 0 => lumi'[k].item = lumi'[k].sync
  BY DEF Inv, IInv, Statused, Phased
<1>4. ASSUME Inv, Synced, Next, NEW s \in Streams, stream[s].at = "next", stream'[s].at = "event"
      PROVE  SameNumbers(pos', lumi[stream[s].lumi].item)
  <2>1. IInv /\ TypeOK /\ stream \in [Streams -> StreamStates]
    BY <1>4 DEF Inv, IInv, Statused, TypeOK
  <2>2. NextEvent(s)
    <3>1. CASE Main
      <4>1. CASE GotoLumi \/ EndUnfinishedLumi
        <5>1. \A p \in Streams, r \in {"next", "end"} : [stream[p] EXCEPT !.at = r].at = r
          BY <2>1 DEF StreamStates
        <5> QED BY <1>4, <4>1, <5>1 DEF GotoLumi, EndUnfinishedLumi
      <4>2. CASE ~(GotoLumi \/ EndUnfinishedLumi)
        <5>1. UNCHANGED stream
          BY <3>1, <4>2 DEF Main, Ask, GotoFile, GotoRun, LumisDone, Finish, UnfinishedLumiEnded, CloseRun,
                            NewRun, ReadRun, BeginRun, CloseInput, CloseOutput, ReadFile, OpenOutput, FileStep,
                            LeaveFiles, CloseFiles, EndJob, rest
        <5> QED BY <1>4, <5>1
      <4> QED BY <4>1, <4>2
    <3>2. CASE Signal \/ Functor
      BY <1>4, <3>2 DEF Signal, Functor, StreamFinished, StreamReports, FunctorReturns
    <3>3. ASSUME NEW k \in Lumis, Lumi(k) PROVE FALSE
      <4>1. CASE PushBegin(k)
        <5>1. stream' = [stream EXCEPT ![lumi[k].toPush].queue = Append(@, k)]
          BY <4>1 DEF PushBegin
        <5>2. stream'[s].at = stream[s].at
          BY <2>1, <5>1 DEF StreamStates
        <5> QED BY <1>4, <5>2
      <4>2. CASE ~PushBegin(k)
        BY <1>4, <3>3, <4>2 DEF Lumi, ChangeIov, LumiWork, ReadLumi, GlobalBegun, GlobalEnded, ReleaseIov,
                                ReleasePrincipal, ReleaseSlot, ReleaseRun
      <4> QED BY <4>1, <4>2
    <3>4. ASSUME NEW p \in Streams, Stream(p), ~NextEvent(s) PROVE FALSE
      <4>1. p = s
        <5> SUFFICES ASSUME p # s PROVE stream'[s] = stream[s]
          BY <1>4
        <5> QED BY <2>1, <3>4 DEF Stream, BeginStream, StreamBegun, EventDone, StreamEnded, NextEvent, StopStream, ReadEvent
      <4>2. ~StreamBegun(s) /\ ~EventDone(s) /\ ~StreamEnded(s)
        BY <1>4 DEF StreamBegun, EventDone, StreamEnded
      <4>3. BeginStream(s)
        BY <3>4, <4>1, <4>2 DEF Stream
      <4>4. stream'[s].at = "begin"
        BY <2>1, <4>3 DEF BeginStream, StreamStates
      <4> QED BY <1>4, <4>4
    <3> QED BY <1>4, <3>1, <3>2, <3>3, <3>4 DEF Next
  <2>3. PICK k \in Lumis : k = stream[s].lumi
    BY <1>4, <2>1, AskFacts
  <2>4. /\ ~(full \/ deferred \/ lumi[k].stop) /\ pos' = Found(k).pos /\ Found(k).type = "event"
    <3>1. \A S : StopStream(s, S) => stream'[s].at # "event"
      <4>1. \A a \in {"end", "stopped"} : [stream EXCEPT ![s].at = a][s].at = a
        BY <2>1 DEF StreamStates
      <4> QED BY <4>1 DEF StopStream
    <3>2. stream' = [stream EXCEPT ![s].at = "stopped"] => stream'[s].at # "event"
      BY <2>1 DEF StreamStates
    <3> QED BY <1>4, <2>2, <2>3, <3>1, <3>2 DEF NextEvent
  <2> QED BY <1>4, <2>1, <2>3, <2>4, EventFound
<1>5. Inv /\ Inv' /\ Synced /\ [Next]_vars
        => [/\ \A k \in Lumis : lumi'[k].item # 0 => lumi'[k].item = lumi'[k].sync
            /\ \A s \in Streams : stream[s].at = "next" /\ stream'[s].at = "event"
                => /\ Items[pos'].run = Items[lumi[stream[s].lumi].item].run
                   /\ Items[pos'].lumi = Items[lumi[stream[s].lumi].item].lumi]_vars
  BY <1>3, <1>4 DEF SameNumbers
<1> QED BY <1>1, <1>2, <1>5, InvariantHolds, PTL DEF Spec, EventsInTheirLumi


-----------------------------------------------------------------------------
(* Principals.  No functor keeps one if none that begins a lumi for a      *)
(* stream is late to return; then a lumi has one only while it has a slot. *)
NoneKept == \A l \in locals : l.holds # "principal"

(* Only the begin of a stream makes a copy of a principal.                 *)
LEMMA NoneKeptStep ==
    ASSUME "begin" \notin Slow, TypeOK, NoneKept, [Next]_vars
    PROVE  NoneKept'
<1>1. locals \subseteq Copies
  BY DEF TypeOK
<1>2. CASE UNCHANGED locals
  BY <1>2 DEF NoneKept
<1>3. ASSUME NEW s \in Streams, BeginStream(s) PROVE NoneKept'
  BY <1>3 DEF BeginStream, NoneKept
<1>4. ASSUME NEW s \in Streams, StreamEnded(s) PROVE NoneKept'
  BY <1>4 DEF StreamEnded, Local, NoneKept
<1>5. ASSUME NEW l \in locals, StreamFinished(l) \/ StreamReports(l) \/ FunctorReturns(l) PROVE NoneKept'
  <2>1. \A holds \in {"report", "reportLast", "status"} : \A m \in Replace(l, holds) : m \in locals \/ m.holds = holds
    BY <1>1 DEF Replace, Copies
  <2>2. \A m \in locals' : m \in locals \/ m.holds \in {"report", "reportLast", "status"}
    BY <1>5, <2>1 DEF StreamFinished, StreamReports, FunctorReturns, Return
  <2> QED BY <2>2 DEF NoneKept
<1>6. ASSUME NEW s \in Streams, StreamBegun(s) \/ NextEvent(s) \/ EventDone(s) PROVE UNCHANGED locals
  BY <1>6 DEF StreamBegun, NextEvent, EventDone
<1>7. ASSUME NEW k \in Lumis, Lumi(k) PROVE UNCHANGED locals
  BY <1>7 DEF Lumi, ChangeIov, LumiWork, ReadLumi, GlobalBegun, PushBegin, GlobalEnded, ReleaseIov, ReleasePrincipal,
              ReleaseSlot, ReleaseRun
<1>8. Main => UNCHANGED locals
  BY DEF Main, Ask, GotoFile, GotoRun, GotoLumi, LumisDone, Finish, EndUnfinishedLumi, UnfinishedLumiEnded, CloseRun,
         NewRun, ReadRun, BeginRun, CloseInput, CloseOutput, ReadFile, OpenOutput, FileStep, LeaveFiles,
         CloseFiles, EndJob, rest
<1>9. Signal \/ UNCHANGED vars => UNCHANGED locals
  BY DEF Signal, vars
<1> QED BY <1>2, <1>3, <1>4, <1>5, <1>6, <1>7, <1>8, <1>9 DEF Next, Stream, Functor

(* A lumi that may be read finds a principal, unless a functor is late.    *)
THEOREM PrincipalAlwaysAvailable == "begin" \notin Slow => (Spec => []PrincipalAvailable)
<1> SUFFICES ASSUME "begin" \notin Slow PROVE Spec => []PrincipalAvailable
  OBVIOUS
<1>1. Init => NoneKept
  BY DEF Init, NoneKept
<1>2. TypeOK /\ NoneKept /\ [Next]_vars => NoneKept'
  BY NoneKeptStep
<1>3. Inv /\ NoneKept => PrincipalAvailable
  <2> SUFFICES ASSUME Inv, NoneKept, NEW k \in Lumis, lumi[k].phase = "source"
               PROVE  Cardinality({j \in Lumis : HoldsPrincipal(j)}) < ConcurrentLumis
    BY DEF PrincipalAvailable, Inv, IInv, Statused
  <2>1. TypeOK /\ Slots
    BY DEF Inv, IInv, Statused
  <2>2. PICK S, H : S = {j \in Lumis : lumi[j].phase \in Slotted} /\ H = {j \in Lumis : HoldsPrincipal(j)}
    OBVIOUS
  <2>3. k \in S /\ k \notin H /\ H \subseteq S
    BY <2>2 DEF HoldsPrincipal, NoneKept, Slotted
  <2>4. IsFiniteSet(S) /\ IsFiniteSet(H)
    BY <2>2, Finite, FS_Subset
  <2>5. IsFiniteSet(H \cup {k}) /\ Cardinality(H \cup {k}) = Cardinality(H) + 1
    BY <2>3, <2>4, FS_AddElement
  <2>6. Cardinality(H \cup {k}) <= Cardinality(S)
    BY <2>3, <2>4, FS_Subset
  <2>7. Cardinality(S) <= ConcurrentLumis /\ Cardinality(S) \in Nat /\ Cardinality(H) \in Nat
    BY <2>1, <2>2, <2>4, FS_CardinalityType, CountsAssumption DEF Slots, TypeOK
  <2> QED BY <2>2, <2>5, <2>6, <2>7, CountsAssumption
<1> QED BY <1>1, <1>2, <1>3, InvariantHolds, Types, PTL DEF Spec

-----------------------------------------------------------------------------
(* The end of the job, if no functor is late: a functor that has not yet   *)
(* returned is one that main waits for.                                    *)
NoneLate == \A l \in locals : l.holds \in {"finish", "report", "reportLast"}

(* Main's run is an item of the source, and the one in the cache unless    *)
(* the end of a run has thrown.                                            *)
RunNumbered == run.id # 0 => run.id \in 1..Len(Items) /\ run.number = Items[run.id].run
RunLeaves ==
    /\ cached # 0 => lost \/ (run.id = cached /\ main.pc # "readRun")
    /\ main.pc \in {"closeFiles", "end", "done"} => run.id = 0
    /\ main.outcome = "illegalRun" => lost

FilesClosed ==
    main.pc \in {"end", "done"} /\ (files.input \/ files.output) => files.closed \in {"nobody", "failed"}

(* What has thrown is in the outcome, or on its way there.                 *)
Reporting == \E l \in locals : l.holds # "status" /\ l.error
Waiting == main.pc \in {"lumis", "endWait"}
FailureKnown ==
    main.pc # "done" =>
        /\ main.outcome \in {"none", "exception", "illegalRun"}
        /\ failures # 0 => deferred \/ main.outcome # "none" \/ (Waiting /\ (failed \/ Reporting))

(* Main stops without an exception only when the source has no more.       *)
Exhausted == signalled \/ deferred \/ pos = Len(Items) + 1
Stops == \/ Chosen("stop")
         \/ /\ main.next = "stop" /\ main.outcome = "none"
            /\ \/ main.pc \in {"leave", "closeFiles", "end"}
               \/ main.pc \in {"endLumi", "endWait"} /\ main.then = "leave"
ReadAll ==
    /\ last = "stop" => pos = 0 \/ Exhausted
    /\ At("lumis") => pos # 0
    /\ Stops => Exhausted

Verdict == At("done") /\ main.outcome = "success" => failures = 0 /\ (signalled \/ pos = Len(Items) + 1)

(* A functor returns at once, and then nobody holds its status.            *)
LEMMA NoneLateStep ==
    ASSUME Slow = {}, TypeOK, NoneLate, [Next]_vars
    PROVE  NoneLate'
<1>1. locals \subseteq Copies
  BY DEF TypeOK
<1>2. CASE UNCHANGED locals
  BY <1>2 DEF NoneLate
<1>3. ASSUME NEW s \in Streams, BeginStream(s) PROVE UNCHANGED locals
  BY <1>3 DEF BeginStream
<1>4. ASSUME NEW s \in Streams, StreamEnded(s) PROVE NoneLate'
  BY <1>4 DEF StreamEnded, Local, NoneLate
<1>5. ASSUME NEW l \in locals, StreamFinished(l) \/ StreamReports(l) PROVE NoneLate'
  <2>1. \A holds \in {"report", "reportLast"} : \A m \in Replace(l, holds) : m \in locals \/ m.holds = holds
    BY <1>1 DEF Replace, Copies
  <2>2. \A m \in locals' : m \in locals \/ m.holds \in {"report", "reportLast"}
    BY <1>5, <2>1 DEF StreamFinished, StreamReports
  <2> QED BY <2>2 DEF NoneLate
<1>6. ASSUME NEW l \in locals, FunctorReturns(l) PROVE FALSE
  BY <1>6 DEF FunctorReturns, Return, NoneLate
<1>7. ASSUME NEW s \in Streams, StreamBegun(s) \/ NextEvent(s) \/ EventDone(s) PROVE UNCHANGED locals
  BY <1>7 DEF StreamBegun, NextEvent, EventDone
<1>8. ASSUME NEW k \in Lumis, Lumi(k) PROVE UNCHANGED locals
  BY <1>8 DEF Lumi, ChangeIov, LumiWork, ReadLumi, GlobalBegun, PushBegin, GlobalEnded, ReleaseIov, ReleasePrincipal,
              ReleaseSlot, ReleaseRun
<1>9. Main => UNCHANGED locals
  BY DEF Main, Ask, GotoFile, GotoRun, GotoLumi, LumisDone, Finish, EndUnfinishedLumi, UnfinishedLumiEnded, CloseRun,
         NewRun, ReadRun, BeginRun, CloseInput, CloseOutput, ReadFile, OpenOutput, FileStep, LeaveFiles,
         CloseFiles, EndJob, rest
<1>10. Signal \/ UNCHANGED vars => UNCHANGED locals
  BY DEF Signal, vars
<1> QED BY <1>2, <1>3, <1>4, <1>5, <1>6, <1>7, <1>8, <1>9, <1>10 DEF Next, Stream, Functor

(* While main does not wait, nobody holds a status.                        *)
LEMMA NoneOut ==
    ASSUME TypeOK, NoneLate, ~Held
    PROVE  locals = {}
  BY DEF NoneLate, Held

(* Main waits for everything that is under way.                            *)
LEMMA OthersHeld ==
    ASSUME IInv, NoneLate,
           (\E k \in Lumis : Lumi(k)) \/ (\E s \in Streams : Stream(s)) \/ Functor
    PROVE  Held /\ Waiting
<1>1. ASSUME NEW k \in Lumis, Lumi(k) PROVE Held
  <2>1. lumi[k].phase \notin {"none", "done", "dropped", "open"}
    BY <1>1 DEF Lumi, ChangeIov, LumiWork, ReadLumi, GlobalBegun, PushBegin, GlobalEnded, ReleaseIov, ReleasePrincipal,
                ReleaseSlot, ReleaseRun
  <2> QED BY <2>1 DEF Held, Alive
<1>2. ASSUME NEW s \in Streams, Stream(s) PROVE Held
  BY <1>2 DEF Stream, BeginStream, StreamBegun, NextEvent, EventDone, StreamEnded, Held
<1>3. Functor => Held
  BY DEF Functor, NoneLate, Held
<1>4. Held
  BY <1>1, <1>2, <1>3
<1> QED BY <1>4 DEF IInv, Scheduled, Quiet, Waiting

(* What the other threads do leaves the main thread and its runs alone.    *)
LEMMA OthersLeave ==
    ASSUME NoneLate, (\E k \in Lumis : Lumi(k)) \/ (\E s \in Streams : Stream(s)) \/ Functor \/ Signal
    PROVE  UNCHANGED mainVars
<1>1. ASSUME NEW k \in Lumis, Lumi(k) PROVE UNCHANGED mainVars
  BY <1>1 DEF Lumi, ChangeIov, LumiWork, ReadLumi, GlobalBegun, PushBegin, GlobalEnded, ReleaseIov, ReleasePrincipal,
              ReleaseSlot, ReleaseRun
<1>2. ASSUME NEW s \in Streams, Stream(s) PROVE UNCHANGED mainVars
  BY <1>2 DEF Stream, BeginStream, StreamBegun, NextEvent, EventDone, StreamEnded
<1>3. Functor => UNCHANGED mainVars
  BY DEF Functor, StreamFinished, StreamReports, FunctorReturns, Return, NoneLate
<1> QED BY <1>1, <1>2, <1>3 DEF Signal


(* When main lets go of its run and nobody else has it, the cache is empty *)
(* or an end has thrown.                                                   *)
LEMMA LeaveRunEnds ==
    ASSUME TypeOK, RunNumbered, RunLeaves, \A k \in Lumis : ~Alive(k), locals = {}, LeaveRun
    PROVE  (cached' # 0 => lost') /\ (lost => lost')
<1>1. lost \in BOOLEAN /\ cached \in 1..Len(Items) \cup {0}
  BY ItemFacts DEF TypeOK
<1>2. CASE run.id = 0
  BY <1>2 DEF LeaveRun, RunLeaves
<1>3. CASE run.id # 0
  <2>1. ~Kept(run.id, locals)
    BY DEF Kept
  <2>2. RunEnds(run.number)
    BY <1>3, <2>1 DEF LeaveRun
  <2>3. run.number = Items[run.id].run
    BY <1>3 DEF RunNumbered
  <2>4. CASE cached = 0
    BY <2>2, <2>4 DEF RunEnds
  <2>5. CASE cached # 0 /\ Items[cached].run # run.number
    <3>1. UNCHANGED <<cached, lost>>
      BY <2>2, <2>5 DEF RunEnds
    <3>2. lost
      BY <2>3, <2>5 DEF RunLeaves
    <3> QED BY <3>1, <3>2
  <2>6. CASE cached # 0 /\ Items[cached].run = run.number
    <3>1. (cached' = 0 /\ UNCHANGED lost) \/ lost' = TRUE
      BY <2>2, <2>6 DEF RunEnds
    <3> QED BY <3>1
  <2> QED BY <2>4, <2>5, <2>6
<1> QED BY <1>2, <1>3

(* The outcome of main's steps.                                            *)
LEMMA Outcomes ==
    ASSUME IInv, Main, ~EndJob
    PROVE  /\ UNCHANGED main.outcome \/ main'.outcome = "exception" \/ (ReadRun /\ cached # 0)
           /\ main'.outcome \in {main.outcome, "exception", "illegalRun"}
<1>1. TypeOK
  BY DEF IInv, Statused
<1>2. \A pc \in MainPlaces : Goto(pc) => UNCHANGED main.outcome
  BY <1>1, Gotos DEF Goto
<1>3. \A then \in {"file", "run", "leave"} : EndLumiThen(then) => UNCHANGED main.outcome
  BY <1>1, EndsLumis
<1>4. \A what \in {"exception", "illegalRun"} : Throw(what) => main'.outcome = what
  BY <1>1, Throws
<1>5. \A t : main' = [main EXCEPT !.pc = "choose", !.next = t] => UNCHANGED main.outcome
  BY <1>1 DEF TypeOK, MainStates
<1>6. Ask \/ LumisDone => UNCHANGED main.outcome \/ main'.outcome = "exception"
  BY <1>4, <1>5 DEF Ask, LumisDone
<1>7. GotoFile \/ Finish => UNCHANGED main.outcome
  BY <1>2, <1>3 DEF GotoFile, Finish, MainPlaces
<1>8. GotoRun => UNCHANGED main.outcome \/ main'.outcome = "exception"
  BY <1>2, <1>3, <1>4 DEF GotoRun, MainPlaces
<1>9. GotoLumi \/ EndUnfinishedLumi \/ CloseRun \/ NewRun \/ LeaveFiles \/ CloseFiles => UNCHANGED main.outcome
  BY <1>2 DEF GotoLumi, EndUnfinishedLumi, CloseRun, NewRun, LeaveFiles, CloseFiles, MainPlaces
<1>10. UnfinishedLumiEnded => UNCHANGED main.outcome
  <2>1. PICK t \in {"file", "run", "leave"} : t = main.then
    BY <1>1 DEF TypeOK, MainStates
  <2> QED BY <1>2, <2>1 DEF UnfinishedLumiEnded, MainPlaces
<1>11. ReadRun => UNCHANGED main.outcome \/ main'.outcome = "exception" \/ (cached # 0 /\ main'.outcome = "illegalRun")
  BY <1>2, <1>4 DEF ReadRun, MainPlaces
<1>12. BeginRun => UNCHANGED main.outcome \/ main'.outcome = "exception"
  BY <1>2, <1>4 DEF BeginRun, MainPlaces
<1>13. \A from, transition, done : \A to \in MainPlaces :
          FileStep(from, transition, done, to) => UNCHANGED main.outcome \/ main'.outcome = "exception"
  BY <1>2, <1>4 DEF FileStep
<1>14. CloseInput \/ CloseOutput \/ OpenOutput => UNCHANGED main.outcome \/ main'.outcome = "exception"
  BY <1>13 DEF CloseInput, CloseOutput, OpenOutput, MainPlaces
<1>15. ReadFile => UNCHANGED main.outcome \/ main'.outcome = "exception"
  BY <1>13 DEF ReadFile, MainPlaces
<1> QED BY <1>6, <1>7, <1>8, <1>9, <1>10, <1>11, <1>12, <1>14, <1>15 DEF Main


(* The job ends with what main has noted, or as the source has ended.      *)
LEMMA Ends ==
    ASSUME TypeOK, EndJob
    PROVE  /\ main'.outcome = IF main.outcome # "none" THEN main.outcome
                              ELSE IF deferred THEN "exception"
                              ELSE IF main.next = "stop" THEN "success" ELSE "badTransition"
           /\ main.pc = "end" /\ main'.pc = "done"
<1>1. PICK o : o = Outcome
  OBVIOUS
<1>2. main' = [main EXCEPT !.pc = "done", !.outcome = o] /\ main.pc = "end"
  BY <1>1 DEF EndJob, At
<1>3. main'.outcome = o /\ main'.pc = "done"
  BY <1>2 DEF TypeOK, MainStates
<1>4. o = IF main.outcome # "none" THEN main.outcome
          ELSE IF deferred THEN "exception"
          ELSE IF main.next = "stop" THEN "success" ELSE "badTransition"
  BY <1>1 DEF Outcome
<1> QED BY <1>2, <1>3, <1>4

(* Main's run is always one of the source's, and leaves the cache with it. *)
LEMMA MainLeaves ==
    ASSUME IInv, RunInv, NoneLate, RunNumbered, RunLeaves, Main
    PROVE  RunNumbered' /\ RunLeaves'
<1>1. TypeOK /\ Quiet /\ Ended /\ AtSource /\ InRun /\ NoneAtRun
  BY DEF IInv, Statused, Scheduled, RunInv, Routed, InItsRun
<1>2. CASE /\ UNCHANGED <<run, cached, lost>> /\ main'.pc # "readRun"
           /\ main'.pc \in {"closeFiles", "end", "done"} => main.pc \in {"closeFiles", "end", "done"}
           /\ main'.outcome = "illegalRun" => main.outcome = "illegalRun"
  BY <1>2 DEF RunNumbered, RunLeaves
<1>3. CASE CloseRun \/ NewRun \/ LeaveFiles
  <2>1. main.pc \in {"file", "run", "leave"}
    BY <1>1, <1>3, MainFlow, FilesFlow
  <2>2. locals = {} /\ \A k \in Lumis : ~Alive(k)
    BY <1>1, <2>1, NoneOut DEF Quiet, Ended, NoneAtRun
  <2>3. main'.outcome \in {main.outcome, "exception"}
    BY <1>3, <2>1, Outcomes DEF Main, EndJob, ReadRun, At
  <2>4. CASE /\ LeaveRun
             /\ \/ run' = NoRun
                \/ /\ run.id' = pos /\ run.number' = Items[pos].run
                   /\ main.pc = "run" /\ main'.pc \notin {"closeFiles", "end", "done"}
    <3>1. (cached' # 0 => lost') /\ (lost => lost')
      BY <1>1, <2>2, <2>4, LeaveRunEnds
    <3>2. main.pc = "run" => pos \in 1..Len(Items)
      BY <1>1, ItemFacts DEF AtSource, TypeAt, Chosen, At
    <3>3. RunNumbered'
      <4>1. CASE run' = NoRun
        BY <4>1 DEF RunNumbered, NoRun
      <4>2. CASE run.id' = pos /\ run.number' = Items[pos].run /\ main.pc = "run"
        BY <3>2, <4>2 DEF RunNumbered
      <4> QED BY <2>4, <4>1, <4>2
    <3>4. main'.pc \in {"closeFiles", "end", "done"} => run.id' = 0
      BY <2>4 DEF NoRun
    <3> QED BY <2>3, <3>1, <3>3, <3>4 DEF RunLeaves
  <2>5. CASE CloseRun \/ LeaveFiles
    BY <2>4, <2>5 DEF CloseRun, LeaveFiles
  <2>6. CASE NewRun
    <3>1. CASE run.id # 0 /\ LastTransition = "stop"
      <4>1. Goto("ask") /\ UNCHANGED <<run, cached, lost>>
        BY <2>6, <3>1 DEF NewRun
      <4>2. main'.pc = "ask"
        BY <1>1, <4>1, Gotos DEF Goto, MainPlaces
      <4> QED BY <1>2, <2>3, <4>1, <4>2
    <3>2. CASE ~(run.id # 0 /\ LastTransition = "stop")
      <4>1. run' = [id |-> pos, number |-> Items[pos].run] /\ LeaveRun /\ main.pc = "run"
        BY <2>6, <3>2 DEF NewRun, At
      <4>2. main'.pc \in {"ask", "readRun"}
        BY <1>1, <2>6, MainFlow
      <4> QED BY <2>4, <4>1, <4>2
    <3> QED BY <3>1, <3>2
  <2> QED BY <1>3, <2>5, <2>6
<1>4. CASE ReadRun
  <2>1. main.pc = "readRun" /\ UNCHANGED <<run, lost>> /\ main'.pc \notin {"readRun", "closeFiles", "end", "done"}
    BY <1>1, <1>4, MainFlow DEF ReadRun, Thrown
  <2>2. run.id = pos
    BY <1>1, <2>1 DEF InRun
  <2>3. CASE cached # 0
    <3>1. lost /\ lost'
      BY <2>1, <2>3 DEF RunLeaves
    <3> QED BY <2>1, <3>1 DEF RunNumbered, RunLeaves
  <2>4. CASE cached = 0
    <3>1. cached' \in {0, pos}
      BY <1>4, <2>4 DEF ReadRun
    <3>2. main'.outcome \in {main.outcome, "exception"}
      BY <1>4, <2>1, <2>4, Outcomes DEF EndJob, At
    <3> QED BY <2>1, <2>2, <3>1, <3>2 DEF RunNumbered, RunLeaves
  <2> QED BY <2>3, <2>4
<1>5. CASE EndJob
  <2>1. UNCHANGED <<run, cached, lost>>
    BY <1>5 DEF EndJob, runVars
  <2> QED BY <1>1, <1>2, <1>5, <2>1, Ends
<1>6. CASE ~(CloseRun \/ NewRun \/ LeaveFiles \/ ReadRun \/ EndJob)
  <2>1. UNCHANGED <<run, cached, lost>>
    BY <1>6 DEF Main, Ask, GotoFile, GotoRun, GotoLumi, LumisDone, Finish, EndUnfinishedLumi, UnfinishedLumiEnded,
                BeginRun, CloseInput, CloseOutput, ReadFile, OpenOutput, FileStep, CloseFiles, runVars
  <2>2. /\ main'.pc # "readRun"
        /\ main'.pc \in {"closeFiles", "end", "done"} => main.pc \in {"closeFiles", "end", "done"}
    <3>1. main.then \notin {"readRun", "closeFiles", "end", "done"}
      BY <1>1 DEF TypeOK, MainStates
    <3>2. CASE CloseInput \/ CloseOutput \/ ReadFile \/ OpenOutput
      BY <1>1, <3>2, FilesFlow DEF Filing, Thrown
    <3>3. CASE CloseFiles
      BY <1>1, <3>3, FilesFlow
    <3>4. CASE Ask \/ GotoFile \/ GotoRun \/ GotoLumi \/ LumisDone
      BY <1>1, <3>4, MainFlow DEF Thrown
    <3>5. CASE Finish \/ EndUnfinishedLumi \/ UnfinishedLumiEnded \/ BeginRun
      BY <1>1, <3>1, <3>5, MainFlow DEF Thrown
    <3> QED BY <1>6, <3>2, <3>3, <3>4, <3>5 DEF Main
  <2>3. main'.outcome \in {main.outcome, "exception"}
    BY <1>6, Outcomes
  <2> QED BY <1>2, <2>1, <2>2, <2>3
<1> QED BY <1>3, <1>4, <1>5, <1>6

(* Files that are open when the job ends could not be closed, or not be    *)
(* opened.                                                                 *)
LEMMA MainCloses ==
    ASSUME IInv, FilesClosed, Main
    PROVE  FilesClosed'
<1>1. TypeOK
  BY DEF IInv, Statused
<1>2. CASE CloseFiles
  <2>1. CASE files.closed = "nobody"
    BY <1>2, <2>1 DEF CloseFiles, FilesClosed
  <2>2. CASE files.closed # "nobody"
    <3>1. files' = [input |-> FALSE, output |-> FALSE, closed |-> "closed"] \/ files'.closed = "failed"
      BY <1>1, <1>2, <2>2 DEF CloseFiles, TypeOK
    <3> QED BY <3>1 DEF FilesClosed
  <2> QED BY <2>1, <2>2
<1>3. CASE EndJob
  <2>1. main.pc = "end" /\ UNCHANGED files
    BY <1>3 DEF EndJob, At
  <2> QED BY <2>1 DEF FilesClosed
<1>4. CASE ~CloseFiles /\ ~EndJob
  <2>1. main'.pc \notin {"end", "done"}
    <3>1. main.then \notin {"end", "done"}
      BY <1>1 DEF TypeOK, MainStates
    <3>2. CASE CloseInput \/ CloseOutput \/ ReadFile \/ OpenOutput \/ LeaveFiles
      BY <1>1, <3>2, FilesFlow DEF Filing, Thrown
    <3>3. CASE Ask \/ GotoFile \/ GotoRun \/ GotoLumi \/ LumisDone \/ Finish \/ EndUnfinishedLumi \/ UnfinishedLumiEnded
      BY <1>1, <3>1, <3>3, MainFlow DEF Thrown
    <3>4. CASE CloseRun \/ NewRun \/ ReadRun \/ BeginRun
      BY <1>1, <3>4, MainFlow DEF Thrown
    <3> QED BY <1>4, <3>2, <3>3, <3>4 DEF Main
  <2> QED BY <2>1 DEF FilesClosed
<1> QED BY <1>2, <1>3, <1>4


(* A step of main that throws is noted, and main forgets nothing.          *)
LEMMA MainNotes ==
    ASSUME IInv, Main
    PROVE  /\ deferred => deferred'
           /\ failures' = failures \/ deferred' \/ main.outcome # "none" \/ main'.outcome = "exception"
<1>1. TypeOK
  BY DEF IInv, Statused
<1>2. Throw("exception") => main'.outcome = "exception"
  BY <1>1, Throws
<1>3. ASSUME NEW number, RunEnds(number)
      PROVE  (deferred => deferred') /\ (failures' = failures \/ deferred' \/ main.outcome # "none")
  BY <1>3 DEF RunEnds, Succeeds
<1>4. LeaveRun => (deferred => deferred') /\ (failures' = failures \/ deferred' \/ main.outcome # "none")
  BY <1>3 DEF LeaveRun
<1>5. Ask \/ GotoRun \/ ReadRun \/ BeginRun => (deferred => deferred') /\ (failures' = failures \/ main'.outcome = "exception")
  BY <1>2 DEF Ask, GotoRun, ReadRun, BeginRun, Succeeds
<1>6. \A from, transition, done, to : FileStep(from, transition, done, to) =>
          (deferred => deferred') /\ (failures' = failures \/ main'.outcome = "exception")
  BY <1>2 DEF FileStep, Succeeds
<1>7. CloseInput \/ CloseOutput \/ ReadFile \/ OpenOutput =>
          (deferred => deferred') /\ (failures' = failures \/ main'.outcome = "exception")
  BY <1>6 DEF CloseInput, CloseOutput, ReadFile, OpenOutput
<1>8. CloseFiles => (deferred => deferred') /\ (failures' = failures \/ deferred' \/ main.outcome # "none")
  BY DEF CloseFiles, Succeeds
<1>9. CloseRun \/ NewRun \/ LeaveFiles =>
          (deferred => deferred') /\ (failures' = failures \/ deferred' \/ main.outcome # "none")
  BY <1>4 DEF CloseRun, NewRun, LeaveFiles
<1>10. GotoFile \/ GotoLumi \/ LumisDone \/ Finish \/ EndUnfinishedLumi \/ UnfinishedLumiEnded \/ EndJob =>
          (deferred => deferred') /\ failures' = failures
  <2>1. GotoFile \/ LumisDone \/ Finish \/ EndJob => UNCHANGED <<deferred, failures>>
    BY DEF GotoFile, LumisDone, Finish, EndJob
  <2>2. GotoLumi \/ EndUnfinishedLumi => UNCHANGED <<deferred, failures>>
    BY DEF GotoLumi, EndUnfinishedLumi
  <2>3. UnfinishedLumiEnded => deferred' = (deferred \/ failed) /\ UNCHANGED failures
    BY DEF UnfinishedLumiEnded
  <2> QED BY <2>1, <2>2, <2>3
<1> QED BY <1>5, <1>7, <1>8, <1>9, <1>10 DEF Main

(* What main's wait has collected is noted when it is over.                *)
LEMMA MainKnows ==
    ASSUME IInv, NoneLate, FailureKnown, Main
    PROVE  FailureKnown'
<1>1. TypeOK /\ Quiet
  BY DEF IInv, Statused, Scheduled
<1>2. CASE EndJob
  BY <1>1, <1>2, Ends DEF FailureKnown
<1>3. CASE ~EndJob
  <2>1. main'.outcome \in {main.outcome, "exception", "illegalRun"}
    BY <1>3, Outcomes
  <2>2. main.pc # "done"
    BY <1>1, MainFlow, FilesFlow DEF Main, Filing, Chosen, At
  <2>3. main'.outcome \in {"none", "exception", "illegalRun"}
    BY <2>1, <2>2 DEF FailureKnown
  <2>4. ~Reporting
    <3>1. CASE ~Waiting
      BY <1>1, <3>1, NoneOut DEF Quiet, Waiting, Reporting
    <3>2. CASE Waiting
      <4>1. LumisDone \/ UnfinishedLumiEnded
        BY <1>1, <3>2, MainFlow, FilesFlow DEF Main, Filing, Chosen, At, Waiting
      <4>2. ~Held
        BY <4>1 DEF LumisDone, UnfinishedLumiEnded
      <4> QED BY <1>1, <4>2, NoneOut DEF Reporting
    <3> QED BY <3>1, <3>2
  <2>5. CASE failures # 0 /\ Waiting /\ failed /\ ~deferred /\ main.outcome = "none"
    <3>1. LumisDone \/ UnfinishedLumiEnded
      BY <1>1, <2>5, MainFlow, FilesFlow DEF Main, Filing, Chosen, At, Waiting
    <3>2. CASE LumisDone
      BY <1>1, <2>3, <2>5, <3>2, Throws DEF LumisDone, FailureKnown
    <3>3. CASE UnfinishedLumiEnded
      BY <2>3, <2>5, <3>3 DEF UnfinishedLumiEnded, FailureKnown
    <3> QED BY <3>1, <3>2, <3>3
  <2>6. CASE ~(failures # 0 /\ Waiting /\ failed /\ ~deferred /\ main.outcome = "none")
    <3>1. failures # 0 => deferred \/ main.outcome # "none"
      BY <2>2, <2>4, <2>6 DEF FailureKnown
    <3>2. deferred \/ main.outcome # "none" => deferred' \/ main'.outcome # "none"
      BY <2>1, MainNotes
    <3>3. failures' = failures \/ deferred' \/ main'.outcome # "none"
      BY <2>1, MainNotes
    <3>4. failures' # 0 => deferred' \/ main'.outcome # "none"
      BY <3>1, <3>2, <3>3
    <3> QED BY <2>3, <3>4 DEF FailureKnown
  <2> QED BY <2>5, <2>6
<1> QED BY <1>2, <1>3


(* The other threads note what throws before they are done.                *)
LEMMA KnownStep ==
    ASSUME FailureKnown, UNCHANGED main, Waiting, deferred => deferred',
           failed \/ Reporting => failed' \/ Reporting',
           failures' = failures \/ deferred' \/ failed' \/ Reporting'
    PROVE  FailureKnown'
  BY DEF FailureKnown, Waiting

(* Each of their steps that throws defers the exception, fails main's wait *)
(* or leaves a functor that will.                                          *)
LEMMA OthersKnow ==
    ASSUME IInv, NoneLate, FailureKnown,
           (\E k \in Lumis : Lumi(k)) \/ (\E s \in Streams : Stream(s)) \/ Functor \/ Signal
    PROVE  FailureKnown'
<1>1. TypeOK /\ locals \subseteq Copies
  BY DEF IInv, Statused, TypeOK
<1>2. CASE Signal
  BY <1>2 DEF Signal, mainVars, FailureKnown, Waiting, Reporting
<1>3. SUFFICES ASSUME ~Signal
               PROVE  /\ deferred => deferred'
                      /\ failed \/ Reporting => failed' \/ Reporting'
                      /\ failures' = failures \/ deferred' \/ failed' \/ Reporting'
  <2>1. CASE ~Signal
    <3>1. Waiting /\ UNCHANGED main
      BY <2>1, OthersHeld, OthersLeave DEF mainVars
    <3> QED BY <2>1, <1>3, <3>1, KnownStep
  <2> QED BY <1>2, <2>1
<1>4. ASSUME NEW k \in Lumis, Lumi(k)
      PROVE  UNCHANGED <<deferred, locals>> /\ (failed => failed') /\ (failures' = failures \/ failed')
  <2>1. CASE ChangeIov(k) \/ LumiWork(k)
    BY <2>1 DEF ChangeIov, LumiWork, Drop, Succeeds
  <2>2. CASE ReadLumi(k) \/ GlobalBegun(k)
    BY <2>2 DEF ReadLumi, GlobalBegun, Drop, Succeeds
  <2>3. CASE GlobalEnded(k)
    BY <2>3 DEF GlobalEnded, Succeeds
  <2>4. CASE PushBegin(k) \/ ReleaseIov(k) \/ ReleasePrincipal(k) \/ ReleaseSlot(k)
    BY <2>4 DEF PushBegin, ReleaseIov, ReleasePrincipal, ReleaseSlot
  <2>5. CASE ReleaseRun(k)
    BY <2>5 DEF ReleaseRun
  <2> QED BY <1>4, <2>1, <2>2, <2>3, <2>4, <2>5 DEF Lumi
<1>5. ASSUME NEW s \in Streams, StreamBegun(s) \/ EventDone(s)
      PROVE  /\ UNCHANGED locals /\ (deferred => deferred') /\ (failed => failed')
             /\ failures' = failures \/ deferred' \/ failed'
  <2>1. CASE StreamBegun(s)
    BY <2>1 DEF StreamBegun, Succeeds
  <2>2. CASE EventDone(s)
    <3>1. CASE UNCHANGED <<locals, deferred, failed, failures>>
      BY <3>1
    <3>2. CASE UNCHANGED locals /\ deferred' = TRUE /\ failed' = (failed \/ ~deferred)
      BY <3>2
    <3> QED BY <2>2, <3>1, <3>2 DEF EventDone, Succeeds
  <2> QED BY <1>5, <2>1, <2>2
<1>6. ASSUME NEW s \in Streams, NextEvent(s)
      PROVE  UNCHANGED <<locals, failed>> /\ (deferred => deferred') /\ (failures' = failures \/ deferred')
  BY <1>6 DEF NextEvent, ReadEvent, Succeeds
<1>7. ASSUME NEW s \in Streams, BeginStream(s)
      PROVE  /\ UNCHANGED <<deferred, failed, failures>> /\ (Reporting => Reporting')
  <2>1. UNCHANGED <<deferred, failed, failures>> /\ locals \subseteq locals'
    BY <1>7 DEF BeginStream
  <2> QED BY <2>1 DEF Reporting
<1>8. ASSUME NEW s \in Streams, StreamEnded(s)
      PROVE  /\ UNCHANGED <<deferred, failed>> /\ (Reporting => Reporting')
             /\ failures' = failures \/ Reporting'
  <2>1. PICK error \in BOOLEAN : /\ IF error THEN Fails("streamEnd") ELSE Succeeds
                                 /\ locals' = locals \cup {Local(s, stream[s].lumi, "finish", error)}
    BY <1>8 DEF StreamEnded
  <2>2. UNCHANGED <<deferred, failed>> /\ locals \subseteq locals'
    BY <1>8, <2>1 DEF StreamEnded
  <2>3. error => Reporting'
    <3>1. PICK m : m = Local(s, stream[s].lumi, "finish", error)
      OBVIOUS
    <3>2. m \in locals' /\ m.holds = "finish" /\ m.error = error
      BY <2>1, <3>1 DEF Local
    <3> QED BY <3>2 DEF Reporting
  <2>4. failures' = failures \/ error
    BY <2>1 DEF Succeeds
  <2> QED BY <2>2, <2>3, <2>4 DEF Reporting
<1>9. ASSUME NEW l \in locals, StreamFinished(l)
      PROVE  UNCHANGED <<deferred, failed, failures>> /\ (Reporting => Reporting')
  <2>1. PICK holds \in {"report", "reportLast"} : locals' = Replace(l, holds)
    BY <1>9 DEF StreamFinished
  <2>2. PICK n : n = [l EXCEPT !.holds = holds]
    OBVIOUS
  <2>3. n.holds = holds /\ n.error = l.error
    BY <1>1, <2>2 DEF Copies
  <2>4. n \in locals' /\ \A m \in locals : m # l => m \in locals'
    BY <2>1, <2>2 DEF Replace
  <2>5. UNCHANGED <<deferred, failed, failures>>
    BY <1>9 DEF StreamFinished
  <2> QED BY <2>3, <2>4, <2>5 DEF Reporting
<1>10. ASSUME NEW l \in locals, StreamReports(l)
       PROVE  UNCHANGED <<deferred, failures>> /\ (failed \/ Reporting => failed' \/ Reporting')
  <2>1. \A m \in locals : m # l => m \in locals'
    BY <1>10 DEF StreamReports, Replace
  <2>2. failed' = (failed \/ l.error) /\ UNCHANGED <<deferred, failures>>
    BY <1>10 DEF StreamReports
  <2> QED BY <2>1, <2>2 DEF Reporting
<1>11. ASSUME NEW l \in locals, FunctorReturns(l) PROVE FALSE
  BY <1>11 DEF FunctorReturns, Return, NoneLate
<1> QED BY <1>3, <1>4, <1>5, <1>6, <1>7, <1>8, <1>9, <1>10, <1>11 DEF Stream, Functor, Reporting


(* Main comes to stop only if it is told so.                               *)
LEMMA StopsFlow ==
    ASSUME IInv, Main, Stops'
    PROVE  \/ Stops
           \/ Ask /\ NextTransition /\ last' = "stop"
           \/ LumisDone /\ LastTransition = "stop"
<1>1. TypeOK
  BY DEF IInv, Statused
<1>2. \A pc \in MainPlaces : Goto(pc) => main'.pc = pc /\ UNCHANGED <<main.next, main.then, main.outcome>>
  BY <1>1, Gotos DEF Goto
<1>3. \A then \in {"file", "run", "leave"} : EndLumiThen(then) =>
          main'.pc = "endLumi" /\ main'.then = then /\ UNCHANGED <<main.next, main.outcome>>
  BY <1>1, EndsLumis
<1>4. \A what \in {"exception", "illegalRun"} : ~Throw(what)
  <2>1. \A what \in {"exception", "illegalRun"} : Throw(what) => main'.pc = "endLumi" /\ main'.outcome = what
    BY <1>1, Throws
  <2> QED BY <2>1 DEF Stops, Chosen, At
<1>5. \A pc \in MainPlaces \ {"choose", "leave", "closeFiles", "end", "endLumi", "endWait"} : ~Goto(pc)
  BY <1>2 DEF Stops, Chosen, At
<1>6. CASE Ask
  <2>1. NextTransition /\ main' = [main EXCEPT !.pc = "choose", !.next = last']
    BY <1>4, <1>6 DEF Ask
  <2>2. main'.pc = "choose" /\ main'.next = last'
    BY <1>1, <2>1 DEF TypeOK, MainStates
  <2> QED BY <1>6, <2>1, <2>2 DEF Stops, Chosen, At
<1>7. CASE LumisDone
  <2>1. main' = [main EXCEPT !.pc = "choose", !.next = LastTransition]
    BY <1>4, <1>7 DEF LumisDone
  <2>2. main'.pc = "choose" /\ main'.next = LastTransition
    BY <1>1, <2>1 DEF TypeOK, MainStates
  <2> QED BY <1>7, <2>2 DEF Stops, Chosen, At
<1>8. CASE GotoFile \/ GotoRun \/ GotoLumi
  <2>1. EndLumiThen("file") \/ EndLumiThen("run")
    BY <1>4, <1>5, <1>8 DEF GotoFile, GotoRun, GotoLumi, MainPlaces
  <2> QED BY <1>3, <2>1 DEF Stops, Chosen, At
<1>9. CASE Finish
  <2>1. main'.pc = "endLumi" /\ UNCHANGED main.next /\ (Chosen("event") \/ Chosen("stop"))
    BY <1>3, <1>9 DEF Finish
  <2> QED BY <2>1 DEF Stops, Chosen, At
<1>10. CASE EndUnfinishedLumi
  <2>1. main.pc = "endLumi" /\ main'.pc = "endWait" /\ UNCHANGED <<main.next, main.then, main.outcome>>
    BY <1>2, <1>10 DEF EndUnfinishedLumi, At, MainPlaces
  <2> QED BY <2>1 DEF Stops, Chosen, At
<1>11. CASE UnfinishedLumiEnded
  <2>1. PICK t \in {"file", "run", "leave"} : t = main.then
    BY <1>1 DEF TypeOK, MainStates
  <2>2. main.pc = "endWait" /\ main'.pc = t /\ UNCHANGED <<main.next, main.outcome>>
    BY <1>2, <1>11, <2>1 DEF UnfinishedLumiEnded, At, MainPlaces
  <2> QED BY <2>1, <2>2 DEF Stops, Chosen, At
<1>12. CASE CloseRun \/ NewRun \/ ReadRun \/ BeginRun
  BY <1>4, <1>5, <1>12 DEF CloseRun, NewRun, ReadRun, BeginRun, MainPlaces
<1>13. \A from, transition, done : \A to \in {"readFile", "closeOutput", "ask", "openOutput"} : ~FileStep(from, transition, done, to)
  BY <1>4, <1>5 DEF FileStep, MainPlaces
<1>14. ~CloseInput /\ ~CloseOutput /\ ~ReadFile /\ ~OpenOutput
  BY <1>13 DEF CloseInput, CloseOutput, ReadFile, OpenOutput
<1>15. CASE LeaveFiles
  <2>1. main.pc = "leave" /\ main'.pc = "closeFiles" /\ UNCHANGED <<main.next, main.then, main.outcome>>
    BY <1>2, <1>15 DEF LeaveFiles, At, MainPlaces
  <2> QED BY <2>1 DEF Stops, Chosen, At
<1>16. CASE CloseFiles
  <2>1. main.pc = "closeFiles" /\ main'.pc = "end" /\ UNCHANGED <<main.next, main.then, main.outcome>>
    BY <1>2, <1>16 DEF CloseFiles, At, MainPlaces
  <2> QED BY <2>1 DEF Stops, Chosen, At
<1>17. CASE EndJob
  BY <1>1, <1>17, Ends DEF Stops, Chosen, At
<1> QED BY <1>6, <1>7, <1>8, <1>9, <1>10, <1>11, <1>12, <1>14, <1>15, <1>16, <1>17 DEF Main

(* If the source says that there is no more, there is none.                *)
LEMMA MainReads ==
    ASSUME IInv, ReadAll, Main
    PROVE  ReadAll'
<1>1. TypeOK /\ AtSource /\ pos \in 0..(Len(Items) + 1) /\ Len(Items) \in Nat
  BY ItemFacts DEF IInv, Statused, Scheduled, TypeOK
<1>2. UNCHANGED signalled
  BY DEF Main, Ask, GotoFile, GotoRun, GotoLumi, LumisDone, Finish, EndUnfinishedLumi, UnfinishedLumiEnded, CloseRun,
         NewRun, ReadRun, BeginRun, CloseInput, CloseOutput, ReadFile, OpenOutput, FileStep, LeaveFiles,
         CloseFiles, EndJob, rest
<1>3. CASE Ask /\ NextTransition
  <2>1. /\ pos = 0 \/ pos \in 1..Len(Items) => After(pos) = pos + 1
        /\ pos = Len(Items) + 1 => After(pos) = pos
    BY <1>1, ItemFacts DEF After
  <2>2. TypeAt(After(pos)) = "stop" => After(pos) = Len(Items) + 1
    <3>1. PICK a \in 1..(Len(Items) + 1) : a = After(pos)
      BY <1>1, <2>1
    <3>2. a \in 1..Len(Items) => Items[a].type # "stop"
      BY ItemFacts DEF ItemTypes
    <3> QED BY <1>1, <3>1, <3>2, ItemFacts DEF TypeAt
  <2>3. deferred => deferred'
    BY <1>3, MainNotes
  <2>4. last' = "stop" => Exhausted'
    BY <1>2, <1>3, <2>2, <2>3 DEF NextTransition, Exhausted
  <2>5. Exhausted => Exhausted'
    BY <1>2, <1>3, <2>1, <2>3 DEF NextTransition, Exhausted
  <2>6. ~At("lumis")'
    BY <1>1, <1>3, MainFlow DEF At, Thrown
  <2>7. Stops' => last' = "stop" \/ Exhausted
    <3>1. ASSUME Stops' PROVE Stops \/ last' = "stop"
      <4>1. ~LumisDone
        BY <1>3 DEF Ask, LumisDone, At
      <4> QED BY <3>1, <4>1, StopsFlow
    <3> QED BY <3>1 DEF ReadAll
  <2> QED BY <2>4, <2>5, <2>6, <2>7 DEF ReadAll
<1>4. CASE UNCHANGED sourceVars
  <2>1. Exhausted => Exhausted'
    BY <1>2, <1>4, MainNotes DEF Exhausted, sourceVars
  <2>2. last' = "stop" => pos' = 0 \/ Exhausted'
    BY <1>4, <2>1 DEF ReadAll, sourceVars
  <2>3. At("lumis")' => pos' # 0
    <3>1. ASSUME At("lumis")' PROVE GotoLumi
      <4>1. main.then # "lumis"
        BY <1>1 DEF TypeOK, MainStates
      <4>2. ~(CloseInput \/ CloseOutput \/ ReadFile \/ OpenOutput \/ LeaveFiles \/ CloseFiles \/ EndJob)
        BY <1>1, <3>1, FilesFlow DEF Filing, Thrown, At
      <4>3. ~(Ask \/ GotoFile \/ GotoRun \/ LumisDone \/ Finish \/ EndUnfinishedLumi \/ UnfinishedLumiEnded)
        BY <1>1, <3>1, <4>1, MainFlow DEF Thrown, At
      <4>4. ~(CloseRun \/ NewRun \/ ReadRun \/ BeginRun)
        BY <1>1, <3>1, MainFlow DEF Thrown, At
      <4> QED BY <4>2, <4>3, <4>4 DEF Main
    <3>2. GotoLumi => pos \in 1..Len(Items)
      BY <1>1, ItemFacts DEF GotoLumi, AtSource, TypeAt
    <3> QED BY <1>1, <1>4, <3>1, <3>2 DEF sourceVars
  <2>4. Stops' => Exhausted'
    <3> SUFFICES ASSUME Stops' PROVE Exhausted'
      OBVIOUS
    <3>1. CASE Stops
      BY <2>1, <3>1 DEF ReadAll
    <3>2. CASE LumisDone /\ LastTransition = "stop"
      <4>1. At("lumis") /\ (deferred \/ last = "stop")
        BY <3>2 DEF LumisDone, LastTransition
      <4>2. Exhausted
        BY <4>1 DEF ReadAll, Exhausted
      <4> QED BY <2>1, <4>2
    <3>3. CASE Ask /\ NextTransition /\ last' = "stop"
      BY <1>4, <3>3, <2>1, <2>2, <1>1, ItemFacts DEF NextTransition, Exhausted, After, sourceVars
    <3> QED BY <3>1, <3>2, <3>3, StopsFlow
  <2> QED BY <2>2, <2>3, <2>4 DEF ReadAll
<1>5. (Ask /\ NextTransition) \/ UNCHANGED sourceVars
  BY DEF Main, Ask, GotoFile, GotoRun, GotoLumi, LumisDone, Finish, EndUnfinishedLumi, UnfinishedLumiEnded, CloseRun,
         NewRun, ReadRun, BeginRun, CloseInput, CloseOutput, ReadFile, OpenOutput, FileStep, LeaveFiles,
         CloseFiles, EndJob
<1> QED BY <1>3, <1>4, <1>5


(* A stream that is told to stop has found the end of the source.          *)
LEMMA FoundStop ==
    ASSUME TypeOK, NEW k \in Lumis, 1 <= pos, lumi[k].continuing => Fresh, Found(k).type = "stop"
    PROVE  signalled \/ Found(k).pos = Len(Items) + 1
<1>1. Found(k).pos \in 1..(Len(Items) + 1) /\ Len(Items) \in Nat
  BY FoundFacts, ItemFacts
<1>2. \A p \in 1..(Len(Items) + 1) : TypeAt(p) = "stop" => p = Len(Items) + 1
  BY ItemFacts DEF TypeAt, ItemTypes
<1>3. ~signalled => Found(k).type = TypeAt(Found(k).pos)
  BY DEF Found
<1> QED BY <1>1, <1>2, <1>3

(* The streams move the source on, and remember what they have found.      *)
LEMMA OthersRead ==
    ASSUME IInv, NoneLate, ReadAll,
           (\E k \in Lumis : Lumi(k)) \/ (\E s \in Streams : Stream(s)) \/ Functor \/ Signal
    PROVE  ReadAll'
<1>1. TypeOK /\ UNCHANGED main
  BY OthersLeave DEF IInv, Statused, mainVars
<1>2. Stops' <=> Stops
  BY <1>1 DEF Stops, Chosen, At
<1>3. CASE UNCHANGED sourceVars /\ (deferred => deferred') /\ (signalled => signalled')
  BY <1>1, <1>2, <1>3 DEF ReadAll, Exhausted, sourceVars, At
<1>4. ASSUME NEW s \in Streams, NextEvent(s) PROVE ReadAll'
  <2>1. PICK k \in Lumis : k = stream[s].lumi /\ 1 <= pos /\ At("lumis")
    BY <1>4, AskFacts DEF NextEvent
  <2>2. UNCHANGED signalled /\ (deferred => deferred')
    BY <1>4 DEF NextEvent, ReadEvent
  <2>3. CASE UNCHANGED sourceVars
    BY <1>3, <2>2, <2>3
  <2>4. CASE ~UNCHANGED sourceVars
    <3>1. ~full /\ ~deferred /\ ~lumi[k].stop /\ pos' = Found(k).pos /\ last' = Found(k).type
      BY <1>4, <2>1, <2>4 DEF NextEvent, sourceVars
    <3>2. lumi[k].continuing => Fresh
      BY <1>4, <2>1, <3>1, AskAlone DEF NextEvent
    <3>3. pos' \in 1..(Len(Items) + 1) /\ pos <= pos'
      BY <1>1, <2>1, <3>1, <3>2, FoundFacts
    <3>4. last' = "stop" => signalled \/ pos' = Len(Items) + 1
      BY <1>1, <2>1, <3>1, <3>2, FoundStop
    <3>5. ~Stops
      BY <2>1 DEF Stops, Chosen, At
    <3>6. last' = "stop" => Exhausted'
      BY <2>2, <3>4, ItemFacts DEF Exhausted
    <3>7. pos' # 0
      BY <3>3, ItemFacts
    <3> QED BY <1>2, <3>5, <3>6, <3>7 DEF ReadAll
  <2> QED BY <2>3, <2>4
<1>5. ASSUME NEW k \in Lumis, Lumi(k) PROVE UNCHANGED <<sourceVars, deferred, signalled>>
  BY <1>5 DEF Lumi, ChangeIov, LumiWork, ReadLumi, GlobalBegun, PushBegin, GlobalEnded, ReleaseIov, ReleasePrincipal,
              ReleaseSlot, ReleaseRun
<1>6. ASSUME NEW s \in Streams, BeginStream(s) \/ StreamBegun(s) \/ StreamEnded(s)
      PROVE  UNCHANGED <<sourceVars, deferred, signalled>>
  BY <1>6 DEF BeginStream, StreamBegun, StreamEnded
<1>7. ASSUME NEW s \in Streams, EventDone(s) PROVE UNCHANGED <<sourceVars, signalled>> /\ (deferred => deferred')
  <2>1. UNCHANGED <<sourceVars, signalled>>
    BY <1>7 DEF EventDone
  <2>2. UNCHANGED deferred \/ deferred' = TRUE
    BY <1>7 DEF EventDone
  <2> QED BY <2>1, <2>2
<1>8. Functor => UNCHANGED <<sourceVars, deferred, signalled>>
  BY DEF Functor, StreamFinished, StreamReports, FunctorReturns, Return, NoneLate
<1>9. Signal => UNCHANGED <<sourceVars, deferred>> /\ signalled'
  BY DEF Signal
<1> QED BY <1>3, <1>4, <1>5, <1>6, <1>7, <1>8, <1>9 DEF Stream

(* A job that ends as a success has not thrown and has read everything.    *)
LEMMA VerdictStep ==
    ASSUME IInv, NoneLate, FailureKnown, ReadAll, Verdict, [Next]_vars
    PROVE  Verdict'
<1>1. TypeOK /\ Quiet
  BY DEF IInv, Statused, Scheduled
<1>2. CASE EndJob
  <2> SUFFICES ASSUME main'.outcome = "success" PROVE failures' = 0 /\ (signalled' \/ pos' = Len(Items) + 1)
    BY DEF Verdict
  <2>1. main.pc = "end" /\ main.outcome \in {"none", "exception", "illegalRun"}
    BY <1>1, <1>2, Ends DEF FailureKnown
  <2>2. main.outcome = "none" /\ ~deferred /\ main.next = "stop"
    BY <1>1, <1>2, <2>1, Ends
  <2>3. failures = 0
    BY <2>1, <2>2 DEF FailureKnown, Waiting
  <2>4. signalled \/ pos = Len(Items) + 1
    BY <2>1, <2>2 DEF ReadAll, Stops, Exhausted
  <2>5. UNCHANGED <<failures, signalled, pos>>
    BY <1>2 DEF EndJob, rest, sourceVars
  <2> QED BY <2>3, <2>4, <2>5
<1>3. CASE Main /\ ~EndJob
  <2>1. main'.pc # "done"
    <3>1. main.then # "done"
      BY <1>1 DEF TypeOK, MainStates
    <3>2. CASE CloseInput \/ CloseOutput \/ ReadFile \/ OpenOutput \/ LeaveFiles \/ CloseFiles
      BY <1>1, <3>2, FilesFlow DEF Filing, Thrown
    <3>3. CASE Ask \/ GotoFile \/ GotoRun \/ GotoLumi \/ LumisDone \/ Finish \/ EndUnfinishedLumi \/ UnfinishedLumiEnded
      BY <1>1, <3>1, <3>3, MainFlow DEF Thrown
    <3>4. CASE CloseRun \/ NewRun \/ ReadRun \/ BeginRun
      BY <1>1, <3>4, MainFlow DEF Thrown
    <3> QED BY <1>3, <3>2, <3>3, <3>4 DEF Main
  <2> QED BY <2>1 DEF Verdict, At
<1>4. CASE (\E k \in Lumis : Lumi(k)) \/ (\E s \in Streams : Stream(s)) \/ Functor
  <2>1. main.pc # "done" /\ UNCHANGED main
    BY <1>4, OthersHeld, OthersLeave DEF Waiting, mainVars
  <2> QED BY <2>1 DEF Verdict, At
<1>5. CASE Signal \/ UNCHANGED vars
  <2>1. UNCHANGED <<main, failures, pos>> /\ (signalled => signalled')
    BY <1>5 DEF Signal, vars, mainVars, sourceVars
  <2> QED BY <2>1 DEF Verdict, At
<1> QED BY <1>2, <1>3, <1>4, <1>5 DEF Next


(* When the job is over, everything it has opened is closed.               *)
LEMMA OverFacts ==
    ASSUME Inv, NoneLate, RunLeaves, FilesClosed, Verdict, At("done")
    PROVE  JobLeavesNothingOpen
<1>1. Statused /\ Phased /\ Slots /\ \A k \in Lumis : ~Alive(k)
  BY DEF Inv, IInv, Statused, Scheduled, Ended, At
<1>2. active = 0
  BY <1>1, NoneActive
<1>3. slots = 0
  <2>1. {k \in Lumis : lumi[k].phase \in Slotted} = {}
    BY <1>1 DEF Alive, Slotted
  <2> QED BY <1>1, <2>1, FS_EmptySet DEF Slots
<1>4. ASSUME NEW k \in Lumis, lumi[k].begun PROVE lumi[k].phase = "done"
  BY <1>1, <1>4 DEF Phased, Alive, Unpushed
<1>5. cached # 0 => lost
  BY DEF RunLeaves, At
<1> QED BY <1>2, <1>3, <1>4, <1>5 DEF JobLeavesNothingOpen, RunLeaves, FilesClosed, Verdict, At


(* Unless a functor is late, whatever has thrown: when the job is over     *)
(* every stream has left, every lumi that was begun has been ended, no     *)
(* slot is in use, the run is out of the cache and the files are closed,   *)
(* except where the end of one has thrown itself; and a job that ends as a *)
(* success has thrown nothing and read everything.                         *)
THEOREM NothingLeftOpen == Slow = {} => (Spec => []JobLeavesNothingOpen)
<1> SUFFICES ASSUME Slow = {} PROVE Spec => []JobLeavesNothingOpen
  OBVIOUS
<1> DEFINE Closing == NoneLate /\ RunNumbered /\ RunLeaves /\ FilesClosed /\ FailureKnown /\ ReadAll /\ Verdict
<1>1. Init => Closing
  <2> SUFFICES ASSUME Init PROVE Closing
    OBVIOUS
  <2>1. /\ main.pc = "ask" /\ main.outcome = "none" /\ locals = {} /\ run.id = 0 /\ cached = 0 /\ pos = 0
        /\ failures = 0
    BY DEF Init, NoRun
  <2>2. NoneLate /\ RunNumbered /\ RunLeaves
    BY <2>1 DEF NoneLate, RunNumbered, RunLeaves
  <2>3. FilesClosed /\ FailureKnown /\ ReadAll /\ Verdict
    BY <2>1 DEF FilesClosed, FailureKnown, ReadAll, Stops, Verdict, Chosen, At
  <2> QED BY <2>2, <2>3
<1>2. Inv /\ RunInv /\ Closing /\ [Next]_vars => Closing'
  <2> SUFFICES ASSUME Inv, RunInv, Closing, [Next]_vars PROVE Closing'
    OBVIOUS
  <2>1. IInv /\ TypeOK
    BY DEF Inv, IInv, Statused
  <2>2. NoneLate' /\ Verdict'
    BY <2>1, NoneLateStep, VerdictStep
  <2>3. CASE Main
    BY <2>1, <2>2, <2>3, MainLeaves, MainCloses, MainKnows, MainReads
  <2>4. CASE (\E k \in Lumis : Lumi(k)) \/ (\E s \in Streams : Stream(s)) \/ Functor \/ Signal
    <3>1. UNCHANGED <<main, files, run, cached, lost>>
      BY <2>4, OthersLeave DEF mainVars, runVars
    <3>2. RunNumbered' /\ RunLeaves' /\ FilesClosed'
      BY <3>1 DEF RunNumbered, RunLeaves, FilesClosed
    <3> QED BY <2>1, <2>2, <2>4, <3>2, OthersKnow, OthersRead
  <2>5. CASE UNCHANGED vars
    <3>1. /\ UNCHANGED <<main, files, run, cached, lost, locals, failures, failed, deferred, signalled, pos, last>>
      BY <2>5 DEF vars, mainVars, runVars, sourceVars
    <3>2. RunNumbered' /\ RunLeaves' /\ FilesClosed'
      BY <3>1 DEF RunNumbered, RunLeaves, FilesClosed
    <3>3. FailureKnown'
      BY <3>1 DEF FailureKnown, Waiting, Reporting
    <3>4. ReadAll'
      BY <3>1 DEF ReadAll, Stops, Exhausted, Chosen, At
    <3> QED BY <2>2, <3>2, <3>3, <3>4
  <2> QED BY <2>3, <2>4, <2>5 DEF Next
<1>3. Inv /\ Closing => JobLeavesNothingOpen
  <2>1. ~At("done") => JobLeavesNothingOpen
    BY DEF JobLeavesNothingOpen
  <2> QED BY <2>1, OverFacts
<1> QED BY <1>1, <1>2, <1>3, InvariantHolds, RunInvAlways, PTL DEF Spec

-----------------------------------------------------------------------------
(* Rest: no step is possible any more but a signal.  The main thread is    *)
(* through or waits for what is held; every lumi, stream and functor is    *)
(* through or waits for another one.                                       *)
MainRests == At("done") \/ (Waiting /\ Held)
LumiRests(k) == \/ lumi[k].phase \in {"none", "open", "done", "dropped"}
                \/ lumi[k].phase = "iov" /\ iovHolds # 0
                \/ lumi[k].phase = "queued" /\ ~(slots < ConcurrentLumis)
StreamRests(s) == /\ stream[s].at \in {"idle", "stopped"}
                  /\ stream[s].queue # <<>> => stream[s].paused \/ ~Returned(s)
AtRest == MainRests /\ locals = {} /\ (\A k \in Lumis : LumiRests(k)) /\ (\A s \in Streams : StreamRests(s))

(* A stream is in a later lumi than one that waits for it. *)
Overtaken == \E s \in Streams : stream[s].queue # <<>> /\ Head(stream[s].queue) < stream[s].lumi

(* Lumis are dropped only by what fails the wait of main, and none is begun *)
(* after one that has been dropped.                                        *)
DroppedKnown == (\E k \in Lumis : lumi[k].phase = "dropped") => (At("lumis") /\ failed) \/ Leaving
NoneAfterDropped == \A j, k \in Lumis : j < k /\ lumi[j].phase = "dropped" => ~Made(k)
(* A lumi that has not begun has not started the next one.                 *)
UnbegunStartsNone == \A k \in Lumis : lumi[k].phase \in Unpushed => ~lumi[k].startedNext
InTurn == DroppedKnown /\ NoneAfterDropped /\ UnbegunStartsNone

(* Such a lumi is the last one that has been made.                         *)
LEMMA UnbegunIsLast ==
    ASSUME Statused, InTurn, NEW j \in Lumis, lumi[j].phase \in Unpushed, Made(j), NEW k \in Lumis, j < k
    PROVE  ~Made(k)
<1>1. CASE lumi[j].phase = "dropped"
  BY <1>1 DEF InTurn, NoneAfterDropped
<1>2. CASE lumi[j].phase # "dropped"
  <2>1. Alive(j)
    BY <1>2 DEF Alive, Made, Unpushed, Unread
  <2>2. ~lumi[j].startedNext
    BY DEF InTurn, UnbegunStartsNone
  <2> QED BY <2>1, <2>2 DEF Statused, Ordered
<1> QED BY <1>1, <1>2

(* At rest main waits in processLumis(), streams are idle or have stopped, *)
(* and a lumi waits for its interval, its slot or a stream.                *)
LEMMA RestFacts ==
    ASSUME Inv, InTurn, AtRest, ~At("done")
    PROVE  /\ At("lumis") /\ locals = {}
           /\ \A k \in Lumis : Alive(k) => lumi[k].phase \in {"open", "iov", "queued"}
           /\ \A s \in Streams : stream[s].queue # <<>> => stream[s].at = "stopped"
           /\ \A s \in Streams : stream[s].at \in {"idle", "stopped"}
           /\ \/ \E k \in Lumis : lumi[k].phase \in {"iov", "queued"}
              \/ \E s \in Streams : stream[s].queue # <<>>
<1>1. TypeOK /\ Occupied /\ Ended
  BY DEF Inv, IInv, Statused, Scheduled
<1>2. Waiting /\ Held /\ locals = {}
  BY DEF AtRest, MainRests
<1>3. \A k \in Lumis : Alive(k) => lumi[k].phase \in {"open", "iov", "queued"}
  BY DEF AtRest, LumiRests, Alive
<1>4. \A s \in Streams : stream[s].at \in {"idle", "stopped"}
  BY DEF AtRest, StreamRests
<1>5. \/ \E k \in Lumis : lumi[k].phase \in {"iov", "queued"}
      \/ \E s \in Streams : stream[s].queue # <<>>
  BY <1>2, <1>3, <1>4 DEF Held
<1>6. ~At("endWait")
  BY <1>1, <1>5 DEF Ended, Closed, Alive
<1>7. ASSUME NEW s \in Streams, stream[s].queue # <<>> PROVE stream[s].at = "stopped"
  <2>1. stream[s].paused
    BY <1>2, <1>7 DEF AtRest, StreamRests, Returned
  <2> QED BY <1>1, <1>4, <2>1 DEF Occupied
<1> QED BY <1>2, <1>3, <1>4, <1>5, <1>6, <1>7 DEF Waiting, At

(* Without a stream that has stopped no lumi is open, hence no slot is in  *)
(* use, and iovQueue_ is paused by dropped lumis only: but none follows    *)
(* those.                                                                  *)
LEMMA SomeStreamStopped ==
    ASSUME Inv, InTurn, AtRest, ~At("done")
    PROVE  \E s \in Streams : stream[s].at = "stopped"
<1> SUFFICES ASSUME \A s \in Streams : stream[s].at # "stopped" PROVE FALSE
  OBVIOUS
<1>1. /\ TypeOK /\ Phased /\ Ordered /\ Counted /\ Occupied /\ Slots /\ Pauses /\ Statused
      /\ NumberOfStreams \in Nat /\ ConcurrentLumis \in Nat \ {0}
  BY CountsAssumption DEF Inv, IInv, Statused
<1>2. /\ locals = {} /\ \A k \in Lumis : Alive(k) => lumi[k].phase \in {"open", "iov", "queued"}
      /\ \A s \in Streams : stream[s].queue = <<>> /\ stream[s].at = "idle"
  BY RestFacts
<1>3. PICK k \in Lumis : lumi[k].phase \in {"iov", "queued"}
  BY <1>2, RestFacts
<1>4. ASSUME NEW j \in Lumis, lumi[j].phase = "open" PROVE FALSE
  <2>1. lumi[j].left # 0 /\ lumi[j].toPush = NumberOfStreams + 1
    BY <1>1, <1>4 DEF Phased, Closed
  <2>2. PICK P : P = {s \in Streams : Pends(s, j)}
    OBVIOUS
  <2>3. P # {}
    BY <1>1, <2>1, <2>2, FS_EmptySet DEF Counted
  <2>4. PICK s \in Streams : Pends(s, j)
    BY <2>2, <2>3
  <2>5. ~ToCome(s, j)
    BY <1>1, <2>1 DEF ToCome, Streams
  <2>6. ~Queued(s, j) /\ ~Finishes(s, j)
    BY <1>2 DEF Queued, Finishes
  <2>7. ~Within(s, j)
    BY <1>1, <1>2, Finite DEF Within, Occupied
  <2> QED BY <2>4, <2>5, <2>6, <2>7 DEF Pends
<1>5. \A j \in Lumis : Alive(j) => lumi[j].phase \in {"iov", "queued"}
  BY <1>2, <1>4
<1>6. slots = 0
  <2>1. {j \in Lumis : lumi[j].phase \in Slotted} = {}
    BY <1>5 DEF Slotted, Alive
  <2> QED BY <1>1, <2>1, FS_EmptySet DEF Slots
<1>7. \A j \in Lumis : lumi[j].phase # "queued"
  BY <1>1, <1>6 DEF AtRest, LumiRests
<1>8. iovHolds # 0
  BY <1>3, <1>7 DEF AtRest, LumiRests
<1>9. PICK j \in Lumis : lumi[j].phase = "dropped"
  <2>1. Pausers = {}
    BY <1>5, <1>7 DEF Pausers, Pausing, Alive
  <2>2. PICK H \in SUBSET Lumis : (\A i \in H : lumi[i].phase = "dropped") /\ iovHolds = Cardinality(H)
    BY <1>1, <2>1 DEF Pauses
  <2>3. H # {}
    BY <1>8, <2>2, FS_EmptySet
  <2> QED BY <2>2, <2>3
<1>10. j \in Nat /\ k \in Nat /\ j # k
  BY <1>3, <1>9, Finite
<1>11. lumi[j].phase \in Unpushed /\ lumi[k].phase \in Unpushed /\ Made(j) /\ Made(k)
  BY <1>3, <1>9 DEF Unpushed, Unread, Made
<1>12. ~(j < k) /\ ~(k < j)
  BY <1>1, <1>11, UnbegunIsLast
<1> QED BY <1>10, <1>12

(* The lumi that waits is not before that of a stream that has stopped     *)
(* and, unless something has thrown, not after it either.                  *)
LEMMA RestIsBlocked ==
    ASSUME Inv, InTurn, AtRest, ~At("done")
    PROVE  Blocked /\ (failed \/ deferred \/ Overtaken)
<1>1. TypeOK /\ Phased /\ Ordered /\ Placed /\ Counted /\ Occupied /\ Statused /\ AtLumis
  BY DEF Inv, IInv, Statused, Scheduled
<1>2. At("lumis")
  BY RestFacts
<1>3. PICK s \in Streams : stream[s].at = "stopped"
  BY SomeStreamStopped
<1>4. ASSUME NEW p \in Streams, stream[p].queue # <<>>
      PROVE  Head(stream[p].queue) \in Lumis /\ Queued(p, Head(stream[p].queue))
  <2>1. PICK q \in Seq(Lumis) : q = stream[p].queue
    BY <1>1 DEF TypeOK, StreamStates
  <2>2. q # <<>> /\ Len(q) \in Nat /\ 1 \in 1..Len(q) /\ Head(q) = q[1] /\ q[1] \in Lumis
    BY <1>4, <2>1
  <2> QED BY <2>1, <2>2 DEF Queued
<1>5. Blocked
  BY <1>2, <1>3, <1>4, RestFacts DEF Blocked
<1>6. ASSUME ~failed, ~deferred, NEW p \in Streams, stream[p].at = "stopped"
      PROVE  /\ stream[p].lumi \in Lumis /\ Made(stream[p].lumi)
             /\ \A k \in Lumis : stream[p].lumi < k => ~Made(k)
  <2>1. PICK j \in Lumis : j = stream[p].lumi
    BY <1>1, <1>6 DEF TypeOK, StreamStates, Occupied
  <2>2. Alive(j) /\ Made(j)
    BY <1>1, <2>1, Where DEF Within, Alive, Made
  <2>3. ~lumi[j].ending
    BY <1>1, <1>2, <1>6, <2>1 DEF AtLumis, Stopped
  <2>4. ~lumi[j].startedNext
    BY <1>1, <2>3 DEF Phased
  <2> QED BY <1>1, <2>1, <2>2, <2>4 DEF Ordered
<1>7. ASSUME ~failed, ~deferred PROVE Overtaken
  <2>1. ASSUME NEW k \in Lumis, lumi[k].phase \in {"iov", "queued"} PROVE FALSE
    <3>1. PICK j \in Lumis : j = stream[s].lumi /\ Made(j) /\ \A i \in Lumis : j < i => ~Made(i)
      BY <1>3, <1>6, <1>7
    <3>2. lumi[k].phase \in Unpushed /\ Made(k)
      BY <2>1 DEF Unpushed, Unread, Made
    <3>3. lumi[j].phase \in {"pushing", "open"}
      BY <1>1, <3>1, Where DEF Within
    <3>4. j \in Nat /\ k \in Nat /\ j # k
      BY <2>1, <3>3, Finite
    <3>5. ~(k < j)
      BY <1>1, <3>1, <3>2, UnbegunIsLast
    <3> QED BY <3>1, <3>2, <3>4, <3>5
  <2>2. PICK p \in Streams : stream[p].queue # <<>> /\ stream[p].at = "stopped"
    BY <2>1, RestFacts
  <2>3. PICK j \in Lumis : j = stream[p].lumi /\ \A i \in Lumis : j < i => ~Made(i)
    BY <1>6, <1>7, <2>2
  <2>4. PICK k \in Lumis : k = Head(stream[p].queue) /\ Queued(p, k)
    BY <1>4, <2>2
  <2>5. Made(k) /\ j # k
    BY <1>1, <2>3, <2>4, Where DEF Placed, Within, Made
  <2>6. j \in Nat /\ k \in Nat
    BY Finite
  <2> QED BY <2>2, <2>3, <2>4, <2>5, <2>6 DEF Overtaken
<1> QED BY <1>5, <1>7

(* Beginning a lumi leaves all others as they are, but for the one that    *)
(* has started it.                                                         *)
LEMMA BeginLumiOthers ==
    ASSUME NEW S \in [Lumis -> Statuses], NEW k \in Lumis, S[k].startedNext = FALSE \/ S[k].startedNext = TRUE,
           NEW sync, NEW ofRun, NEW j \in Lumis, j # k,
           BeginLumi([S EXCEPT ![k].startedNext = TRUE], sync, ofRun)
    PROVE  lumi'[j] = S[j] \/ Starts(j, ofRun)
<1>1. PICK r \in Statuses : r = [S[k] EXCEPT !.startedNext = TRUE]
  <2>1. S[k] \in Statuses
    OBVIOUS
  <2> QED BY <2>1 DEF Statuses
<1>2. PICK T : T = [S EXCEPT ![k].startedNext = TRUE]
  OBVIOUS
<1>3. T = [S EXCEPT ![k] = r] /\ T \in [Lumis -> Statuses] /\ T[j] = S[j]
  BY <1>1, <1>2
<1> QED BY <1>2, <1>3, BeginLumiStarts

(* The same for a stream that asks for an event, ...                       *)
LEMMA NextEventOthers ==
    ASSUME IInv, NEW s \in Streams, NextEvent(s), NEW j \in Lumis, j # stream[s].lumi
    PROVE  lumi'[j] = lumi[j] \/ Starts(j, lumi[stream[s].lumi].run)
<1>1. stream[s].at = "next" /\ TypeOK /\ lumi \in [Lumis -> Statuses]
  BY DEF NextEvent, IInv, Statused, TypeOK
<1>2. PICK k \in Lumis : k = stream[s].lumi
  BY <1>1, AskFacts
<1>3. ASSUME NEW S \in [Lumis -> Statuses], StopStream(s, S), S[j] = lumi[j], S[k].run = lumi[k].run
      PROVE  lumi'[j] = lumi[j] \/ Starts(j, lumi[k].run)
  <2>1. CASE lumi' = S
    BY <1>3, <2>1
  <2>2. CASE lumi' # S
    <3>1. BeginLumi([S EXCEPT ![k].startedNext = TRUE], S[k].next, S[k].run)
      BY <1>2, <1>3, <2>2 DEF StopStream
    <3>2. S[k].startedNext \in BOOLEAN
      BY DEF Statuses
    <3>3. lumi'[j] = S[j] \/ Starts(j, S[k].run)
      BY <1>2, <3>1, <3>2, BeginLumiOthers
    <3> QED BY <1>3, <3>3
  <2> QED BY <2>1, <2>2
<1>4. CASE full \/ deferred \/ lumi[k].stop
  BY <1>1, <1>2, <1>3, <1>4 DEF NextEvent
<1>5. CASE ~(full \/ deferred \/ lumi[k].stop) /\ UNCHANGED lumi
  BY <1>5
<1>6. CASE /\ ~(full \/ deferred \/ lumi[k].stop)
           /\ IF Found(k).type = "event" THEN ReadEvent(s, Noted(k, Found(k))) ELSE StopStream(s, Noted(k, Found(k)))
  <2>1. Found(k).pos \in Nat
    <3>1. 1 <= pos
      BY <1>1, AskFacts
    <3>2. lumi[k].continuing => Fresh
      BY <1>1, <1>2, <1>6, AskAlone
    <3>3. Found(k).pos \in 1..(Len(Items) + 1)
      BY <1>1, <3>1, <3>2, FoundFacts
    <3> QED BY <3>3, ItemFacts
  <2>2. PICK f : f = Found(k) /\ f.pos \in Nat
    BY <2>1
  <2>3. PICK S : S = Noted(k, f)
    OBVIOUS
  <2>4. S \in [Lumis -> Statuses] /\ S[j] = lumi[j] /\ S[k].run = lumi[k].run
    BY <1>1, <1>2, <2>2, <2>3, NotedResembles DEF Resembles
  <2>5. CASE lumi' = S
    BY <2>4, <2>5
  <2>6. CASE StopStream(s, S)
    BY <1>2, <1>3, <2>4, <2>6
  <2> QED BY <1>6, <2>2, <2>3, <2>5, <2>6 DEF ReadEvent
<1> QED BY <1>2, <1>4, <1>5, <1>6 DEF NextEvent

(* ... and for main.                                                       *)
LEMMA GotoLumiOthers ==
    ASSUME TypeOK, GotoLumi, NEW j \in Lumis
    PROVE  lumi'[j].startedNext = lumi[j].startedNext \/ Starts(j, run.id)
<1>1. lumi \in [Lumis -> Statuses]
  BY DEF TypeOK
<1>2. CASE active > 0
  <2>1. PICK k : k = stream[1].lumi
    OBVIOUS
  <2>2. lumi' = [lumi EXCEPT ![k].continuing = TRUE, ![k].stop = FALSE]
    BY <1>2, <2>1 DEF GotoLumi
  <2> QED BY <1>1, <2>2 DEF Statuses
<1>3. CASE ~(active > 0)
  <2>1. BeginLumi(lumi, pos, run.id)
    BY <1>3 DEF GotoLumi
  <2> QED BY <1>1, <2>1, BeginLumiStarts
<1> QED BY <1>2, <1>3

(* Making a lumi, or leaving all as they are, keeps the order.             *)
Extends(j) == \/ lumi'[j].phase = lumi[j].phase
              \/ lumi[j].phase = "open" /\ lumi'[j].phase = "globalEnd"
              \/ \E ofRun : Starts(j, ofRun) /\ (At("lumis") \/ Chosen("lumi"))
(* Such a step drops nothing, and makes nothing after what is dropped.     *)
LEMMA InTurnStep ==
    ASSUME InTurn, \A j \in Lumis : Extends(j),
           \A j \in Lumis : \/ ~lumi'[j].startedNext \/ lumi[j].startedNext
                            \/ lumi[j].phase \in {"pushing", "open"},
           \/ UNCHANGED main /\ (failed => failed')
           \/ \A k \in Lumis : lumi'[k].phase = "dropped" => (At("lumis") /\ failed)' \/ Leaving'
    PROVE  InTurn'
<1>1. \A j \in Lumis : lumi'[j].phase = "dropped" => lumi[j].phase = "dropped"
  BY DEF Extends, Starts
<1>2. DroppedKnown'
  <2>1. UNCHANGED main => (Leaving' <=> Leaving) /\ (At("lumis")' <=> At("lumis"))
    BY DEF Leaving, At
  <2> QED BY <1>1, <2>1 DEF InTurn, DroppedKnown
<1>3. NoneAfterDropped'
  <2> SUFFICES ASSUME NEW j \in Lumis, NEW k \in Lumis, j < k, lumi'[j].phase = "dropped", lumi'[k].phase # "none"
               PROVE  FALSE
    BY DEF NoneAfterDropped, Made
  <2>1. lumi[j].phase = "dropped" /\ lumi[k].phase = "none"
    BY <1>1 DEF InTurn, NoneAfterDropped, Made
  <2>2. ~failed /\ (At("lumis") \/ Chosen("lumi"))
    BY <2>1 DEF Extends, Starts
  <2>3. ~Leaving
    BY <2>2 DEF Leaving, At, Chosen
  <2> QED BY <2>1, <2>2, <2>3 DEF InTurn, DroppedKnown
<1>4. UnbegunStartsNone'
  <2> SUFFICES ASSUME NEW j \in Lumis, lumi'[j].phase \in Unpushed, lumi'[j].startedNext PROVE FALSE
    BY DEF UnbegunStartsNone
  <2>1. lumi'[j].phase = lumi[j].phase
    BY DEF Extends, Starts, Unpushed, Unread
  <2> QED BY <2>1 DEF InTurn, UnbegunStartsNone, Unpushed, Unread
<1> QED BY <1>2, <1>3, <1>4 DEF InTurn

(* A lumi's own steps: what is dropped is the last one, ...                *)
LEMMA LumiInTurn ==
    ASSUME IInv, InTurn, NEW k \in Lumis, Lumi(k)
    PROVE  InTurn'
<1>0. Statused /\ TypeOK /\ Quiet /\ Ended /\ Ordered /\ lumi \in [Lumis -> Statuses]
  BY DEF IInv, Scheduled, Statused, TypeOK
<1>1. CASE PushBegin(k)
  <2>1. UNCHANGED <<main, failed>>
    BY <1>1 DEF PushBegin, mainVars
  <2>2. PICK s \in Streams : s = lumi[k].toPush
    BY <1>1, PushFacts DEF IInv, Statused
  <2>3. /\ lumi'[k] = [lumi[k] EXCEPT !.toPush = s + 1, !.phase = IF s = NumberOfStreams THEN "open" ELSE "pushing"]
        /\ lumi[k].phase = "pushing" /\ \A j \in Lumis : j # k => lumi'[j] = lumi[j]
    BY <1>0, <1>1, <2>2, PushFacts DEF Becomes, Statused
  <2>4. lumi'[k].phase \in {"open", "pushing"} /\ lumi'[k].startedNext = lumi[k].startedNext
    BY <1>0, <2>3 DEF Statuses
  <2>5. \A j \in Lumis : /\ lumi'[j].startedNext = lumi[j].startedNext
                         /\ lumi'[j].phase = lumi[j].phase \/ (j = k /\ lumi'[j].phase \in {"open", "pushing"})
    BY <2>3, <2>4
  <2>6. Leaving' <=> Leaving
    BY <2>1 DEF Leaving
  <2>7. DroppedKnown'
    BY <2>1, <2>5, <2>6 DEF InTurn, DroppedKnown, At
  <2>8. NoneAfterDropped'
    BY <2>3, <2>5 DEF InTurn, NoneAfterDropped, Made
  <2>9. UnbegunStartsNone'
    BY <2>5 DEF InTurn, UnbegunStartsNone, Unpushed, Unread
  <2> QED BY <2>7, <2>8, <2>9 DEF InTurn
<1>2. CASE ~PushBegin(k)
  <2>1. \/ ChangeIov(k) \/ LumiWork(k) \/ ReadLumi(k) \/ GlobalBegun(k) \/ GlobalEnded(k)
        \/ ReleaseIov(k) \/ ReleasePrincipal(k) \/ ReleaseSlot(k) \/ ReleaseRun(k)
    BY <1>2 DEF Lumi
  <2>2. PICK a \in Phases, b \in Phases : PhaseStep(k, a, b)
    BY <1>0, <2>1, PhaseSteps
  <2>3. /\ <<a, b>> \in Transitions /\ lumi[k].phase = a /\ lumi'[k].phase = b /\ lumi'[k].startedNext = lumi[k].startedNext
        /\ UNCHANGED main /\ (failed => failed') /\ \A j \in Lumis : j # k => lumi'[j] = lumi[j]
    BY <2>2 DEF PhaseStep, mainVars
  <2>4. Leaving' <=> Leaving
    BY <2>3 DEF Leaving
  <2>5. b = "dropped" => a \in Unpushed /\ a # "none" /\ Alive(k)
    BY <2>3 DEF Transitions, Unpushed, Unread, Alive
  <2>6. b = "dropped" => At("lumis") /\ failed'
    <3>1. ASSUME b = "dropped" PROVE failed'
      <4>1. \A phase \in Phases : SetPhase(k, phase) => lumi'[k].phase = phase
        BY <1>0 DEF SetPhase, Statuses
      <4>2. CASE ChangeIov(k) \/ LumiWork(k)
        BY <2>3, <3>1, <4>1, <4>2 DEF ChangeIov, LumiWork, Drop, Phases
      <4>3. CASE ReadLumi(k) \/ GlobalBegun(k)
        <5>1. lumi' = [lumi EXCEPT ![k].phase = "globalBegin", ![k].item = pos] => lumi'[k].phase = "globalBegin"
          BY <1>0 DEF Statuses
        <5>2. lumi' = [lumi EXCEPT ![k].phase = "pushing", ![k].begun = TRUE] => lumi'[k].phase = "pushing"
          BY <1>0 DEF Statuses
        <5> QED BY <2>3, <3>1, <4>3, <5>1, <5>2 DEF ReadLumi, GlobalBegun, Drop
      <4>4. CASE GlobalEnded(k) \/ ReleaseIov(k) \/ ReleasePrincipal(k) \/ ReleaseSlot(k) \/ ReleaseRun(k)
        BY <2>3, <3>1, <4>4 DEF GlobalEnded, ReleaseIov, ReleasePrincipal, ReleaseSlot, ReleaseRun, Transitions
      <4> QED BY <2>1, <4>2, <4>3, <4>4
    <3>2. ASSUME b = "dropped" PROVE At("lumis")
      <4>1. Held
        BY <2>3, <2>5, <3>2 DEF Held, Unpushed, Unread
      <4>2. main.pc \in {"lumis", "endWait"}
        BY <1>0, <4>1 DEF Quiet
      <4>3. ~At("endWait")
        BY <1>0, <2>3, <2>5, <3>2 DEF Ended, Unpushed, Unread, Closed
      <4> QED BY <4>2, <4>3 DEF At
    <3> QED BY <3>1, <3>2
  <2>7. DroppedKnown'
    BY <2>3, <2>4, <2>6 DEF InTurn, DroppedKnown, At
  <2>8. NoneAfterDropped'
    <3> SUFFICES ASSUME NEW i \in Lumis, NEW j \in Lumis, i < j, lumi'[i].phase = "dropped", lumi'[j].phase # "none"
                 PROVE  FALSE
      BY DEF NoneAfterDropped, Made
    <3>1. Made(j)
      BY <2>3 DEF Made, Transitions
    <3>2. lumi[i].phase \in Unpushed /\ Made(i)
      BY <2>3, <2>5 DEF Made, Unpushed
    <3> QED BY <1>0, <3>1, <3>2, UnbegunIsLast
  <2>9. UnbegunStartsNone'
    BY <2>3 DEF InTurn, UnbegunStartsNone, Transitions, Unpushed, Unread
  <2> QED BY <2>7, <2>8, <2>9 DEF InTurn
<1> QED BY <1>1, <1>2

(* ... and no other step drops one.                                        *)
LEMMA OthersInTurn ==
    ASSUME IInv, InTurn, Signal \/ Functor \/ \E s \in Streams : Stream(s)
    PROVE  InTurn'
<1>0. Statused /\ TypeOK /\ lumi \in [Lumis -> Statuses]
  BY DEF IInv, Statused, TypeOK
<1>1. ASSUME UNCHANGED <<lumi, main>>, failed => failed' PROVE InTurn'
  BY <1>1, InTurnStep DEF Extends
<1>2. CASE Signal
  BY <1>1, <1>2 DEF Signal, mainVars
<1>3. ASSUME NEW s \in Streams, NextEvent(s) PROVE InTurn'
  <2>1. stream[s].at = "next" /\ UNCHANGED <<main, failed>>
    BY <1>3 DEF NextEvent, mainVars
  <2>2. PICK k \in Lumis : k = stream[s].lumi /\ lumi[k].phase \in {"pushing", "open"} /\ At("lumis")
    BY <2>1, AskFacts
  <2>3. \A j \in Lumis : Resembles(lumi'[j], j) \/ Starts(j, lumi[k].run)
    BY <1>3, <2>2, NextEventStarts
  <2>4. \A j \in Lumis : Extends(j)
    BY <2>2, <2>3 DEF Extends, Resembles
  <2>5. \A j \in Lumis : j # k => lumi'[j] = lumi[j] \/ Starts(j, lumi[k].run)
    BY <1>3, <2>2, NextEventOthers
  <2>6. \A j \in Lumis : ~lumi'[j].startedNext \/ lumi[j].startedNext \/ lumi[j].phase \in {"pushing", "open"}
    BY <2>2, <2>5 DEF Starts
  <2> QED BY <2>1, <2>4, <2>6, InTurnStep
<1>4. ASSUME NEW s \in Streams, Stream(s) PROVE InTurn'
  <2>1. CASE BeginStream(s) \/ StreamEnded(s)
    <3>1. UNCHANGED <<lumi, main, failed>>
      BY <2>1 DEF BeginStream, StreamEnded, mainVars
    <3> QED BY <1>1, <3>1
  <2>2. CASE StreamBegun(s)
    <3>1. UNCHANGED <<lumi, main>> /\ (failed => failed')
      BY <2>2 DEF StreamBegun, mainVars
    <3> QED BY <1>1, <3>1
  <2>3. CASE EventDone(s)
    <3>1. UNCHANGED <<lumi, main>>
      BY <2>3 DEF EventDone, mainVars
    <3>2. UNCHANGED <<deferred, failed>> \/ (deferred' = TRUE /\ failed' = (failed \/ ~deferred))
      BY <2>3 DEF EventDone
    <3>3. failed => failed'
      BY <3>2
    <3> QED BY <1>1, <3>1, <3>3
  <2> QED BY <1>3, <1>4, <2>1, <2>2, <2>3 DEF Stream
<1>5. ASSUME NEW l \in locals, StreamReports(l) \/ FunctorReturns(l) PROVE InTurn'
  <2>1. CASE StreamReports(l)
    <3>1. UNCHANGED <<lumi, main>> /\ (failed => failed')
      BY <2>1 DEF StreamReports, mainVars
    <3> QED BY <1>1, <3>1
  <2>2. CASE FunctorReturns(l)
    <3>1. UNCHANGED <<lumi, main, failed>>
      BY <2>2 DEF FunctorReturns
    <3> QED BY <1>1, <3>1
  <2> QED BY <1>5, <2>1, <2>2
<1>6. ASSUME NEW l \in locals, StreamFinished(l) PROVE InTurn'
  <2>1. UNCHANGED <<main, failed>>
    BY <1>6 DEF StreamFinished, mainVars
  <2>2. PICK k \in Lumis, isLast \in BOOLEAN :
            /\ lumi[k] \in Statuses /\ (isLast => lumi[k].phase = "open")
            /\ Becomes(k, [lumi[k] EXCEPT !.left = lumi[k].left - 1,
                                          !.phase = IF isLast THEN "globalEnd" ELSE lumi[k].phase])
    <3>1. PICK k, isLast : k = l.lumi /\ isLast = (lumi[k].left = 1)
      OBVIOUS
    <3> QED BY <1>0, <1>6, <3>1, CountFacts
  <2>3. /\ lumi'[k].phase = IF isLast THEN "globalEnd" ELSE lumi[k].phase
        /\ lumi'[k].startedNext = lumi[k].startedNext /\ \A j \in Lumis : j # k => lumi'[j] = lumi[j]
    BY <2>2 DEF Becomes, Statuses
  <2>4. \A j \in Lumis : Extends(j) /\ (lumi'[j].startedNext => lumi[j].startedNext)
    BY <2>2, <2>3 DEF Extends
  <2> QED BY <2>1, <2>4, InTurnStep
<1> QED BY <1>2, <1>4, <1>5, <1>6 DEF Functor

(* Main leaves its wait with what has failed.                              *)
LEMMA MainInTurn ==
    ASSUME IInv, InTurn, Main
    PROVE  InTurn'
<1>1. TypeOK /\ main.pc \in MainPlaces
  BY DEF IInv, Statused, TypeOK, MainStates
<1>2. CASE GotoLumi
  <2>1. Chosen("lumi") /\ UNCHANGED deferred
    BY <1>2 DEF GotoLumi
  <2>2. \A j \in Lumis : Extends(j)
    BY <1>1, <1>2, <2>1, GotoLumiStarts DEF Extends, Resembles
  <2>3. \A j \in Lumis : ~lumi'[j].startedNext \/ lumi[j].startedNext
    BY <1>1, <1>2, GotoLumiOthers DEF Starts
  <2>4. ~(At("lumis") \/ Leaving)
    BY <2>1 DEF Chosen, At, Leaving
  <2>5. \A k \in Lumis : lumi'[k].phase # "dropped"
    BY <2>2, <2>4 DEF InTurn, DroppedKnown, Extends, Starts
  <2> QED BY <2>2, <2>3, <2>5, InTurnStep
<1>3. CASE ~GotoLumi
  <2>1. UNCHANGED lumi
    BY <1>3 DEF Main, Ask, GotoFile, GotoRun, LumisDone, Finish, EndUnfinishedLumi, UnfinishedLumiEnded, CloseRun,
                NewRun, ReadRun, BeginRun, CloseInput, CloseOutput, ReadFile, OpenOutput, FileStep, LeaveFiles,
                CloseFiles, EndJob, rest
  <2>2. SUFFICES ASSUME (At("lumis") /\ failed) \/ Leaving PROVE Leaving'
    BY <2>1, InTurnStep DEF Extends, InTurn, DroppedKnown
  <2>3. Thrown => Leaving'
    BY DEF Thrown, Leaving
  <2>4. CASE At("lumis") /\ failed
    <3>1. LumisDone
      BY <1>3, <2>4 DEF Main, Ask, GotoFile, GotoRun, Finish, EndUnfinishedLumi, UnfinishedLumiEnded, CloseRun,
                        NewRun, ReadRun, BeginRun, CloseInput, CloseOutput, ReadFile, OpenOutput, FileStep, LeaveFiles,
                        CloseFiles, EndJob, At, Chosen
    <3> QED BY <1>1, <2>3, <2>4, <3>1, MainFlow
  <2>5. CASE Leaving
    <3>1. EndUnfinishedLumi \/ UnfinishedLumiEnded \/ LeaveFiles \/ CloseFiles \/ EndJob
      BY <1>3, <2>5 DEF Main, Ask, GotoFile, GotoRun, LumisDone, Finish, CloseRun, NewRun, ReadRun, BeginRun,
                        CloseInput, CloseOutput, ReadFile, OpenOutput, FileStep, At, Chosen, Leaving
    <3>2. CASE EndUnfinishedLumi
      <4>1. main.pc = "endLumi" /\ main'.pc = "endWait" /\ main'.then = main.then
        BY <1>1, <3>2, MainFlow
      <4> QED BY <2>5, <4>1 DEF Leaving
    <3>3. CASE UnfinishedLumiEnded
      <4>1. main.pc = "endWait" /\ main'.pc = main.then
        BY <1>1, <3>3, MainFlow
      <4> QED BY <2>5, <4>1 DEF Leaving
    <3>4. CASE LeaveFiles \/ CloseFiles \/ EndJob
      BY <1>1, <3>4, FilesFlow DEF Leaving
    <3> QED BY <3>1, <3>2, <3>3, <3>4
  <2> QED BY <2>2, <2>4, <2>5
<1> QED BY <1>2, <1>3

(* So nothing is begun after a lumi that has been dropped.                 *)
LEMMA InTurnAlways == Spec => []InTurn
<1>1. Init => InTurn
  <2> SUFFICES ASSUME Init PROVE InTurn
    OBVIOUS
  <2>1. \A k \in Lumis : lumi[k].phase = "none" /\ ~lumi[k].startedNext
    BY DEF Init, NoLumi
  <2> QED BY <2>1 DEF InTurn, DroppedKnown, NoneAfterDropped, UnbegunStartsNone
<1>2. Inv /\ InTurn /\ [Next]_vars => InTurn'
  <2> SUFFICES ASSUME Inv, InTurn, [Next]_vars PROVE InTurn'
    OBVIOUS
  <2>1. IInv
    BY DEF Inv
  <2>2. CASE UNCHANGED vars
    <3>1. UNCHANGED <<lumi, main, failed>>
      BY <2>2 DEF vars, mainVars
    <3> QED BY <3>1, InTurnStep DEF Extends
  <2>3. CASE Main
    BY <2>1, <2>3, MainInTurn
  <2>4. CASE \E k \in Lumis : Lumi(k)
    BY <2>1, <2>4, LumiInTurn
  <2>5. CASE Signal \/ Functor \/ \E s \in Streams : Stream(s)
    BY <2>1, <2>5, OthersInTurn
  <2> QED BY <2>2, <2>3, <2>4, <2>5 DEF Next
<1> QED BY <1>1, <1>2, InvariantHolds, PTL DEF Spec

(* A job comes to rest when it is over.  Otherwise the main thread waits   *)
(* for a lumi that waits for another one in which a stream has stopped,    *)
(* either because something has thrown or because the streams have met the *)
(* two lumis in different orders: nothing else can make runToCompletion()  *)
(* wait for ever, whatever the source, the streams and the failures.       *)
THEOREM RestsOnlyBlocked ==
    Spec => [](AtRest => At("done") \/ (Blocked /\ (failed \/ deferred \/ Overtaken)))
<1>1. Inv /\ InTurn => (AtRest => At("done") \/ (Blocked /\ (failed \/ deferred \/ Overtaken)))
  BY RestIsBlocked
<1> QED BY <1>1, InvariantHolds, InTurnAlways, PTL

(* With one lumi at a time there is no other order, and only a failure can *)
(* make the job wait for ever.                                             *)
THEOREM OneLumiRestsOnlyFailed ==
    ConcurrentLumis = 1 => (Spec => [](AtRest => At("done") \/ (Blocked /\ (failed \/ deferred))))
<1> SUFFICES ASSUME ConcurrentLumis = 1
             PROVE  Spec => [](AtRest => At("done") \/ (Blocked /\ (failed \/ deferred)))
  OBVIOUS
<1>1. Inv => ~Overtaken
  <2> SUFFICES ASSUME Inv, Overtaken PROVE FALSE
    OBVIOUS
  <2>1. TypeOK /\ Phased /\ Placed /\ Counted /\ Slots
    BY DEF Inv, IInv, Statused
  <2>2. PICK s \in Streams : stream[s].queue # <<>> /\ Head(stream[s].queue) < stream[s].lumi
    BY DEF Overtaken
  <2>3. PICK q \in Seq(Lumis) : q = stream[s].queue
    BY <2>1 DEF TypeOK, StreamStates
  <2>4. Len(q) \in Nat /\ 1 \in 1..Len(q) /\ Head(q) = q[1] /\ q[1] \in Lumis
    BY <2>2, <2>3
  <2>5. PICK k \in Lumis : k = q[1] /\ Queued(s, k)
    BY <2>3, <2>4 DEF Queued
  <2>6. k \in Nat /\ 1 <= k
    BY Finite
  <2>7. PICK j \in Lumis : j = stream[s].lumi /\ Within(s, j)
    <3>1. PICK j \in Lumis \cup {0} : j = stream[s].lumi
      BY <2>1 DEF TypeOK, StreamStates
    <3>2. k < j
      BY <2>2, <2>3, <2>4, <2>5, <3>1
    <3> QED BY <2>6, <3>1, <3>2 DEF Within
  <2>8. j # k
    BY <2>1, <2>5, <2>7 DEF Placed
  <2>9. lumi[j].phase \in Slotted /\ lumi[k].phase \in Slotted
    BY <2>1, <2>5, <2>7, Where DEF Slotted
  <2>10. PICK P : P = {i \in Lumis : lumi[i].phase \in Slotted}
    OBVIOUS
  <2>11. IsFiniteSet(P) /\ {j, k} \subseteq P
    BY <2>9, <2>10, Finite, FS_Subset
  <2>12. Cardinality({j, k}) <= Cardinality(P) /\ Cardinality(P) \in Nat
    BY <2>11, FS_Subset, FS_CardinalityType
  <2>13. Cardinality({j, k}) = 2
    <3>1. PICK K : K = {k}
      OBVIOUS
    <3>2. IsFiniteSet(K) /\ Cardinality(K) = 1 /\ j \notin K
      BY <2>8, <3>1, FS_Singleton
    <3>3. Cardinality(K \cup {j}) = IF j \in K THEN Cardinality(K) ELSE Cardinality(K) + 1
      BY <3>2, FS_AddElement, Zenon
    <3>4. Cardinality(K \cup {j}) = 2
      BY <3>2, <3>3
    <3>5. K \cup {j} = {j, k}
      BY <3>1
    <3> QED BY <3>4, <3>5
  <2> QED BY <2>1, <2>10, <2>12, <2>13 DEF Slots, TypeOK
<1>2. Inv /\ InTurn => (AtRest => At("done") \/ (Blocked /\ (failed \/ deferred)))
  BY <1>1, RestIsBlocked
<1> QED BY <1>2, InvariantHolds, InTurnAlways, PTL
=============================================================================

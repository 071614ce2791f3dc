----------------------- MODULE SharedResourcesRegistry -----------------------
(***************************************************************************)
(* edm::SharedResourcesRegistry (FWCore/Framework): which serial queues a  *)
(* module acquires for the shared resources it declares.  Modules declare  *)
(* resources in their constructors; doBeginJob() then asks for an          *)
(* acquirer, a SerialTaskQueueChain over the queues of the resources that  *)
(* are really shared.  An EDLooper may replace a module later: the new one *)
(* is constructed from parameters of its own, declares what these ask for  *)
(* and gets an acquirer of its own; the other modules keep theirs.         *)
(***************************************************************************)
EXTENDS Naturals, FiniteSets, Sequences, SequencesExt

CONSTANTS Names,            \* resource names, numbers in alphabetical order
          Legacy,           \* kLegacyModuleResourceName
          Modules,
          MaxReplacements   \* bound: modules replaced by a looper

ASSUME NamesAssumption == Names \subseteq Nat /\ Legacy \in Names
ASSUME ReplacementsAssumption == MaxReplacements \in Nat

VARIABLES counter,       \* per name: resourceMap_'s counter, 0 if it has no entry
          queue,         \* per name: the SerialTaskQueue made for it, 0 for nullptr
          nLegacy,       \* nLegacy_
          uses,          \* per module: its resourceNames_
          toDeclare,     \* per module: names its constructor has still to declare
          phase,         \* per module: where it is in its life
          acquirer,      \* per module: the queues of its acquirer, in order
          replacements,
          sharedLate     \* history: a resource has become shared too late for a
                         \* module that has its acquirer already

registry == <<counter, queue, nLegacy>>
vars == <<counter, queue, nLegacy, uses, toDeclare, phase, acquirer, replacements, sharedLate>>

Phases == {"none", "constructing", "constructed", "ready"}

Init == /\ counter = [n \in Names |-> 0]
        /\ queue = [n \in Names |-> 0]
        /\ nLegacy = 0
        /\ uses = [m \in Modules |-> {}]
        /\ toDeclare = [m \in Modules |-> {}]
        /\ phase = [m \in Modules |-> "none"]
        /\ acquirer = [m \in Modules |-> <<>>]
        /\ replacements = 0
        /\ sharedLate = FALSE

Known == {n \in Names : counter[n] > 0}

(* The modules that have their acquirers.                                  *)
Running == {m \in Modules : phase[m] = "ready"}

-----------------------------------------------------------------------------
(* make_shared gives name n a queue that no one has had before.            *)
MakeQueues(names) == queue' = [n \in Names |-> IF n \in names THEN queue[n] + 1 ELSE queue[n]]

(* Every resource gains a user, and a queue if it had none.                *)
RegisterLegacy == /\ nLegacy' = nLegacy + 1
                  /\ counter' = [n \in Names |->
                        IF n \in Known \cup {Legacy} THEN counter[n] + 1 ELSE counter[n]]
                  /\ MakeQueues({n \in Known \cup {Legacy} : queue[n] = 0})

RegisterWithoutHistory(n) == \* mutant: legacy modules before the resource do not count
    /\ counter' = [counter EXCEPT ![n] = @ + 1]
    /\ MakeQueues(IF counter[n] = 1 THEN {n} ELSE {})
    /\ UNCHANGED nLegacy

RegisterEachTime(n) == \* mutant: every user of the resource makes the queue anew
    /\ counter' = [counter EXCEPT ![n] = IF @ = 0 THEN 1 + nLegacy ELSE @ + 1]
    /\ MakeQueues(IF counter[n] > 0 \/ nLegacy > 0 THEN {n} ELSE {})
    /\ UNCHANGED nLegacy

(* The legacy modules seen so far count as users, and with any of them, or *)
(* with a second user, the resource needs a queue.                         *)
RegisterResource(n) ==
    /\ counter' = [counter EXCEPT ![n] = IF @ = 0 THEN 1 + nLegacy ELSE @ + 1]
    /\ MakeQueues(IF \/ counter[n] = 0 /\ nLegacy > 0
                     \/ counter[n] = 1
                    THEN {n} ELSE {})
    /\ UNCHANGED nLegacy

RegisterSharedResource(n) == IF n = Legacy THEN RegisterLegacy ELSE RegisterResource(n)

WantedByName(names) == \* mutant: a legacy module takes the legacy queue only
    {n \in names : counter[n] > 1}

(* A module of the legacy resource needs all the others, and then not the  *)
(* legacy one; a resource with a single user is left out.                  *)
Wanted(names) ==
    {n \in IF Legacy \notin names THEN names
           ELSE IF Cardinality(Known) > 1 THEN Known \ {Legacy} ELSE Known : counter[n] > 1}

(* Modules are constructed one after the other.                            *)
Quiet == \A m \in Modules : phase[m] # "constructing"

(* A module may use any of the resources, the legacy one among them, as    *)
(* its parameters say. *)
Plan(m, names) == /\ uses' = [uses EXCEPT ![m] = names]
                  /\ toDeclare' = [toDeclare EXCEPT ![m] = names]
                  /\ phase' = [phase EXCEPT ![m] = "constructing"]

Construct(m) == /\ Quiet /\ phase[m] = "none"
                /\ \A o \in Modules : phase[o] # "ready"
                /\ \E names \in SUBSET Names : Plan(m, names)
                /\ UNCHANGED <<registry, acquirer, replacements, sharedLate>>

(* A running module would now get queues that it has not asked for.        *)
SharesLate == \E o \in Running : ~(Wanted(uses[o])' \subseteq Wanted(uses[o]))

(* usesResource()                                                          *)
Declare(m, n) == /\ phase[m] = "constructing" /\ n \in toDeclare[m]
                 /\ RegisterSharedResource(n)
                 /\ toDeclare' = [toDeclare EXCEPT ![m] = @ \ {n}]
                 /\ UNCHANGED <<uses, phase, acquirer, replacements>>
                 /\ sharedLate' = (sharedLate \/ SharesLate)

Constructed(m) == /\ phase[m] = "constructing" /\ toDeclare[m] = {}
                  /\ phase' = [phase EXCEPT ![m] = "constructed"]
                  /\ UNCHANGED <<registry, uses, toDeclare, acquirer, replacements, sharedLate>>

-----------------------------------------------------------------------------
(* std::map's order of the pairs (how often used, name).                   *)
Before(n, k) == counter[n] < counter[k] \/ (counter[n] = counter[k] /\ n < k)

OrderAsDeclared(names) == \* mutant: sorted by name where a legacy module asks
    SetToSortSeq(Wanted(names), LAMBDA n, k : IF Legacy \in names THEN n < k ELSE Before(n, k))

Order(names) == CHOOSE s \in [1..Cardinality(Wanted(names)) -> Wanted(names)] :
                   \A i, j \in DOMAIN s : i < j => Before(s[i], s[j])

(* createAcquirer(): an empty acquirer stands for a queue of the module's  *)
(* own, which nobody else can share.                                       *)
CreateAcquirer(names) == LET order == Order(names)
                         IN  [i \in DOMAIN order |-> <<order[i], queue[order[i]]>>]

(* doBeginJob() comes after the construction of all modules.               *)
BeginJob(m) == /\ Quiet /\ phase[m] = "constructed"
               /\ acquirer' = [acquirer EXCEPT ![m] = CreateAcquirer(uses[m])]
               /\ phase' = [phase EXCEPT ![m] = "ready"]
               /\ UNCHANGED <<registry, uses, toDeclare, replacements, sharedLate>>

(* Schedule::changeModule(): a new module takes the place of m, made from  *)
(* other parameters, which may name other resources.                       *)
Replace(m) == /\ replacements < MaxReplacements
              /\ \A o \in Modules : phase[o] \in {"none", "ready"}
              /\ phase[m] = "ready"
              /\ \E names \in SUBSET Names : Plan(m, names)
              /\ replacements' = replacements + 1
              /\ UNCHANGED <<registry, acquirer, sharedLate>>

Next == \E m \in Modules : \/ Construct(m) \/ Constructed(m) \/ BeginJob(m) \/ Replace(m)
                           \/ \E n \in Names : Declare(m, n)

Spec == Init /\ [][Next]_vars

-----------------------------------------------------------------------------
TypeOK == /\ counter \in [Names -> Nat]
          /\ queue \in [Names -> Nat]
          /\ nLegacy \in Nat
          /\ uses \in [Modules -> SUBSET Names]
          /\ toDeclare \in [Modules -> SUBSET Names]
          /\ phase \in [Modules -> Phases]
          /\ replacements \in Nat
          /\ sharedLate \in BOOLEAN

(* A resource with two users has a queue, so that no chain is ever built   *)
(* over a null pointer, in whatever order legacy and other modules come.   *)
SharedHasQueue == \A n \in Names : counter[n] > 1 => queue[n] # 0

(* The reason: once there is a legacy module every known resource has a    *)
(* queue and counts it, and before that a first user makes none.           *)
RegistryInv == /\ TypeOK
               /\ SharedHasQueue
               /\ \A n \in Known : nLegacy > 0 => queue[n] # 0
               /\ \A n \in Names \ {Legacy} : counter[n] > 0 => counter[n] > nLegacy
               /\ counter[Legacy] = nLegacy
               /\ \A n \in Names \ {Legacy} : counter[n] = 1 => queue[n] = 0
               /\ \A n \in Names : counter[n] = 0 => queue[n] = 0

(* A queue once made is never replaced by another one, which would split   *)
(* the users of the resource.                                              *)
QueueStays == [][\A n \in Names : queue[n] # 0 => queue'[n] = queue[n]]_vars

(* "Legacy modules cannot run concurrently with each other or any other    *)
(* module that has declared any shared resource", and two modules with a   *)
(* common resource cannot either: their chains meet in a queue.            *)
Conflict(m, o) == \/ uses[m] \cap uses[o] # {}
                  \/ Legacy \in uses[m] /\ uses[o] # {}
                  \/ Legacy \in uses[o] /\ uses[m] # {}

ConflictsMeet ==
    \A m, o \in Running : m # o /\ Conflict(m, o)
        => Range(acquirer[m]) \cap Range(acquirer[o]) # {}

(* The acquirers of the modules that run are not made again when another   *)
(* module is replaced.  Unless the new one has made a resource shared that *)
(* a running module had no queue for, all who exclude each other meet.     *)
MeetUnlessSharedLate == ~sharedLate => ConflictsMeet

(* "Consistent sorting avoids deadlocks": no two acquirers take two queues *)
(* in opposite orders.  A module that a looper puts in the place of another *)
(* one counts its resources again and sorts by the new counts, so that this *)
(* is promised for the modules of the configuration only.                  *)
ConsistentOrder ==
    \A m, o \in Running :
        \A i, j \in DOMAIN acquirer[m], k, l \in DOMAIN acquirer[o] :
            (acquirer[m][i] = acquirer[o][k] /\ acquirer[m][j] = acquirer[o][l] /\ i < j)
               => k < l

OrderUntilReplaced == replacements = 0 => ConsistentOrder
=============================================================================

-------------------- MODULE SharedResourcesRegistryProofs --------------------
(* Proofs about SharedResourcesRegistry: its inductive invariant, that a   *)
(* queue once made is never replaced, that modules which exclude each      *)
(* other meet in a queue, and that their acquirers agree on the order.     *)
EXTENDS SharedResourcesRegistry, FiniteSetTheorems, WellFoundedInduction, TLAPS

(* In the beginning nothing is registered.                                 *)
LEMMA RegistryInvInit == Init => RegistryInv
<1> SUFFICES ASSUME Init PROVE RegistryInv
  OBVIOUS
<1>1. \A m \in Modules : phase[m] = "none" /\ "none" \in Phases
  BY DEF Init, Phases
<1>2. TypeOK
  BY <1>1, NamesAssumption DEF Init, TypeOK
<1>3. counter = [n \in Names |-> 0] /\ queue = [n \in Names |-> 0] /\ nLegacy = 0 /\ Known = {}
  BY DEF Init, Known
<1> QED BY <1>2, <1>3, NamesAssumption DEF RegistryInv, SharedHasQueue

(* Registering a resource, by a legacy module or another one, in any       *)
(* order, keeps the counters and the queues in step.                       *)
LEMMA RegisterKeepsRegistryInv ==
    ASSUME NEW n \in Names, RegistryInv, RegisterSharedResource(n),
           UNCHANGED <<uses, phase, acquirer, replacements>>,
           toDeclare' \in [Modules -> SUBSET Names], sharedLate' \in BOOLEAN
    PROVE  RegistryInv'
<1> USE NamesAssumption DEF RegistryInv, TypeOK, SharedHasQueue, Known
<1>1. TypeOK'
  BY DEF RegisterSharedResource, RegisterLegacy, RegisterResource, MakeQueues
<1>2. CASE n = Legacy
  BY <1>1, <1>2 DEF RegisterSharedResource, RegisterLegacy, MakeQueues
<1>3. CASE n # Legacy
  <2>1. /\ counter' = [counter EXCEPT ![n] = IF @ = 0 THEN 1 + nLegacy ELSE @ + 1]
        /\ queue' = [k \in Names |->
              IF k \in (IF (counter[n] = 0 /\ nLegacy > 0) \/ counter[n] = 1 THEN {n} ELSE {})
                THEN queue[k] + 1 ELSE queue[k]]
        /\ nLegacy' = nLegacy
    BY <1>3 DEF RegisterSharedResource, RegisterResource, MakeQueues
  <2>2. ASSUME NEW k \in Names, k # n PROVE counter'[k] = counter[k] /\ queue'[k] = queue[k]
    BY <2>1, <2>2
  <2>3. counter'[n] = IF counter[n] = 0 THEN 1 + nLegacy ELSE counter[n] + 1
    BY <2>1
  <2>4. queue'[n] = IF (counter[n] = 0 /\ nLegacy > 0) \/ counter[n] = 1
                      THEN queue[n] + 1 ELSE queue[n]
    BY <2>1
  <2> QED BY <1>1, <1>3, <2>1, <2>2, <2>3, <2>4
<1> QED BY <1>2, <1>3

(* Every action keeps the invariant.                                       *)
LEMMA RegistryInvStep == RegistryInv /\ [Next]_vars => RegistryInv'
<1> SUFFICES ASSUME RegistryInv, [Next]_vars PROVE RegistryInv'
  OBVIOUS
<1> USE DEF RegistryInv, TypeOK, SharedHasQueue, Known, Phases
<1>1. ASSUME NEW m \in Modules, Construct(m) PROVE RegistryInv'
  BY <1>1 DEF Construct, Plan, registry
<1>2. ASSUME NEW m \in Modules, Constructed(m) PROVE RegistryInv'
  BY <1>2 DEF Constructed, registry
<1>3. ASSUME NEW m \in Modules, BeginJob(m) PROVE RegistryInv'
  BY <1>3 DEF BeginJob, registry
<1>4. ASSUME NEW m \in Modules, Replace(m) PROVE RegistryInv'
  BY <1>4 DEF Replace, Plan, registry
<1>5. ASSUME NEW m \in Modules, NEW n \in Names, Declare(m, n) PROVE RegistryInv'
  <2>1. toDeclare' \in [Modules -> SUBSET Names]
    BY <1>5 DEF Declare
  <2>2. sharedLate' \in BOOLEAN
    BY <1>5, Zenon DEF Declare
  <2> QED BY <1>5, <2>1, <2>2, RegisterKeepsRegistryInv DEF Declare
<1>6. CASE UNCHANGED vars
  BY <1>6 DEF vars
<1> QED BY <1>1, <1>2, <1>3, <1>4, <1>5, <1>6 DEF Next

(* Every resource with two users has a queue, legacy modules counted in,   *)
(* whatever the order of the declarations and replacements.                *)
THEOREM RegistryCorrect == Spec => []RegistryInv
BY RegistryInvInit, RegistryInvStep, PTL DEF Spec

(* No queue is ever made a second time: all users of a resource that       *)
(* acquired it after its queue was made have acquired the same one.        *)
THEOREM QueueStaysCorrect == Spec => QueueStays
<1>1. RegistryInv /\ [Next]_vars => [\A n \in Names : queue[n] # 0 => queue'[n] = queue[n]]_vars
  <2> SUFFICES ASSUME RegistryInv, Next PROVE \A n \in Names : queue[n] # 0 => queue'[n] = queue[n]
    OBVIOUS
  <2>1. ASSUME NEW m \in Modules, NEW k \in Names, Declare(m, k), NEW n \in Names, queue[n] # 0
        PROVE  queue'[n] = queue[n]
    BY <2>1, NamesAssumption
    DEF RegistryInv, TypeOK, SharedHasQueue, Known, Declare, RegisterSharedResource,
        RegisterLegacy, RegisterResource, MakeQueues
  <2>2. ASSUME NEW m \in Modules, Construct(m) \/ Constructed(m) \/ BeginJob(m) \/ Replace(m)
        PROVE  queue' = queue
    BY <2>2 DEF Construct, Constructed, BeginJob, Replace, registry
  <2> QED BY <2>1, <2>2 DEF Next
<1> QED BY <1>1, RegistryCorrect, PTL DEF Spec, QueueStays

-----------------------------------------------------------------------------
(* Of any sets of elements of a finite set some are minimal: what stands   *)
(* for induction over a finite set here. *)
LEMMA MinimalSet ==
    ASSUME NEW S, IsFiniteSet(S), NEW F \in SUBSET SUBSET S, F # {}
    PROVE  \E A \in F : \A B \in F : B \subseteq A => B = A
<1>1. IsWellFoundedOn(StrictSubsetOrdering(S), SUBSET S)
  BY FS_StrictSubsetOrderingWellFounded, FS_FiniteSubsetsOfFinite
<1>2. \E A \in F : \A B \in F : <<B, A>> \notin StrictSubsetOrdering(S)
  BY <1>1, WFMin
<1> QED BY <1>2 DEF StrictSubsetOrdering

(* A strict order of all elements of a set, ...                            *)
Orders(R, S) == /\ \A x, y \in S : x # y => <<x, y>> \in R \/ <<y, x>> \in R
                /\ \A x, y, z \in S : <<x, y>> \in R /\ <<y, z>> \in R => <<x, z>> \in R
                /\ \A x \in S : <<x, x>> \notin R

(* ... its last element, ...                                               *)
IsLast(z, S, R) == z \in S /\ \A x \in S : x # z => <<x, z>> \in R

(* A finite set with an order has a last element.                          *)
LEMMA LastExists ==
    ASSUME NEW S, NEW R, IsFiniteSet(S), Orders(R, S), S # {}
    PROVE  \E z : IsLast(z, S, R)
<1> SUFFICES ASSUME \A z : ~IsLast(z, S, R) PROVE FALSE
  OBVIOUS
<1> DEFINE F == {A \in SUBSET S : A # {} /\ \A z : ~IsLast(z, A, R)}
<1>1. S \in F /\ F \in SUBSET SUBSET S
  OBVIOUS
<1> HIDE DEF F
<1>2. \E A \in F : \A B \in F : B \subseteq A => B = A
  BY <1>1, MinimalSet
<1>3. PICK A \in F : \A B \in F : B \subseteq A => B = A
  BY <1>2
<1>4. A \in SUBSET S /\ A # {} /\ \A z : ~IsLast(z, A, R)
  BY <1>3 DEF F
<1>5. PICK x \in A : TRUE
  BY <1>4
<1>6. A \ {x} \notin F
  BY <1>3, <1>5
<1>7. A \ {x} # {}
  BY <1>4, <1>5 DEF IsLast
<1>8. PICK z : IsLast(z, A \ {x}, R)
  BY <1>4, <1>6, <1>7 DEF F
<1>9. CASE <<x, z>> \in R
  BY <1>9, <1>8, <1>4 DEF IsLast
<1>10. CASE <<z, x>> \in R
  <2>1. IsLast(x, A, R)
    BY <1>10, <1>8, <1>4, <1>5 DEF IsLast, Orders
  <2> QED BY <2>1, <1>4
<1> QED BY <1>4, <1>5, <1>8, <1>9, <1>10 DEF IsLast, Orders

(* ... and the list of them all in this order: both exist.                 *)
Listing(s, n, S, R) == /\ s \in [1..n -> S]
                       /\ \A i, j \in 1..n : i < j => <<s[i], s[j]>> \in R
                       /\ \A x \in S : \E i \in 1..n : s[i] = x

(* The elements of a finite set can be listed in order.                    *)
LEMMA ListingExists ==
    ASSUME NEW S, NEW R, IsFiniteSet(S), Orders(R, S)
    PROVE  \E s : Listing(s, Cardinality(S), S, R)
<1> SUFFICES ASSUME \A s : ~Listing(s, Cardinality(S), S, R) PROVE FALSE
  OBVIOUS
<1> DEFINE F == {A \in SUBSET S : \A s : ~Listing(s, Cardinality(A), A, R)}
<1>1. S \in F /\ F \in SUBSET SUBSET S
  OBVIOUS
<1> HIDE DEF F
<1>2. \E A \in F : \A B \in F : B \subseteq A => B = A
  BY <1>1, MinimalSet
<1>3. PICK A \in F : \A B \in F : B \subseteq A => B = A
  BY <1>2
<1>4. A \in SUBSET S /\ \A s : ~Listing(s, Cardinality(A), A, R)
  BY <1>3 DEF F
<1>5. IsFiniteSet(A) /\ Orders(R, A)
  BY <1>4, FS_Subset DEF Orders
<1>6. A # {}
  <2>1. SUFFICES ASSUME A = {} PROVE FALSE
    OBVIOUS
  <2>2. Cardinality(A) = 0
    BY <2>1, FS_EmptySet
  <2>3. Listing(<<>>, 0, A, R)
    BY <2>1 DEF Listing
  <2> QED BY <2>2, <2>3, <1>4
<1>7. PICK z : IsLast(z, A, R)
  BY <1>5, <1>6, LastExists
<1> DEFINE B == A \ {z}
<1>8. z \in A /\ B # A /\ B \in SUBSET S
  BY <1>7, <1>4 DEF IsLast
<1>9. B \notin F
  BY <1>3, <1>8
<1>10. PICK n \in Nat : Cardinality(B) = n /\ Cardinality(A) = n + 1
  <2>1. Cardinality(A) \in Nat /\ Cardinality(B) \in Nat /\ Cardinality(B) = Cardinality(A) - 1
    BY <1>5, <1>8, FS_RemoveElement, FS_CardinalityType, FS_Subset
  <2> QED BY <2>1
<1>11. PICK s : Listing(s, n, B, R)
  BY <1>8, <1>9, <1>10 DEF F
<1> DEFINE t == [i \in 1..(n + 1) |-> IF i = n + 1 THEN z ELSE s[i]]
<1>12. t \in [1..(n + 1) -> A]
  BY <1>8, <1>11 DEF Listing
<1>13. ASSUME NEW i \in 1..(n + 1), NEW j \in 1..(n + 1), i < j PROVE <<t[i], t[j]>> \in R
  <2>1. i \in 1..n /\ t[i] = s[i] /\ s[i] \in B
    BY <1>13, <1>11 DEF Listing
  <2>2. CASE j = n + 1
    BY <2>1, <2>2, <1>7 DEF IsLast
  <2>3. CASE j # n + 1
    <3>1. j \in 1..n /\ t[j] = s[j]
      BY <2>3
    <3> QED BY <2>1, <3>1, <1>11, <1>13 DEF Listing
  <2> QED BY <2>2, <2>3
<1>14. ASSUME NEW x \in A PROVE \E i \in 1..(n + 1) : t[i] = x
  <2>1. CASE x = z
    BY <2>1
  <2>2. CASE x # z
    <3>1. PICK i \in 1..n : s[i] = x
      BY <2>2, <1>11 DEF Listing
    <3>2. i \in 1..(n + 1) /\ t[i] = x
      BY <3>1
    <3> QED BY <3>2
  <2> QED BY <2>1, <2>2
<1>15. Listing(t, n + 1, A, R)
  BY <1>12, <1>13, <1>14 DEF Listing
<1> QED BY <1>15, <1>10, <1>4

-----------------------------------------------------------------------------
(* The order of the queues in an acquirer is that of all known resources.  *)
Precedes == {p \in Names \X Names : Before(p[1], p[2])}

(* std::map's order of the pairs is one.                                   *)
LEMMA BeforeOrders ==
    ASSUME RegistryInv, NEW S \in SUBSET Names
    PROVE  Orders(Precedes, S)
<1>1. \A n \in Names : n \in Nat /\ counter[n] \in Nat
  BY NamesAssumption DEF RegistryInv, TypeOK
<1>2. ASSUME NEW x \in S, NEW y \in S PROVE <<x, y>> \in Precedes <=> Before(x, y)
  BY DEF Precedes
<1>3. ASSUME NEW x \in S, NEW y \in S, x # y PROVE Before(x, y) \/ Before(y, x)
  BY <1>1, <1>3 DEF Before
<1>4. ASSUME NEW x \in S, NEW y \in S, NEW z \in S, Before(x, y), Before(y, z) PROVE Before(x, z)
  BY <1>1, <1>4 DEF Before
<1>5. ASSUME NEW x \in S PROVE ~Before(x, x)
  BY <1>1 DEF Before
<1> QED BY <1>2, <1>3, <1>4, <1>5 DEF Orders

(* createAcquirer() lists the queues that it wants, in this order.         *)
LEMMA AcquirerLists ==
    ASSUME RegistryInv, IsFiniteSet(Known), NEW names \in SUBSET Known
    PROVE  LET a == CreateAcquirer(names)
           IN  /\ \E n \in Nat : DOMAIN a = 1..n
               /\ \A i \in DOMAIN a : a[i][1] \in Names
               /\ \A i, j \in DOMAIN a : i < j => Before(a[i][1], a[j][1])
               /\ \A n \in Wanted(names) : <<n, queue[n]>> \in Range(a)
<1> DEFINE W == Wanted(names)
           N == Cardinality(W)
           R == Precedes
           a == CreateAcquirer(names)
           o == Order(names)
<1>1. W \in SUBSET Known /\ W \in SUBSET Names
  BY DEF Wanted, Known
<1>2. IsFiniteSet(W) /\ N \in Nat
  BY <1>1, FS_Subset, FS_CardinalityType
<1>3. Orders(R, W)
  BY <1>1, BeforeOrders
<1>4. \E s : Listing(s, N, W, R)
  BY <1>2, <1>3, ListingExists
<1>5. \E s \in [1..N -> W] : \A i, j \in DOMAIN s : i < j => Before(s[i], s[j])
  <2>1. PICK s : Listing(s, N, W, R)
    BY <1>4
  <2>2. s \in [1..N -> W] /\ DOMAIN s = 1..N
    BY <2>1 DEF Listing
  <2>3. ASSUME NEW i \in 1..N, NEW j \in 1..N, i < j PROVE Before(s[i], s[j])
    BY <2>1, <2>3 DEF Listing, Precedes
  <2> QED BY <2>2, <2>3
<1>6. o \in [1..N -> W] /\ \A i, j \in DOMAIN o : i < j => Before(o[i], o[j])
  BY <1>5 DEF Order
<1>7. DOMAIN o = 1..N /\ DOMAIN a = 1..N
  BY <1>6 DEF CreateAcquirer
<1>8. \A i \in 1..N : a[i] = <<o[i], queue[o[i]]>> /\ o[i] \in W
  BY <1>6, <1>7 DEF CreateAcquirer
<1>9. ASSUME NEW n \in W PROVE \E i \in 1..N : o[i] = n
  <2>1. \A i, j \in 1..N : o[i] = o[j] => i = j
    <3>1. \A x \in W : ~Before(x, x)
      <4>1. ASSUME NEW x \in W PROVE x \in Nat /\ counter[x] \in Nat
        BY <1>1, NamesAssumption DEF RegistryInv, TypeOK
      <4> QED BY <4>1 DEF Before
    <3> QED BY <3>1, <1>2, <1>6, <1>7
  <2>2. o \in Injection(1..N, W)
    BY <2>1, <1>6, <1>7 DEF Injection, IsInjective
  <2>3. Cardinality(1..N) = N /\ IsFiniteSet(1..N)
    BY <1>2, FS_Interval
  <2>4. o \in Surjection(1..N, W)
    BY <2>2, <2>3, <1>2, FS_Injection
  <2> QED BY <2>4 DEF Surjection
<1>10. \A n \in W : <<n, queue[n]>> \in Range(a)
  BY <1>7, <1>8, <1>9 DEF Range
<1>11. \A i \in DOMAIN a : a[i][1] \in Names
  BY <1>1, <1>7, <1>8
<1>12. \A i, j \in DOMAIN a : i < j => Before(a[i][1], a[j][1])
  BY <1>6, <1>7, <1>8
<1> HIDE DEF a, N, W
<1> QED BY <1>2, <1>7, <1>10, <1>11, <1>12 DEF a, W

-----------------------------------------------------------------------------
(* What is known of the modules' declarations: ...                         *)
Done(m) == uses[m] \ toDeclare[m]

Declarations ==
    /\ \A m \in Modules :
          /\ toDeclare[m] \subseteq uses[m] /\ Done(m) \subseteq Known
          /\ phase[m] = "none" => uses[m] = {}
          /\ phase[m] \in {"constructed", "ready"} => toDeclare[m] = {}
    /\ IsFiniteSet(Known) /\ DOMAIN acquirer = Modules

(* ... two modules that have declared a resource are two users of it.      *)
UsersCounted == \A m, o \in Modules : m # o => \A n \in Done(m) \cap Done(o) : counter[n] > 1

(* A module that runs holds the queues of all that it wants, as long as no *)
(* resource has become shared too late for it. *)
Holds(m, n) == queue[n] # 0 /\ <<n, queue[n]>> \in Range(acquirer[m])
Served == ~sharedLate => \A m \in Running : \A n \in Wanted(uses[m]) : Holds(m, n)

(* Until a module is replaced the counts stay what the acquirers were      *)
(* sorted by. *)
Listed(m) == \E k \in Nat : /\ DOMAIN acquirer[m] = 1..k
                            /\ \A i \in 1..k : acquirer[m][i][1] \in Names
Sorted(m) == \A i, j \in DOMAIN acquirer[m] : i < j => Before(acquirer[m][i][1], acquirer[m][j][1])
SortedUntilReplaced ==
    /\ \A m \in Running : Listed(m)
    /\ replacements = 0 /\ Running # {} => Quiet
    /\ replacements = 0 => \A m \in Running : Sorted(m)

ServiceInv == RegistryInv /\ Declarations /\ UsersCounted /\ Served /\ SortedUntilReplaced

(* The inductive invariant of the acquirers.                               *)
LEMMA ServiceInvInit == Init => ServiceInv
<1> SUFFICES ASSUME Init PROVE ServiceInv
  OBVIOUS
<1>1. RegistryInv
  BY RegistryInvInit
<1>2. Known = {} /\ Running = {}
  BY DEF Init, Known, Running
<1>3. Declarations
  BY <1>2, FS_EmptySet DEF Declarations, Init, Done
<1>4. UsersCounted /\ Served /\ SortedUntilReplaced
  BY <1>2 DEF UsersCounted, Served, SortedUntilReplaced, Init, Done
<1> QED BY <1>1, <1>3, <1>4 DEF ServiceInv

(* One more user is one more known resource at most.                       *)
LEMMA DeclareCounts ==
    ASSUME RegistryInv, NEW m \in Modules, NEW n \in Names, Declare(m, n)
    PROVE  /\ Known' = Known \cup {n}
           /\ \A k \in Names : counter[k] \in Nat /\ counter'[k] \in Nat /\ counter'[k] >= counter[k]
           /\ counter[n] > 0 => counter'[n] > 1
           /\ toDeclare' = [toDeclare EXCEPT ![m] = @ \ {n}] /\ n \in toDeclare[m]
           /\ UNCHANGED <<uses, phase, acquirer, replacements>>
           /\ phase[m] = "constructing"
           /\ \A k \in Names : queue[k] # 0 => queue'[k] = queue[k]
<1>1. /\ toDeclare' = [toDeclare EXCEPT ![m] = @ \ {n}] /\ n \in toDeclare[m]
      /\ UNCHANGED <<uses, phase, acquirer, replacements>>
      /\ phase[m] = "constructing"
  BY DEF Declare
<1>2. /\ \A k \in Names : counter[k] \in Nat /\ queue[k] \in Nat
      /\ nLegacy \in Nat /\ counter[Legacy] = nLegacy
      /\ \A k \in Names : counter[k] > 1 => queue[k] # 0
      /\ \A k \in Names \ {Legacy} : counter[k] = 1 => queue[k] = 0
      /\ \A k \in Names : counter[k] = 0 => queue[k] = 0
  BY DEF RegistryInv, TypeOK, SharedHasQueue
<1>3. CASE n = Legacy
  <2>1. /\ counter' = [k \in Names |-> IF k \in Known \cup {Legacy} THEN counter[k] + 1 ELSE counter[k]]
        /\ queue' = [k \in Names |-> IF k \in {x \in Known \cup {Legacy} : queue[x] = 0}
                                       THEN queue[k] + 1 ELSE queue[k]]
    BY <1>3 DEF Declare, RegisterSharedResource, RegisterLegacy, MakeQueues
  <2>2. \A k \in Names : counter'[k] \in Nat /\ counter'[k] >= counter[k]
    BY <2>1, <1>2
  <2>6. \A k \in Names : counter'[k] = IF counter[k] > 0 \/ k = n THEN counter[k] + 1 ELSE counter[k]
    BY <2>1, <1>3 DEF Known
  <2>3. Known' = Known \cup {n}
    BY <2>6, <1>2 DEF Known
  <2>4. counter[n] > 0 => counter'[n] > 1
    BY <2>6, <1>2
  <2>5. \A k \in Names : queue[k] # 0 => queue'[k] = queue[k]
    BY <2>1
  <2> QED BY <1>1, <1>2, <2>2, <2>3, <2>4, <2>5
<1>4. CASE n # Legacy
  <2>1. /\ counter' = [counter EXCEPT ![n] = IF @ = 0 THEN 1 + nLegacy ELSE @ + 1]
        /\ queue' = [k \in Names |->
              IF k \in (IF (counter[n] = 0 /\ nLegacy > 0) \/ counter[n] = 1 THEN {n} ELSE {})
                THEN queue[k] + 1 ELSE queue[k]]
    BY <1>4 DEF Declare, RegisterSharedResource, RegisterResource, MakeQueues
  <2>2. counter'[n] = (IF counter[n] = 0 THEN 1 + nLegacy ELSE counter[n] + 1)
        /\ \A k \in Names : k # n => counter'[k] = counter[k]
    BY <2>1 DEF RegistryInv, TypeOK
  <2>3. \A k \in Names : counter'[k] \in Nat /\ counter'[k] >= counter[k]
    BY <2>2, <1>2
  <2>4. Known' = Known \cup {n}
    BY <2>2, <1>2 DEF Known
  <2>5. counter[n] > 0 => counter'[n] > 1
    BY <2>2, <1>2
  <2>6. \A k \in Names : queue[k] # 0 => queue'[k] = queue[k]
    BY <2>1, <1>2, <1>4
  <2> QED BY <1>1, <1>2, <2>3, <2>4, <2>5, <2>6
<1> QED BY <1>3, <1>4

(* Declaring a resource keeps it, ...                                      *)
LEMMA DeclareKeepsService ==
    ASSUME ServiceInv, RegistryInv', NEW m \in Modules, NEW n \in Names, Declare(m, n)
    PROVE  ServiceInv'
<1> USE DEF ServiceInv
<1>1. /\ Known' = Known \cup {n}
      /\ \A k \in Names : counter[k] \in Nat /\ counter'[k] \in Nat /\ counter'[k] >= counter[k]
      /\ counter[n] > 0 => counter'[n] > 1
      /\ toDeclare' = [toDeclare EXCEPT ![m] = @ \ {n}] /\ n \in toDeclare[m]
      /\ UNCHANGED <<uses, phase, acquirer, replacements>>
      /\ phase[m] = "constructing"
      /\ \A k \in Names : queue[k] # 0 => queue'[k] = queue[k]
  BY DeclareCounts
<1>2. \A o \in Modules : /\ toDeclare[o] \in SUBSET Names /\ uses[o] \in SUBSET Names
                         /\ toDeclare'[o] = IF o = m THEN toDeclare[o] \ {n} ELSE toDeclare[o]
  BY <1>1 DEF RegistryInv, TypeOK
<1>3. \A o \in Modules : Done(o)' = IF o = m THEN Done(o) \cup {n} ELSE Done(o)
  <2>1. n \in uses[m]
    BY <1>1 DEF Declarations
  <2>2. ASSUME NEW o \in Modules PROVE Done(o)' = uses[o] \ toDeclare'[o]
    BY <1>1 DEF Done
  <2>3. ASSUME NEW o \in Modules, o # m PROVE Done(o)' = Done(o)
    BY <2>2, <2>3, <1>2 DEF Done
  <2>4. Done(m)' = Done(m) \cup {n}
    BY <2>1, <2>2, <1>2 DEF Done
  <2> QED BY <2>3, <2>4
<1>4. Declarations'
  <2>1. ASSUME NEW o \in Modules
        PROVE  /\ toDeclare'[o] \subseteq uses'[o] /\ Done(o)' \subseteq Known'
               /\ phase'[o] = "none" => uses'[o] = {}
               /\ phase'[o] \in {"constructed", "ready"} => toDeclare'[o] = {}
    BY <1>1, <1>2, <1>3 DEF Declarations
  <2>2. IsFiniteSet(Known') /\ DOMAIN acquirer' = Modules
    BY <1>1, FS_AddElement DEF Declarations
  <2> QED BY <2>1, <2>2 DEF Declarations
<1>5. UsersCounted'
  <2>1. SUFFICES ASSUME NEW o \in Modules, NEW p \in Modules, o # p, NEW k \in Done(o)' \cap Done(p)'
                 PROVE  counter'[k] > 1
    BY DEF UsersCounted
  <2>2. CASE k \in Done(o) \cap Done(p)
    <3>1. counter[k] > 1 /\ k \in Names
      BY <2>1, <2>2, <1>2 DEF UsersCounted, Done
    <3> QED BY <3>1, <1>1
  <2>3. CASE k \notin Done(o) \cap Done(p)
    <3>1. k = n /\ (n \in Done(o) \/ n \in Done(p))
      BY <2>1, <2>3, <1>3
    <3>2. counter[n] > 0
      BY <3>1, <2>1 DEF Declarations, Known
    <3> QED BY <3>1, <3>2, <1>1
  <2> QED BY <2>2, <2>3
<1>6. Running' = Running
  BY <1>1 DEF Running
<1>7. Served'
  <2>1. ASSUME NEW o \in Modules, NEW k \in Names, Holds(o, k) PROVE Holds(o, k)'
    BY <2>1, <1>1 DEF Holds
  <2>2. ASSUME ~sharedLate' PROVE ~sharedLate /\ \A o \in Running : Wanted(uses[o])' \subseteq Wanted(uses[o])
    <3>1. sharedLate' = (sharedLate \/ SharesLate)
      BY DEF Declare
    <3>2. ~sharedLate /\ ~SharesLate
      BY <2>2, <3>1, Zenon
    <3> QED BY <3>2 DEF SharesLate
  <2>3. ASSUME ~sharedLate', NEW o \in Running', NEW k \in Wanted(uses[o])' PROVE Holds(o, k)'
    <3>1. k \in Wanted(uses[o]) /\ ~sharedLate /\ o \in Running /\ o \in Modules
      BY <2>2, <2>3, <1>6 DEF Running
    <3>2. k \in Names
      BY <3>1, <1>2 DEF Wanted, Known
    <3> QED BY <3>1, <3>2, <2>1 DEF Served
  <2> QED BY <2>3 DEF Served
<1>8. SortedUntilReplaced'
  <2>1. \A o \in Running : Listed(o)'
    BY <1>1 DEF SortedUntilReplaced, Listed
  <2>2. replacements = 0 => Running = {}
    BY <1>1 DEF SortedUntilReplaced, Quiet
  <2> QED BY <2>1, <2>2, <1>1, <1>6 DEF SortedUntilReplaced
<1> QED BY <1>4, <1>5, <1>7, <1>8

(* ... as do the steps that leave the registry alone, ...                  *)
LEMMA RestKeepsService ==
    ASSUME ServiceInv, RegistryInv', NEW m \in Modules,
           Construct(m) \/ Constructed(m) \/ Replace(m)
    PROVE  ServiceInv'
<1> USE DEF ServiceInv
<1>1. UNCHANGED <<counter, queue, nLegacy, acquirer>> /\ Known' = Known
  BY DEF Construct, Constructed, Replace, registry, Known
<1>0. sharedLate' = sharedLate
  BY DEF Construct, Constructed, Replace
<1>2. \A o \in Modules : /\ uses[o] \in SUBSET Names /\ toDeclare[o] \in SUBSET Names
                         /\ phase[o] \in Phases
  BY DEF RegistryInv, TypeOK
<1>3. /\ uses \in [Modules -> SUBSET Names] /\ toDeclare \in [Modules -> SUBSET Names]
      /\ phase \in [Modules -> Phases]
  BY DEF RegistryInv, TypeOK
<1>4. \A o \in Modules : Holds(o, Legacy)' = Holds(o, Legacy) /\ \A k \in Names : Holds(o, k)' = Holds(o, k)
  BY <1>1 DEF Holds
<1>5. \A o \in Modules : Listed(o)' = Listed(o) /\ Sorted(o)' = Sorted(o)
  BY <1>1 DEF Listed, Sorted, Before
<1>6. CASE Construct(m)
  <2>1. PICK names \in SUBSET Names :
           /\ uses' = [uses EXCEPT ![m] = names]
           /\ toDeclare' = [toDeclare EXCEPT ![m] = names]
    BY <1>6 DEF Construct, Plan
  <2>2. /\ phase' = [phase EXCEPT ![m] = "constructing"] /\ phase[m] = "none"
        /\ Running = {} /\ replacements' = replacements
    BY <1>6 DEF Construct, Plan, Running
  <2>3. Running' = {}
    BY <2>2, <1>3 DEF Running
  <2>4. uses[m] = {} /\ toDeclare[m] = {}
    BY <2>2 DEF Declarations
  <2>5. \A o \in Modules :
           /\ uses'[o] = IF o = m THEN names ELSE uses[o]
           /\ toDeclare'[o] = IF o = m THEN names ELSE toDeclare[o]
           /\ phase'[o] = IF o = m THEN "constructing" ELSE phase[o]
    BY <2>1, <2>2, <1>3
  <2>6. \A o \in Modules : Done(o)' = Done(o)
    BY <2>4, <2>5 DEF Done
  <2>7. Declarations'
    <3>1. ASSUME NEW o \in Modules
          PROVE  /\ toDeclare'[o] \subseteq uses'[o] /\ Done(o)' \subseteq Known'
                 /\ phase'[o] = "none" => uses'[o] = {}
                 /\ phase'[o] \in {"constructed", "ready"} => toDeclare'[o] = {}
      <4>1. CASE o = m
        <5>1. /\ uses'[o] = names /\ toDeclare'[o] = names
              /\ phase'[o] = "constructing"
          BY <4>1, <2>1, <2>5
        <5>2. Done(o)' \subseteq Known'
          BY <1>1, <2>6 DEF Declarations
        <5> QED BY <5>1, <5>2
      <4>2. CASE o # m
        BY <4>2, <1>1, <2>5, <2>6 DEF Declarations
      <4> QED BY <4>1, <4>2
    <3> QED BY <3>1, <1>1 DEF Declarations
  <2>8. UsersCounted'
    BY <2>6, <1>1 DEF UsersCounted
  <2> QED BY <2>3, <2>7, <2>8 DEF Served, SortedUntilReplaced
<1>7. CASE Constructed(m) \/ Replace(m)
  <2>1. \A o \in Modules : o # m => /\ uses'[o] = uses[o] /\ toDeclare'[o] = toDeclare[o]
                                    /\ phase'[o] = phase[o]
    BY <1>7, <1>3 DEF Constructed, Replace, Plan
  <2>2. Constructed(m) => /\ uses'[m] = uses[m] /\ toDeclare[m] = {} /\ toDeclare'[m] = {}
                          /\ phase'[m] = "constructed" /\ phase[m] = "constructing"
                          /\ replacements' = replacements
    BY <1>3 DEF Constructed
  <2>3. Replace(m) => /\ uses'[m] = toDeclare'[m] /\ phase'[m] = "constructing"
                      /\ replacements' = replacements + 1
    BY <1>3 DEF Replace, Plan
  <2>4. \A o \in Modules : Done(o)' \subseteq Done(o)
    BY <1>7, <2>1, <2>2, <2>3 DEF Done
  <2>5. Declarations'
    <3>1. ASSUME NEW o \in Modules
          PROVE  /\ toDeclare'[o] \subseteq uses'[o] /\ Done(o)' \subseteq Known'
                 /\ phase'[o] = "none" => uses'[o] = {}
                 /\ phase'[o] \in {"constructed", "ready"} => toDeclare'[o] = {}
      BY <1>1, <1>7, <2>1, <2>2, <2>3, <2>4 DEF Declarations
    <3> QED BY <3>1, <1>1 DEF Declarations
  <2>6. UsersCounted'
    BY <2>4, <1>1 DEF UsersCounted
  <2>7. Running' \subseteq Running /\ m \notin Running'
    BY <1>7, <2>1, <2>2, <2>3 DEF Running
  <2>8. Served'
    <3>1. ASSUME ~sharedLate, NEW o \in Running', NEW k \in Wanted(uses[o])' PROVE Holds(o, k)'
      <4>1. o \in Running /\ o \in Modules /\ uses'[o] = uses[o]
        BY <3>1, <2>1, <2>7 DEF Running
      <4>2. k \in Wanted(uses[o])
        BY <3>1, <4>1, <1>1 DEF Wanted
      <4> QED BY <3>1, <4>1, <4>2, <1>1 DEF Served, Holds
    <3> QED BY <3>1, <1>0 DEF Served
  <2>9. SortedUntilReplaced'
    <3>1. \A o \in Running' : Listed(o)'
      BY <2>7, <1>5 DEF SortedUntilReplaced, Running
    <3>2. CASE Constructed(m)
      <4>1. replacements = 0 => Running = {}
        BY <3>2, <2>2 DEF SortedUntilReplaced, Quiet
      <4> QED BY <3>1, <3>2, <4>1, <2>2, <2>7 DEF SortedUntilReplaced
    <3>3. CASE Replace(m)
      <4>1. replacements' # 0
        BY <3>3, <2>3 DEF RegistryInv, TypeOK
      <4> QED BY <3>1, <4>1 DEF SortedUntilReplaced
    <3> QED BY <3>2, <3>3, <1>7
  <2> QED BY <2>5, <2>6, <2>8, <2>9
<1> QED BY <1>6, <1>7

(* A module that begins its job gets the queues of all whom it could meet. *)
LEMMA BeginJobKeepsService ==
    ASSUME ServiceInv, RegistryInv', NEW m \in Modules, BeginJob(m)
    PROVE  ServiceInv'
<1> USE DEF ServiceInv
<1> DEFINE a == CreateAcquirer(uses[m])
<1>1. /\ UNCHANGED <<counter, queue, nLegacy, uses, toDeclare, replacements, sharedLate>>
      /\ Known' = Known
      /\ Quiet /\ phase[m] = "constructed"
  BY DEF BeginJob, registry, Known
<1>2. \A o \in Modules : /\ acquirer'[o] = acquirer[o] \/ o = m
                         /\ phase'[o] = IF o = m THEN "ready" ELSE phase[o]
                         /\ uses[o] \in SUBSET Names /\ toDeclare[o] \in SUBSET Names
                         /\ phase[o] \in Phases
  BY DEF BeginJob, RegistryInv, TypeOK
<1>3. acquirer'[m] = a
  <2>1. m \in DOMAIN acquirer
    BY DEF Declarations
  <2> QED BY <2>1 DEF BeginJob
<1>4. \A o \in Modules : uses[o] # {} => /\ phase[o] \in {"constructed", "ready"}
                                        /\ Done(o) = uses[o] /\ uses[o] \subseteq Known
  BY <1>1, <1>2 DEF Declarations, Quiet, Phases, Done
<1>5. /\ \E n \in Nat : DOMAIN a = 1..n
      /\ \A i \in DOMAIN a : a[i][1] \in Names
      /\ \A i, j \in DOMAIN a : i < j => Before(a[i][1], a[j][1])
      /\ \A n \in Wanted(uses[m]) : <<n, queue[n]>> \in Range(a)
  <2>1. uses[m] \in SUBSET Known
    BY <1>1, <1>4 DEF Declarations
  <2> HIDE DEF a
  <2> QED BY <2>1, AcquirerLists DEF Declarations, a
<1> HIDE DEF a
<1>6. \A n \in Wanted(uses[m]) : Holds(m, n)'
  <2>1. ASSUME NEW n \in Wanted(uses[m]) PROVE queue[n] # 0
    <3>1. n \in Names /\ counter[n] > 1
      BY <2>1 DEF Wanted, Known, RegistryInv, TypeOK
    <3> QED BY <3>1 DEF RegistryInv, SharedHasQueue
  <2> QED BY <2>1, <1>1, <1>3, <1>5 DEF Holds
<1>7. Declarations'
  <2>1. ASSUME NEW o \in Modules
        PROVE  /\ toDeclare'[o] \subseteq uses'[o] /\ Done(o)' \subseteq Known'
               /\ phase'[o] = "none" => uses'[o] = {}
               /\ phase'[o] \in {"constructed", "ready"} => toDeclare'[o] = {}
    BY <1>1, <1>2 DEF Declarations, Done
  <2>2. DOMAIN acquirer' = Modules
    BY DEF Declarations, BeginJob
  <2> QED BY <2>1, <2>2, <1>1 DEF Declarations
<1>8. UsersCounted'
  BY <1>1 DEF UsersCounted, Done
<1>9. \A o \in Modules : Wanted(uses[o])' = Wanted(uses[o])
  BY <1>1 DEF Wanted
<1>10. Running' = Running \cup {m} /\ m \notin Running /\ Running \subseteq Modules
  BY <1>1, <1>2 DEF Running
<1>11. Served'
  <2>1. ASSUME ~sharedLate, NEW o \in Running', NEW k \in Wanted(uses[o]) PROVE Holds(o, k)'
    <3>1. CASE o = m
      BY <2>1, <3>1, <1>6
    <3>2. CASE o # m
      <4>1. o \in Running /\ acquirer'[o] = acquirer[o]
        BY <2>1, <3>2, <1>2, <1>10
      <4> QED BY <4>1, <2>1, <1>1 DEF Served, Holds
    <3> QED BY <3>1, <3>2
  <2> QED BY <2>1, <1>1, <1>9, <1>10 DEF Served, Running
<1>12. SortedUntilReplaced'
  <2>1. ASSUME NEW o \in Running PROVE acquirer'[o] = acquirer[o]
    BY <1>2, <1>10
  <2>2. \A o \in Running' : Listed(o)'
    BY <2>1, <1>3, <1>5, <1>10 DEF SortedUntilReplaced, Listed
  <2>3. Quiet'
    BY <1>1, <1>2 DEF Quiet
  <2>4. \A x, y : Before(x, y)' = Before(x, y)
    BY <1>1 DEF Before
  <2>5. Sorted(m)'
    BY <2>4, <1>3, <1>5 DEF Sorted
  <2>6. \A o \in Running : Sorted(o) => Sorted(o)'
    BY <2>1, <2>4 DEF Sorted
  <2> QED BY <1>1, <1>10, <2>2, <2>3, <2>5, <2>6 DEF SortedUntilReplaced
<1> QED BY <1>7, <1>8, <1>11, <1>12

(* ... and so does every step.                                             *)
LEMMA ServiceInvStep == ServiceInv /\ [Next]_vars => ServiceInv'
<1> SUFFICES ASSUME ServiceInv, [Next]_vars PROVE ServiceInv'
  OBVIOUS
<1>1. RegistryInv'
  BY RegistryInvStep DEF ServiceInv
<1>2. CASE UNCHANGED vars
  BY <1>2, <1>1
  DEF vars, ServiceInv, Declarations, UsersCounted, Served, SortedUntilReplaced, Done, Known, Running,
      Wanted, Holds, Listed, Sorted, Before, Quiet
<1>3. CASE Next
  BY <1>1, <1>3, DeclareKeepsService, RestKeepsService, BeginJobKeepsService DEF Next
<1> QED BY <1>2, <1>3

(* It holds in all reachable states.                                       *)
LEMMA ServiceAlways == Spec => []ServiceInv
BY ServiceInvInit, ServiceInvStep, PTL DEF Spec

(* A common resource of two modules is shared, and a legacy module counts  *)
(* as a user of them all: what two modules conflict for, both want.        *)
LEMMA ConflictWanted ==
    ASSUME ServiceInv, NEW m \in Running, NEW o \in Running, m # o, Conflict(m, o)
    PROVE  \E n \in Names : n \in Wanted(uses[m]) \cap Wanted(uses[o])
<1> USE DEF ServiceInv
<1>1. \A k \in Names : counter[k] \in Nat /\ nLegacy \in Nat /\ counter[Legacy] = nLegacy
  BY DEF RegistryInv, TypeOK
<1>2. /\ m \in Modules /\ o \in Modules /\ Known \subseteq Names
      /\ uses[m] \subseteq Known /\ uses[o] \subseteq Known
      /\ Done(m) = uses[m] /\ Done(o) = uses[o]
  BY DEF Running, Declarations, Done, Known
<1>3. \A k \in Known \ {Legacy} : counter[k] > nLegacy
  BY DEF Known, RegistryInv
<1>4. \A k \in uses[m] \cap uses[o] : counter[k] > 1
  BY <1>2 DEF UsersCounted
<1>5. Legacy \in uses[m] \cup uses[o] => nLegacy > 0
  BY <1>1, <1>2 DEF Known
<1>6. ASSUME NEW p \in {m, o}, NEW k \in Known, k # Legacy, counter[k] > 1, k \in uses[p] \/ Legacy \in uses[p]
      PROVE  k \in Wanted(uses[p])
  <2>1. CASE Legacy \in uses[p]
    <3>1. Cardinality(Known) > 1
      <4>1. IsFiniteSet(Known) /\ {k, Legacy} \subseteq Known
        BY <1>2, <1>6, <2>1 DEF Declarations
      <4>2. Cardinality({k, Legacy}) = 2
        <5>1. Cardinality({k}) = 1 /\ IsFiniteSet({k})
          BY FS_Singleton
        <5>2. Cardinality({k} \cup {Legacy}) = Cardinality({k}) + 1
          BY <5>1, <1>6, FS_AddElement
        <5>3. {k} \cup {Legacy} = {k, Legacy}
          OBVIOUS
        <5> QED BY <5>1, <5>2, <5>3
      <4>3. Cardinality({k, Legacy}) <= Cardinality(Known) /\ Cardinality(Known) \in Nat
        BY <4>1, FS_Subset, FS_CardinalityType
      <4> QED BY <4>2, <4>3
    <3> QED BY <1>6, <2>1, <3>1 DEF Wanted
  <2>2. CASE Legacy \notin uses[p]
    BY <1>6, <2>2 DEF Wanted
  <2> QED BY <2>1, <2>2
<1>7. CASE \E k \in Known \ {Legacy} :
              /\ counter[k] > 1
              /\ k \in uses[m] \/ Legacy \in uses[m]
              /\ k \in uses[o] \/ Legacy \in uses[o]
  BY <1>2, <1>6, <1>7
<1>8. CASE Legacy \in uses[m] \cap uses[o] /\ Known = {Legacy}
  <2>1. Cardinality(Known) = 1 /\ counter[Legacy] > 1
    BY <1>4, <1>8, FS_Singleton
  <2> QED BY <2>1, <1>8, NamesAssumption DEF Wanted
<1>9. CASE Legacy \in uses[m] \cap uses[o] /\ Known # {Legacy}
  <2>1. PICK k \in Known : k # Legacy
    BY <1>2, <1>9
  <2>2. counter[k] > 1
    BY <1>1, <1>2, <1>3, <1>5, <1>9, <2>1
  <2> QED BY <1>7, <1>9, <2>1, <2>2
<1>10. CASE Legacy \notin uses[m] \cap uses[o]
  <2>1. PICK k \in Known : /\ k # Legacy
                           /\ k \in uses[m] \/ Legacy \in uses[m]
                           /\ k \in uses[o] \/ Legacy \in uses[o]
                           /\ k \in uses[m] \cap uses[o] \/ Legacy \in uses[m] \cup uses[o]
    BY <1>2, <1>10 DEF Conflict
  <2>2. counter[k] > 1
    BY <1>1, <1>2, <1>3, <1>4, <1>5, <2>1
  <2> QED BY <1>7, <2>1, <2>2
<1> QED BY <1>8, <1>9, <1>10

(* Two modules that may not run together hold a common queue, whatever the *)
(* order in which resources are declared and modules replaced, unless a    *)
(* replacement has made a resource shared that a running module uses.      *)
THEOREM ConflictsMeetUnlessSharedLate == Spec => []MeetUnlessSharedLate
<1>1. ServiceInv => MeetUnlessSharedLate
  <2> SUFFICES ASSUME ServiceInv, ~sharedLate,
                      NEW m \in Running, NEW o \in Running, m # o, Conflict(m, o)
               PROVE  Range(acquirer[m]) \cap Range(acquirer[o]) # {}
    BY DEF MeetUnlessSharedLate, ConflictsMeet
  <2>1. PICK n \in Names : n \in Wanted(uses[m]) \cap Wanted(uses[o])
    BY ConflictWanted
  <2>2. Holds(m, n) /\ Holds(o, n)
    BY <2>1 DEF ServiceInv, Served
  <2> QED BY <2>2 DEF Holds
<1> QED BY <1>1, ServiceAlways, PTL

(* While no module has been replaced, no two acquirers take two queues in  *)
(* opposite orders: all are sorted by the same counts.                     *)
THEOREM OrderUntilReplacedCorrect == Spec => []OrderUntilReplaced
<1>1. ServiceInv => OrderUntilReplaced
  <2> SUFFICES ASSUME ServiceInv, replacements = 0, NEW m \in Running, NEW o \in Running,
                      NEW i \in DOMAIN acquirer[m], NEW j \in DOMAIN acquirer[m],
                      NEW k \in DOMAIN acquirer[o], NEW l \in DOMAIN acquirer[o],
                      acquirer[m][i] = acquirer[o][k], acquirer[m][j] = acquirer[o][l], i < j
               PROVE  k < l
    BY DEF OrderUntilReplaced, ConsistentOrder
  <2>1. Listed(m) /\ Listed(o) /\ Sorted(m) /\ Sorted(o)
    BY DEF ServiceInv, SortedUntilReplaced
  <2>2. PICK x, y : x = acquirer[o][k][1] /\ y = acquirer[o][l][1]
    OBVIOUS
  <2>3. k \in Nat /\ l \in Nat /\ x \in Names /\ y \in Names
    BY <2>1, <2>2 DEF Listed
  <2>4. Before(x, y)
    BY <2>1, <2>2 DEF Sorted
  <2>5. counter[x] \in Nat /\ counter[y] \in Nat /\ x \in Nat /\ y \in Nat
    BY <2>3, NamesAssumption DEF ServiceInv, RegistryInv, TypeOK
  <2>6. ~Before(y, x) /\ x # y
    BY <2>4, <2>5 DEF Before
  <2>7. ~(l < k)
    BY <2>1, <2>2, <2>6 DEF Sorted
  <2> QED BY <2>2, <2>3, <2>6, <2>7
<1> QED BY <1>1, ServiceAlways, PTL
=============================================================================

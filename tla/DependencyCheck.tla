--------------------------- MODULE DependencyCheck ---------------------------
(***************************************************************************)
(* checkForModuleDependencyCorrectness() and throwIfImproperDependencies() *)
(* (FWCore/Framework): before the first event the job looks for cycles in  *)
(* the graph of what each module must wait for, and refuses a schedule it  *)
(* takes for unrunnable.  A schedule has paths, the first s.trig of them   *)
(* ordinary ones and the rest end paths, each a sequence of entries with a *)
(* module and a filter action, and the modules each module consumes.       *)
(***************************************************************************)
EXTENDS Integers, FiniteSets, SequencesExt, FiniteSetsExt

CONSTANT Results   \* the module TriggerResults; the others are numbered from 1

Data == 0          \* kDataDependencyIndex; the paths are numbered from 1

(* Nodes of the graph, numbered as modules are constructed.                *)
Root == 0
ModuleNode(s, m) == IF m = Results THEN 1 ELSE 1 + Len(s.paths) + m
Ended(p) == 1 + p
StartOf(s, p) == ModuleNode(s, Cardinality(DOMAIN s.consumes)) + p
HasResults(s) == \E p \in 1..s.trig : s.paths[p] # <<>>

FirstOccurrences(path) ==
    FoldLeft(LAMBDA seen, entry : IF entry.module \in ToSet(seen) THEN seen
                                  ELSE Append(seen, entry.module), <<>>, path)

(* pathIndexToModuleIndexOrder                                             *)
PathOrder(s, p) ==
    LET modules == FirstOccurrences(s.paths[p])
    IN  IF modules = <<>> THEN <<>>
        ELSE (IF p > s.trig /\ HasResults(s) THEN <<StartOf(s, p)>> ELSE <<>>)
             \o [i \in DOMAIN modules |-> ModuleNode(s, modules[i])] \o <<Ended(p)>>

InOrder(nodes) == SelectSeq([i \in 1..(1 + Max({0} \cup nodes)) |-> i - 1], LAMBDA n : n \in nodes)

Position(order, n) == IF n \in ToSet(order) THEN CHOOSE i \in DOMAIN order : order[i] = n
                      ELSE Len(order) + 1

WithoutPaths(orders, m, d) == \* mutant: modules on paths are taken to be in order
    \A p \in DOMAIN orders : m \notin ToSet(orders[p]) \/ d \notin ToSet(orders[p])

(* A data dependency that every path with the consumer meets by its order  *)
(* counts as a path dependency only.                                       *)
KeepsData(orders, m, d) ==
    LET with(n) == {p \in DOMAIN orders : n \in ToSet(orders[p])}
    IN  with(m) = {} \/ with(d) = {}
        \/ \E p \in with(m) : Position(orders[p], m) < Position(orders[p], d)

(* edgeToPathMap: an edge, from what waits to what it waits for, and the   *)
(* path it comes from or Data.                                             *)
Edges(s, orders) ==
    LET used == {p \in DOMAIN orders : orders[p] # <<>>}
        consumed == {<<ModuleNode(s, c), ModuleNode(s, d)>> :
                        <<c, d>> \in {x \in (DOMAIN s.consumes) \X ({Results} \cup DOMAIN s.consumes) :
                                        x[2] \in s.consumes[x[1]]}}
    IN  UNION {{<<orders[p][i + 1], orders[p][i], p>> : i \in 1..(Len(orders[p]) - 1)} : p \in used}
        \cup {<<Root, Ended(p), Data>> : p \in used}
        \cup {<<ModuleNode(s, Results), Ended(p), Data>> : p \in {p \in used : p <= s.trig}}
        \cup {<<StartOf(s, p), ModuleNode(s, Results), Data>> :
                p \in {p \in used : p > s.trig /\ HasResults(s)}}
        \cup {<<e[1], e[2], Data>> : e \in {e \in consumed : KeepsData(orders, e[1], e[2])}}

Dependencies(g, e) == {x[3] : x \in {x \in g.edges : x[1] = e[1] /\ x[2] = e[2]}}

-----------------------------------------------------------------------------
(* findMinimumCycle(): walk back from the last edge and drop what does not *)
(* lead to it.                                                             *)
MinimumCycle(edges) ==
    LET final == Last(edges)[2]
        back(cycle, e) == IF e[2] # cycle[1][1] \/ (Len(cycle) > 1 /\ cycle[1][1] = final)
                            THEN cycle ELSE <<e>> \o cycle
    IN  FoldLeft(back, <<Last(edges)>>, Reverse(Front(edges)))

(* One edge of checkCycleForProblem().  c.paths are the paths all edges    *)
(* since the last change of path have in common.                           *)
NextEdge(g, c, e) ==
    LET here == Dependencies(g, e) \ {Data}
        data == Data \in Dependencies(g, e)
        later == {w \in c.later : w[1] \in here =>
                     /\ w[2] \notin {e[1], e[2]}
                     /\ Position(g.orders[w[1]], w[2]) <= Position(g.orders[w[1]], e[2])}
        shared == here \cap c.paths
        \* every path that is left has the module ahead of the place it is left at
        ahead == \A p \in c.paths : Position(g.orders[p], e[2]) < Position(g.orders[p], c.out)
        falseJump == shared = {} /\ data /\ c.paths # {} /\ ahead
    IN  IF c.harmless THEN c
        ELSE [harmless |-> shared = {} /\ ~data /\ ~c.data /\ c.paths # {},
              hasData |-> c.hasData \/ data,
              data |-> data,
              out |-> e[2],
              later |-> IF falseJump THEN later \cup {<<p, e[2]>> : p \in c.paths} ELSE later,
              ahead |-> c.ahead \/ falseJump,
              shared |-> shared,
              paths |-> IF shared = {} THEN here ELSE shared,
              changed |-> c.changed \/ shared = {},
              initial |-> IF shared # {} /\ ~c.changed THEN shared ELSE c.initial]

(* checkCycleForProblem(): what is known after all edges, and whether that *)
(* makes the schedule unrunnable.                                          *)
Walked(g, cycle) ==
    LET last == Dependencies(g, Last(cycle))
        start == [harmless |-> FALSE, hasData |-> FALSE, data |-> Data \in last,
                  out |-> Last(cycle)[2], later |-> {}, ahead |-> FALSE, shared |-> {},
                  paths |-> last \ {Data}, changed |-> FALSE, initial |-> last \ {Data}]
    IN  FoldLeft(LAMBDA a, e : NextEdge(g, a, e), start, cycle)

IsProblem(g, cycle) ==
    LET c == Walked(g, cycle)
    IN  /\ ~c.harmless /\ c.hasData
        /\ ~(c.ahead /\ c.later # {})
        /\ c.initial # {} => c.initial \cap c.shared # {}

-----------------------------------------------------------------------------
(* The visitor cycle_detector, called by boost's depth first search.       *)
(* slot is what m_stack.front() reads once the stack is empty.             *)
TreeEdge(d, e) ==
    LET same == {i \in DOMAIN d.stack : d.stack[i][1] = e[1]}
        kept == IF same = {} THEN d.stack
                ELSE SubSeq(d.stack, 1, Min(same) - 1)
    IN  [d EXCEPT !.stack = Append(kept, e), !.slot = IF kept = <<>> THEN e ELSE @]

FinishVertex(d, v) ==
    [d EXCEPT !.color[v] = "black",
              !.stack = IF @ # <<>> /\ Last(@)[1] = v THEN Front(@) ELSE @]

FromRoot(d) == Head(IF d.stack = <<>> THEN <<d.slot>> ELSE d.stack)[1] = Root

BackEdge(g, d, e) ==
    LET cycle == MinimumCycle(Append(d.stack, e))
    IN  IF ~FromRoot(d) THEN d
        ELSE [d EXCEPT !.cycles = Append(@, cycle), !.problem = IsProblem(g, cycle)]

(* Where a known cycle leads back to the stack, from an edge on; Len + 1   *)
(* if it does not.                                                         *)
MeetsAgain(stack, cycle, first) ==
    {i \in first..Len(cycle) : cycle[i][2] \in {e[1] : e \in ToSet(stack)}} \cup {Len(cycle) + 1}

(* A stack that leads into a known cycle is joined with the part of that   *)
(* cycle that leads back to the stack, or with the whole cycle.            *)
JoinCycle(stack, cycle, first) ==
    LET after == Min(MeetsAgain(stack, cycle, first))
        before == Min(MeetsAgain(stack, cycle, 1))
    IN  IF after <= Len(cycle) THEN stack \o SubSeq(cycle, first, after)
        ELSE stack \o SubSeq(cycle, first, Len(cycle))
             \o SubSeq(cycle, 1, IF before < first THEN before ELSE first - 1)

(* Joined with every known cycle through the vertex, until the first that  *)
(* is joined as a whole.                                                   *)
ForwardOrCrossEdge(g, d, e) ==
    LET stack == MinimumCycle(Append(d.stack, e))
        starts(cycle) == {i \in DOMAIN cycle : cycle[i][1] = e[2]}
        check(result, cycle) ==
            IF starts(cycle) = {} \/ result # "looking" THEN result
            ELSE LET first == Min(starts(cycle))
                 IN  IF first = 1 /\ Min(MeetsAgain(stack, cycle, 1)) = Len(cycle)
                       THEN "known"
                     ELSE IF IsProblem(g, MinimumCycle(JoinCycle(stack, cycle, first)))
                       THEN "problem" ELSE "looking"
    IN  IF ~FromRoot(d) \/ \A i \in DOMAIN d.cycles : starts(d.cycles[i]) = {} THEN d
        ELSE [d EXCEPT !.problem = FoldLeft(check, "looking", d.cycles) = "problem",
                       !.slot = IF d.stack = <<>> THEN e ELSE @]

RECURSIVE Visit(_, _, _)
Examine(g, d, e) ==
    IF d.problem THEN d
    ELSE CASE d.color[e[2]] = "white" -> Visit(g, TreeEdge(d, e), e[2])
           [] d.color[e[2]] = "gray"  -> BackEdge(g, d, e)
           [] d.color[e[2]] = "black" -> ForwardOrCrossEdge(g, d, e)

Visit(g, d, v) ==
    LET out == InOrder({e[2] : e \in {e \in g.edges : e[1] = v}})
    IN  FinishVertex(FoldLeft(LAMBDA a, w : Examine(g, a, <<v, w>>),
                              [d EXCEPT !.color[v] = "gray"], out), v)

Graph(s) == LET orders == [p \in DOMAIN s.paths |-> PathOrder(s, p)]
            IN  [orders |-> orders, edges |-> Edges(s, orders)]
Nodes(g) == {Root} \cup UNION {{e[1], e[2]} : e \in g.edges}

(* The job goes on: no cycle that was looked at is a problem.              *)
Accepts(s) ==
    LET g == Graph(s)
        visit(d, v) == IF d.problem \/ d.color[v] # "white" THEN d ELSE Visit(g, d, v)
        none == [color |-> [n \in Nodes(g) |-> "white"], stack |-> <<>>, slot |-> <<Root, Root>>,
                 cycles |-> <<>>, problem |-> FALSE]
    IN  ~FoldLeft(visit, none, InOrder(Nodes(g))).problem

-----------------------------------------------------------------------------
(* What a node waits for, directly or not.                                 *)
RECURSIVE Reaches(_, _)
Reaches(edges, set) == LET more == set \cup {e[2] : e \in {e \in edges : e[1] \in set}}
                       IN  IF more = set THEN set ELSE Reaches(edges, more)

(* A module that some path needs waits for data of one that waits for it:  *)
(* a data dependency lies on a cycle.                                      *)
OnCycle(edges) == LET needed == Reaches(edges, {Root})
                  IN  \E e \in edges : e[3] = Data /\ e[1] \in needed /\ e[1] \in Reaches(edges, {e[2]})

DataOnCycle(s) == OnCycle(Graph(s).edges)

(* The same without the edges that have an end path wait for the trigger   *)
(* results: StreamSchedule starts end paths together with the others.      *)
WaitsInCircle(s) ==
    OnCycle({e \in Graph(s).edges : e[1] \notin {StartOf(s, p) : p \in DOMAIN s.paths}})
=============================================================================

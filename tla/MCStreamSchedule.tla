-------------------------- MODULE MCStreamSchedule --------------------------
(* Schedules of three modules on two paths: every order of the modules on the *)
(* paths, up to renaming, with small patterns of what the modules consume.    *)
EXTENDS StreamSchedule, TLC
Check == INSTANCE DependencyCheck

Three == 1..3
On(modules) == [i \in DOMAIN modules |-> [module |-> modules[i], action |-> "Normal"]]
Orders == {q \in UNION {[1..k -> Three] : k \in 1..3} : \A i, j \in DOMAIN q : q[i] = q[j] => i = j}
InOrder == {<<1>>, <<1, 2>>, <<1, 2, 3>>}
Pairs(most) == {r \in SUBSET {x \in Three \X Three : x[1] # x[2]} : Cardinality(r) <= most}
Consuming(pairs) == [m \in Three |-> {x[2] : x \in {x \in pairs : x[1] = m}}]
Each(outcomes) == [m \in Three |-> outcomes]

Config(paths, ordinary, consumes, outcomes, deletable) ==
    [paths |-> paths, trig |-> ordinary, consumes |-> consumes, outcomes |-> outcomes,
     deletable |-> deletable, selects |-> {}, external |-> {}]

(* Filters: two ordinary paths, or an ordinary one and an end path.          *)
Filtering == {Config(<<On(a), On(b)>>, n, Consuming(r), Each({"pass", "reject"}), {}) :
                a \in InOrder, b \in Orders, n \in {1, 2}, r \in Pairs(2)}

(* Modules that throw, and one that need not be on a path.                   *)
Failing == {Config(<<On(<<1, 2>>), On(b)>>, n, Consuming(r),
                   1 :> {"pass", "Rethrow", "SkipEvent"} @@ 2 :> {"pass", "FailPath", "IgnoreCompletely"}
                   @@ 3 :> {"pass", "SkipEvent", "FailPath"}, {}) :
              b \in Orders, n \in {1, 2}, r \in Pairs(2)}

(* The product of module 1 may be deleted early.                             *)
Deleting == {Config(<<On(a), On(b)>>, n, Consuming(r), Each({"pass", "reject"}), {1}) :
               a \in Orders, b \in Orders, n \in {1, 2}, r \in {{<<2, 1>>}, {<<2, 1>>, <<3, 1>>}}}

(* A module that waits for one that two other paths may come to or give up.  *)
Sharing == {Config(<<On(a), On(b), On(<<3>>)>>, n, Consuming({<<3, 1>>}),
                   1 :> {"pass", "Rethrow"} @@ 2 :> {"pass", "reject", "FailPath"} @@ 3 :> {"pass"}, d) :
              a, b \in {<<1>>, <<2, 1>>, <<1, 2>>}, n \in 1..3, d \in {{}, {1}}}

(* Entries that veto or ignore a filter, a module that comes twice, and one  *)
(* on an end path that consumes the trigger results.                         *)
Twice(a, b, c) == <<[module |-> 1, action |-> a], [module |-> 2, action |-> b], [module |-> 1, action |-> c]>>
Mixed == {Config(<<Twice(a, b, c), On(q)>>, 1, [Consuming(r) EXCEPT ![3] = @ \cup {Results}],
                 Each({"pass", "reject", "SkipEvent", "FailPath"}), {1}) :
            a, b, c \in {"Normal", "Veto", "Ignore"}, q \in {<<3>>, <<2, 3>>}, r \in {{}, {<<3, 1>>}}}

(* An end path with a module that selects events and one that acquires (the  *)
(* first has an acquire() as well, which is never called); a                 *)
(* single path; no ordinary path, hence no trigger results.                  *)
Special == {[Config(<<On(<<1>>), On(q)>>, 1, [Consuming(r) EXCEPT ![2] = @ \cup {Results}],
                    Each({"pass", "SkipEvent", "IgnoreCompletely"}), {1}) EXCEPT !.selects = {2}, !.external = {2, 3}] :
               q \in {<<2, 3>>, <<3, 2>>, <<3, 1>>}, r \in Pairs(2)}
           \cup {Config(<<On(a)>>, 1, Consuming(r), Each({"pass", "reject"}), {}) : a \in InOrder, r \in Pairs(3)}
           \cup {Config(<<On(<<2, 1>>)>>, 0, [Consuming(r) EXCEPT ![2] = @ \cup {Results}],
                        Each({"pass", "SkipEvent"}), {3}) : r \in Pairs(2)}

(* A module that acquires on an end path, of whose inputs one may be ignored. *)
Ignoring == {[Config(<<On(<<1>>), On(<<3>>)>>, 1, Consuming({<<3, 1>>, <<3, 2>>}),
                     1 :> {"pass", "FailPath"} @@ 2 :> {"pass", "Rethrow"} @@ 3 :> {"pass"}, {})
               EXCEPT !.external = {3}]}

Configurations == UNION {Filtering, Failing, Deleting, Sharing, Mixed, Special, Ignoring}

(* Schedules that wait in a circle although the check lets them pass: for    *)
(* each other's data, for data of a later module of one's own path, and for  *)
(* data of a module behind a filter that another path has to pass first.     *)
Circular == {Config(<<On(<<1, 2>>), On(<<2, 1>>)>>, 2, Consuming({<<1, 2>>, <<2, 1>>}), Each({"pass"}), {}),
             Config(<<On(<<1, 2>>), On(<<2, 3, 1>>)>>, 2, Consuming({<<2, 3>>}), Each({"pass"}), {}),
             Config(<<On(<<1, 2, 3>>), On(<<2, 3, 1>>)>>, 2, Consuming({<<1, 3>>}), Each({"pass", "reject"}), {})}

Accepted(s) == Check!Accepts(s)
Runnable(s) == Check!Accepts(s) /\ ~Check!WaitsInCircle(s)

(* On a single path a module waits for what it consumes and what comes     *)
(* before it: one that is needed, for itself.                              *)
WaitsForItself(s) ==
    LET order == s.paths[1]
        waits == {x \in Three \X Three :
                    \/ x[2] \in s.consumes[x[1]]
                    \/ \E i, j \in DOMAIN order : i < j /\ x = <<order[j].module, order[i].module>>}
        needed == Check!Reaches(waits, {order[i].module : i \in DOMAIN order})
    IN  \E x \in waits : x[1] \in needed /\ x[1] \in Check!Reaches(waits, {x[2]})

(* checkForModuleDependencyCorrectness() refuses no schedule in which every *)
(* cycle of waiting consists of the order on paths alone; with a single    *)
(* path it refuses exactly those in which a needed module waits for itself. *)
CheckIsSound == status = "new" =>
    /\ Check!Accepts(schedule) \/ Check!DataOnCycle(schedule)
    /\ Cardinality(Paths) = 1 => (Check!Accepts(schedule) <=> ~WaitsForItself(schedule))
=============================================================================

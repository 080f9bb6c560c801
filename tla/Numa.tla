-------------------------------- MODULE Numa --------------------------------
(***************************************************************************)
(* schedule/ext/numa.hpp and schedule/impl/numa_context.hpp: where the     *)
(* workers of a pool run, in which order they steal from each other, and   *)
(* which NUMA node's counters they share.                                  *)
(*                                                                         *)
(* An object of the hardware tree is the path of child numbers that leads  *)
(* to it from the machine, << >>; its depth is the length of the path.     *)
(* Processing units are the leaves. hwloc_distrib decides which of them    *)
(* the workers get; all that follows holds for any choice.                 *)
(***************************************************************************)
EXTENDS Integers, Sequences, SequencesExt, FiniteSets, FiniteSetsExt

(* A machine: its units, its cores and packages, and its objects that have *)
(* memory of their own, the machine at least.                              *)
IsMachine(m) ==
    /\ << >> \in m.memory
    /\ \A p, q \in m.units : p # q => ~IsPrefix(p, q)

-----------------------------------------------------------------------------
(* count_cores, and the packages split() chooses for the seq strategy: in  *)
(* order, until they have as many cores as there are workers, or all.      *)
count_cores(m, obj) == Cardinality({c \in m.cores : IsPrefix(obj, c)})

Roots(m, n, strategy) ==
    LET before[i \in 1..Len(m.packages)] ==
            IF i = 1 THEN 0 ELSE before[i - 1] + count_cores(m, m.packages[i - 1])
    IN  IF strategy = "seq"
        THEN {m.packages[i] : i \in {k \in DOMAIN m.packages : before[k] < n}}
        ELSE {<< >>}

(* get_numa_index: the closest object around a unit that has memory.       *)
get_numa_index(m, unit) ==
    CHOOSE p \in m.memory : /\ IsPrefix(p, unit)
                            /\ \A q \in m.memory : IsPrefix(q, unit) => Len(q) <= Len(p)

(* split() numbers these objects as it comes across them.                  *)
NumaOf(m, units) ==
    [i \in DOMAIN units |->
        LET first == Min({k \in DOMAIN units :
                            get_numa_index(m, units[k]) = get_numa_index(m, units[i])})
        IN  Cardinality({get_numa_index(m, units[k]) : k \in 1..(first - 1)})]

(* distance_matrix: how far the nearest common ancestor is.                *)
Common(p, q) == Max({k \in 0..Min({Len(p), Len(q)}) : SubSeq(p, 1, k) = SubSeq(q, 1, k)})
Distance(p, q) == Max({Len(p) - Common(p, q), Len(q) - Common(p, q)})

(* MUTANT of Others: the worker is compared with itself too.               *)
BugWithItself(units, i) == DOMAIN units

Others(units, i) == DOMAIN units \ {i}

(* distribute(): a worker itself, then the others by increasing distance.  *)
Neighbors(units, i) ==
    LET uniques == SetToSortSeq({Distance(units[i], units[j]) : j \in Others(units, i)}, <)
    IN  <<{i}>> \o [d \in DOMAIN uniques |->
                      {j \in DOMAIN units \ {i} : Distance(units[i], units[j]) = uniques[d]}]

(* Without hwloc everybody else is at the same distance.                   *)
PlainNeighbors(n, i) == IF n > 1 THEN <<{i}, 1..n \ {i}>> ELSE <<{i}>>

(* init_worker_and_bind: the neighbours try_steal() looks at first, one    *)
(* after the other, and the weights with which it then draws from all of   *)
(* them; a weight is 1 / Rarity.                                           *)
Close(lists) == IF Len(lists) > 1 THEN lists[2] ELSE {}
Neigh(lists) == UNION {lists[d] : d \in 2..Len(lists)}
Rarity(lists, d) == Cardinality(lists[d]) * (d - 1) * (d - 1)

-----------------------------------------------------------------------------
(* What try_steal() relies on.                                             *)
StealsFromAllOthers(lists, i, n) ==
    /\ lists[1] = {i}
    /\ Neigh(lists) = 1..n \ {i}
    /\ \A c, d \in 1..Len(lists) : c # d => lists[c] \intersect lists[d] = {}
    /\ n > 1 => Close(lists) # {}
    /\ \A d \in 2..Len(lists) : Rarity(lists, d) > 0

ByDistance(lists, units, i) ==
    \A c, d \in 1..Len(lists) : c < d =>
        \A j \in lists[c], k \in lists[d] : 
            j # i => Distance(units[i], units[j]) < Distance(units[i], units[k])

(* The counters of lazy_pool: a vector of 1 + the largest index.           *)
NodesAreDense(m, units) ==
    LET numa == NumaOf(m, units)
    IN  /\ {numa[i] : i \in DOMAIN units} = 0..Max({numa[i] : i \in DOMAIN units})
        /\ \A i, j \in DOMAIN units :
             numa[i] = numa[j] <=> get_numa_index(m, units[i]) = get_numa_index(m, units[j])

(* On every machine given and for every choice of units hwloc may make for *)
(* n workers, two on the same unit included: each worker can steal from    *)
(* every other one, nearer ones first; no list it draws from is empty (the *)
(* weights divide by its size); and the NUMA nodes are numbered without a  *)
(* gap, so that every node's counters have a worker and every worker finds *)
(* its node's. The seq strategy finds some package to place workers on.    *)
TopologyIsSoundOn(Machines, n) ==
    /\ \A i \in 1..n : StealsFromAllOthers(PlainNeighbors(n, i), i, n)
    /\ \A m \in Machines :
         /\ IsMachine(m)
         /\ \A strategy \in {"seq", "fan"} :
              /\ Roots(m, n, strategy) # {}
              /\ \A units \in [1..n -> {u \in m.units :
                                          \E r \in Roots(m, n, strategy) : IsPrefix(r, u)}] :
                   /\ NodesAreDense(m, units)
                   /\ \A i \in 1..n :
                        /\ StealsFromAllOthers(Neighbors(units, i), i, n)
                        /\ ByDistance(Neighbors(units, i), units, i)
=============================================================================

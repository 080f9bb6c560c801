----------------------------- MODULE MCLazyPool -----------------------------
(* Model values for the TLC run of LazyPool. The NUMA nodes of the workers  *)
(* are what split() makes of three units of a machine with two packages of  *)
(* two cores: two workers share a package and its memory.                   *)
EXTENDS LazyPool, Numa, TLC

CONSTANTS w1, w2, w3

TwoPackages ==
    [units |-> {<<p, c, 1>> : p \in 1..2, c \in 1..2},
     cores |-> {<<p, c>> : p \in 1..2, c \in 1..2},
     packages |-> <<<<1>>, <<2>>>>,
     memory |-> {<< >>, <<1>>, <<2>>}]

(* Hyper-threads, one memory for all, packages of different sizes.          *)
Uneven ==
    [units |-> {<<1, 1, 1>>, <<1, 1, 2>>, <<2, 1, 1>>, <<2, 2, 1>>},
     cores |-> {<<1, 1>>, <<2, 1>>, <<2, 2>>},
     packages |-> <<<<1>>, <<2>>>>,
     memory |-> {<< >>}]

Placed == <<<<1, 1, 1>>, <<1, 2, 1>>, <<2, 1, 1>>>>
TwoNodes == w1 :> 1 @@ w2 :> 1 @@ w3 :> 2

DistributionIsSound ==
    /\ TopologyIsSoundOn({TwoPackages, Uneven}, 3)
    /\ LET numa == NumaOf(TwoPackages, Placed)
       IN  TwoNodes = w1 :> numa[1] + 1 @@ w2 :> numa[2] + 1 @@ w3 :> numa[3] + 1

(* A worker that has bound itself (numa_context's init_worker_and_bind) can *)
(* rely on its neighbours and node: distribute() and split() of numa.hpp    *)
(* are sound on both machines, and the nodes of this run are split()'s.     *)
TopologyIsSound == \A w \in Workers : pc[w] # "init" => DistributionIsSound
=============================================================================

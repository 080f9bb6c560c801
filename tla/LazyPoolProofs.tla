---------------------------- MODULE LazyPoolProofs ----------------------------
(***************************************************************************)
(* Proofs about LazyPool, for every number of workers and of NUMA nodes,   *)
(* every placement of the workers on the nodes, and every number of jobs:  *)
(* the counters of thieves, active workers and waiters are exact, an       *)
(* active pool keeps a thief for every node with sleepers, nobody sleeps   *)
(* on a submission or through the end of the pool, and contexts outlive    *)
(* the thieves that read them.                                             *)
(***************************************************************************)
EXTENDS LazyPool, FiniteSetTheorems, TLAPS

Labels == {"init", "latch_start", "wake_up", "replace", "activate", "latch_stop", "gone",
           "poll", "steal", "prepare", "recheck", "stop_test", "drop", "unthief", "leave",
           "scan", "scan_notify", "resume", "run", "switch_notify", "done",
           "last_thief", "wait", "blocked", "unblocked"}

MasterAt == {"construct", "latch_start", "open", "notify", "destroy", "join", "destroyed"}

(* A worker only leaves its own node's counters wrong if it miscounts, so  *)
(* the types say nothing about their values.                               *)
ControlTypes ==
    /\ pc \in [Workers -> Labels]
    /\ scan \in [Workers -> Nodes]
    /\ master \in [at : MasterAt, node : Nodes]
    /\ thief \in [Nodes -> Int] /\ active \in Int /\ waiters \in [Nodes -> Int]
    /\ current \in [Nodes -> SUBSET Workers]

(* w goes to l; at most, it unblocks others on the way.                    *)
Moves(w, l) ==
    /\ pc' \in [Workers -> Labels]
    /\ pc'[w] = l
    /\ \A v \in Workers \ {w} : \/ pc'[v] = pc[v]
                                \/ pc[v] = "blocked" /\ pc'[v] = "unblocked"

(* A step that only moves its worker.                                      *)
LEMMA GotoMoves ==
    ASSUME ControlTypes, NEW w \in Workers, NEW l \in Labels, Goto(w, l)
    PROVE  Moves(w, l)
BY DEF ControlTypes, Moves, Goto

(* notify_one() moves its worker and unblocks at most one other.           *)
LEMMA NotifyOneMoves ==
    ASSUME ControlTypes, NEW w \in Workers, NEW l \in Labels, NEW n \in Nodes,
           pc[w] # "blocked", NotifyOne(n, w, l)
    PROVE  Moves(w, l)
<1>1. CASE Goto(w, l)
  BY <1>1, GotoMoves
<1>2. ASSUME NEW s \in Blocked(n), pc' = [pc EXCEPT ![w] = l, ![s] = "unblocked"]
      PROVE  Moves(w, l)
  <2>1. s \in Workers /\ pc[s] = "blocked" /\ "unblocked" \in Labels
    BY DEF Blocked, Team, Labels
  <2> QED BY <1>2, <2>1 DEF ControlTypes, Moves
<1> QED BY <1>1, <1>2 DEF NotifyOne

(* notify_all() moves its worker and unblocks the others of the node.      *)
LEMMA NotifyAllMoves ==
    ASSUME ControlTypes, NEW w \in Workers, NEW l \in Labels, NEW n \in Nodes,
           pc' = [AfterNotifyAll(n) EXCEPT ![w] = l]
    PROVE  Moves(w, l)
<1>1. "unblocked" \in Labels
  BY DEF Labels
<1>2. AfterNotifyAll(n) \in [Workers -> Labels]
  BY <1>1 DEF AfterNotifyAll, ControlTypes
<1>3. \A v \in Workers : \/ AfterNotifyAll(n)[v] = pc[v]
                         \/ pc[v] = "blocked" /\ AfterNotifyAll(n)[v] = "unblocked"
  BY DEF AfterNotifyAll, Blocked
<1> QED BY <1>2, <1>3 DEF Moves

(* A step that moves nobody.                                               *)
LEMMA StayMoves ==
    ASSUME ControlTypes, NEW w \in Workers, pc' = pc
    PROVE  Moves(w, pc[w])
BY DEF ControlTypes, Moves

(* Where each step of a worker takes it.                                   *)
LEMMA WorkerMoves ==
    ASSUME ControlTypes, NEW w \in Workers,
           LazyWork(w) \/ ThiefWorkSleep(w) \/ Task(w) \/ SpuriousUnblock(w)
    PROVE  Moves(w, pc'[w])
<1>1. ASSUME NEW l \in Labels, Goto(w, l) PROVE Moves(w, pc'[w])
  BY <1>1, GotoMoves DEF Moves
<1>2. NodeOf[w] \in Nodes /\ scan[w] \in Nodes
  BY PoolAssumption DEF Nodes, ControlTypes
<1>3. CASE WorkerInit(w) \/ WorkerStart(w) \/ WakeUp(w) \/ StealSucceeds(w) \/ StealFails(w)
           \/ PrepareWait(w) \/ RecheckFinds(w) \/ RecheckEmpty(w) \/ StopNotSeen(w)
           \/ LastThiefStays(w) \/ LastThiefSleeps(w) \/ WaitReturns(w)
           \/ Leave(w) \/ Finalize(w) \/ Deactivate(w) \/ Resume(w) \/ SpuriousUnblock(w)
  <2>1. {"latch_start", "wake_up", "poll", "unthief", "prepare", "recheck", "stop_test", "drop",
         "wait", "latch_stop", "gone", "run", "unblocked"} \subseteq Labels
    BY DEF Labels
  <2> QED BY <1>1, <1>3, <2>1 DEF WorkerInit, WorkerStart, WakeUp, StealSucceeds, StealFails,
     PrepareWait, RecheckFinds, RecheckEmpty, StopNotSeen, LastThiefStays,
     LastThiefSleeps, WaitReturns, Leave, Finalize, Deactivate, Resume, SpuriousUnblock
<1>4. CASE Poll(w) \/ DropThief(w) \/ Wait(w) \/ Unthief(w) \/ Activate(w)
  <2>1. \E l \in Labels : Goto(w, l)
    BY <1>4 DEF Poll, DropThief, Wait, Unthief, Activate, Labels
  <2> QED BY <1>1, <2>1
<1>5. CASE ScanNode(w)
  <2>1. \E l \in Labels : Goto(w, l)
    BY <1>5 DEF ScanNode, AfterScan, Labels
  <2> QED BY <1>1, <2>1
<1>6. CASE TaskEnds(w) \/ Spawn(w) \/ \E v \in Workers : SwitchPush(w, v)
  <2>1. pc' = pc \/ \E l \in Labels : Goto(w, l)
    BY <1>6 DEF TaskEnds, Spawn, SwitchPush, Labels
  <2> QED BY <1>1, <2>1, StayMoves
<1>7. CASE Replace(w) \/ ScanNotify(w)
  <2>1. PICK n \in Nodes, l \in Labels : NotifyOne(n, w, l)
    BY <1>2, <1>7 DEF Replace, ScanNotify, AfterScan, Labels
  <2>2. pc[w] # "blocked"
    BY <1>7 DEF Replace, ScanNotify
  <2> QED BY <2>1, <2>2, NotifyOneMoves DEF Moves
<1>8. CASE StopSeen(w) \/ SwitchNotify(w)
  <2>1. PICK n \in Nodes, l \in Labels : pc' = [AfterNotifyAll(n) EXCEPT ![w] = l]
    BY <1>2, <1>8 DEF StopSeen, SwitchNotify, Labels
  <2> QED BY <2>1, NotifyAllMoves DEF Moves
<1> QED BY <1>3, <1>4, <1>5, <1>6, <1>7, <1>8 DEF LazyWork, ThiefWorkSleep, Task

(* The control flow of lazy_work() and thief_work_sleep(): from where each *)
(* step goes where.                                                        *)
GoesTo(w, from, to) == pc[w] = from /\ pc'[w] = to

(* Where each step of the work loop starts and goes to.                    *)
LEMMA LazyWorkFlow ==
    ASSUME ControlTypes, NEW w \in Workers
    PROVE  /\ WorkerInit(w) => GoesTo(w, "init", "latch_start")
           /\ WorkerStart(w) => GoesTo(w, "latch_start", "wake_up")
           /\ WakeUp(w) => GoesTo(w, "wake_up", "poll")
           /\ Poll(w) => GoesTo(w, "poll", "unthief") \/ GoesTo(w, "poll", "steal")
           /\ StealSucceeds(w) => GoesTo(w, "steal", "unthief")
           /\ StealFails(w) => GoesTo(w, "steal", "prepare")
           /\ PrepareWait(w) => GoesTo(w, "prepare", "recheck")
           /\ RecheckFinds(w) => GoesTo(w, "recheck", "unthief")
           /\ RecheckEmpty(w) => GoesTo(w, "recheck", "stop_test")
           /\ StopSeen(w) => GoesTo(w, "stop_test", "leave")
           /\ StopNotSeen(w) => GoesTo(w, "stop_test", "drop")
           /\ DropThief(w) => GoesTo(w, "drop", "last_thief") \/ GoesTo(w, "drop", "wait")
           /\ LastThiefStays(w) => GoesTo(w, "last_thief", "wake_up")
           /\ LastThiefSleeps(w) => GoesTo(w, "last_thief", "wait")
           /\ Wait(w) => GoesTo(w, "wait", "blocked") \/ GoesTo(w, "wait", "unblocked")
           /\ SpuriousUnblock(w) => GoesTo(w, "blocked", "unblocked")
           /\ WaitReturns(w) => GoesTo(w, "unblocked", "wake_up")
           /\ Leave(w) => GoesTo(w, "leave", "latch_stop")
           /\ Finalize(w) => GoesTo(w, "latch_stop", "gone")
<1> USE DEF GoesTo, Goto, ControlTypes
<1>1. StopSeen(w) => GoesTo(w, "stop_test", "leave")
  BY DEF StopSeen, AfterNotifyAll
<1>2. /\ WorkerInit(w) => GoesTo(w, "init", "latch_start")
      /\ WorkerStart(w) => GoesTo(w, "latch_start", "wake_up")
      /\ WakeUp(w) => GoesTo(w, "wake_up", "poll")
      /\ Poll(w) => GoesTo(w, "poll", "unthief") \/ GoesTo(w, "poll", "steal")
  BY DEF WorkerInit, WorkerStart, WakeUp, Poll
<1>3. /\ StealSucceeds(w) => GoesTo(w, "steal", "unthief")
      /\ StealFails(w) => GoesTo(w, "steal", "prepare")
      /\ PrepareWait(w) => GoesTo(w, "prepare", "recheck")
  BY DEF StealSucceeds, StealFails, PrepareWait
<1>4. /\ RecheckFinds(w) => GoesTo(w, "recheck", "unthief")
      /\ RecheckEmpty(w) => GoesTo(w, "recheck", "stop_test")
      /\ StopNotSeen(w) => GoesTo(w, "stop_test", "drop")
  BY DEF RecheckFinds, RecheckEmpty, StopNotSeen
<1>5. /\ DropThief(w) => GoesTo(w, "drop", "last_thief") \/ GoesTo(w, "drop", "wait")
      /\ LastThiefStays(w) => GoesTo(w, "last_thief", "wake_up")
      /\ LastThiefSleeps(w) => GoesTo(w, "last_thief", "wait")
      /\ Wait(w) => GoesTo(w, "wait", "blocked") \/ GoesTo(w, "wait", "unblocked")
  BY DEF DropThief, LastThiefStays, LastThiefSleeps, Wait
<1>6. /\ SpuriousUnblock(w) => GoesTo(w, "blocked", "unblocked")
      /\ WaitReturns(w) => GoesTo(w, "unblocked", "wake_up")
      /\ Leave(w) => GoesTo(w, "leave", "latch_stop")
      /\ Finalize(w) => GoesTo(w, "latch_stop", "gone")
  BY DEF SpuriousUnblock, WaitReturns, Leave, Finalize
<1> HIDE DEF GoesTo, Goto, ControlTypes
<1> QED BY <1>1, <1>2, <1>3, <1>4, <1>5, <1>6

(* Where each step of a worker that found work starts and goes to.         *)
LEMMA ThiefWorkFlow ==
    ASSUME ControlTypes, NEW w \in Workers
    PROVE  /\ Unthief(w) => GoesTo(w, "unthief", "replace") \/ GoesTo(w, "unthief", "activate")
           /\ Replace(w) => GoesTo(w, "replace", "activate")
           /\ Activate(w) => GoesTo(w, "activate", "scan") \/ GoesTo(w, "activate", "resume")
           /\ ScanNode(w) => GoesTo(w, "scan", "scan_notify") \/ GoesTo(w, "scan", AfterScan(w))
           /\ ScanNotify(w) => GoesTo(w, "scan_notify", AfterScan(w))
           /\ AfterScan(w) \in {"scan", "resume"}
           /\ Resume(w) => GoesTo(w, "resume", "run")
           /\ SwitchNotify(w) => GoesTo(w, "switch_notify", "run")
           /\ TaskEnds(w) => \/ GoesTo(w, "run", "run")
                             \/ GoesTo(w, "run", "done")
                             \/ GoesTo(w, "run", "resume")
           /\ Deactivate(w) => GoesTo(w, "done", "wake_up")
           /\ Spawn(w) => GoesTo(w, "run", "run")
           /\ \A v \in Workers : SwitchPush(w, v) => GoesTo(w, "run", "switch_notify")
<1> USE DEF GoesTo, Goto, ControlTypes
<1>1. SwitchNotify(w) => GoesTo(w, "switch_notify", "run")
  BY DEF SwitchNotify, AfterNotifyAll
<1>2. ASSUME NEW n \in Nodes, NEW l \in Labels, NotifyOne(n, w, l), pc[w] # "blocked"
      PROVE  pc'[w] = l
  BY <1>2, NotifyOneMoves DEF Moves
<1>3. AfterScan(w) \in {"scan", "resume"}
  BY DEF AfterScan
<1>4. /\ Replace(w) => GoesTo(w, "replace", "activate")
      /\ ScanNotify(w) => GoesTo(w, "scan_notify", AfterScan(w))
  <2>1. NodeOf[w] \in Nodes /\ scan[w] \in Nodes /\ "activate" \in Labels /\ AfterScan(w) \in Labels
    BY <1>3, PoolAssumption DEF Nodes, Labels
  <2> QED BY <1>2, <2>1 DEF Replace, ScanNotify
<1>5. /\ Unthief(w) => GoesTo(w, "unthief", "replace") \/ GoesTo(w, "unthief", "activate")
      /\ Activate(w) => GoesTo(w, "activate", "scan") \/ GoesTo(w, "activate", "resume")
      /\ ScanNode(w) => GoesTo(w, "scan", "scan_notify") \/ GoesTo(w, "scan", AfterScan(w))
  BY DEF Unthief, Activate, ScanNode
<1>6. /\ Resume(w) => GoesTo(w, "resume", "run")
      /\ TaskEnds(w) => \/ GoesTo(w, "run", "run")
                        \/ GoesTo(w, "run", "done")
                        \/ GoesTo(w, "run", "resume")
      /\ Deactivate(w) => GoesTo(w, "done", "wake_up")
  BY DEF Resume, TaskEnds, Deactivate
<1>7. /\ Spawn(w) => GoesTo(w, "run", "run")
      /\ \A v \in Workers : SwitchPush(w, v) => GoesTo(w, "run", "switch_notify")
  BY DEF Spawn, SwitchPush
<1> HIDE DEF GoesTo, Goto, ControlTypes
<1> QED BY <1>1, <1>3, <1>4, <1>5, <1>6, <1>7

(* The owner's notifications, like those of a worker, only unblock.        *)
OnlyUnblocks ==
    /\ pc' \in [Workers -> Labels]
    /\ \A v \in Workers : \/ pc'[v] = pc[v]
                          \/ pc[v] = "blocked" /\ pc'[v] = "unblocked"

(* The owner of the pool and its users only unblock workers.               *)
LEMMA OwnerMoves ==
    ASSUME ControlTypes, Owner \/ User \/ UNCHANGED vars
    PROVE  OnlyUnblocks
<1>1. CASE ScheduleNotify \/ DestroyNotify
  <2>1. PICK n \in Nodes : pc' = AfterNotifyAll(n)
    BY <1>1 DEF ScheduleNotify, DestroyNotify, ControlTypes
  <2> QED BY <2>1 DEF AfterNotifyAll, Blocked, OnlyUnblocks, ControlTypes, Labels
<1>2. CASE ~(ScheduleNotify \/ DestroyNotify)
  BY <1>2 DEF Owner, User, vars, Construct, Constructed, Join, Destroy, Schedule, OnlyUnblocks,
     ControlTypes
<1> QED BY <1>1, <1>2

(* No step changes the shape of the shared state.                          *)
LEMMA ControlStep ==
    ASSUME ControlTypes, [Next]_vars
    PROVE  ControlTypes'
<1> USE PoolAssumption DEF Nodes
<1>1. ASSUME NEW w \in Workers,
             LazyWork(w) \/ ThiefWorkSleep(w) \/ Task(w) \/ SpuriousUnblock(w)
      PROVE  ControlTypes'
  <2>1. pc' \in [Workers -> Labels]
    BY <1>1, WorkerMoves DEF Moves
  <2>2. NodeOf[w] \in Nodes /\ 1 \in Nodes /\ \A v \in Workers : NodeOf[v] \in Nodes
    OBVIOUS
  <2>3. scan' \in [Workers -> Nodes] /\ master' = master
    <3>1. CASE LazyWork(w) \/ SpuriousUnblock(w)
      BY <3>1 DEF LazyWork, WorkerInit, WorkerStart, WakeUp, Poll, StealSucceeds, StealFails,
         PrepareWait, RecheckFinds, RecheckEmpty, StopSeen, StopNotSeen, DropThief,
         LastThiefStays, LastThiefSleeps, Wait, WaitReturns, Leave, Finalize, SpuriousUnblock,
         ControlTypes
    <3>2. CASE Unthief(w) \/ Replace(w) \/ Activate(w) \/ Resume(w) \/ TaskEnds(w)
               \/ Deactivate(w) \/ Spawn(w)
      BY <3>2 DEF Unthief, Replace, Activate, Resume, TaskEnds, Deactivate, Spawn, ControlTypes
    <3>3. CASE ScanNode(w) \/ ScanNotify(w)
      <4>1. scan[w] \in 1..NumNodes /\ NumNodes \in Nat \ {0}
        BY DEF ControlTypes
      <4>2. (IF scan[w] = NumNodes THEN 1 ELSE scan[w] + 1) \in 1..NumNodes
        BY <4>1
      <4> QED BY <3>3, <4>2 DEF ScanNode, ScanNotify, NextNode, ControlTypes
    <3>4. CASE SwitchNotify(w) \/ \E v \in Workers : SwitchPush(w, v)
      BY <2>2, <3>4 DEF SwitchNotify, SwitchPush, ControlTypes
    <3> QED BY <1>1, <3>1, <3>2, <3>3, <3>4 DEF ThiefWorkSleep, Task
  <2>4. /\ thief' \in [Nodes -> Int] /\ active' \in Int /\ waiters' \in [Nodes -> Int]
        /\ current' \in [Nodes -> SUBSET Workers]
    <3> HIDE PoolAssumption DEF Nodes
    <3> USE <2>2 DEF ControlTypes, ecVars
    <3>add. \A f \in [Nodes -> Int] : [f EXCEPT ![NodeOf[w]] = @ + 1] \in [Nodes -> Int]
                                   /\ [f EXCEPT ![NodeOf[w]] = @ - 1] \in [Nodes -> Int]
      OBVIOUS
    <3>1. CASE WorkerInit(w) \/ WorkerStart(w) \/ Poll(w) \/ StealSucceeds(w) \/ StealFails(w)
               \/ RecheckEmpty(w) \/ StopNotSeen(w) \/ LastThiefSleeps(w) \/ Wait(w)
               \/ Finalize(w) \/ SpuriousUnblock(w) \/ ScanNode(w) \/ Resume(w) \/ TaskEnds(w)
               \/ Spawn(w) \/ \E v \in Workers : SwitchPush(w, v)
      BY <3>1 DEF WorkerInit, WorkerStart, Poll, StealSucceeds, StealFails, RecheckEmpty,
         StopNotSeen, LastThiefSleeps, Wait, Finalize, SpuriousUnblock, ScanNode, Resume,
         TaskEnds, Spawn, SwitchPush
    <3>2. CASE WakeUp(w) \/ DropThief(w) \/ Leave(w) \/ Unthief(w) \/ Activate(w) \/ Deactivate(w)
      BY <3>add, <3>2 DEF WakeUp, DropThief, Leave, Unthief, Activate, Deactivate
    <3>3. CASE PrepareWait(w) \/ StopSeen(w)
      BY <3>add, <3>3, SMTT(30) DEF PrepareWait, StopSeen
    <3>4. CASE RecheckFinds(w) \/ LastThiefStays(w) \/ WaitReturns(w)
      BY <3>add, <3>4 DEF RecheckFinds, LastThiefStays, WaitReturns, CancelWait
    <3>5. CASE Replace(w) \/ ScanNotify(w) \/ SwitchNotify(w)
      BY <3>5 DEF Replace, ScanNotify, SwitchNotify, NotifyOne
    <3> QED BY <1>1, <3>1, <3>2, <3>3, <3>4, <3>5 DEF LazyWork, ThiefWorkSleep, Task
  <2> QED BY <2>1, <2>3, <2>4 DEF ControlTypes
<1>2. CASE Owner \/ User \/ UNCHANGED vars
  <2>1. pc' \in [Workers -> Labels]
    BY <1>2, OwnerMoves DEF OnlyUnblocks
  <2>2. master' \in [at : MasterAt, node : Nodes]
    BY <1>2, SMTT(30) DEF Owner, User, Construct, Constructed, ScheduleNotify, DestroyNotify, Join,
       Destroy, Schedule, vars, MasterAt, ControlTypes
  <2>3. /\ scan' = scan /\ thief' = thief /\ active' = active /\ waiters' = waiters
        /\ current' \in [Nodes -> SUBSET Workers]
    BY <1>2 DEF Owner, User, Construct, Constructed, ScheduleNotify, DestroyNotify, Join,
       Destroy, Schedule, vars, ecVars, ControlTypes
  <2> QED BY <2>1, <2>2, <2>3 DEF ControlTypes
<1> QED BY <1>1, <1>2 DEF Next

-----------------------------------------------------------------------------
(* The counters count what their names say.                                *)
At(A, T) == {w \in T : pc[w] \in A}

Counters ==
    /\ \A n \in Nodes : thief[n] = Cardinality(At(ThiefAt, Team(n)))
    /\ active = Cardinality(At(ActiveAt, Workers))
    /\ \A n \in Nodes : waiters[n] = Cardinality(At(WaiterAt, Team(n)))

(* The number of workers of a team at a set of labels.                     *)
LEMMA CountIsNat ==
    ASSUME NEW A, NEW T \in SUBSET Workers
    PROVE  /\ IsFiniteSet(At(A, T)) /\ Cardinality(At(A, T)) \in Nat
           /\ At(A, T) # {} => Cardinality(At(A, T)) > 0
<1>1. IsFiniteSet(At(A, T))
  <2>1. At(A, T) \subseteq Workers
    BY DEF At
  <2> QED BY <2>1, FS_Subset, PoolAssumption
<1>2. Cardinality(At(A, T)) \in Nat
  BY <1>1, FS_CardinalityType
<1>3. At(A, T) # {} => Cardinality(At(A, T)) # 0
  BY <1>1, FS_EmptySet
<1> QED BY <1>1, <1>2, <1>3

(* How one step changes the number of workers at a set A of places.        *)
Delta(w, A) == IF pc[w] \in A /\ pc'[w] \notin A THEN -1
               ELSE IF pc[w] \notin A /\ pc'[w] \in A THEN 1 ELSE 0

(* How a step of one worker changes that number.                           *)
LEMMA CountMoves ==
    ASSUME NEW w \in Workers, Moves(w, pc'[w]), NEW A, "blocked" \in A <=> "unblocked" \in A,
           NEW T \in SUBSET Workers
    PROVE  Cardinality(At(A, T)') = Cardinality(At(A, T)) + IF w \in T THEN Delta(w, A) ELSE 0
<1>1. \A v \in Workers \ {w} : pc'[v] \in A <=> pc[v] \in A
  BY DEF Moves
<1>2. IsFiniteSet(At(A, T)) /\ Cardinality(At(A, T)) \in Nat
  BY CountIsNat
<1>3. CASE w \notin T \/ (pc[w] \in A <=> pc'[w] \in A)
  <2>1. At(A, T)' = At(A, T)
    BY <1>1, <1>3 DEF At
  <2>2. (IF w \in T THEN Delta(w, A) ELSE 0) = 0
    BY <1>3 DEF Delta
  <2> QED BY <1>2, <2>1, <2>2
<1>4. CASE w \in T /\ pc[w] \in A /\ pc'[w] \notin A
  <2>1. At(A, T)' = At(A, T) \ {w} /\ w \in At(A, T)
    BY <1>1, <1>4 DEF At
  <2> QED BY <1>2, <1>4, <2>1, FS_RemoveElement DEF Delta
<1>5. CASE w \in T /\ pc[w] \notin A /\ pc'[w] \in A
  <2>1. At(A, T)' = At(A, T) \cup {w} /\ w \notin At(A, T)
    BY <1>1, <1>5 DEF At
  <2> QED BY <1>2, <1>5, <2>1, FS_AddElement DEF Delta
<1> QED BY <1>3, <1>4, <1>5

(* A step of w keeps the counters exact if it changes each of them by what *)
(* the step itself does.                                                   *)
LEMMA CountersKept ==
    ASSUME ControlTypes, Counters, NEW w \in Workers, Moves(w, pc'[w]),
           \A n \in Nodes : thief'[n] = thief[n] + IF n = NodeOf[w] THEN Delta(w, ThiefAt) ELSE 0,
           active' = active + Delta(w, ActiveAt),
           \A n \in Nodes : waiters'[n] = waiters[n]
                                          + IF n = NodeOf[w] THEN Delta(w, WaiterAt) ELSE 0
    PROVE  Counters'
<1>1. "blocked" \in ThiefAt <=> "unblocked" \in ThiefAt
  BY DEF ThiefAt
<1>2. "blocked" \in ActiveAt <=> "unblocked" \in ActiveAt
  BY DEF ActiveAt
<1>3. "blocked" \in WaiterAt <=> "unblocked" \in WaiterAt
  BY DEF WaiterAt
<1>4. \A n \in Nodes : Team(n) \in SUBSET Workers /\ (w \in Team(n) <=> n = NodeOf[w])
  BY DEF Team
<1>5. \A n \in Nodes : thief'[n] = Cardinality(At(ThiefAt, Team(n))')
  BY <1>1, <1>4, CountMoves DEF Counters
<1>6. active' = Cardinality(At(ActiveAt, Workers)')
  BY <1>2, CountMoves DEF Counters
<1>7. \A n \in Nodes : waiters'[n] = Cardinality(At(WaiterAt, Team(n))')
  BY <1>3, <1>4, CountMoves DEF Counters
<1> QED BY <1>5, <1>6, <1>7 DEF Counters, At

(* Every worker counts itself in and out of each counter as it moves.      *)
LEMMA WorkerCounts ==
    ASSUME ControlTypes, NEW w \in Workers,
           LazyWork(w) \/ ThiefWorkSleep(w) \/ Task(w) \/ SpuriousUnblock(w)
    PROVE  /\ \A n \in Nodes : thief'[n] = thief[n] + IF n = NodeOf[w] THEN Delta(w, ThiefAt) ELSE 0
           /\ active' = active + Delta(w, ActiveAt)
           /\ \A n \in Nodes : waiters'[n] = waiters[n]
                                             + IF n = NodeOf[w] THEN Delta(w, WaiterAt) ELSE 0
<1> DEFINE T(d) == \A n \in Nodes : thief'[n] = thief[n] + IF n = NodeOf[w] THEN d ELSE 0
           W(d) == \A n \in Nodes : waiters'[n] = waiters[n] + IF n = NodeOf[w] THEN d ELSE 0
           D(t, a, v) == Delta(w, ThiefAt) = t /\ Delta(w, ActiveAt) = a /\ Delta(w, WaiterAt) = v
<1>1. /\ thief \in [Nodes -> Int] /\ waiters \in [Nodes -> Int] /\ active \in Int
      /\ NodeOf[w] \in Nodes
  BY PoolAssumption DEF ControlTypes, Nodes
<1>2. /\ thief' = thief => T(0)
      /\ thief' = [thief EXCEPT ![NodeOf[w]] = @ + 1] => T(1)
      /\ thief' = [thief EXCEPT ![NodeOf[w]] = @ - 1] => T(-1)
  BY <1>1
<1>3. /\ waiters' = waiters => W(0)
      /\ waiters' = [waiters EXCEPT ![NodeOf[w]] = @ + 1] => W(1)
      /\ waiters' = [waiters EXCEPT ![NodeOf[w]] = @ - 1] => W(-1)
  BY <1>1
<1> HIDE DEF T, W
<1>4. CASE WorkerInit(w) \/ WorkerStart(w) \/ Poll(w) \/ StealSucceeds(w) \/ StealFails(w)
           \/ RecheckEmpty(w) \/ StopNotSeen(w) \/ LastThiefSleeps(w) \/ Wait(w) \/ Finalize(w)
           \/ SpuriousUnblock(w)
  <2>1. D(0, 0, 0)
    BY <1>4, LazyWorkFlow DEF GoesTo, Delta, ThiefAt, ActiveAt, WaiterAt
  <2>2. thief' = thief /\ active' = active /\ waiters' = waiters
    BY <1>4 DEF WorkerInit, WorkerStart, Poll, StealSucceeds, StealFails, RecheckEmpty,
       StopNotSeen, LastThiefSleeps, Wait, Finalize, SpuriousUnblock, ecVars
  <2> QED BY <1>1, <1>2, <1>3, <2>1, <2>2 DEF T, W
<1>5. CASE Replace(w) \/ ScanNode(w) \/ ScanNotify(w) \/ Resume(w) \/ SwitchNotify(w) \/ TaskEnds(w)
           \/ Spawn(w) \/ \E v \in Workers : SwitchPush(w, v)
  <2>1. D(0, 0, 0)
    BY <1>5, ThiefWorkFlow DEF GoesTo, Delta, ThiefAt, ActiveAt, WaiterAt
  <2>2. thief' = thief /\ active' = active /\ waiters' = waiters
    BY <1>5 DEF Replace, ScanNode, ScanNotify, Resume, SwitchNotify, TaskEnds, Spawn, SwitchPush,
       NotifyOne, ecVars
  <2> QED BY <1>1, <1>2, <1>3, <2>1, <2>2 DEF T, W
<1>6. CASE WakeUp(w)
  <2>1. D(1, 0, 0)
    BY <1>6, LazyWorkFlow DEF GoesTo, Delta, ThiefAt, ActiveAt, WaiterAt
  <2> QED BY <1>1, <1>2, <1>3, <1>6, <2>1 DEF T, W, WakeUp, ecVars
<1>7. CASE PrepareWait(w)
  <2>1. D(0, 0, 1)
    BY <1>7, LazyWorkFlow DEF GoesTo, Delta, ThiefAt, ActiveAt, WaiterAt
  <2> QED BY <1>1, <1>2, <1>3, <1>7, <2>1 DEF T, W, PrepareWait
<1>8. CASE RecheckFinds(w) \/ StopSeen(w) \/ LastThiefStays(w) \/ WaitReturns(w)
  <2>1. D(0, 0, -1)
    BY <1>8, LazyWorkFlow DEF GoesTo, Delta, ThiefAt, ActiveAt, WaiterAt
  <2> QED BY <1>1, <1>2, <1>3, <1>8, <2>1
          DEF T, W, RecheckFinds, StopSeen, LastThiefStays, WaitReturns, CancelWait
<1>9. CASE DropThief(w) \/ Leave(w) \/ Unthief(w)
  <2>1. D(-1, 0, 0)
    BY <1>9, LazyWorkFlow, ThiefWorkFlow DEF GoesTo, Delta, ThiefAt, ActiveAt, WaiterAt
  <2> QED BY <1>1, <1>2, <1>3, <1>9, <2>1 DEF T, W, DropThief, Leave, Unthief, ecVars
<1>10. CASE Activate(w)
  <2>1. D(0, 1, 0)
    BY <1>10, ThiefWorkFlow DEF GoesTo, Delta, ThiefAt, ActiveAt, WaiterAt
  <2> QED BY <1>1, <1>2, <1>3, <1>10, <2>1 DEF T, W, Activate, ecVars
<1>11. CASE Deactivate(w)
  <2>1. D(0, -1, 0)
    BY <1>11, ThiefWorkFlow DEF GoesTo, Delta, ThiefAt, ActiveAt, WaiterAt
  <2> QED BY <1>1, <1>2, <1>3, <1>11, <2>1 DEF T, W, Deactivate, ecVars
<1> QED BY <1>4, <1>5, <1>6, <1>7, <1>8, <1>9, <1>10, <1>11 DEF LazyWork, ThiefWorkSleep, Task

(* Every step keeps the counters equal to what they count.                 *)
LEMMA CountersStep ==
    ASSUME ControlTypes, Counters, [Next]_vars
    PROVE  Counters'
<1>1. ASSUME NEW w \in Workers,
             LazyWork(w) \/ ThiefWorkSleep(w) \/ Task(w) \/ SpuriousUnblock(w)
      PROVE  Counters'
  BY <1>1, WorkerMoves, WorkerCounts, CountersKept
<1>2. CASE Owner \/ User \/ UNCHANGED vars
  <2>1. \A v \in Workers : \/ pc'[v] = pc[v]
                           \/ pc[v] = "blocked" /\ pc'[v] = "unblocked"
    BY <1>2, OwnerMoves DEF OnlyUnblocks
  <2>2. /\ \A n \in Nodes : At(ThiefAt, Team(n))' = At(ThiefAt, Team(n))
        /\ At(ActiveAt, Workers)' = At(ActiveAt, Workers)
        /\ \A n \in Nodes : At(WaiterAt, Team(n))' = At(WaiterAt, Team(n))
    BY <2>1 DEF At, Team, ThiefAt, ActiveAt, WaiterAt
  <2>3. thief' = thief /\ active' = active /\ waiters' = waiters
    BY <1>2 DEF Owner, User, Construct, Constructed, ScheduleNotify, DestroyNotify, Join,
       Destroy, Schedule, vars, ecVars
  <2> QED BY <2>2, <2>3 DEF Counters
<1> QED BY <1>1, <1>2 DEF Next

-----------------------------------------------------------------------------
(* Jobs, tasks and the bounds; the workers whose key is the epoch are the  *)
(* node's own.                                                             *)
WorkTypes ==
    /\ batch \in [Workers -> SUBSET Jobs] /\ submit \in [Workers -> SUBSET Jobs]
    /\ resumed \in SUBSET Jobs
    /\ tasks \in [Workers -> Nat] /\ \A w \in Workers : tasks[w] <= made.spawns
    /\ made \in [jobs : Nat, switches : Nat, spawns : Nat]
    /\ made.jobs <= MaxJobs /\ made.spawns + made.switches <= MaxActs

KeysAreLocal == \A n \in Nodes : current[n] \subseteq Team(n)

(* A submission stays within the bounds of the model.                      *)
LEMMA NewJob ==
    ASSUME WorkTypes, NEW w \in Workers, PushJob(w),
           \/ made.jobs < MaxJobs /\ made' = [made EXCEPT !.jobs = @ + 1]
           \/ made.spawns + made.switches < MaxActs /\ made' = [made EXCEPT !.switches = @ + 1]
    PROVE  /\ submit' \in [Workers -> SUBSET Jobs] /\ tasks' = tasks /\ resumed' = resumed
           /\ made' \in [jobs : Nat, switches : Nat, spawns : Nat]
           /\ made'.spawns = made.spawns
           /\ made'.jobs <= MaxJobs /\ made'.spawns + made'.switches <= MaxActs
<1> USE PoolAssumption
<1>1. made.jobs + made.switches + 1 \in Jobs
  BY DEF WorkTypes, Jobs
<1>2. submit' \in [Workers -> SUBSET Jobs] /\ tasks' = tasks /\ resumed' = resumed
  BY <1>1 DEF WorkTypes, PushJob
<1> QED BY <1>2 DEF WorkTypes

(* Every step keeps the types of the submissions and tasks.                *)
LEMMA WorkStep ==
    ASSUME WorkTypes, [Next]_vars
    PROVE  WorkTypes'
<1> USE DEF workVars
<1>1. ASSUME NEW w \in Workers, Poll(w) \/ RecheckFinds(w) PROVE WorkTypes'
  BY <1>1 DEF Poll, RecheckFinds, PopAll, WorkTypes
<1>2. ASSUME NEW w \in Workers, StealSucceeds(w) PROVE WorkTypes'
  <2>1. PICK v \in Workers : tasks[v] > 0 /\ tasks' = [tasks EXCEPT ![v] = @ - 1]
    BY <1>2 DEF StealSucceeds
  <2> QED BY <1>2, <2>1 DEF StealSucceeds, WorkTypes
<1>3. ASSUME NEW w \in Workers, Resume(w) PROVE WorkTypes'
  <2>1. batch' \in [Workers -> SUBSET Jobs] /\ resumed' \in SUBSET Jobs
    BY <1>3 DEF Resume, WorkTypes
  <2> QED BY <1>3, <2>1 DEF Resume, WorkTypes
<1>4. ASSUME NEW w \in Workers, TaskEnds(w) PROVE WorkTypes'
  BY <1>4 DEF TaskEnds, WorkTypes
<1>5. ASSUME NEW w \in Workers, Spawn(w) PROVE WorkTypes'
  <2>1. /\ made' \in [jobs : Nat, switches : Nat, spawns : Nat]
        /\ made'.spawns = made.spawns + 1 /\ made'.switches = made.switches
        /\ made'.jobs = made.jobs
    BY <1>5 DEF Spawn, WorkTypes
  <2>2. tasks' = [tasks EXCEPT ![w] = @ + 1] /\ made.spawns \in Nat /\ made.switches \in Nat
    BY <1>5 DEF Spawn, WorkTypes
  <2>3. tasks' \in [Workers -> Nat] /\ \A v \in Workers : tasks'[v] <= made'.spawns
    BY <2>1, <2>2 DEF WorkTypes
  <2> QED BY <1>5, <2>1, <2>2, <2>3, PoolAssumption DEF Spawn, WorkTypes
<1>6. ASSUME NEW w \in Workers, NEW v \in Workers, SwitchPush(w, v) PROVE WorkTypes'
  <2>1. batch' = batch
    BY <1>6 DEF SwitchPush
  <2> QED BY <1>6, <2>1, NewJob DEF SwitchPush, WorkTypes
<1>7. ASSUME NEW w \in Workers, Schedule(w) PROVE WorkTypes'
  <2>1. batch' = batch
    BY <1>7 DEF Schedule
  <2> QED BY <1>7, <2>1, NewJob DEF Schedule, WorkTypes
<1>8. ASSUME batch' = batch, UNCHANGED workVars PROVE WorkTypes'
  BY <1>8 DEF WorkTypes
<1>9. ASSUME NEW w \in Workers, LazyWork(w) \/ ThiefWorkSleep(w) \/ Task(w) \/ SpuriousUnblock(w)
      PROVE  WorkTypes'
  <2>1. CASE WorkerInit(w) \/ WorkerStart(w) \/ WakeUp(w) \/ StealFails(w) \/ PrepareWait(w)
             \/ RecheckEmpty(w) \/ StopSeen(w) \/ StopNotSeen(w) \/ DropThief(w)
             \/ LastThiefStays(w) \/ LastThiefSleeps(w) \/ Wait(w) \/ WaitReturns(w)
             \/ Leave(w) \/ Finalize(w) \/ SpuriousUnblock(w)
    BY <1>8, <2>1 DEF WorkerInit, WorkerStart, WakeUp, StealFails, PrepareWait, RecheckEmpty,
       StopSeen, StopNotSeen, DropThief, LastThiefStays, LastThiefSleeps, Wait, WaitReturns,
       Leave, Finalize, SpuriousUnblock
  <2>2. CASE Unthief(w) \/ Replace(w) \/ Activate(w) \/ ScanNode(w) \/ ScanNotify(w)
             \/ SwitchNotify(w) \/ Deactivate(w)
    BY <1>8, <2>2 DEF Unthief, Replace, Activate, ScanNode, ScanNotify, SwitchNotify, Deactivate
  <2> QED BY <1>1, <1>2, <1>3, <1>4, <1>5, <1>6, <1>9, <2>1, <2>2
          DEF LazyWork, ThiefWorkSleep, Task
<1>10. CASE Owner \/ Destroy \/ UNCHANGED vars
  BY <1>8, <1>10 DEF Owner, Construct, Constructed, ScheduleNotify, DestroyNotify, Join, Destroy,
     vars
<1> QED BY <1>7, <1>9, <1>10 DEF Next, User

(* A worker registers its own key only, and with its own node.             *)
LEMMA KeysStep ==
    ASSUME ControlTypes, KeysAreLocal, [Next]_vars
    PROVE  KeysAreLocal'
<1>1. ASSUME \A n \in Nodes : current'[n] \subseteq current[n] PROVE KeysAreLocal'
  BY <1>1 DEF KeysAreLocal, Team
<1>2. /\ current \in [Nodes -> SUBSET Workers]
      /\ \A w \in Workers : NodeOf[w] \in Nodes /\ scan[w] \in Nodes
      /\ master.node \in Nodes
  BY PoolAssumption DEF ControlTypes, Nodes
<1>3. ASSUME NEW w \in Workers, PrepareWait(w) PROVE KeysAreLocal'
  <2>1. w \in Team(NodeOf[w])
    BY DEF Team
  <2> QED BY <1>2, <1>3, <2>1 DEF PrepareWait, KeysAreLocal, Team
<1>4. ASSUME UNCHANGED current PROVE KeysAreLocal'
  BY <1>4 DEF KeysAreLocal, Team
<1>5. ASSUME NEW w \in Workers, LazyWork(w) \/ ThiefWorkSleep(w) \/ Task(w) \/ SpuriousUnblock(w)
      PROVE  KeysAreLocal'
  <2>1. CASE WorkerInit(w) \/ WorkerStart(w) \/ WakeUp(w) \/ Poll(w) \/ StealSucceeds(w)
             \/ StealFails(w) \/ RecheckEmpty(w) \/ StopNotSeen(w) \/ DropThief(w)
             \/ LastThiefSleeps(w) \/ Wait(w) \/ Leave(w) \/ Finalize(w) \/ SpuriousUnblock(w)
    BY <1>4, <2>1 DEF WorkerInit, WorkerStart, WakeUp, Poll, StealSucceeds, StealFails,
       RecheckEmpty, StopNotSeen, DropThief, LastThiefSleeps, Wait, Leave, Finalize,
       SpuriousUnblock, ecVars
  <2>2. CASE Unthief(w) \/ Activate(w) \/ ScanNode(w) \/ Resume(w) \/ TaskEnds(w) \/ Deactivate(w)
             \/ Spawn(w) \/ \E v \in Workers : SwitchPush(w, v)
    BY <1>4, <2>2 DEF Unthief, Activate, ScanNode, Resume, TaskEnds, Deactivate, Spawn,
       SwitchPush, ecVars
  <2>3. CASE RecheckFinds(w) \/ LastThiefStays(w) \/ WaitReturns(w)
    BY <1>1, <1>2, <2>3 DEF RecheckFinds, LastThiefStays, WaitReturns, CancelWait
  <2>4. CASE StopSeen(w) \/ Replace(w) \/ ScanNotify(w) \/ SwitchNotify(w)
    BY <1>1, <1>2, <2>4 DEF StopSeen, Replace, ScanNotify, SwitchNotify, NotifyOne
  <2> QED BY <1>3, <1>5, <2>1, <2>2, <2>3, <2>4 DEF LazyWork, ThiefWorkSleep, Task
<1>6. CASE ScheduleNotify \/ DestroyNotify
  BY <1>1, <1>2, <1>6 DEF ScheduleNotify, DestroyNotify
<1>7. CASE User \/ Construct \/ Constructed \/ Join \/ UNCHANGED vars
  BY <1>4, <1>7 DEF User, Destroy, Schedule, Construct, Constructed, Join, vars, ecVars
<1> QED BY <1>5, <1>6, <1>7 DEF Next, Owner

(* stop is only ever set, by the destructor or by a worker that leaves.    *)
LEMMA StopStep ==
    ASSUME [Next]_vars
    PROVE  stop' = stop \/ (stop' = TRUE /\ (Destroy \/ \E w \in Workers : Leave(w)))
<1>1. ASSUME NEW w \in Workers, LazyWork(w) \/ SpuriousUnblock(w), ~Leave(w) PROVE stop' = stop
  BY <1>1 DEF LazyWork, WorkerInit, WorkerStart, WakeUp, Poll, StealSucceeds, StealFails,
     PrepareWait, RecheckFinds, RecheckEmpty, StopSeen, StopNotSeen, DropThief,
     LastThiefStays, LastThiefSleeps, Wait, WaitReturns, Finalize, SpuriousUnblock
<1>2. ASSUME NEW w \in Workers, ThiefWorkSleep(w) \/ Task(w) PROVE stop' = stop
  BY <1>2 DEF ThiefWorkSleep, Unthief, Replace, Activate, ScanNode, ScanNotify,
     Resume, SwitchNotify, TaskEnds, Deactivate, Task, Spawn, SwitchPush
<1>3. ASSUME Owner \/ User \/ UNCHANGED vars, ~Destroy PROVE stop' = stop
  BY <1>3 DEF Owner, User, Construct, Constructed, ScheduleNotify, DestroyNotify, Join, Schedule,
     vars
<1>4. \A w \in Workers : Leave(w) => stop' = TRUE
  BY DEF Leave
<1>5. Destroy => stop' = TRUE
  BY DEF Destroy
<1> QED BY <1>1, <1>2, <1>3, <1>4, <1>5 DEF Next

PoolTypes == ControlTypes /\ Counters /\ WorkTypes /\ KeysAreLocal
StopType == stop \in BOOLEAN

(* A pool under construction satisfies the types.                          *)
LEMMA PoolInit == Init => PoolTypes /\ StopType
<1> SUFFICES ASSUME Init PROVE PoolTypes /\ StopType
  OBVIOUS
<1> USE PoolAssumption
<1>1. ControlTypes
  BY DEF Init, ControlTypes, Labels, MasterAt, Nodes
<1>2. Counters
  <2>1. /\ \A n \in Nodes : At(ThiefAt, Team(n)) = {} /\ At(WaiterAt, Team(n)) = {}
        /\ At(ActiveAt, Workers) = {}
    BY DEF Init, At, Team, ThiefAt, WaiterAt, ActiveAt
  <2> QED BY <2>1, FS_EmptySet DEF Init, Counters
<1>3. WorkTypes
  BY DEF Init, WorkTypes
<1>4. KeysAreLocal
  BY DEF Init, KeysAreLocal
<1>5. StopType
  BY Zenon DEF Init, StopType
<1> QED BY <1>1, <1>2, <1>3, <1>4, <1>5 DEF PoolTypes

(* Every step keeps the types and the counters.                            *)
LEMMA PoolStep == PoolTypes /\ StopType /\ [Next]_vars => PoolTypes' /\ StopType'
<1> SUFFICES ASSUME PoolTypes, StopType, [Next]_vars PROVE PoolTypes' /\ StopType'
  OBVIOUS
<1>1. PoolTypes'
  BY ControlStep, CountersStep, WorkStep, KeysStep DEF PoolTypes
<1>2. stop' = stop \/ stop' = TRUE
  BY StopStep
<1>3. StopType'
  BY <1>2, Zenon DEF StopType
<1> QED BY <1>1, <1>3

(* However the workers and the owner interleave, each counter of the pool  *)
(* is the number of workers it is meant to count; in particular none of    *)
(* the unsigned counters ever wraps below zero, and no node has a waiter   *)
(* of another node.                                                        *)
THEOREM CountersAreExact == Spec => []TypeOK
<1>1. ASSUME PoolTypes, StopType PROVE TypeOK
  <2>1. /\ pc \in [Workers -> {"init", "latch_start", "wake_up", "replace", "activate",
                       "latch_stop", "gone"} \union ThiefAt \union ActiveAt \union WaiterAt]
        /\ scan \in [Workers -> Nodes]
    BY <1>1 DEF PoolTypes, ControlTypes, Labels, ThiefAt, ActiveAt, WaiterAt
  <2>2. /\ master.at \in {"construct", "latch_start", "open", "notify", "destroy", "join",
                          "destroyed"}
    BY <1>1 DEF PoolTypes, ControlTypes, MasterAt
  <2>3. /\ batch \in [Workers -> SUBSET Jobs] /\ submit \in [Workers -> SUBSET Jobs]
        /\ resumed \subseteq Jobs
    BY <1>1 DEF PoolTypes, WorkTypes
  <2>4. tasks \in [Workers -> 0..MaxActs]
    BY <1>1, PoolAssumption DEF PoolTypes, WorkTypes
  <2>5. /\ \A n \in Nodes : thief[n] = Cardinality({w \in Team(n) : pc[w] \in ThiefAt})
        /\ active = Cardinality({w \in Workers : pc[w] \in ActiveAt})
        /\ \A n \in Nodes : waiters[n] = Cardinality({w \in Team(n) : pc[w] \in WaiterAt})
    BY <1>1 DEF PoolTypes, Counters, At
  <2>6. \A n \in Nodes : current[n] \subseteq Team(n)
    BY <1>1 DEF PoolTypes, KeysAreLocal
  <2>7. stop \in BOOLEAN
    BY <1>1 DEF StopType
  <2> QED BY <2>1, <2>2, <2>3, <2>4, <2>5, <2>6, <2>7, Zenon DEF TypeOK
<1> QED BY <1>1, PoolInit, PoolStep, PTL DEF Spec

-----------------------------------------------------------------------------
(* A worker on its way to sleep whose key is still the epoch will block.   *)
Heading(w) ==
    \/ pc[w] = "blocked"
    \/ pc[w] \in {"stop_test", "drop", "last_thief", "wait"} /\ w \in current[NodeOf[w]]

(* ... and from here on it no longer looks at stop.                        *)
Committed(w) == Heading(w) /\ pc[w] # "stop_test"

NotifyPending(n) ==
    \/ master.at = "notify" /\ master.node = n
    \/ \E v \in Workers : pc[v] = "switch_notify" /\ scan[v] = n

SubmissionsAreSeen == \A w \in Workers : Heading(w) /\ submit[w] # {} => NotifyPending(NodeOf[w])

StopIsSeen ==
    \A w \in Workers : stop /\ Committed(w) => master.at = "destroy" /\ master.node <= NodeOf[w]

LifeCycle ==
    /\ stop => master.at \in {"destroy", "join", "destroyed"}
    /\ \A w \in Workers : pc[w] \in {"leave", "latch_stop", "gone"} => stop
    /\ (\E v \in Workers : pc[v] = "gone") => \A w \in Workers : pc[w] \in {"latch_stop", "gone"}

(* Only prepare_wait() makes a key current.                                *)
LEMMA KeysShrink ==
    ASSUME ControlTypes, [Next]_vars, NEW v \in Workers, v \in current'[NodeOf[v]]
    PROVE  v \in current[NodeOf[v]] \/ pc'[v] = "recheck"
<1>1. /\ current \in [Nodes -> SUBSET Workers] /\ NodeOf[v] \in Nodes
      /\ \A w \in Workers : NodeOf[w] \in Nodes /\ scan[w] \in Nodes
      /\ master.node \in Nodes
  BY PoolAssumption DEF ControlTypes, Nodes
<1>2. ASSUME NEW w \in Workers, LazyWork(w) \/ ThiefWorkSleep(w) \/ Task(w) \/ SpuriousUnblock(w)
      PROVE  v \in current[NodeOf[v]] \/ pc'[v] = "recheck"
  <2>1. CASE WorkerInit(w) \/ WorkerStart(w) \/ WakeUp(w) \/ Poll(w) \/ StealSucceeds(w)
             \/ StealFails(w) \/ RecheckEmpty(w) \/ StopNotSeen(w) \/ DropThief(w)
             \/ LastThiefSleeps(w) \/ Wait(w) \/ Leave(w) \/ Finalize(w) \/ SpuriousUnblock(w)
    BY <2>1 DEF WorkerInit, WorkerStart, WakeUp, Poll, StealSucceeds, StealFails,
       RecheckEmpty, StopNotSeen, DropThief, LastThiefSleeps, Wait, Leave, Finalize,
       SpuriousUnblock, ecVars
  <2>2. CASE Unthief(w) \/ Activate(w) \/ ScanNode(w) \/ Resume(w) \/ TaskEnds(w) \/ Deactivate(w)
             \/ Spawn(w) \/ \E u \in Workers : SwitchPush(w, u)
    BY <2>2 DEF Unthief, Activate, ScanNode, Resume, TaskEnds, Deactivate, Spawn,
       SwitchPush, ecVars
  <2>3. CASE RecheckFinds(w) \/ LastThiefStays(w) \/ WaitReturns(w)
    BY <1>1, <2>3 DEF RecheckFinds, LastThiefStays, WaitReturns, CancelWait
  <2>4. CASE StopSeen(w) \/ Replace(w) \/ ScanNotify(w) \/ SwitchNotify(w)
    BY <1>1, <2>4 DEF StopSeen, Replace, ScanNotify, SwitchNotify, NotifyOne
  <2>5. CASE PrepareWait(w)
    <3>1. pc'[w] = "recheck"
      BY <2>5, LazyWorkFlow DEF GoesTo
    <3> QED BY <1>1, <2>5, <3>1 DEF PrepareWait
  <2> QED BY <1>2, <2>1, <2>2, <2>3, <2>4, <2>5 DEF LazyWork, ThiefWorkSleep, Task
<1>3. CASE ScheduleNotify \/ DestroyNotify
  BY <1>1, <1>3 DEF ScheduleNotify, DestroyNotify
<1>4. CASE User \/ Construct \/ Constructed \/ Join \/ UNCHANGED vars
  BY <1>4 DEF User, Destroy, Schedule, Construct, Constructed, Join, vars, ecVars
<1> QED BY <1>2, <1>3, <1>4 DEF Next, Owner

(* A worker gets onto its way to sleep by finding nothing submitted, and   *)
(* goes on only if it did not see stop.                                    *)
LEMMA HeadingStep ==
    ASSUME ControlTypes, [Next]_vars, NEW v \in Workers
    PROVE  /\ Heading(v)' => Heading(v) \/ RecheckEmpty(v)
           /\ Committed(v)' => Committed(v) \/ StopNotSeen(v)
<1>1. ASSUME \/ pc'[v] = pc[v]
             \/ pc[v] = "blocked" /\ pc'[v] = "unblocked"
      PROVE  (Heading(v)' => Heading(v)) /\ (Committed(v)' => Committed(v))
  BY <1>1, KeysShrink DEF Heading, Committed
<1>2. CASE LazyWork(v) \/ SpuriousUnblock(v)
  <2>1. CASE WorkerInit(v) \/ WorkerStart(v) \/ WakeUp(v) \/ Poll(v) \/ StealSucceeds(v)
             \/ StealFails(v) \/ PrepareWait(v) \/ RecheckFinds(v) \/ StopSeen(v)
             \/ LastThiefStays(v) \/ WaitReturns(v) \/ Leave(v) \/ Finalize(v)
             \/ SpuriousUnblock(v)
    BY <2>1, LazyWorkFlow DEF GoesTo, Heading, Committed
  <2>2. CASE RecheckEmpty(v)
    BY <2>2, LazyWorkFlow DEF GoesTo, Heading, Committed
  <2>3. CASE StopNotSeen(v)
    <3>1. Heading(v)' => v \in current[NodeOf[v]]
      BY <2>3, LazyWorkFlow DEF GoesTo, Heading, StopNotSeen, ecVars
    <3> QED BY <2>3, <3>1 DEF Heading, StopNotSeen
  <2>4. CASE DropThief(v) \/ LastThiefSleeps(v)
    <3>1. Heading(v)' => v \in current[NodeOf[v]]
      BY <2>4, LazyWorkFlow DEF GoesTo, Heading, DropThief, LastThiefSleeps, ecVars
    <3> QED BY <2>4, <3>1 DEF Heading, Committed, DropThief, LastThiefSleeps
  <2>5. CASE Wait(v)
    <3>1. Heading(v)' => v \in current[NodeOf[v]]
      BY <2>5 DEF Wait, Goto, Heading, ControlTypes
    <3> QED BY <2>5, <3>1 DEF Heading, Committed, Wait
  <2> QED BY <1>2, <2>1, <2>2, <2>3, <2>4, <2>5 DEF LazyWork
<1>3. CASE ThiefWorkSleep(v) \/ Task(v)
  <2>1. pc'[v] \in {"replace", "activate", "scan", "scan_notify", "resume", "run",
                    "switch_notify", "done", "wake_up"}
    BY <1>3, ThiefWorkFlow DEF ThiefWorkSleep, Task, GoesTo
  <2> QED BY <2>1 DEF Heading, Committed
<1>4. ASSUME NEW w \in Workers \ {v},
             LazyWork(w) \/ ThiefWorkSleep(w) \/ Task(w) \/ SpuriousUnblock(w)
      PROVE  \/ pc'[v] = pc[v]
             \/ pc[v] = "blocked" /\ pc'[v] = "unblocked"
  BY <1>4, WorkerMoves DEF Moves
<1>5. ASSUME Owner \/ User \/ UNCHANGED vars
      PROVE  \/ pc'[v] = pc[v]
             \/ pc[v] = "blocked" /\ pc'[v] = "unblocked"
  BY <1>5, OwnerMoves DEF OnlyUnblocks
<1> QED BY <1>1, <1>2, <1>3, <1>4, <1>5 DEF Next

(* After notify_all() nobody of the node is on its way to sleep.           *)
LEMMA NotifiedAll ==
    ASSUME PoolTypes, NEW n \in Nodes, NEW v \in Team(n),
           current' = [current EXCEPT ![n] = {}],
           pc'[v] = AfterNotifyAll(n)[v]
    PROVE  ~Heading(v)' /\ ~Committed(v)'
<1>1. v \in Workers /\ NodeOf[v] = n /\ current'[n] = {}
  BY DEF Team, PoolTypes, ControlTypes
<1>2. pc'[v] # "blocked"
  <2>1. CASE pc[v] # "blocked"
    BY <1>1, <2>1 DEF AfterNotifyAll
  <2>2. CASE pc[v] = "blocked"
    <3>1. v \in At(WaiterAt, Team(n)) /\ v \in Blocked(n)
      BY <2>2 DEF At, WaiterAt, Blocked
    <3>2. waiters[n] # 0
      <4>1. Team(n) \in SUBSET Workers
        BY DEF Team
      <4> QED BY <3>1, <4>1, CountIsNat DEF PoolTypes, Counters
    <3> QED BY <1>1, <3>1, <3>2 DEF AfterNotifyAll
  <2> QED BY <2>1, <2>2
<1> QED BY <1>1, <1>2 DEF Heading, Committed

(* Workers do not move the owner of the pool.                              *)
LEMMA WorkerLeavesMaster ==
    ASSUME NEW w \in Workers, LazyWork(w) \/ ThiefWorkSleep(w) \/ Task(w) \/ SpuriousUnblock(w)
    PROVE  master' = master
<1>1. CASE LazyWork(w) \/ SpuriousUnblock(w)
  BY <1>1 DEF LazyWork, WorkerInit, WorkerStart, WakeUp, Poll, StealSucceeds, StealFails,
     PrepareWait, RecheckFinds, RecheckEmpty, StopSeen, StopNotSeen, DropThief,
     LastThiefStays, LastThiefSleeps, Wait, WaitReturns, Leave, Finalize, SpuriousUnblock
<1>2. CASE ThiefWorkSleep(w) \/ Task(w)
  BY <1>2 DEF ThiefWorkSleep, Unthief, Replace, Activate, ScanNode, ScanNotify,
     Resume, SwitchNotify, TaskEnds, Deactivate, Task, Spawn, SwitchPush
<1> QED BY <1>1, <1>2

(* Which steps submit something to v.                                      *)
LEMMA SubmitGrows ==
    ASSUME WorkTypes, [Next]_vars, NEW v \in Workers, submit'[v] # {}
    PROVE  submit[v] # {} \/ Schedule(v) \/ \E w \in Workers : SwitchPush(w, v)
<1> USE DEF WorkTypes, workVars
<1>1. ASSUME NEW w \in Workers, LazyWork(w) \/ SpuriousUnblock(w) PROVE submit[v] # {}
  <2>1. CASE Poll(w) \/ RecheckFinds(w)
    BY <2>1 DEF Poll, RecheckFinds, PopAll
  <2>2. CASE ~(Poll(w) \/ RecheckFinds(w))
    BY <1>1, <2>2 DEF LazyWork, WorkerInit, WorkerStart, WakeUp, StealSucceeds, StealFails,
     PrepareWait, RecheckEmpty, StopSeen, StopNotSeen, DropThief,
     LastThiefStays, LastThiefSleeps, Wait, WaitReturns, Leave, Finalize, SpuriousUnblock
  <2> QED BY <2>1, <2>2
<1>2. ASSUME NEW w \in Workers, ThiefWorkSleep(w) \/ Spawn(w) PROVE submit[v] # {}
  BY <1>2 DEF ThiefWorkSleep, Unthief, Replace, Activate, ScanNode, ScanNotify,
     Resume, SwitchNotify, TaskEnds, Deactivate, Spawn
<1>3. ASSUME NEW w \in Workers, NEW u \in Workers, SwitchPush(w, u)
      PROVE  submit[v] # {} \/ u = v
  BY <1>3 DEF SwitchPush, PushJob
<1>4. ASSUME NEW u \in Workers, Schedule(u)
      PROVE  submit[v] # {} \/ u = v
  BY <1>4 DEF Schedule, PushJob
<1>5. CASE Owner \/ Destroy \/ UNCHANGED vars
  BY <1>5 DEF Owner, Construct, Constructed, ScheduleNotify, DestroyNotify, Join, Destroy, vars
<1> QED BY <1>1, <1>2, <1>3, <1>4, <1>5 DEF Next, Task, User

(* A worker that still has to notify a node does so before anything else.  *)
LEMMA SwitchNotifies ==
    ASSUME ControlTypes, [Next]_vars, NEW u \in Workers, pc[u] = "switch_notify"
    PROVE  (pc'[u] = pc[u] /\ scan'[u] = scan[u]) \/ SwitchNotify(u)
<1>1. ASSUME NEW w \in Workers, LazyWork(w) \/ SpuriousUnblock(w)
      PROVE  pc'[u] = pc[u] /\ scan' = scan
  <2>1. w # u
    BY <1>1, LazyWorkFlow DEF LazyWork, GoesTo
  <2>2. pc'[u] = pc[u]
    BY <1>1, <2>1, WorkerMoves DEF Moves
  <2> QED BY <1>1, <2>2 DEF LazyWork, WorkerInit, WorkerStart, WakeUp, Poll, StealSucceeds,
     StealFails, PrepareWait, RecheckFinds, RecheckEmpty, StopSeen, StopNotSeen, DropThief,
     LastThiefStays, LastThiefSleeps, Wait, WaitReturns, Leave, Finalize, SpuriousUnblock
<1>2. ASSUME NEW w \in Workers, ThiefWorkSleep(w) \/ Task(w), ~SwitchNotify(u)
      PROVE  pc'[u] = pc[u] /\ scan'[u] = scan[u]
  <2>1. w # u
    BY <1>2, ThiefWorkFlow DEF ThiefWorkSleep, Task, GoesTo
  <2>2. pc'[u] = pc[u]
    BY <1>2, <2>1, WorkerMoves DEF Moves
  <2>3. scan'[u] = scan[u]
    BY <1>2, <2>1 DEF ThiefWorkSleep, Unthief, Replace, Activate, ScanNode, ScanNotify, NextNode,
       Resume, SwitchNotify, TaskEnds, Deactivate, Task, Spawn, SwitchPush, ControlTypes
  <2> QED BY <2>2, <2>3
<1>3. CASE Owner \/ User \/ UNCHANGED vars
  <2>1. pc'[u] = pc[u]
    BY <1>3, OwnerMoves DEF OnlyUnblocks
  <2>2. scan' = scan
    BY <1>3 DEF Owner, User, Construct, Constructed, ScheduleNotify, DestroyNotify, Join,
       Destroy, Schedule, vars
  <2> QED BY <2>1, <2>2
<1> QED BY <1>1, <1>2, <1>3 DEF Next

(* Every step keeps submissions visible to whoever is going to sleep.      *)
LEMMA SubmissionStep ==
    ASSUME PoolTypes, SubmissionsAreSeen, [Next]_vars
    PROVE  SubmissionsAreSeen'
<1> SUFFICES ASSUME NEW v \in Workers, Heading(v)', submit'[v] # {}
             PROVE  NotifyPending(NodeOf[v])'
  BY DEF SubmissionsAreSeen
<1>1. ControlTypes /\ WorkTypes /\ NodeOf[v] \in Nodes /\ v \in Team(NodeOf[v])
  BY PoolAssumption DEF PoolTypes, Nodes, Team
<1>2. Heading(v)
  <2>1. ~RecheckEmpty(v)
    BY DEF RecheckEmpty, workVars
  <2> QED BY <1>1, <2>1, HeadingStep
<1>3. CASE Schedule(v)
  BY <1>3 DEF Schedule, NotifyPending
<1>4. ASSUME NEW w \in Workers, SwitchPush(w, v) PROVE NotifyPending(NodeOf[v])'
  <2>1. pc'[w] = "switch_notify" /\ scan'[w] = NodeOf[v]
    BY <1>1, <1>4, ThiefWorkFlow DEF GoesTo, SwitchPush, ControlTypes
  <2> QED BY <2>1 DEF NotifyPending
<1>5. CASE submit[v] # {} /\ master.at = "notify" /\ master.node = NodeOf[v]
  <2>1. ~ScheduleNotify
    BY <1>1, <1>5, NotifiedAll DEF ScheduleNotify
  <2>2. master' = master
    BY <1>5, <2>1, WorkerLeavesMaster DEF Next, Owner, User, Construct, Constructed,
       DestroyNotify, Join, Destroy, Schedule, vars
  <2> QED BY <1>5, <2>2 DEF NotifyPending
<1>6. ASSUME submit[v] # {}, NEW u \in Workers, pc[u] = "switch_notify", scan[u] = NodeOf[v]
      PROVE  NotifyPending(NodeOf[v])'
  <2>1. ~SwitchNotify(u)
    <3> SUFFICES ASSUME SwitchNotify(u) PROVE FALSE
      OBVIOUS
    <3>1. pc'[u] = "run"
      BY <1>1, ThiefWorkFlow DEF GoesTo
    <3>2. u # v
      BY <3>1 DEF Heading
    <3>3. pc'[v] = AfterNotifyAll(NodeOf[v])[v] /\ current' = [current EXCEPT ![NodeOf[v]] = {}]
      BY <1>6, <3>2 DEF SwitchNotify, AfterNotifyAll
    <3> QED BY <1>1, <3>3, NotifiedAll
  <2> QED BY <1>1, <1>6, <2>1, SwitchNotifies DEF NotifyPending
<1> QED BY <1>1, <1>2, <1>3, <1>4, <1>5, <1>6, SubmitGrows DEF SubmissionsAreSeen, NotifyPending

(* Only workers that have seen stop leave, and the contexts go when all    *)
(* have.                                                                   *)
LEMMA LifeCycleStep ==
    ASSUME PoolTypes, LifeCycle, [Next]_vars
    PROVE  LifeCycle'
<1>1. ControlTypes
  BY DEF PoolTypes
<1>2. \A w \in Workers : ~stop => ~Leave(w)
  BY DEF Leave, LifeCycle
<1>3. stop' => stop \/ Destroy
  BY <1>2, StopStep
<1>4. stop => stop'
  BY StopStep
<1>5. stop' => master'.at \in {"destroy", "join", "destroyed"}
  <2>1. CASE Destroy
    BY <2>1 DEF Destroy
  <2>2. ASSUME stop PROVE master'.at \in {"destroy", "join", "destroyed"}
    <3>1. master.at \in {"destroy", "join", "destroyed"} /\ master \in [at : MasterAt, node : Nodes]
      BY <1>1, <2>2 DEF LifeCycle, ControlTypes
    <3>2. CASE Owner \/ User \/ UNCHANGED vars
      BY <3>1, <3>2 DEF Owner, User, Construct, Constructed, ScheduleNotify, DestroyNotify, Join,
         Destroy, Schedule, vars
    <3> QED BY <3>1, <3>2, WorkerLeavesMaster DEF Next
  <2> QED BY <1>3, <2>1, <2>2
<1>6. ASSUME NEW v \in Workers, pc'[v] \in {"leave", "latch_stop", "gone"}
      PROVE  \/ pc'[v] = pc[v] \/ (StopSeen(v) /\ pc'[v] = "leave")
             \/ (Leave(v) /\ pc'[v] = "latch_stop") \/ (Finalize(v) /\ pc[v] = "latch_stop")
  <2>1. CASE LazyWork(v) \/ SpuriousUnblock(v)
    BY <1>1, <1>6, <2>1, LazyWorkFlow DEF LazyWork, GoesTo
  <2>2. CASE ThiefWorkSleep(v) \/ Task(v)
    BY <1>1, <1>6, <2>2, ThiefWorkFlow DEF ThiefWorkSleep, Task, GoesTo
  <2>3. ASSUME NEW w \in Workers \ {v},
               LazyWork(w) \/ ThiefWorkSleep(w) \/ Task(w) \/ SpuriousUnblock(w)
        PROVE  pc'[v] = pc[v]
    BY <1>1, <1>6, <2>3, WorkerMoves DEF Moves
  <2>4. CASE Owner \/ User \/ UNCHANGED vars
    BY <1>1, <1>6, <2>4, OwnerMoves DEF OnlyUnblocks
  <2> QED BY <2>1, <2>2, <2>3, <2>4 DEF Next
<1>7. ASSUME NEW v \in Workers, pc'[v] \in {"leave", "latch_stop", "gone"} PROVE stop'
  <2>1. StopSeen(v) => stop
    BY DEF StopSeen
  <2>2. Leave(v) => stop'
    BY DEF Leave
  <2> QED BY <1>4, <1>6, <1>7, <2>1, <2>2 DEF LifeCycle
<1>8. ASSUME NEW v \in Workers, pc'[v] = "gone", NEW w \in Workers
      PROVE  pc'[w] \in {"latch_stop", "gone"}
  <2>1. \A x \in Workers : pc[x] \in {"latch_stop", "gone"}
    <3>1. CASE pc'[v] = pc[v]
      BY <1>8, <3>1 DEF LifeCycle
    <3>2. CASE Finalize(v)
      BY <3>2 DEF Finalize
    <3> QED BY <1>6, <1>8, <3>1, <3>2
  <2>2. CASE LazyWork(w) \/ SpuriousUnblock(w)
    BY <1>1, <2>1, <2>2, LazyWorkFlow DEF LazyWork, GoesTo
  <2>3. CASE ThiefWorkSleep(w) \/ Task(w)
    BY <1>1, <2>1, <2>3, ThiefWorkFlow DEF ThiefWorkSleep, Task, GoesTo
  <2>4. ASSUME NEW x \in Workers \ {w},
               LazyWork(x) \/ ThiefWorkSleep(x) \/ Task(x) \/ SpuriousUnblock(x)
        PROVE  pc'[w] = pc[w]
    BY <1>1, <2>1, <2>4, WorkerMoves DEF Moves
  <2>5. CASE Owner \/ User \/ UNCHANGED vars
    BY <1>1, <2>1, <2>5, OwnerMoves DEF OnlyUnblocks
  <2> QED BY <2>1, <2>2, <2>3, <2>4, <2>5 DEF Next
<1> QED BY <1>5, <1>7, <1>8 DEF LifeCycle

(* The destructor reaches every node that has a worker on its way to sleep. *)
LEMMA StopIsSeenStep ==
    ASSUME PoolTypes, LifeCycle, StopIsSeen, [Next]_vars
    PROVE  StopIsSeen'
<1> SUFFICES ASSUME NEW v \in Workers, stop', Committed(v)'
             PROVE  master'.at = "destroy" /\ master'.node <= NodeOf[v]
  BY DEF StopIsSeen
<1>1. /\ ControlTypes /\ NodeOf[v] \in 1..NumNodes /\ v \in Team(NodeOf[v])
      /\ NumNodes \in Nat /\ master \in [at : MasterAt, node : 1..NumNodes]
  BY PoolAssumption DEF PoolTypes, ControlTypes, Nodes, Team
<1>2. CASE Destroy
  BY <1>1, <1>2 DEF Destroy
<1>3. ASSUME ~Destroy PROVE master'.at = "destroy" /\ master'.node <= NodeOf[v]
  <2>1. stop
    <3>1. \A w \in Workers : ~stop => ~Leave(w)
      BY DEF Leave, LifeCycle
    <3> QED BY <1>3, <3>1, StopStep
  <2>2. Committed(v)
    <3>1. ~StopNotSeen(v)
      BY <2>1 DEF StopNotSeen
    <3> QED BY <1>1, <3>1, HeadingStep
  <2>3. master.at = "destroy" /\ master.node <= NodeOf[v]
    BY <2>1, <2>2 DEF StopIsSeen
  <2>4. CASE DestroyNotify
    <3>1. master.node # NodeOf[v]
      BY <1>1, <2>4, NotifiedAll DEF DestroyNotify, Nodes
    <3>2. master' = [master EXCEPT !.node = @ + 1]
      BY <1>1, <2>3, <2>4, <3>1 DEF DestroyNotify
    <3> QED BY <1>1, <2>3, <3>1, <3>2
  <2>5. CASE ~DestroyNotify
    <3>1. master' = master
      BY <1>3, <2>3, <2>5, WorkerLeavesMaster DEF Next, Owner, User, Construct, Constructed,
         ScheduleNotify, Join, Schedule, vars
    <3> QED BY <2>3, <3>1
  <2> QED BY <2>4, <2>5
<1> QED BY <1>2, <1>3

(* "Wait for everyone to have stopped before destroying the context", and  *)
(* the two promises of the event count: a worker blocks neither on a       *)
(* submission that nobody will tell it of nor through the destructor.      *)
THEOREM SleepIsSafe == Spec => []SleepAndShutdownAreSafe
<1> DEFINE Inv == PoolTypes /\ StopType /\ SubmissionsAreSeen /\ LifeCycle /\ StopIsSeen
<1>1. Init => Inv
  <2> SUFFICES ASSUME Init PROVE Inv
    OBVIOUS
  <2>1. \A w \in Workers : pc[w] = "init"
    BY DEF Init
  <2>2. SubmissionsAreSeen /\ StopIsSeen
    BY <2>1 DEF SubmissionsAreSeen, StopIsSeen, Committed, Heading
  <2>3. LifeCycle
    BY <2>1 DEF Init, LifeCycle
  <2> QED BY <2>2, <2>3, PoolInit
<1>2. Inv /\ [Next]_vars => Inv'
  BY PoolStep, SubmissionStep, LifeCycleStep, StopIsSeenStep
<1>3. Inv => SleepAndShutdownAreSafe
  <2> SUFFICES ASSUME Inv PROVE SleepAndShutdownAreSafe
    OBVIOUS
  <2>1. NoSleepOnSubmission
    BY DEF SubmissionsAreSeen, NotifyPending, Heading, NoSleepOnSubmission, Asleep
  <2>2. NoSleepAfterStop
    BY DEF StopIsSeen, Committed, Heading, NoSleepAfterStop, Asleep
  <2>3. ContextsOutliveThieves
    BY DEF LifeCycle, ContextsOutliveThieves
  <2> QED BY <2>1, <2>2, <2>3 DEF SleepAndShutdownAreSafe
<1> QED BY <1>1, <1>2, <1>3, PTL DEF Spec

-----------------------------------------------------------------------------
(* Node n has a thief, or one is on its way.                               *)
Cover(n) ==
    \/ \E v \in Team(n) :
         \/ pc[v] \in ThiefAt \union {"wake_up", "unblocked", "last_thief", "replace"}
         \/ pc[v] = "wait" /\ v \notin current[n]
    \/ \E w \in Workers : pc[w] \in {"scan", "scan_notify"} /\ scan[w] <= n

(* The invariant of lazy_pool's comment, made inductive: a worker counts   *)
(* as a sleeper as soon as it is about to wait.                            *)
ThiefStays ==
    \A n \in Nodes :
        (active > 0 /\ ~stop /\ \E w \in Team(n) : pc[w] \in {"blocked", "wait"}) => Cover(n)

(* The loop over the nodes starts with the first.                          *)
ScanHome == \A w \in Workers : pc[w] \notin {"scan", "scan_notify", "switch_notify"} => scan[w] = 1

(* A worker's scan is its own.                                             *)
LEMMA ScanOwned ==
    ASSUME ControlTypes, NEW w \in Workers, NEW u \in Workers \ {w},
           LazyWork(w) \/ ThiefWorkSleep(w) \/ Task(w) \/ SpuriousUnblock(w)
    PROVE  scan'[u] = scan[u]
<1>1. CASE LazyWork(w) \/ SpuriousUnblock(w)
  BY <1>1 DEF LazyWork, WorkerInit, WorkerStart, WakeUp, Poll, StealSucceeds,
     StealFails, PrepareWait, RecheckFinds, RecheckEmpty, StopSeen, StopNotSeen, DropThief,
     LastThiefStays, LastThiefSleeps, Wait, WaitReturns, Leave, Finalize, SpuriousUnblock
<1>2. CASE ThiefWorkSleep(w) \/ Task(w)
  BY <1>2 DEF ThiefWorkSleep, Unthief, Replace, Activate, ScanNode, ScanNotify, NextNode,
     Resume, SwitchNotify, TaskEnds, Deactivate, Task, Spawn, SwitchPush, ControlTypes
<1> QED BY <1>1, <1>2

(* A scan starts from the first node.                                      *)
LEMMA ScanHomeStep ==
    ASSUME ControlTypes, ScanHome, [Next]_vars
    PROVE  ScanHome'
<1> SUFFICES ASSUME NEW u \in Workers, pc'[u] \notin {"scan", "scan_notify", "switch_notify"}
             PROVE  scan'[u] = 1
  BY DEF ScanHome
<1>1. CASE LazyWork(u) \/ SpuriousUnblock(u)
  <2>1. scan' = scan
    BY <1>1 DEF LazyWork, WorkerInit, WorkerStart, WakeUp, Poll, StealSucceeds,
       StealFails, PrepareWait, RecheckFinds, RecheckEmpty, StopSeen, StopNotSeen, DropThief,
       LastThiefStays, LastThiefSleeps, Wait, WaitReturns, Leave, Finalize, SpuriousUnblock
  <2>2. pc[u] \notin {"scan", "scan_notify", "switch_notify"}
    BY <1>1, LazyWorkFlow DEF LazyWork, GoesTo
  <2> QED BY <2>1, <2>2 DEF ScanHome
<1>2. CASE Unthief(u) \/ Replace(u) \/ Activate(u) \/ Resume(u) \/ TaskEnds(u) \/ Deactivate(u)
           \/ Spawn(u)
  <2>1. scan' = scan
    BY <1>2 DEF Unthief, Replace, Activate, Resume, TaskEnds, Deactivate, Spawn
  <2>2. pc[u] \notin {"scan", "scan_notify", "switch_notify"}
    BY <1>2, ThiefWorkFlow DEF GoesTo
  <2> QED BY <2>1, <2>2 DEF ScanHome
<1>3. CASE ScanNode(u) \/ ScanNotify(u)
  <2>1. pc'[u] = AfterScan(u) /\ AfterScan(u) # "scan"
    BY <1>3, ThiefWorkFlow DEF GoesTo
  <2>2. scan[u] = NumNodes
    BY <2>1 DEF AfterScan
  <2>3. NextNode(u)
    <3>1. CASE ScanNode(u)
      <4>1. thief[scan[u]] # 0
        BY <2>1, <3>1, ThiefWorkFlow DEF ScanNode, Goto, ControlTypes, GoesTo
      <4> QED BY <3>1, <4>1 DEF ScanNode
    <3>2. CASE ScanNotify(u)
      BY <3>2 DEF ScanNotify
    <3> QED BY <1>3, <3>1, <3>2
  <2> QED BY <2>2, <2>3 DEF NextNode, ControlTypes
<1>4. CASE SwitchNotify(u)
  BY <1>4 DEF SwitchNotify, ControlTypes
<1>5. ASSUME NEW v \in Workers, SwitchPush(u, v) PROVE FALSE
  BY <1>5, ThiefWorkFlow DEF GoesTo
<1>6. ASSUME NEW w \in Workers \ {u},
             LazyWork(w) \/ ThiefWorkSleep(w) \/ Task(w) \/ SpuriousUnblock(w)
      PROVE  scan'[u] = 1
  <2>1. scan'[u] = scan[u]
    BY <1>6, ScanOwned
  <2>2. pc[u] \notin {"scan", "scan_notify", "switch_notify"}
    BY <1>6, WorkerMoves DEF Moves
  <2> QED BY <2>1, <2>2 DEF ScanHome
<1>7. CASE Owner \/ User \/ UNCHANGED vars
  <2>1. scan' = scan
    BY <1>7 DEF Owner, User, Construct, Constructed, ScheduleNotify, DestroyNotify, Join,
       Destroy, Schedule, vars
  <2>2. pc[u] \notin {"scan", "scan_notify", "switch_notify"}
    BY <1>7, OwnerMoves DEF OnlyUnblocks
  <2> QED BY <2>1, <2>2 DEF ScanHome
<1> QED BY <1>1, <1>2, <1>3, <1>4, <1>5, <1>6, <1>7 DEF Next, ThiefWorkSleep, Task

(* A count above zero has a worker behind it, and the other way round.     *)
LEMMA SomeThief ==
    PoolTypes => \A n \in Nodes : thief[n] \in Nat /\ (thief[n] # 0 <=> \E v \in Team(n) : pc[v] \in ThiefAt)
<1> SUFFICES ASSUME PoolTypes, NEW n \in Nodes
             PROVE  thief[n] \in Nat /\ (thief[n] # 0 <=> \E v \in Team(n) : pc[v] \in ThiefAt)
  OBVIOUS
<1>1. Team(n) \in SUBSET Workers
  BY DEF Team
<1>2. /\ IsFiniteSet(At(ThiefAt, Team(n))) /\ Cardinality(At(ThiefAt, Team(n))) \in Nat
      /\ thief[n] = Cardinality(At(ThiefAt, Team(n)))
  BY <1>1, CountIsNat DEF PoolTypes, Counters
<1>3. Cardinality(At(ThiefAt, Team(n))) = 0 <=> At(ThiefAt, Team(n)) = {}
  BY <1>2, FS_EmptySet
<1> QED BY <1>2, <1>3 DEF At

(* The same after a step.                                                  *)
LEMMA SomeThiefNext ==
    PoolTypes' => (\A n \in Nodes : thief[n] \in Nat /\ (thief[n] # 0 <=> \E v \in Team(n) : pc[v] \in ThiefAt))'
BY SomeThief, PTL

(* notify_one() on a node with sleepers leaves somebody awake there.       *)
LEMMA NotifiedOne ==
    ASSUME PoolTypes, NEW n \in Nodes, NEW w \in Workers, NEW l, NotifyOne(n, w, l),
           pc[w] # "blocked", l # "blocked", l # "wait",
           NEW x \in Team(n), pc'[x] \in {"blocked", "wait"}
    PROVE  Cover(n)'
<1>1. current'[n] = {} /\ x \in Workers /\ pc \in [Workers -> Labels]
  BY DEF NotifyOne, PoolTypes, ControlTypes, Team
<1>2. CASE pc'[x] = "wait"
  BY <1>1, <1>2 DEF Cover
<1>3. CASE pc'[x] = "blocked"
  <2>1. pc[x] = "blocked"
    BY <1>1, <1>3 DEF NotifyOne, Goto, Blocked, Team
  <2>2. x \in Blocked(n) /\ x \in At(WaiterAt, Team(n)) /\ Team(n) \in SUBSET Workers
    BY <2>1 DEF Blocked, At, WaiterAt, Team
  <2>3. waiters[n] # 0
    BY <2>2, CountIsNat DEF PoolTypes, Counters
  <2>4. PICK s \in Blocked(n) : pc' = [pc EXCEPT ![w] = l, ![s] = "unblocked"]
    BY <2>2, <2>3 DEF NotifyOne
  <2>5. s \in Team(n) /\ pc'[s] = "unblocked"
    BY <1>1, <2>4 DEF Blocked, Team
  <2> QED BY <2>5 DEF Cover
<1> QED BY <1>2, <1>3

(* Those who do not move keep covering the node.                           *)
LEMMA CoverByOthers ==
    ASSUME ControlTypes, [Next]_vars, NEW n \in Nodes, NEW v \in Team(n),
           \/ pc[v] \in ThiefAt \union {"wake_up", "unblocked", "last_thief", "replace"}
           \/ pc[v] = "wait" /\ v \notin current[n],
           pc'[v] = pc[v]
    PROVE  Cover(n)'
<1>1. v \in Workers /\ NodeOf[v] = n
  BY DEF Team
<1>2. pc[v] = "wait" /\ v \notin current[n] => v \notin current'[n]
  BY <1>1, KeysShrink
<1> QED BY <1>1, <1>2 DEF Cover, Team

(* A worker that covers its node hands over before it stops doing so.      *)
LEMMA CoverByWorker ==
    ASSUME PoolTypes, PoolTypes', LifeCycle, [Next]_vars, ~stop, active' > 0,
           NEW n \in Nodes, NEW w \in Team(n),
           LazyWork(w) \/ ThiefWorkSleep(w) \/ Task(w) \/ SpuriousUnblock(w),
           \/ pc[w] \in ThiefAt \union {"wake_up", "unblocked", "last_thief", "replace"}
           \/ pc[w] = "wait" /\ w \notin current[n],
           NEW x \in Team(n), pc'[x] \in {"blocked", "wait"}
    PROVE  Cover(n)'
<1>1. /\ ControlTypes /\ w \in Workers /\ NodeOf[w] = n
      /\ \A u \in Workers : u \in Team(n) <=> NodeOf[u] = n
  BY DEF PoolTypes, Team
<1>2. ASSUME pc'[w] \in {"poll", "steal", "prepare", "recheck", "stop_test", "drop", "unthief",
                         "wake_up", "unblocked", "last_thief", "replace"}
      PROVE  Cover(n)'
  BY <1>1, <1>2 DEF Cover, ThiefAt
<1>3. ASSUME DropThief(w) \/ Unthief(w), thief[n] # 1
      PROVE  Cover(n)'
  <2>1. thief[n] # 0 /\ thief[n] \in Nat
    BY <1>1, <1>3, SomeThief DEF DropThief, Unthief, ThiefAt
  <2>2. thief'[n] = thief[n] - 1
    BY <1>1, <1>3 DEF DropThief, Unthief, ControlTypes
  <2>3. thief'[n] # 0
    BY <1>3, <2>1, <2>2
  <2> QED BY <2>3, SomeThiefNext DEF Cover
<1>4. CASE LazyWork(w) \/ SpuriousUnblock(w)
  <2>1. CASE WakeUp(w) \/ Poll(w) \/ StealSucceeds(w) \/ StealFails(w) \/ PrepareWait(w)
             \/ RecheckFinds(w) \/ RecheckEmpty(w) \/ StopNotSeen(w) \/ LastThiefStays(w)
             \/ WaitReturns(w) \/ SpuriousUnblock(w) \/ WorkerStart(w)
    BY <1>1, <1>2, <2>1, LazyWorkFlow DEF GoesTo
  <2>2. CASE DropThief(w)
    <3>1. thief[n] = 1 => pc'[w] = "last_thief"
      BY <1>1, <2>2 DEF DropThief, Goto, ControlTypes
    <3> QED BY <1>2, <1>3, <2>2, <3>1
  <2>3. CASE Wait(w)
    <3>1. pc'[w] = "unblocked"
      BY <1>1, <2>3 DEF Wait, Goto, ControlTypes, ThiefAt
    <3> QED BY <1>2, <3>1
  <2>4. ~StopSeen(w) /\ ~Leave(w)
    BY <1>1 DEF StopSeen, Leave, LifeCycle
  <2>5. ~LastThiefSleeps(w)
    BY DEF LastThiefSleeps
  <2>6. ~WorkerInit(w) /\ ~Finalize(w)
    BY DEF WorkerInit, Finalize, ThiefAt
  <2> QED BY <1>4, <2>1, <2>2, <2>3, <2>4, <2>5, <2>6 DEF LazyWork
<1>5. CASE ThiefWorkSleep(w) \/ Task(w)
  <2>1. CASE Unthief(w)
    <3>1. thief[n] = 1 => pc'[w] = "replace"
      BY <1>1, <2>1 DEF Unthief, Goto, ControlTypes
    <3> QED BY <1>2, <1>3, <2>1, <3>1
  <2>2. CASE Replace(w)
    BY <1>1, <2>2, NotifiedOne DEF Replace
  <2>3. CASE ~Unthief(w) /\ ~Replace(w)
    <3>1. pc[w] \in {"activate", "scan", "scan_notify", "resume", "switch_notify", "run", "done"}
      BY <1>1, <1>5, <2>3, ThiefWorkFlow DEF ThiefWorkSleep, Task, GoesTo
    <3> QED BY <3>1 DEF ThiefAt
  <2> QED BY <2>1, <2>2, <2>3
<1> QED BY <1>4, <1>5

(* The loop of the first active worker leaves no node behind uncovered.    *)
LEMMA CoverByScan ==
    ASSUME PoolTypes, [Next]_vars, NEW n \in Nodes, NEW w \in Workers,
           pc[w] \in {"scan", "scan_notify"}, scan[w] <= n,
           LazyWork(w) \/ ThiefWorkSleep(w) \/ Task(w) \/ SpuriousUnblock(w),
           NEW x \in Team(n), pc'[x] \in {"blocked", "wait"}
    PROVE  Cover(n)'
<1>1. /\ ControlTypes /\ n \in 1..NumNodes /\ NumNodes \in Nat /\ scan[w] \in 1..NumNodes
      /\ scan \in [Workers -> 1..NumNodes]
  BY PoolAssumption DEF PoolTypes, ControlTypes, Nodes
<1>2. ScanNode(w) \/ ScanNotify(w)
  <2>1. ~LazyWork(w) /\ ~SpuriousUnblock(w)
    BY <1>1, LazyWorkFlow DEF LazyWork, GoesTo
  <2> QED BY <1>1, <2>1, ThiefWorkFlow DEF ThiefWorkSleep, Task, GoesTo
<1>3. ASSUME NextNode(w), pc'[w] = AfterScan(w), scan[w] # n PROVE Cover(n)'
  <2>1. scan[w] < n /\ scan[w] # NumNodes
    BY <1>1, <1>3
  <2>2. scan'[w] = scan[w] + 1 /\ pc'[w] = "scan"
    BY <1>1, <1>3, <2>1 DEF NextNode, AfterScan
  <2>3. scan'[w] <= n
    BY <1>1, <2>1, <2>2
  <2> QED BY <2>2, <2>3 DEF Cover
<1>4. CASE ScanNode(w)
  <2>1. CASE thief[scan[w]] = 0
    BY <1>1, <1>4, <2>1 DEF ScanNode, Goto, ControlTypes, Cover
  <2>2. CASE thief[scan[w]] # 0
    <3>1. NextNode(w) /\ pc'[w] = AfterScan(w)
      BY <1>1, <1>4, <2>2 DEF ScanNode, Goto, ControlTypes
    <3>2. CASE scan[w] = n
      <4>1. PICK v \in Team(n) : pc[v] \in ThiefAt
        BY <2>2, <3>2, SomeThief
      <4>2. v # w /\ v \in Workers
        BY <4>1 DEF ThiefAt, Team
      <4>3. pc'[v] = pc[v]
        BY <1>1, <4>1, <4>2, WorkerMoves DEF Moves, ThiefAt
      <4> QED BY <1>1, <4>1, <4>3, CoverByOthers
    <3> QED BY <1>3, <3>1, <3>2
  <2> QED BY <2>1, <2>2
<1>5. CASE ScanNotify(w)
  <2>1. AfterScan(w) \in {"scan", "resume"} /\ pc'[w] = AfterScan(w)
    BY <1>1, <1>5, ThiefWorkFlow DEF GoesTo
  <2>2. CASE scan[w] = n
    BY <1>5, <2>1, <2>2, NotifiedOne DEF ScanNotify
  <2>3. CASE scan[w] # n
    BY <1>3, <1>5, <2>1, <2>3 DEF ScanNotify
  <2> QED BY <2>2, <2>3
<1> QED BY <1>2, <1>4, <1>5

(* A node that is covered stays so as long as a worker of it sleeps.       *)
LEMMA CoverStep ==
    ASSUME PoolTypes, PoolTypes', LifeCycle, [Next]_vars, ~stop, active' > 0,
           NEW n \in Nodes, Cover(n), NEW x \in Team(n), pc'[x] \in {"blocked", "wait"}
    PROVE  Cover(n)'
<1>1. ControlTypes /\ \A v \in Team(n) : v \in Workers
  BY DEF PoolTypes, Team
<1>2. ASSUME NEW v \in Team(n),
             \/ pc[v] \in ThiefAt \union {"wake_up", "unblocked", "last_thief", "replace"}
             \/ pc[v] = "wait" /\ v \notin current[n]
      PROVE  Cover(n)'
  <2>1. ASSUME NEW w \in Workers \ {v},
               LazyWork(w) \/ ThiefWorkSleep(w) \/ Task(w) \/ SpuriousUnblock(w)
        PROVE  pc'[v] = pc[v]
    BY <1>1, <1>2, <2>1, WorkerMoves DEF Moves, ThiefAt
  <2>2. CASE Owner \/ User \/ UNCHANGED vars
    <3>1. pc'[v] = pc[v]
      BY <1>1, <1>2, <2>2, OwnerMoves DEF OnlyUnblocks, ThiefAt
    <3> QED BY <1>1, <1>2, <3>1, CoverByOthers
  <2>3. CASE LazyWork(v) \/ ThiefWorkSleep(v) \/ Task(v) \/ SpuriousUnblock(v)
    BY <1>2, <2>3, CoverByWorker
  <2>4. ASSUME pc'[v] = pc[v] PROVE Cover(n)'
    BY <1>1, <1>2, <2>4, CoverByOthers
  <2> QED BY <1>1, <2>1, <2>2, <2>3, <2>4 DEF Next
<1>3. ASSUME NEW u \in Workers, pc[u] \in {"scan", "scan_notify"}, scan[u] <= n
      PROVE  Cover(n)'
  <2>1. ASSUME NEW w \in Workers \ {u},
               LazyWork(w) \/ ThiefWorkSleep(w) \/ Task(w) \/ SpuriousUnblock(w)
        PROVE  pc'[u] = pc[u] /\ scan'[u] = scan[u]
    BY <1>1, <1>3, <2>1, WorkerMoves, ScanOwned DEF Moves
  <2>2. ASSUME Owner \/ User \/ UNCHANGED vars
        PROVE  pc'[u] = pc[u] /\ scan'[u] = scan[u]
    <3>1. pc'[u] = pc[u]
      BY <1>1, <1>3, <2>2, OwnerMoves DEF OnlyUnblocks
    <3> QED BY <2>2, <3>1 DEF Owner, User, Construct, Constructed, ScheduleNotify, DestroyNotify,
            Join, Destroy, Schedule, vars
  <2>3. CASE LazyWork(u) \/ ThiefWorkSleep(u) \/ Task(u) \/ SpuriousUnblock(u)
    BY <1>3, <2>3, CoverByScan
  <2>4. ASSUME pc'[u] = pc[u], scan'[u] = scan[u] PROVE Cover(n)'
    BY <1>3, <2>4 DEF Cover
  <2> QED BY <2>1, <2>2, <2>3, <2>4 DEF Next
<1> QED BY <1>2, <1>3 DEF Cover

(* Every step leaves a thief on a node with sleepers of an active pool.    *)
LEMMA ThiefStaysStep ==
    ASSUME PoolTypes, PoolTypes', LifeCycle, ScanHome, ThiefStays, [Next]_vars
    PROVE  ThiefStays'
<1> SUFFICES ASSUME NEW n \in Nodes, active' > 0, ~stop', NEW x \in Team(n),
                    pc'[x] \in {"blocked", "wait"}
             PROVE  Cover(n)'
  BY DEF ThiefStays, Team
<1>1. /\ ControlTypes /\ x \in Workers /\ n \in 1..NumNodes
  BY DEF PoolTypes, Team, Nodes
<1>2. ~stop
  BY StopStep
<1>3. active \in Nat
  BY CountIsNat DEF PoolTypes, Counters
<1>4. pc[x] \in {"blocked", "wait", "drop", "last_thief"}
  <2>1. CASE LazyWork(x) \/ SpuriousUnblock(x)
    BY <1>1, <2>1, LazyWorkFlow DEF LazyWork, GoesTo
  <2>2. CASE ThiefWorkSleep(x) \/ Task(x)
    BY <1>1, <2>2, ThiefWorkFlow DEF ThiefWorkSleep, Task, GoesTo
  <2>3. ASSUME NEW w \in Workers \ {x},
               LazyWork(w) \/ ThiefWorkSleep(w) \/ Task(w) \/ SpuriousUnblock(w)
        PROVE  pc'[x] = pc[x]
    BY <1>1, <2>3, WorkerMoves DEF Moves
  <2>4. CASE Owner \/ User \/ UNCHANGED vars
    BY <1>1, <2>4, OwnerMoves DEF OnlyUnblocks
  <2> QED BY <1>1, <2>1, <2>2, <2>3, <2>4 DEF Next
<1>5. CASE active = 0
  <2>1. PICK w \in Workers : Activate(w)
    <3>1. ASSUME NEW w \in Workers,
                 LazyWork(w) \/ ThiefWorkSleep(w) \/ Task(w) \/ SpuriousUnblock(w)
          PROVE  Activate(w)
      <4>1. Delta(w, ActiveAt) = 1
        BY <1>1, <1>5, <3>1, WorkerCounts DEF Delta
      <4>2. pc'[w] \in ActiveAt /\ pc[w] \notin ActiveAt
        BY <4>1 DEF Delta
      <4>3. CASE LazyWork(w) \/ SpuriousUnblock(w)
        BY <1>1, <4>2, <4>3, LazyWorkFlow DEF LazyWork, GoesTo, ActiveAt
      <4>4. CASE ThiefWorkSleep(w) \/ Task(w)
        BY <1>1, <4>2, <4>4, ThiefWorkFlow DEF ThiefWorkSleep, Task, GoesTo, ActiveAt
      <4> QED BY <3>1, <4>3, <4>4
    <3>2. Owner \/ User \/ UNCHANGED vars => active' = active
      BY DEF Owner, User, Construct, Constructed, ScheduleNotify, DestroyNotify, Join,
         Destroy, Schedule, vars
    <3> QED BY <1>5, <3>1, <3>2 DEF Next
  <2>2. pc'[w] = "scan" /\ scan'[w] = 1
    BY <1>1, <1>5, <2>1 DEF Activate, Goto, ControlTypes, ScanHome
  <2> QED BY <1>1, <2>2 DEF Cover
<1>6. CASE active > 0
  <2>1. Cover(n)
    BY <1>2, <1>4, <1>6 DEF ThiefStays, Cover, ThiefAt
  <2> QED BY <1>2, <2>1, CoverStep
<1> QED BY <1>3, <1>5, <1>6

(* The invariant in lazy_pool's comments, "if (A > 0) then (Ti >= 1 OR Si  *)
(* == 0) for all i", holds up to a thief that is on its way: no            *)
(* interleaving of workers that go to sleep, wake up, become active or     *)
(* finish leaves a node asleep for good while somebody works.              *)
THEOREM ActivePoolKeepsThieves == Spec => []ActiveImpliesThief
<1> DEFINE Inv == PoolTypes /\ StopType /\ LifeCycle /\ ScanHome /\ ThiefStays
<1>1. Init => Inv
  <2> SUFFICES ASSUME Init PROVE Inv
    OBVIOUS
  <2>1. LifeCycle /\ ScanHome /\ ThiefStays
    BY DEF Init, LifeCycle, ScanHome, ThiefStays
  <2> QED BY <2>1, PoolInit
<1>2. Inv /\ [Next]_vars => Inv'
  <2> SUFFICES ASSUME Inv, [Next]_vars PROVE Inv'
    OBVIOUS
  <2>1. PoolTypes' /\ StopType'
    BY PoolStep
  <2>2. ControlTypes
    BY DEF PoolTypes
  <2> QED BY <2>1, <2>2, LifeCycleStep, ScanHomeStep, ThiefStaysStep
<1>3. Inv => ActiveImpliesThief
  <2> SUFFICES ASSUME Inv, NEW n \in Nodes, active > 0, ~stop, NEW w \in Team(n), Asleep(w)
               PROVE  thief[n] >= 1 \/ WakeUpPending(n)
    BY DEF ActiveImpliesThief
  <2>1. Cover(n)
    BY DEF ThiefStays, Asleep
  <2>2. thief[n] \in Nat /\ (thief[n] # 0 <=> \E v \in Team(n) : pc[v] \in ThiefAt)
    BY SomeThief
  <2>3. ASSUME NEW v \in Team(n), pc[v] \in ThiefAt PROVE thief[n] >= 1
    BY <2>2, <2>3
  <2> QED BY <2>1, <2>3 DEF Cover, WakeUpPending
<1> QED BY <1>1, <1>2, <1>3, PTL DEF Spec

=============================================================================

------------------------------ MODULE LazyPool ------------------------------
(***************************************************************************)
(* lazy_pool: worker threads that look for work and go to sleep.           *)
(*                                                                         *)
(* Workers are divided into NUMA nodes; each node has a counter of thieves *)
(* (workers that are awake and look for work) and an event_count to sleep  *)
(* on, and the pool has a counter of active workers.  The rule is that     *)
(* while somebody is active each node has a thief unless nobody sleeps     *)
(* there, so that new work is found soon.  Every read-modify-write of a    *)
(* shared variable is a step of its own.                                   *)
(*                                                                         *)
(* event_count: the epoch is compared for equality with a key that was     *)
(* read from it earlier, so instead of numbers the model keeps, per node,  *)
(* the set of workers whose key is the current epoch (which assumes that   *)
(* the 32 bit epoch does not come round to the same value while a worker   *)
(* goes to sleep).  std::atomic::wait blocks such a worker; a notification *)
(* changes the epoch and unblocks one or all of the blocked ones.          *)
(*                                                                         *)
(* What the tasks compute is left out: a worker that runs a task may make  *)
(* tasks that can be stolen, submit work to a worker, and finish.  Memory  *)
(* is sequentially consistent here.                                        *)
(***************************************************************************)
EXTENDS Integers, FiniteSets

CONSTANTS
    Workers,      \* worker threads
    NumNodes,     \* number of NUMA nodes of the pool
    NodeOf,       \* node of each worker
    MaxJobs,      \* bound: submissions from outside
    MaxActs       \* bound: submissions made by running tasks and tasks
                  \* made available for stealing, together

ASSUME PoolAssumption ==
    /\ IsFiniteSet(Workers) /\ Workers # {}
    /\ NumNodes \in Nat \ {0}
    /\ NodeOf \in [Workers -> 1..NumNodes]
    /\ {MaxJobs, MaxActs} \subseteq Nat

Nodes == 1..NumNodes
Jobs == 1..(MaxJobs + MaxActs)
Team(n) == {w \in Workers : NodeOf[w] = n}

VARIABLES
    pc,       \* position of each worker in lazy_work and thief_work_sleep
    scan,     \* node a worker looks at in thief_work_sleep's loop, or notifies
    batch,    \* jobs a worker has popped and not resumed yet
    thief,    \* fat_counters::thief
    active,   \* lazy_vars::active
    current,  \* per node: workers that hold a key equal to the epoch
    waiters,  \* per node: the waiter half of m_val
    submit,   \* m_submit of each worker's context
    tasks,    \* number of tasks on each worker's deque
    stop,     \* busy_vars::stop
    master,   \* the thread that owns the pool: [at, node]
    resumed,  \* jobs that have been resumed
    made      \* what the bounds count: [jobs, switches, spawns]

vars == <<pc, scan, batch, thief, active, current, waiters, submit, tasks, stop,
          master, resumed, made>>

ecVars == <<current, waiters>>
workVars == <<submit, tasks, resumed, made>>

Goto(w, l) == pc' = [pc EXCEPT ![w] = l]

-----------------------------------------------------------------------------
(* event_count.  A worker that sleeps is at "blocked"; unblocking it takes *)
(* it to "unblocked", the rest of wait().                                  *)
Blocked(n) == {w \in Team(n) : pc[w] = "blocked"}

(* notify_one, by a worker w that then goes to l                           *)
NotifyOne(n, w, l) ==
    /\ current' = [current EXCEPT ![n] = {}]
    /\ IF waiters[n] = 0 \/ Blocked(n) = {}
       THEN Goto(w, l)
       ELSE \E s \in Blocked(n) : pc' = [pc EXCEPT ![w] = l, ![s] = "unblocked"]
    /\ UNCHANGED waiters

(* The positions of all workers after notify_all.                          *)
AfterNotifyAll(n) ==
    [v \in Workers |-> IF waiters[n] # 0 /\ v \in Blocked(n) THEN "unblocked" ELSE pc[v]]

(* cancel_wait; the key is not used any more                               *)
CancelWait(w) ==
    /\ waiters' = [waiters EXCEPT ![NodeOf[w]] = @ - 1]
    /\ current' = [current EXCEPT ![NodeOf[w]] = @ \ {w}]

(* MUTANT of PrepareWait: the submissions are not looked at again.         *)
BugNoRecheck(w) ==
    /\ pc[w] = "prepare"
    /\ waiters' = [waiters EXCEPT ![NodeOf[w]] = @ + 1]
    /\ current' = [current EXCEPT ![NodeOf[w]] = @ \union {w}]
    /\ Goto(w, "stop_test")
    /\ UNCHANGED <<scan, batch, thief, active, workVars, stop, master>>

(* prepare_wait                                                            *)
PrepareWait(w) ==
    /\ pc[w] = "prepare"
    /\ waiters' = [waiters EXCEPT ![NodeOf[w]] = @ + 1]
    /\ current' = [current EXCEPT ![NodeOf[w]] = @ \union {w}]
    /\ Goto(w, "recheck")
    /\ UNCHANGED <<scan, batch, thief, active, workVars, stop, master>>

(* wait(key): blocks if the key is the epoch                               *)
Wait(w) ==
    /\ pc[w] = "wait"
    /\ Goto(w, IF w \in current[NodeOf[w]] THEN "blocked" ELSE "unblocked")
    /\ UNCHANGED <<scan, batch, thief, active, ecVars, workVars, stop, master>>

(* Unblocking that was not asked for, once the epoch has changed.          *)
SpuriousUnblock(w) ==
    /\ pc[w] = "blocked"
    /\ w \notin current[NodeOf[w]]
    /\ Goto(w, "unblocked")
    /\ UNCHANGED <<scan, batch, thief, active, ecVars, workVars, stop, master>>

WaitReturns(w) ==
    /\ pc[w] = "unblocked"
    /\ CancelWait(w)
    /\ Goto(w, "wake_up")
    /\ UNCHANGED <<scan, batch, thief, active, workVars, stop, master>>

-----------------------------------------------------------------------------
(* lazy_work                                                               *)
WorkerInit(w) ==
    /\ pc[w] = "init"
    /\ Goto(w, "latch_start")
    /\ UNCHANGED <<scan, batch, thief, active, ecVars, workVars, stop, master>>

(* latch_start.arrive_and_wait(): n workers and the master                 *)
AllArrived == master.at # "construct" /\ \A v \in Workers : pc[v] # "init"

WorkerStart(w) ==
    /\ pc[w] = "latch_start"
    /\ AllArrived
    /\ Goto(w, "wake_up")
    /\ UNCHANGED <<scan, batch, thief, active, ecVars, workVars, stop, master>>

WakeUp(w) ==
    /\ pc[w] = "wake_up"
    /\ thief' = [thief EXCEPT ![NodeOf[w]] = @ + 1]
    /\ Goto(w, "poll")
    /\ UNCHANGED <<scan, batch, active, ecVars, workVars, stop, master>>

(* try_pop_all() of the own submissions                                    *)
PopAll(w) ==
    /\ batch' = [batch EXCEPT ![w] = submit[w]]
    /\ submit' = [submit EXCEPT ![w] = {}]

Poll(w) ==
    /\ pc[w] = "poll"
    /\ PopAll(w)
    /\ Goto(w, IF submit[w] # {} THEN "unthief" ELSE "steal")
    /\ UNCHANGED <<scan, thief, active, ecVars, tasks, resumed, made, stop, master>>

(* try_steal(): a bounded number of random attempts, so it may also miss   *)
StealSucceeds(w) ==
    /\ pc[w] = "steal"
    /\ \E v \in Workers \ {w} :
         /\ tasks[v] > 0
         /\ tasks' = [tasks EXCEPT ![v] = @ - 1]
    /\ Goto(w, "unthief")
    /\ UNCHANGED <<scan, batch, thief, active, ecVars, submit, resumed, made, stop, master>>

StealFails(w) ==
    /\ pc[w] = "steal"
    /\ Goto(w, "prepare")
    /\ UNCHANGED <<scan, batch, thief, active, ecVars, workVars, stop, master>>

(* The own submissions again, between prepare_wait() and wait()            *)
RecheckFinds(w) ==
    /\ pc[w] = "recheck"
    /\ submit[w] # {}
    /\ PopAll(w)
    /\ CancelWait(w)
    /\ Goto(w, "unthief")
    /\ UNCHANGED <<scan, thief, active, tasks, resumed, made, stop, master>>

RecheckEmpty(w) ==
    /\ pc[w] = "recheck"
    /\ submit[w] = {}
    /\ Goto(w, "stop_test")
    /\ UNCHANGED <<scan, batch, thief, active, ecVars, workVars, stop, master>>

(* stop.test(): cancel_wait(), notify_all(), then give up                  *)
StopSeen(w) ==
    LET n == NodeOf[w] IN
    /\ pc[w] = "stop_test"
    /\ stop
    /\ waiters' = [waiters EXCEPT ![n] = @ - 1]
    /\ current' = [current EXCEPT ![n] = {}]
    /\ pc' = [AfterNotifyAll(n) EXCEPT ![w] = "leave"]
    /\ UNCHANGED <<scan, batch, thief, active, workVars, stop, master>>

StopNotSeen(w) ==
    /\ pc[w] = "stop_test"
    /\ ~stop
    /\ Goto(w, "drop")
    /\ UNCHANGED <<scan, batch, thief, active, ecVars, workVars, stop, master>>

(* MUTANT of DropThief: the last thief sleeps without looking at active.   *)
BugLastThiefUnaware(w) ==
    /\ pc[w] = "drop"
    /\ thief' = [thief EXCEPT ![NodeOf[w]] = @ - 1]
    /\ Goto(w, "wait")
    /\ UNCHANGED <<scan, batch, active, ecVars, workVars, stop, master>>

(* thief.fetch_sub(1) == 1: the last thief looks at active                 *)
DropThief(w) ==
    /\ pc[w] = "drop"
    /\ thief' = [thief EXCEPT ![NodeOf[w]] = @ - 1]
    /\ Goto(w, IF thief[NodeOf[w]] = 1 THEN "last_thief" ELSE "wait")
    /\ UNCHANGED <<scan, batch, active, ecVars, workVars, stop, master>>

(* MUTANT of LastThiefStays: wakes up without cancel_wait().               *)
BugStaysRegistered(w) ==
    /\ pc[w] = "last_thief"
    /\ active > 0
    /\ Goto(w, "wake_up")
    /\ UNCHANGED <<scan, batch, thief, active, ecVars, workVars, stop, master>>

LastThiefStays(w) ==
    /\ pc[w] = "last_thief"
    /\ active > 0
    /\ CancelWait(w)
    /\ Goto(w, "wake_up")
    /\ UNCHANGED <<scan, batch, thief, active, workVars, stop, master>>

LastThiefSleeps(w) ==
    /\ pc[w] = "last_thief"
    /\ active = 0
    /\ Goto(w, "wait")
    /\ UNCHANGED <<scan, batch, thief, active, ecVars, workVars, stop, master>>

(* return, and the deferred shutdown: stop, latch_stop, finalize_worker    *)
Leave(w) ==
    /\ pc[w] = "leave"
    /\ thief' = [thief EXCEPT ![NodeOf[w]] = @ - 1]
    /\ stop' = TRUE
    /\ Goto(w, "latch_stop")
    /\ UNCHANGED <<scan, batch, active, ecVars, workVars, master>>

Finalize(w) ==
    /\ pc[w] = "latch_stop"
    /\ \A v \in Workers : pc[v] \in {"latch_stop", "gone"}
    /\ Goto(w, "gone")
    /\ UNCHANGED <<scan, batch, thief, active, ecVars, workVars, stop, master>>

-----------------------------------------------------------------------------
(* thief_work_sleep                                                        *)
Unthief(w) ==
    /\ pc[w] = "unthief"
    /\ thief' = [thief EXCEPT ![NodeOf[w]] = @ - 1]
    /\ Goto(w, IF thief[NodeOf[w]] = 1 THEN "replace" ELSE "activate")
    /\ UNCHANGED <<scan, batch, active, ecVars, workVars, stop, master>>

Replace(w) ==
    /\ pc[w] = "replace"
    /\ NotifyOne(NodeOf[w], w, "activate")
    /\ UNCHANGED <<scan, batch, thief, active, workVars, stop, master>>

(* active.fetch_add(1) == 0: the first active worker looks at every node   *)
Activate(w) ==
    /\ pc[w] = "activate"
    /\ active' = active + 1
    /\ Goto(w, IF active = 0 THEN "scan" ELSE "resume")
    /\ UNCHANGED <<scan, batch, thief, ecVars, workVars, stop, master>>

(* The next node of the loop, and where the loop leads.                    *)
AfterScan(w) == IF scan[w] = NumNodes THEN "resume" ELSE "scan"
NextNode(w) == scan' = [scan EXCEPT ![w] = IF @ = NumNodes THEN 1 ELSE @ + 1]

ScanNode(w) ==
    /\ pc[w] = "scan"
    /\ IF thief[scan[w]] = 0
       THEN Goto(w, "scan_notify") /\ UNCHANGED scan
       ELSE Goto(w, AfterScan(w)) /\ NextNode(w)
    /\ UNCHANGED <<batch, thief, active, ecVars, workVars, stop, master>>

ScanNotify(w) ==
    /\ pc[w] = "scan_notify"
    /\ NotifyOne(scan[w], w, AfterScan(w))
    /\ NextNode(w)
    /\ UNCHANGED <<batch, thief, active, workVars, stop, master>>

(* resume(handle): a stolen task, or the next of the submitted ones        *)
Resume(w) ==
    /\ pc[w] = "resume"
    /\ IF batch[w] = {}
       THEN UNCHANGED <<batch, resumed>>
       ELSE \E j \in batch[w] :
              /\ batch' = [batch EXCEPT ![w] = @ \ {j}]
              /\ resumed' = resumed \union {j}
    /\ Goto(w, "run")
    /\ UNCHANGED <<scan, thief, active, ecVars, submit, tasks, made, stop, master>>

(* The running task forks: its continuation can be stolen.                 *)
Spawn(w) ==
    /\ pc[w] = "run"
    /\ made.spawns + made.switches < MaxActs
    /\ tasks' = [tasks EXCEPT ![w] = @ + 1]
    /\ made' = [made EXCEPT !.spawns = @ + 1]
    /\ UNCHANGED <<pc, scan, batch, thief, active, ecVars, submit, resumed, stop, master>>

(* worker_context::schedule, first half: the push                          *)
PushJob(w) ==
    /\ submit' = [submit EXCEPT ![w] = @ \union {made.jobs + made.switches + 1}]
    /\ UNCHANGED <<tasks, resumed>>

(* The running task moves to a worker v, whose node is then notified.      *)
SwitchPush(w, v) ==
    /\ pc[w] = "run"
    /\ made.spawns + made.switches < MaxActs
    /\ PushJob(v)
    /\ made' = [made EXCEPT !.switches = @ + 1]
    /\ scan' = [scan EXCEPT ![w] = NodeOf[v]]
    /\ Goto(w, "switch_notify")
    /\ UNCHANGED <<batch, thief, active, ecVars, stop, master>>

SwitchNotify(w) ==
    /\ pc[w] = "switch_notify"
    /\ current' = [current EXCEPT ![scan[w]] = {}]
    /\ pc' = [AfterNotifyAll(scan[w]) EXCEPT ![w] = "run"]
    /\ scan' = [scan EXCEPT ![w] = 1]
    /\ UNCHANGED <<batch, thief, active, waiters, workVars, stop, master>>

(* The running task ends; the worker goes on with what is on its deque,    *)
(* with the next submitted task, or is done.                               *)
TaskEnds(w) ==
    /\ pc[w] = "run"
    /\ IF tasks[w] > 0
       THEN tasks' = [tasks EXCEPT ![w] = @ - 1] /\ UNCHANGED pc
       ELSE Goto(w, IF batch[w] = {} THEN "done" ELSE "resume") /\ UNCHANGED tasks
    /\ UNCHANGED <<scan, batch, thief, active, ecVars, submit, resumed, made, stop, master>>

Deactivate(w) ==
    /\ pc[w] = "done"
    /\ active' = active - 1
    /\ Goto(w, "wake_up")
    /\ UNCHANGED <<scan, batch, thief, ecVars, workVars, stop, master>>

-----------------------------------------------------------------------------
(* The owner of the pool: constructor, schedule(), destructor.             *)
Construct ==
    /\ master.at = "construct"
    /\ master' = [at |-> "latch_start", node |-> 1]
    /\ UNCHANGED <<pc, scan, batch, thief, active, ecVars, workVars, stop>>

Constructed ==
    /\ master.at = "latch_start"
    /\ AllArrived
    /\ master' = [master EXCEPT !.at = "open"]
    /\ UNCHANGED <<pc, scan, batch, thief, active, ecVars, workVars, stop>>

Schedule(w) ==
    /\ master.at = "open"
    /\ made.jobs < MaxJobs
    /\ PushJob(w)
    /\ made' = [made EXCEPT !.jobs = @ + 1]
    /\ master' = [at |-> "notify", node |-> NodeOf[w]]
    /\ UNCHANGED <<pc, scan, batch, thief, active, ecVars, stop>>

(* MUTANT of ScheduleNotify: notify_one(), which may wake another worker.  *)
BugScheduleNotifiesOne ==
    /\ master.at = "notify"
    /\ current' = [current EXCEPT ![master.node] = {}]
    /\ IF Blocked(master.node) = {}
       THEN UNCHANGED pc
       ELSE \E v \in Blocked(master.node) : Goto(v, "unblocked")
    /\ master' = [master EXCEPT !.at = "open"]
    /\ UNCHANGED <<scan, batch, thief, active, waiters, workVars, stop>>

ScheduleNotify ==
    /\ master.at = "notify"
    /\ current' = [current EXCEPT ![master.node] = {}]
    /\ pc' = AfterNotifyAll(master.node)
    /\ master' = [master EXCEPT !.at = "open"]
    /\ UNCHANGED <<scan, batch, thief, active, waiters, workVars, stop>>

(* ~lazy_pool: set stop, notify every node, join the threads. It may come  *)
(* while work is queued or running, which then may be left behind.         *)
Destroy ==
    /\ master.at = "open"
    /\ stop' = TRUE
    /\ master' = [at |-> "destroy", node |-> 1]
    /\ UNCHANGED <<pc, scan, batch, thief, active, ecVars, workVars>>

(* MUTANT of DestroyNotify: only the first node is notified.               *)
BugNotifiesFirstNode ==
    /\ master.at = "destroy"
    /\ current' = [current EXCEPT ![master.node] = {}]
    /\ pc' = AfterNotifyAll(master.node)
    /\ master' = [master EXCEPT !.at = "join"]
    /\ UNCHANGED <<scan, batch, thief, active, waiters, workVars, stop>>

DestroyNotify ==
    /\ master.at = "destroy"
    /\ current' = [current EXCEPT ![master.node] = {}]
    /\ pc' = AfterNotifyAll(master.node)
    /\ master' = IF master.node = NumNodes THEN [master EXCEPT !.at = "join"]
                                           ELSE [master EXCEPT !.node = @ + 1]
    /\ UNCHANGED <<scan, batch, thief, active, waiters, workVars, stop>>

Join ==
    /\ master.at = "join"
    /\ \A w \in Workers : pc[w] = "gone"
    /\ master' = [master EXCEPT !.at = "destroyed"]
    /\ UNCHANGED <<pc, scan, batch, thief, active, ecVars, workVars, stop>>

-----------------------------------------------------------------------------
Init ==
    /\ pc = [w \in Workers |-> "init"]
    /\ scan = [w \in Workers |-> 1]
    /\ batch = [w \in Workers |-> {}]
    /\ thief = [n \in Nodes |-> 0]
    /\ active = 0
    /\ current = [n \in Nodes |-> {}]
    /\ waiters = [n \in Nodes |-> 0]
    /\ submit = [w \in Workers |-> {}]
    /\ tasks = [w \in Workers |-> 0]
    /\ stop = FALSE
    /\ master = [at |-> "construct", node |-> 1]
    /\ resumed = {}
    /\ made = [jobs |-> 0, switches |-> 0, spawns |-> 0]

(* The steps a worker thread takes by itself.                              *)
LazyWork(w) ==
    \/ WorkerInit(w) \/ WorkerStart(w) \/ WakeUp(w) \/ Poll(w)
    \/ StealSucceeds(w) \/ StealFails(w) \/ PrepareWait(w)
    \/ RecheckFinds(w) \/ RecheckEmpty(w) \/ StopSeen(w) \/ StopNotSeen(w)
    \/ DropThief(w) \/ LastThiefStays(w) \/ LastThiefSleeps(w)
    \/ Wait(w) \/ WaitReturns(w) \/ Leave(w) \/ Finalize(w)

ThiefWorkSleep(w) ==
    \/ Unthief(w) \/ Replace(w) \/ Activate(w) \/ ScanNode(w) \/ ScanNotify(w)
    \/ Resume(w) \/ SwitchNotify(w) \/ TaskEnds(w) \/ Deactivate(w)

(* What the tasks choose to do.                                            *)
Task(w) == Spawn(w) \/ \E v \in Workers : SwitchPush(w, v)

(* The owner's steps inside the pool's functions, and its own decisions.   *)
Owner == Construct \/ Constructed \/ ScheduleNotify \/ DestroyNotify \/ Join
User == Destroy \/ \E w \in Workers : Schedule(w)

Next ==
    \/ \E w \in Workers : LazyWork(w) \/ ThiefWorkSleep(w) \/ Task(w) \/ SpuriousUnblock(w)
    \/ Owner \/ User

Spec == Init /\ [][Next]_vars

(* The operating system runs every thread that is not blocked; tasks end.  *)
Fairness ==
    /\ \A w \in Workers : WF_vars(LazyWork(w) \/ ThiefWorkSleep(w))
    /\ WF_vars(Owner)

FairSpec == Spec /\ Fairness

-----------------------------------------------------------------------------
ThiefAt == {"poll", "steal", "prepare", "recheck", "stop_test", "drop", "unthief", "leave"}
ActiveAt == {"scan", "scan_notify", "resume", "run", "switch_notify", "done"}
WaiterAt == {"recheck", "stop_test", "drop", "last_thief", "wait", "blocked", "unblocked"}

(* Values of the counters and positions; the counters count what their     *)
(* names say, so the unsigned ones never wrap below zero.                  *)
TypeOK ==
    /\ pc \in [Workers -> {"init", "latch_start", "wake_up", "replace", "activate",
                           "latch_stop", "gone"} \union ThiefAt \union ActiveAt \union WaiterAt]
    /\ scan \in [Workers -> Nodes]
    /\ batch \in [Workers -> SUBSET Jobs]
    /\ \A n \in Nodes : thief[n] = Cardinality({w \in Team(n) : pc[w] \in ThiefAt})
    /\ active = Cardinality({w \in Workers : pc[w] \in ActiveAt})
    /\ \A n \in Nodes : current[n] \subseteq Team(n)
    /\ \A n \in Nodes : waiters[n] = Cardinality({w \in Team(n) : pc[w] \in WaiterAt})
    /\ submit \in [Workers -> SUBSET Jobs]
    /\ tasks \in [Workers -> 0..MaxActs]
    /\ stop \in BOOLEAN
    /\ master.at \in {"construct", "latch_start", "open", "notify", "destroy", "join",
                      "destroyed"}
    /\ resumed \subseteq Jobs

Asleep(w) == pc[w] = "blocked"

(* Somebody is about to become a thief of node n, or about to wake one.    *)
WakeUpPending(n) ==
    \/ \E w \in Team(n) :
         \/ pc[w] \in {"wake_up", "unblocked", "last_thief"}
         \/ pc[w] = "wait" /\ w \notin current[n]
         \/ pc[w] = "replace"
    \/ \E w \in Workers : pc[w] \in {"scan", "scan_notify"} /\ scan[w] <= n

(* "Invariant: if (A > 0) then (Ti >= 1 OR Si == 0) for all i", with what  *)
(* the comment leaves out: between two steps of the protocol the thief may *)
(* still be on its way.  No node with sleepers is left without one for     *)
(* good while there are active workers.                                    *)
ActiveImpliesThief ==
    \A n \in Nodes :
        (active > 0 /\ ~stop /\ \E w \in Team(n) : Asleep(w))
        => thief[n] >= 1 \/ WakeUpPending(n)

(* The event count pattern: a worker does not sleep on a submission, except *)
(* in the moment before the submitter's notification.                      *)
NoSleepOnSubmission ==
    \A w \in Workers :
        (Asleep(w) /\ submit[w] # {}) =>
            \/ master.at = "notify" /\ master.node = NodeOf[w]
            \/ \E v \in Workers : pc[v] = "switch_notify" /\ scan[v] = NodeOf[w]

(* A worker does not sleep through the end of the pool: once stop is set,  *)
(* the destructor still has to notify the node.                            *)
NoSleepAfterStop ==
    \A w \in Workers :
        Asleep(w) /\ stop => master.at = "destroy" /\ master.node <= NodeOf[w]

(* "Wait for everyone to have stopped before destroying the context (which *)
(* others could be observing)".                                            *)
ContextsOutliveThieves ==
    (\E v \in Workers : pc[v] = "gone") =>
        \A w \in Workers : pc[w] # "steal" /\ master.at \in {"destroy", "join", "destroyed"}

(* Nobody sleeps while there is something to wake up for, and nobody       *)
(* leaves before the others are done with him.                             *)
SleepAndShutdownAreSafe == NoSleepOnSubmission /\ NoSleepAfterStop /\ ContextsOutliveThieves

(* schedule() "promises to call resume()": in a pool that is not being     *)
(* destroyed, everything that was submitted is resumed.                    *)
EveryJobIsResumed ==
    <>[](stop \/ \A w \in Workers : submit[w] = {} /\ batch[w] = {})

(* The destructor returns.                                                 *)
DestructorReturns == stop ~> (master.at = "destroyed")
=============================================================================

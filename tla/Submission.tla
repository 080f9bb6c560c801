----------------------------- MODULE Submission -----------------------------
(***************************************************************************)
(* How work gets into a pool and its result out: schedule(), futures and   *)
(* detached tasks (core/sync_wait.hpp), the lock-free submission list      *)
(* (core/ext/list.hpp), and the pools whose workers spin: busy_pool and    *)
(* unit_pool, from the start latch to the destructor.                      *)
(*                                                                         *)
(* The list is modelled pointer by pointer. A job has two nodes: one in    *)
(* the shared state of its future, for schedule(), and one in its frame,   *)
(* for co_await resume_on(). Freed memory reads as Garbage. A job is       *)
(* divided into parts that can be stolen, of which the last to end reaches *)
(* the root task's final suspend; ForkJoin shows that forks and joins come *)
(* down to this.                                                           *)
(***************************************************************************)
EXTENDS Integers, Sequences, SequencesExt, FiniteSets

CONSTANTS
    Clients,    \* threads that call schedule()
    Workers,    \* threads of a busy_pool
    Solo,       \* the one worker of a unit_pool
    NumJobs,    \* bound: calls of schedule()
    MaxFork,    \* bound: parts split off, over all jobs
    MaxSwitch,  \* bound: calls of resume_on(), over all jobs
    Null, Garbage

ASSUME SubmissionAssumption ==
    /\ IsFiniteSet(Workers) /\ Solo \in Workers
    /\ {NumJobs, MaxFork, MaxSwitch} \subseteq Nat
    /\ Clients \intersect Workers = {} /\ "coroutine" \notin Clients

Jobs == 1..NumJobs
Nodes == Jobs \X {"root", "frame"}
Pushes == [node : Nodes, to : Workers, stale_head : Nodes \union {Null, Garbage}]

ASSUME NullAssumption ==
    /\ Null # Garbage /\ {Null, Garbage} \intersect Nodes = {}
    /\ Null \notin Jobs /\ Null \notin Pushes

VARIABLES
    kind,     \* "busy" or "unit"
    m_head,   \* per worker: head of the submission list of its context
    m_next,   \* per node
    pushing,  \* per thread: the push() it is in, [node, to, stale_head], or Null
    cpc,      \* what a client does next
    fut,      \* m_heap of a client's future: the job of the shared state, or Null
    shared,   \* per job: who has a pointer to the shared state
    status,   \* future_shared_state: status and sem, and
    sem,
    result,   \* whether a result or an exception has been stored
    wpc,      \* what a worker does next
    root,     \* for_each_elem: the node at hand and the cached next one
    next,
    job,      \* the job a worker runs, or Null
    parts,    \* per job: its parts that have not ended
    deque,    \* per worker: parts that can be stolen
    context,  \* per worker: "none", "live" or "dead"
    stop, draining,
    pool,     \* the thread that owns the pool
    made,     \* what the bounds count
    order     \* ghost: per worker, the nodes pushed and not resumed, oldest first

listVars == <<m_head, m_next, pushing, order>>
futureVars == <<cpc, fut, shared, status, sem, result>>
workerVars == <<wpc, root, next, job, parts, deque, context, draining>>
vars == <<kind, listVars, futureVars, workerVars, stop, pool, made>>

Team == IF kind = "busy" THEN Workers ELSE {Solo}
Goto(w, l) == wpc' = [wpc EXCEPT ![w] = l]

(* Dropping a pointer to the shared state; the last one frees it, and the  *)
(* node in it.                                                             *)
Freed(j, holder) == shared[j] \subseteq {holder}
Drop(j, holder) ==
    /\ shared' = [shared EXCEPT ![j] = @ \ {holder}]
    /\ m_next' = IF Freed(j, holder) THEN [m_next EXCEPT ![<<j, "root">>] = Garbage]
                                     ELSE m_next

Init ==
    /\ kind \in {"busy", "unit"}
    /\ m_head = [w \in Workers |-> Null]
    /\ m_next = [n \in Nodes |-> Null]
    /\ pushing = [t \in Clients \union Workers |-> Null]
    /\ cpc = [c \in Clients |-> "idle"] /\ fut = [c \in Clients |-> Null]
    /\ shared = [j \in Jobs |-> {}]
    /\ status = [j \in Jobs |-> "no_wait"] /\ sem = [j \in Jobs |-> 0]
    /\ result = [j \in Jobs |-> FALSE]
    /\ wpc = [w \in Workers |-> "init"]
    /\ root = [w \in Workers |-> Null] /\ next = [w \in Workers |-> Null]
    /\ job = [w \in Workers |-> Null]
    /\ parts = [j \in Jobs |-> 0]
    /\ deque = [w \in Workers |-> <<>>]
    /\ context = [w \in Workers |-> "none"]
    /\ stop = FALSE /\ draining = [w \in Workers |-> FALSE]
    /\ pool = "construct"
    /\ made = [jobs |-> 0, forks |-> 0, switches |-> 0]
    /\ order = [w \in Workers |-> <<>>]

-----------------------------------------------------------------------------
(* intrusive_list::push(): the head is read and the node linked to it; the *)
(* compare-exchange succeeds if the head is still the same, else the node  *)
(* is linked again. From the successful exchange on, the owner of the list *)
(* may resume the job and free the node.                                   *)
StartPush(t, n, w) == pushing' = [pushing EXCEPT ![t] = [node |-> n, to |-> w, stale_head |-> Garbage]]

Link(t) ==
    /\ pushing[t] # Null
    /\ m_head[pushing[t].to] # pushing[t].stale_head
    /\ pushing' = [pushing EXCEPT ![t].stale_head = m_head[pushing[t].to]]
    /\ m_next' = [m_next EXCEPT ![pushing[t].node] = m_head[pushing[t].to]]
    /\ UNCHANGED <<kind, m_head, order, futureVars, workerVars, stop, pool, made>>

(* MUTANT of Exchange: stores the head without comparing.                  *)
BugStoreHead(t) ==
    /\ pushing[t] # Null
    /\ pushing[t].stale_head # Garbage
    /\ m_head' = [m_head EXCEPT ![pushing[t].to] = pushing[t].node]
    /\ order' = [order EXCEPT ![pushing[t].to] = Append(@, pushing[t].node)]
    /\ pushing' = [pushing EXCEPT ![t] = Null]

Exchange(t) ==
    /\ pushing[t] # Null
    /\ m_head[pushing[t].to] = pushing[t].stale_head
    /\ m_head' = [m_head EXCEPT ![pushing[t].to] = pushing[t].node]
    /\ order' = [order EXCEPT ![pushing[t].to] = Append(@, pushing[t].node)]
    /\ pushing' = [pushing EXCEPT ![t] = Null]

(* The nodes from n on.                                                    *)
Chain(n) ==
    LET from[k \in 0..Cardinality(Nodes)] ==
            [m \in Nodes \union {Null, Garbage} |->
               IF k = 0 \/ m \notin Nodes THEN <<>> ELSE <<m>> \o from[k - 1][m_next[m]]]
    IN  from[Cardinality(Nodes)][n]

(* try_pop_all(): what the links are when the list that starts at n is     *)
(* reversed, and its new first node.                                       *)
Reversed(n) ==
    LET c == Chain(n)
    IN  [nodes |-> [m \in Nodes |->
                      IF \E i \in DOMAIN c : c[i] = m
                      THEN LET i == CHOOSE i \in DOMAIN c : c[i] = m
                           IN  IF i = 1 THEN Null ELSE c[i - 1]
                      ELSE m_next[m]],
         first |-> IF c = <<>> THEN Null ELSE c[Len(c)]]

-----------------------------------------------------------------------------
(* schedule(): the thread has neither stack nor context of a worker. It    *)
(* makes the shared state and the coroutine, which has a pointer to it as  *)
(* well, gives its stack up with the frame on it, and submits the node to  *)
(* some worker of the pool.                                                *)
Schedule(c) ==
    /\ cpc[c] = "idle" /\ pool = "open"
    /\ made.jobs < NumJobs
    /\ LET j == made.jobs + 1
       IN  /\ made' = [made EXCEPT !.jobs = j]
           /\ shared' = [shared EXCEPT ![j] = {c, "coroutine"}]
           /\ fut' = [fut EXCEPT ![c] = j]
           /\ parts' = [parts EXCEPT ![j] = 1]
           /\ \E w \in Team : StartPush(c, <<j, "root">>, w)
    /\ cpc' = [cpc EXCEPT ![c] = "push"]
    /\ UNCHANGED <<kind, m_head, m_next, order, status, sem, result,
                   wpc, root, next, job, deque, context, draining, stop, pool>>

ScheduleReturns(c) ==
    /\ cpc[c] = "push"
    /\ Exchange(c)
    /\ cpc' = [cpc EXCEPT ![c] = "future"]
    /\ UNCHANGED <<kind, m_next, fut, shared, status, sem, result, workerVars, stop, pool, made>>

(* sem.acquire(), unless somebody has waited already.                      *)
Acquire(j, st) ==
    /\ status[j] = "no_wait" => sem[j] = 1
    /\ sem' = [sem EXCEPT ![j] = IF status[j] = "no_wait" THEN @ - 1 ELSE @]
    /\ status' = [status EXCEPT ![j] = st]

Wait(c) ==
    /\ cpc[c] = "future" /\ fut[c] # Null /\ status[fut[c]] = "no_wait"
    /\ Acquire(fut[c], "ready")
    /\ UNCHANGED <<kind, listVars, cpc, fut, shared, result, workerVars, stop, pool, made>>

(* get(): a second one finds the result retrieved and throws.              *)
Get(c) ==
    /\ cpc[c] = "future" /\ fut[c] # Null /\ status[fut[c]] # "retrievd"
    /\ Acquire(fut[c], "retrievd")
    /\ UNCHANGED <<kind, listVars, cpc, fut, shared, result, workerVars, stop, pool, made>>

Detach(c) ==
    /\ cpc[c] = "future" /\ fut[c] # Null
    /\ Drop(fut[c], c)
    /\ fut' = [fut EXCEPT ![c] = Null]
    /\ UNCHANGED <<kind, m_head, pushing, order, cpc, status, sem, result, workerVars, stop, pool, made>>

(* MUTANT of DestroyFuture: blocks even if somebody has waited.            *)
BugAlwaysAcquires(c) ==
    /\ cpc[c] = "future"
    /\ IF fut[c] = Null
       THEN UNCHANGED <<m_next, shared, status, sem>>
       ELSE /\ sem[fut[c]] = 1
            /\ sem' = [sem EXCEPT ![fut[c]] = 0]
            /\ Drop(fut[c], c) /\ UNCHANGED status
    /\ fut' = [fut EXCEPT ![c] = Null]
    /\ cpc' = [cpc EXCEPT ![c] = "idle"]
    /\ UNCHANGED <<kind, m_head, pushing, order, result, workerVars, stop, pool, made>>

(* ~future(): blocks unless somebody has waited or the future is detached. *)
DestroyFuture(c) ==
    /\ cpc[c] = "future"
    /\ IF fut[c] = Null
       THEN UNCHANGED <<m_next, shared, status, sem>>
       ELSE Acquire(fut[c], status[fut[c]]) /\ Drop(fut[c], c)
    /\ fut' = [fut EXCEPT ![c] = Null]
    /\ cpc' = [cpc EXCEPT ![c] = "idle"]
    /\ UNCHANGED <<kind, m_head, pushing, order, result, workerVars, stop, pool, made>>

-----------------------------------------------------------------------------
(* busy_work() and unit_pool::work(): a context first; the pool's          *)
(* constructor waits for it, and in a busy_pool all wait for all.          *)
WorkerInit(w) ==
    /\ w \in Team /\ wpc[w] = "init"
    /\ context' = [context EXCEPT ![w] = "live"]
    /\ Goto(w, "start")
    /\ UNCHANGED <<kind, listVars, futureVars, root, next, job, parts, deque, draining, stop, pool, made>>

AllArrived == \A w \in Team : wpc[w] # "init"

LatchStart(w) ==
    /\ wpc[w] = "start"
    /\ kind = "busy" => AllArrived /\ pool # "construct"
    /\ Goto(w, "test")
    /\ UNCHANGED <<kind, listVars, futureVars, root, next, job, parts, deque, context, draining, stop, pool, made>>

TestStop(w) ==
    /\ wpc[w] = "test"
    /\ draining' = [draining EXCEPT ![w] = stop]
    /\ Goto(w, "pop")
    /\ UNCHANGED <<kind, listVars, futureVars, root, next, job, parts, deque, context, stop, pool, made>>

(* MUTANT of PopAll: stops when it sees the flag, without another look.    *)
BugNoDrain(w) ==
    /\ wpc[w] = "pop"
    /\ LET r == Reversed(m_head[w])
       IN  /\ m_next' = IF draining[w] THEN m_next ELSE r.nodes
           /\ root' = [root EXCEPT ![w] = IF draining[w] THEN Null ELSE r.first]
           /\ m_head' = [m_head EXCEPT ![w] = IF draining[w] THEN @ ELSE Null]
           /\ Goto(w, IF draining[w] THEN "stopped"
                      ELSE IF r.first # Null THEN "each"
                      ELSE IF kind = "busy" THEN "steal" ELSE "test")
    /\ UNCHANGED <<kind, pushing, order, futureVars, next, job, parts, deque, context, draining, stop, pool, made>>

(* try_pop_all(), in the loop or, once the stop flag was seen, until there *)
(* is nothing left.                                                        *)
PopAll(w) ==
    /\ wpc[w] = "pop"
    /\ LET r == Reversed(m_head[w])
       IN  /\ m_next' = r.nodes
           /\ root' = [root EXCEPT ![w] = r.first]
           /\ Goto(w, IF r.first # Null THEN "each"
                      ELSE IF draining[w] THEN "stopped"
                      ELSE IF kind = "busy" THEN "steal" ELSE "test")
    /\ m_head' = [m_head EXCEPT ![w] = Null]
    /\ UNCHANGED <<kind, pushing, order, futureVars, next, job, parts, deque, context, draining, stop, pool, made>>

(* try_steal() from one of the others; it may fail for any reason.         *)
StealFails(w) ==
    /\ wpc[w] = "steal"
    /\ Goto(w, "test")
    /\ UNCHANGED <<kind, listVars, futureVars, root, next, job, parts, deque, context, draining, stop, pool, made>>

Steal(w, v) ==
    /\ wpc[w] = "steal"
    /\ v # w /\ deque[v] # <<>>
    /\ job' = [job EXCEPT ![w] = Head(deque[v])]
    /\ deque' = [deque EXCEPT ![v] = Tail(@)]
    /\ Goto(w, "run")
    /\ UNCHANGED <<kind, listVars, futureVars, root, next, parts, context, draining, stop, pool, made>>

(* for_each_elem and resume(): the next pointer is read before the task is *)
(* resumed. A resumed frame leaves the awaitable that held its node.       *)
ForEach(w) ==
    /\ wpc[w] = "each"
    /\ next' = [next EXCEPT ![w] = m_next[root[w]]]
    /\ m_next' = IF root[w][2] = "frame" THEN [m_next EXCEPT ![root[w]] = Garbage] ELSE m_next
    /\ job' = [job EXCEPT ![w] = root[w][1]]
    /\ order' = [order EXCEPT ![w] = Tail(@)]
    /\ Goto(w, "run")
    /\ UNCHANGED <<kind, m_head, pushing, futureVars, root, parts, deque, context, draining, stop, pool, made>>

(* resume() returns.                                                       *)
ResumeReturns(w) ==
    /\ wpc[w] = "return"
    /\ root' = [root EXCEPT ![w] = next[w]] /\ next' = [next EXCEPT ![w] = Null]
    /\ Goto(w, IF next[w] # Null THEN "each" ELSE IF draining[w] THEN "pop" ELSE "test")
    /\ UNCHANGED <<kind, listVars, futureVars, job, parts, deque, context, draining, stop, pool, made>>

-----------------------------------------------------------------------------
(* A running job splits, moves to another worker, or ends.                 *)
Fork(w) ==
    /\ wpc[w] = "run" /\ made.forks < MaxFork
    /\ made' = [made EXCEPT !.forks = @ + 1]
    /\ deque' = [deque EXCEPT ![w] = Append(@, job[w])]
    /\ parts' = [parts EXCEPT ![job[w]] = @ + 1]
    /\ UNCHANGED <<kind, listVars, futureVars, wpc, root, next, job, context, draining, stop, pool>>

(* co_await resume_on(): "cannot touch underlying after this".             *)
ResumeOn(w, v) ==
    /\ wpc[w] = "run" /\ ~stop
    /\ v \in Team \ {w}
    /\ made.switches < MaxSwitch
    /\ parts[job[w]] = 1 /\ m_next[<<job[w], "frame">>] = Null
    /\ made' = [made EXCEPT !.switches = @ + 1]
    /\ StartPush(w, <<job[w], "frame">>, v)
    /\ job' = [job EXCEPT ![w] = Null]
    /\ Goto(w, "switch")
    /\ UNCHANGED <<kind, m_head, m_next, order, futureVars, root, next, parts, deque, context, draining, stop, pool>>

ResumeOnReturns(w) ==
    /\ wpc[w] = "switch"
    /\ Exchange(w)
    /\ Goto(w, "return")
    /\ UNCHANGED <<kind, m_next, futureVars, root, next, job, parts, deque, context, draining, stop, pool, made>>

(* A part ends: its worker goes on with the part on its deque, or with the *)
(* end of the root task, or leaves that to whoever stole.                  *)
PartEnds(w) ==
    /\ wpc[w] = "run"
    /\ \/ deque[w] # <<>> \/ parts[job[w]] > 1
    /\ parts' = [parts EXCEPT ![job[w]] = @ - 1]
    /\ IF deque[w] # <<>>
       THEN /\ deque' = [deque EXCEPT ![w] = Front(@)]
            /\ UNCHANGED <<wpc, job>>
       ELSE /\ job' = [job EXCEPT ![w] = Null]
            /\ Goto(w, "return")
            /\ UNCHANGED deque
    /\ UNCHANGED <<kind, listVars, futureVars, root, next, context, draining, stop, pool, made>>

(* MUTANT of RootReturns: signals before the result is stored.             *)
BugSignalFirst(w) ==
    /\ wpc[w] = "run" /\ deque[w] = <<>> /\ parts[job[w]] = 1
    /\ parts' = [parts EXCEPT ![job[w]] = 0]
    /\ sem' = [sem EXCEPT ![job[w]] = 1]
    /\ Goto(w, "signal")
    /\ UNCHANGED <<kind, listVars, cpc, fut, shared, status, result, root, next, job, deque,
                   context, draining, stop, pool, made>>

(* return_value() or unhandled_exception() of the root task.               *)
RootReturns(w) ==
    /\ wpc[w] = "run" /\ deque[w] = <<>> /\ parts[job[w]] = 1
    /\ parts' = [parts EXCEPT ![job[w]] = 0]
    /\ result' = [result EXCEPT ![job[w]] = TRUE]
    /\ Goto(w, "signal")
    /\ UNCHANGED <<kind, listVars, cpc, fut, shared, status, sem, root, next, job, deque,
                   context, draining, stop, pool, made>>

(* The root task's final suspend: release the semaphore, then destroy the  *)
(* coroutine with its pointer to the shared state.                         *)
Signal(w) ==
    /\ wpc[w] = "signal"
    /\ sem' = [sem EXCEPT ![job[w]] = @ + 1]
    /\ Goto(w, "destroy")
    /\ UNCHANGED <<kind, listVars, cpc, fut, shared, status, result, root, next, job, parts, deque,
                   context, draining, stop, pool, made>>

DestroyCoroutine(w) ==
    /\ wpc[w] = "destroy"
    /\ Drop(job[w], "coroutine")
    /\ job' = [job EXCEPT ![w] = Null]
    /\ Goto(w, "return")
    /\ UNCHANGED <<kind, m_head, pushing, order, cpc, fut, status, sem, result, root, next, parts, deque,
                   context, draining, stop, pool, made>>

-----------------------------------------------------------------------------
(* The end of a worker: in a busy_pool it sets the flag, as does ~busy_pool, *)
(* and nobody destroys a context before all have stopped.                  *)
StopWorker(w) ==
    /\ wpc[w] = "stopped"
    /\ stop' = TRUE
    /\ Goto(w, "latch_stop")
    /\ UNCHANGED <<kind, listVars, futureVars, root, next, job, parts, deque, context, draining, pool, made>>

(* MUTANT of Finalize: does not wait at the latch.                         *)
BugNoLatchStop(w) ==
    /\ wpc[w] = "latch_stop"
    /\ context' = [context EXCEPT ![w] = "dead"]
    /\ Goto(w, "gone")
    /\ UNCHANGED <<kind, listVars, futureVars, root, next, job, parts, deque, draining, stop, pool, made>>

(* MUTANT of Finalize: the latch counts the master, as latch_start does.   *)
BugLatchCountsMaster(w) ==
    /\ wpc[w] = "latch_stop"
    /\ kind = "busy" => pool = "destroyed"
    /\ context' = [context EXCEPT ![w] = "dead"]
    /\ Goto(w, "gone")
    /\ UNCHANGED <<kind, listVars, futureVars, root, next, job, parts, deque, draining, stop, pool, made>>

Finalize(w) ==
    /\ wpc[w] = "latch_stop"
    /\ kind = "busy" => \A v \in Team : wpc[v] \in {"latch_stop", "gone"}
    /\ context' = [context EXCEPT ![w] = "dead"]
    /\ Goto(w, "gone")
    /\ UNCHANGED <<kind, listVars, futureVars, root, next, job, parts, deque, draining, stop, pool, made>>

(* The constructor has created its threads and waits until every context   *)
(* can be used; the start latch counts it too.                             *)
Construct ==
    /\ pool = "construct"
    /\ pool' = "latch_start"
    /\ UNCHANGED <<kind, listVars, futureVars, workerVars, stop, made>>

Constructed ==
    /\ pool = "latch_start" /\ AllArrived
    /\ pool' = "open"
    /\ UNCHANGED <<kind, listVars, futureVars, workerVars, stop, made>>

(* The pool is destroyed when nobody will submit to it any more: "must not *)
(* be destructed until all submitted tasks have reached a point where they *)
(* will submit no-more work". Its tasks, detached ones too, need not have  *)
(* ended.                                                                  *)
DestroyPool ==
    /\ pool = "open"
    /\ \A t \in Clients \union Workers : pushing[t] = Null
    /\ stop' = TRUE
    /\ pool' = "join"
    /\ UNCHANGED <<kind, listVars, futureVars, workerVars, made>>

PoolDestroyed ==
    /\ pool = "join"
    /\ \A w \in Team : wpc[w] = "gone"
    /\ pool' = "destroyed"
    /\ UNCHANGED <<kind, listVars, futureVars, workerVars, stop, made>>

-----------------------------------------------------------------------------
Client(c) ==
    Link(c) \/ ScheduleReturns(c) \/ Wait(c) \/ Get(c) \/ DestroyFuture(c)

WorkLoop(w) ==
    \/ WorkerInit(w) \/ LatchStart(w) \/ TestStop(w) \/ PopAll(w)
    \/ StealFails(w) \/ \E v \in Workers : Steal(w, v)
    \/ ForEach(w) \/ ResumeReturns(w)
    \/ StopWorker(w) \/ Finalize(w)

Task(w) ==
    \/ Link(w) \/ ResumeOnReturns(w)
    \/ PartEnds(w) \/ RootReturns(w) \/ Signal(w) \/ DestroyCoroutine(w)

Owner == Construct \/ Constructed \/ PoolDestroyed

Next ==
    \/ \E c \in Clients : Schedule(c) \/ Client(c) \/ Detach(c)
    \/ \E w \in Workers : WorkLoop(w) \/ Task(w) \/ Fork(w) \/ \E v \in Workers : ResumeOn(w, v)
    \/ Owner \/ DestroyPool

Spec == Init /\ [][Next]_vars

(* Every thread runs, tasks end, and a client comes to destroy its future; *)
(* nobody has to schedule, detach, fork, switch or destroy the pool.       *)
Fairness ==
    /\ \A c \in Clients : WF_vars(Client(c))
    /\ \A w \in Workers : WF_vars(WorkLoop(w) \/ Task(w))
    /\ WF_vars(Owner)

FairSpec == Spec /\ Fairness

-----------------------------------------------------------------------------
(* A node exists as long as the shared state or the suspended frame it is  *)
(* part of.                                                                *)
Alive(n) == IF n[2] = "root" THEN shared[n[1]] # {} ELSE m_next[n] # Garbage

(* The list and what a worker has taken from it are, through all the       *)
(* pointers, the queue of the nodes that were pushed: none lost, none      *)
(* doubled, and for_each_elem resumes them first in, first out. The        *)
(* pointers lead to nodes that exist, also from a node whose job has been  *)
(* resumed and has freed it meanwhile.                                     *)
SubmissionsAreFifo ==
    \A w \in Workers :
        LET taken == Chain(IF wpc[w] = "each" THEN root[w] ELSE next[w])
        IN  /\ taken \o Reverse(Chain(m_head[w])) = order[w]
            /\ \A i \in DOMAIN order[w] : Alive(order[w][i])
            /\ {m_head[w], next[w]} \subseteq Nodes \union {Null}
            /\ wpc[w] = "each" => root[w] \in Nodes

(* The worker that ends a root task touches the semaphore in the shared    *)
(* state only while that exists, although the woken thread may drop its    *)
(* future at once or have detached it long ago; and at most one permit is  *)
(* ever in the binary semaphore.                                           *)
SharedStateOutlivesSignal ==
    /\ \A w \in Workers : wpc[w] \in {"signal", "destroy"} => shared[job[w]] # {}
    /\ \A j \in Jobs : sem[j] \in 0..1

(* Whoever got past the semaphore finds the result or the exception there, *)
(* and nobody is signalled while a part of the job still runs.             *)
ResultIsThere ==
    \A j \in Jobs :
        status[j] # "no_wait" \/ sem[j] = 1 =>
            /\ result[j] /\ parts[j] = 0
            /\ \A w \in Workers : job[w] = j => wpc[w] = "destroy"

(* What a future promises.                                                 *)
FutureIsSafe == SharedStateOutlivesSignal /\ ResultIsThere

(* "Wait for everyone to have stopped before destroying the context (which *)
(* others could be observing)": who pushes to a context or steals from it  *)
(* finds it alive.                                                         *)
ContextsAreLive ==
    /\ \A t \in Clients \union Workers : pushing[t] # Null => context[pushing[t].to] = "live"
    /\ \A w \in Workers : wpc[w] \in {"steal", "pop"} => \A v \in Team : context[v] = "live"

(* When the destructor returns, everything that was submitted has ended,   *)
(* detached tasks too, though the flag was set while they were queued.     *)
NothingLeftBehind ==
    pool = "destroyed" =>
        \A j \in 1..made.jobs : parts[j] = 0 /\ "coroutine" \notin shared[j]

(* No future blocks for ever, in get(), wait() or its destructor.          *)
FuturesComplete == \A c \in Clients : (cpc[c] = "push") ~> (cpc[c] = "idle")

(* The destructor of the pool returns.                                     *)
DestructorReturns == stop ~> (pool = "destroyed")
=============================================================================

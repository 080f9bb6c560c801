------------------------- MODULE SubmissionProofs --------------------------
(***************************************************************************)
(* What holds of submissions for any number of clients, workers and jobs.  *)
(*                                                                         *)
(* The contexts of a busy_pool or a unit_pool: from the latch that all     *)
(* workers pass before the pool can be used to the latch that all pass     *)
(* before the first context goes, nobody pushes to or steals from a        *)
(* context that is not there.                                              *)
(*                                                                         *)
(* The submission list is a queue through all its pointers; a future is    *)
(* signalled once, when its result is there and its shared state still is; *)
(* and the destructor leaves no job behind. The three have one inductive   *)
(* invariant: the shape of every list (ListInv), and an account for every  *)
(* job (JobOK) of the parts at workers, the node at which it waits, who    *)
(* ends it and who still has its shared state.                             *)
(***************************************************************************)
EXTENDS Submission, Lemmas, TLAPS

Threads == Clients \union Workers

(* Where a worker can be between the two latches, and where it has left    *)
(* its loop.                                                               *)
Running == {"test", "pop", "steal", "each", "run", "return", "switch", "signal", "destroy"}
Leaving == {"stopped", "latch_stop", "gone"}

LifeTypes ==
    /\ kind \in {"busy", "unit"}
    /\ wpc \in [Workers -> {"init", "start"} \union Running \union Leaving]
    /\ context \in [Workers -> {"none", "live", "dead"}]
    /\ pool \in {"construct", "latch_start", "open", "join", "destroyed"}

DrainTypes == DOMAIN draining = Workers

PushTypes ==
    /\ DOMAIN pushing = Threads
    /\ \A t \in Threads :
         pushing[t] # Null =>
             /\ DOMAIN pushing[t] = {"node", "to", "stale_head"}
             /\ pushing[t].to \in Team

(* What the position of the workers says of the contexts and the latches.  *)
Latches ==
    /\ \A w \in Workers : wpc[w] = "init" <=> context[w] = "none"
    /\ \A w \in Workers : wpc[w] = "gone" <=> context[w] = "dead"
    /\ \A w \in Workers : w \notin Team => wpc[w] = "init"
    /\ pool \in {"open", "join", "destroyed"} => AllArrived
    /\ \A w \in Workers : wpc[w] \notin {"init", "start"} => AllArrived
    /\ \A w \in Workers : wpc[w] = "gone" =>
         \A v \in Team : wpc[v] \in {"latch_stop", "gone"}

(* Only the destructor sets the flag first, when nobody pushes any more,   *)
(* and workers leave their loop only because of the flag.                  *)
StopOrder ==
    /\ stop => pool \in {"join", "destroyed"}
    /\ \A w \in Workers : draining[w] => stop
    /\ \A w \in Workers : wpc[w] \in Leaving => stop
    /\ \A t \in Threads : pushing[t] # Null => ~stop /\ AllArrived

LifeInv == LifeTypes /\ DrainTypes /\ PushTypes /\ Latches /\ StopOrder

-----------------------------------------------------------------------------
(* The invariant is what the property needs.                               *)
LEMMA LifeImpliesLive == LifeInv => ContextsAreLive
<1> SUFFICES ASSUME LifeInv PROVE ContextsAreLive
  OBVIOUS
<1>s. Team \subseteq Workers
  BY SubmissionAssumption DEF Team
<1>g. \A v \in Team : wpc[v] \notin {"init", "gone"} => context[v] = "live"
  BY <1>s DEF LifeInv, LifeTypes, Latches
<1>1. ASSUME NEW t \in Threads, pushing[t] # Null PROVE context[pushing[t].to] = "live"
  <2>1. pushing[t].to \in Team
    BY <1>1 DEF LifeInv, PushTypes
  <2>2. wpc[pushing[t].to] # "init"
    BY <1>1, <2>1 DEF LifeInv, StopOrder, AllArrived
  <2>3. wpc[pushing[t].to] # "gone"
    BY <1>1, <1>s, <2>1 DEF LifeInv, StopOrder, Leaving
  <2> QED BY <1>g, <2>1, <2>2, <2>3
<1>2. ASSUME NEW w \in Workers, wpc[w] \in {"steal", "pop"}, NEW v \in Team
      PROVE  context[v] = "live"
  <2>1. wpc[v] # "init"
    BY <1>2 DEF LifeInv, Latches, AllArrived
  <2>2. w \in Team
    BY <1>2 DEF LifeInv, Latches
  <2>3. wpc[v] # "gone"
    BY <1>2, <1>s, <2>2 DEF LifeInv, Latches
  <2> QED BY <1>g, <2>1, <2>3
<1> QED BY <1>1, <1>2 DEF ContextsAreLive, Threads

(* It holds before any worker has a context.                               *)
LEMMA LifeInit == Init => LifeInv
<1> SUFFICES ASSUME Init PROVE LifeInv
  OBVIOUS
<1>1. LifeTypes /\ DrainTypes
  BY DEF Init, LifeTypes, DrainTypes
<1>2. PushTypes
  BY DEF Init, PushTypes, Threads
<1>3. Latches
  BY DEF Init, Latches
<1>4. StopOrder
  <2>1. \A w \in Workers : ~draining[w]
    BY Zenon DEF Init
  <2>2. ~stop /\ \A w \in Workers : wpc[w] = "init"
    BY DEF Init
  <2>3. \A t \in Threads : pushing[t] = Null
    BY DEF Init, Threads
  <2> QED BY <2>1, <2>2, <2>3 DEF StopOrder, Leaving
<1> QED BY <1>1, <1>2, <1>3, <1>4 DEF LifeInv

-----------------------------------------------------------------------------
(* The steps a worker takes between the two latches, by what they do to    *)
(* its position: they leave the contexts, the pool and the flag alone, and *)
(* lead out of the loop only if the worker has seen the flag.              *)
Loop(w) ==
    \/ PopAll(w) \/ StealFails(w) \/ (\E v \in Workers : Steal(w, v))
    \/ ForEach(w) \/ ResumeReturns(w)
    \/ ResumeOnReturns(w) \/ PartEnds(w) \/ RootReturns(w)
    \/ Signal(w) \/ DestroyCoroutine(w) \/ Fork(w)
    \/ \E v \in Workers : ResumeOn(w, v)

LoopFlow(w) ==
    /\ UNCHANGED <<kind, context, stop, pool, draining>>
    /\ wpc[w] \in Running
    /\ \E l \in Running \union {"stopped"} :
         wpc' = [wpc EXCEPT ![w] = l] /\ (l = "stopped" => draining[w])

(* What a step of the work loop may change.                                *)
LEMMA LoopMoves ==
    ASSUME NEW w \in Workers, LifeTypes, Loop(w)
    PROVE  LoopFlow(w)
<1> DEFINE To(l) == wpc' = [wpc EXCEPT ![w] = l]
<1>u. UNCHANGED <<kind, context, stop, pool, draining>>
  <2>1. CASE PopAll(w) \/ StealFails(w) \/ (\E v \in Workers : Steal(w, v))
    BY <2>1, Zenon DEF PopAll, StealFails, Steal
  <2>2. CASE ForEach(w) \/ ResumeReturns(w) \/ ResumeOnReturns(w) \/ PartEnds(w)
    BY <2>2, Zenon DEF ForEach, ResumeReturns, ResumeOnReturns, PartEnds
  <2>3. CASE \/ RootReturns(w) \/ Signal(w) \/ DestroyCoroutine(w) \/ Fork(w)
             \/ \E v \in Workers : ResumeOn(w, v)
    BY <2>3, Zenon DEF RootReturns, Signal, DestroyCoroutine, Fork, ResumeOn
  <2> QED BY <2>1, <2>2, <2>3 DEF Loop
<1>f. wpc[w] \in Running
  <2>1. CASE PopAll(w) \/ StealFails(w) \/ (\E v \in Workers : Steal(w, v))
    BY <2>1 DEF PopAll, StealFails, Steal, Running
  <2>2. CASE ForEach(w) \/ ResumeReturns(w) \/ ResumeOnReturns(w) \/ PartEnds(w)
    BY <2>2 DEF ForEach, ResumeReturns, ResumeOnReturns, PartEnds, Running
  <2>3. CASE \/ RootReturns(w) \/ Signal(w) \/ DestroyCoroutine(w) \/ Fork(w)
             \/ \E v \in Workers : ResumeOn(w, v)
    BY <2>3 DEF RootReturns, Signal, DestroyCoroutine, Fork, ResumeOn, Running
  <2> QED BY <2>1, <2>2, <2>3 DEF Loop
<1>1. CASE PopAll(w)
  <2>1. \/ To("each") \/ (To("stopped") /\ draining[w])
        \/ To("steal") \/ To("test")
    BY <1>1 DEF PopAll, Goto
  <2> QED BY <1>u, <1>f, <2>1 DEF LoopFlow, Running
<1>2. CASE StealFails(w) \/ (\E v \in Workers : Steal(w, v)) \/ ForEach(w)
  <2>1. To("test") \/ To("run")
    BY <1>2 DEF StealFails, Steal, ForEach, Goto
  <2> QED BY <1>u, <1>f, <2>1 DEF LoopFlow, Running
<1>3. CASE ResumeReturns(w)
  <2>1. To("each") \/ To("pop") \/ To("test")
    BY <1>3 DEF ResumeReturns, Goto
  <2> QED BY <1>u, <1>f, <2>1 DEF LoopFlow, Running
<1>4. CASE ResumeOnReturns(w) \/ DestroyCoroutine(w) \/ \E v \in Workers : ResumeOn(w, v)
  <2>1. To("return") \/ To("switch")
    BY <1>4 DEF ResumeOnReturns, DestroyCoroutine, ResumeOn, Goto
  <2> QED BY <1>u, <1>f, <2>1 DEF LoopFlow, Running
<1>5. CASE RootReturns(w) \/ Signal(w)
  <2>1. To("signal") \/ To("destroy")
    BY <1>5 DEF RootReturns, Signal, Goto
  <2> QED BY <1>u, <1>f, <2>1 DEF LoopFlow, Running
<1>6. CASE PartEnds(w) \/ Fork(w)
  <2>1. To("return") \/ wpc' = wpc
    BY <1>6 DEF PartEnds, Fork, Goto
  <2>2. wpc = [wpc EXCEPT ![w] = wpc[w]]
    BY DEF LifeTypes
  <2> QED BY <1>u, <1>f, <2>1, <2>2 DEF LoopFlow, Running
<1> QED BY <1>1, <1>2, <1>3, <1>4, <1>5, <1>6 DEF Loop

(* The steps a client takes, and a push on either side: no worker moves.   *)
Quiet == UNCHANGED <<kind, wpc, context, stop, pool, draining>>

(* The clients' steps leave the workers and the pool alone.                *)
LEMMA ClientsAreQuiet ==
    ASSUME NEW t \in Threads,
           \/ Link(t) \/ Schedule(t) \/ ScheduleReturns(t)
           \/ Wait(t) \/ Get(t) \/ Detach(t) \/ DestroyFuture(t)
    PROVE  Quiet
BY Zenon DEF Quiet, Link, Schedule, ScheduleReturns, Wait, Get, Detach, DestroyFuture, workerVars

(* The two ends of the life of a worker.                                   *)
Ends(w) == WorkerInit(w) \/ LatchStart(w) \/ TestStop(w) \/ StopWorker(w) \/ Finalize(w)

(* A worker that starts or ends pushes nothing, nor does the owner.        *)
LEMMA EndsDoNotPush ==
    ASSUME NEW w \in Workers, Ends(w) \/ Owner \/ DestroyPool
    PROVE  UNCHANGED <<kind, pushing>>
<1>1. CASE Ends(w)
  BY <1>1, Zenon DEF Ends, WorkerInit, LatchStart, TestStop, StopWorker, Finalize, listVars
<1>2. CASE Owner \/ DestroyPool
  BY <1>2, Zenon DEF Owner, DestroyPool, Construct, Constructed, PoolDestroyed, listVars
<1> QED BY <1>1, <1>2

(* What a step does to one thread's push. One starts only while the pool   *)
(* is open, or in a task that runs.                                        *)
IsPush(r) == DOMAIN r = {"node", "to", "stale_head"} /\ r.to \in Team

PushFlow(t) ==
    \/ pushing' = pushing
    \/ pushing' = [pushing EXCEPT ![t] = Null]
    \/ /\ pushing[t] # Null
       /\ pushing' = [pushing EXCEPT ![t].stale_head = m_head[pushing[t].to]]
    \/ /\ ~stop /\ AllArrived
       /\ \E r : IsPush(r) /\ pushing' = [pushing EXCEPT ![t] = r]

(* A push that starts is addressed to a worker of the team.                *)
LEMMA PushStarts ==
    ASSUME NEW t, NEW n, NEW v \in Team, StartPush(t, n, v)
    PROVE  \E r : IsPush(r) /\ pushing' = [pushing EXCEPT ![t] = r]
<1> DEFINE r == [node |-> n, to |-> v, stale_head |-> Garbage]
<1>1. IsPush(r)
  BY DEF IsPush
<1>2. pushing' = [pushing EXCEPT ![t] = r]
  BY DEF StartPush
<1> QED BY <1>1, <1>2

(* What a client does to the push it is in.                                *)
LEMMA ClientPushes ==
    ASSUME LifeInv, NEW t \in Threads,
           \/ Link(t) \/ Schedule(t) \/ ScheduleReturns(t)
           \/ Wait(t) \/ Get(t) \/ Detach(t) \/ DestroyFuture(t)
    PROVE  PushFlow(t)
<1>1. CASE Link(t)
  BY <1>1, Zenon DEF Link, PushFlow
<1>2. CASE Schedule(t)
  <2>1. ~stop /\ AllArrived
    BY <1>2 DEF Schedule, LifeInv, StopOrder, Latches
  <2>2. PICK v \in Team : StartPush(t, <<made.jobs + 1, "root">>, v)
    BY <1>2, Zenon DEF Schedule
  <2> QED BY <2>1, <2>2, PushStarts DEF PushFlow
<1>3. CASE ScheduleReturns(t)
  BY <1>3, Zenon DEF ScheduleReturns, Exchange, PushFlow
<1>4. CASE Wait(t) \/ Get(t) \/ Detach(t) \/ DestroyFuture(t)
  BY <1>4, Zenon DEF Wait, Get, Detach, DestroyFuture, listVars, PushFlow
<1> QED BY <1>1, <1>2, <1>3, <1>4

(* What a worker in the loop does to the push it is in.                    *)
LEMMA LoopPushes ==
    ASSUME LifeInv, NEW w \in Workers, Loop(w)
    PROVE  PushFlow(w)
<1>1. CASE ResumeOnReturns(w)
  BY <1>1, Zenon DEF ResumeOnReturns, Exchange, PushFlow
<1>2. ASSUME NEW v \in Workers, ResumeOn(w, v) PROVE PushFlow(w)
  <2>1. ~stop /\ v \in Team /\ wpc[w] = "run"
    BY <1>2, Zenon DEF ResumeOn
  <2>2. AllArrived
    BY <2>1 DEF LifeInv, Latches
  <2>3. StartPush(w, <<job[w], "frame">>, v)
    BY <1>2, Zenon DEF ResumeOn
  <2> QED BY <2>1, <2>2, <2>3, PushStarts DEF PushFlow
<1>3. CASE \/ PopAll(w) \/ StealFails(w) \/ (\E v \in Workers : Steal(w, v))
           \/ ForEach(w) \/ ResumeReturns(w)
  BY <1>3, Zenon DEF PopAll, StealFails, Steal, ForEach, ResumeReturns, listVars, PushFlow
<1>4. CASE PartEnds(w) \/ RootReturns(w) \/ Signal(w) \/ DestroyCoroutine(w) \/ Fork(w)
  BY <1>4, Zenon DEF PartEnds, RootReturns, Signal, DestroyCoroutine, Fork, listVars, PushFlow
<1> QED BY <1>1, <1>2, <1>3, <1>4 DEF Loop

(* Pushes stay well formed, and none is under way where none was.          *)
LEMMA PushStep ==
    ASSUME LifeInv, NEW t \in Threads, PushFlow(t), kind' = kind
    PROVE  /\ PushTypes'
           /\ \A u \in Threads : pushing'[u] # Null => pushing[u] # Null \/ (~stop /\ AllArrived)
<1>t. Team' = Team
  BY DEF Team
<1>p. PushTypes
  BY DEF LifeInv
<1>1. CASE pushing' = pushing
  BY <1>1, <1>t, <1>p DEF PushTypes
<1>2. CASE pushing' = [pushing EXCEPT ![t] = Null]
  BY <1>2, <1>t, <1>p DEF PushTypes
<1>3. CASE /\ pushing[t] # Null
           /\ pushing' = [pushing EXCEPT ![t].stale_head = m_head[pushing[t].to]]
  <2>1. pushing'[t] = [pushing[t] EXCEPT !.stale_head = m_head[pushing[t].to]]
    BY <1>3, <1>p DEF PushTypes
  <2>2. DOMAIN pushing'[t] = {"node", "to", "stale_head"} /\ pushing'[t].to = pushing[t].to
    BY <1>3, <2>1, <1>p DEF PushTypes
  <2>3. \A u \in Threads : u # t => pushing'[u] = pushing[u]
    BY <1>3, <1>p DEF PushTypes
  <2>4. DOMAIN pushing' = Threads
    BY <1>3, <1>p DEF PushTypes
  <2> QED BY <1>3, <1>t, <1>p, <2>2, <2>3, <2>4 DEF PushTypes
<1>4. CASE /\ ~stop /\ AllArrived
           /\ \E r : IsPush(r) /\ pushing' = [pushing EXCEPT ![t] = r]
  <2>1. PICK r : IsPush(r) /\ pushing' = [pushing EXCEPT ![t] = r]
    BY <1>4
  <2>2. pushing'[t] = r /\ \A u \in Threads : u # t => pushing'[u] = pushing[u]
    BY <2>1, <1>p DEF PushTypes
  <2>3. DOMAIN pushing' = Threads
    BY <2>1, <1>p DEF PushTypes
  <2> QED BY <1>4, <1>t, <1>p, <2>1, <2>2, <2>3 DEF PushTypes, IsPush
<1> QED BY <1>1, <1>2, <1>3, <1>4 DEF PushFlow

-----------------------------------------------------------------------------
(* The latches: one lemma per group of steps.                              *)
LEMMA LatchesLoop ==
    ASSUME LifeInv, NEW w \in Workers, LoopFlow(w)
    PROVE  (LifeTypes /\ Latches)'
<1> USE DEF LifeInv
<1>t. Team' = Team
  BY DEF LoopFlow, Team
<1>1. PICK l \in Running \union {"stopped"} : wpc' = [wpc EXCEPT ![w] = l]
  BY DEF LoopFlow
<1>2. l \in Running \union Leaving /\ l \notin {"init", "start", "gone", "latch_stop"}
  BY DEF Running, Leaving
<1>3. wpc[w] \notin {"init", "start", "gone", "latch_stop"}
  BY DEF LoopFlow, Running
<1>4. LifeTypes'
  BY <1>1, <1>2 DEF LifeTypes, LoopFlow
<1>5. AllArrived /\ AllArrived'
  <2>1. AllArrived
    BY <1>3 DEF Latches
  <2>2. \A v \in Workers : wpc'[v] = "init" => wpc[v] = "init"
    BY <1>1, <1>2 DEF LifeTypes
  <2>3. Team \subseteq Workers
    BY SubmissionAssumption DEF Team
  <2> QED BY <1>t, <2>1, <2>2, <2>3 DEF AllArrived
<1>6. \A v \in Workers : wpc'[v] # "gone"
  <2>1. w \in Team
    BY <1>3 DEF Latches
  <2>2. \A v \in Workers : wpc[v] # "gone"
    BY <1>3, <2>1 DEF Latches
  <2> QED BY <1>1, <1>2, <2>2 DEF LifeTypes
<1>7. \A v \in Workers : (wpc'[v] = "init" <=> wpc[v] = "init") /\ wpc[v] # "gone"
  BY <1>1, <1>2, <1>3, <1>6 DEF LifeTypes
<1>8. context' = context
  BY DEF LoopFlow
<1> QED BY <1>4, <1>5, <1>6, <1>7, <1>8, <1>t DEF Latches

(* A worker that starts or ends keeps to the latches.                      *)
LEMMA LatchesEnds ==
    ASSUME LifeInv, NEW w \in Workers, Ends(w)
    PROVE  (LifeTypes /\ Latches)'
<1> USE DEF LifeInv
<1>k. UNCHANGED <<kind, pool>>
  BY Zenon DEF Ends, WorkerInit, LatchStart, TestStop, StopWorker, Finalize
<1>t. Team' = Team
  BY <1>k DEF Team
<1>s. Team \subseteq Workers
  BY SubmissionAssumption DEF Team
<1>1. CASE WorkerInit(w)
  <2>1. w \in Team /\ wpc[w] = "init" /\ wpc' = [wpc EXCEPT ![w] = "start"]
        /\ context' = [context EXCEPT ![w] = "live"]
    BY <1>1 DEF WorkerInit, Goto
  <2>2. LifeTypes'
    BY <2>1, <1>k DEF LifeTypes
  <2>3. \A v \in Workers : wpc[v] \in {"init", "start"} /\ ~AllArrived
    BY <2>1 DEF Latches, AllArrived
  <2>4. \A v \in Workers : wpc'[v] \in {"init", "start"}
    BY <2>1, <2>3 DEF LifeTypes
  <2>5. \A v \in Workers : (wpc'[v] = "init" <=> context'[v] = "none") /\ context'[v] # "dead"
    BY <2>1, <2>3 DEF LifeTypes, Latches
  <2>6. \A v \in Workers : v \notin Team => wpc'[v] = "init"
    BY <2>1 DEF LifeTypes, Latches
  <2>7. pool' \notin {"open", "join", "destroyed"}
    BY <2>3, <1>k, <2>1 DEF Latches
  <2> QED BY <2>2, <2>4, <2>5, <2>6, <2>7, <1>t DEF Latches
<1>2. CASE LatchStart(w)
  <2>1. wpc[w] = "start" /\ wpc' = [wpc EXCEPT ![w] = "test"] /\ context' = context
    BY <1>2 DEF LatchStart, Goto
  <2>2. LifeTypes'
    BY <2>1, <1>k DEF LifeTypes, Running
  <2>3. w \in Team
    BY <2>1 DEF Latches
  <2>4. AllArrived
    <3>1. CASE kind = "busy"
      BY <1>2, <3>1 DEF LatchStart
    <3>2. CASE kind = "unit"
      BY <2>1, <2>3, <3>2 DEF AllArrived, Team
    <3> QED BY <3>1, <3>2 DEF LifeTypes
  <2>5. \A v \in Workers : v # w => wpc'[v] = wpc[v]
    BY <2>1 DEF LifeTypes
  <2>6. wpc'[w] = "test"
    BY <2>1 DEF LifeTypes
  <2>7. AllArrived'
    BY <2>4, <2>5, <2>6, <1>t, <1>s DEF AllArrived
  <2>8. \A v \in Workers : wpc[v] # "gone"
    BY <2>1, <2>3 DEF Latches
  <2> QED BY <2>1, <2>2, <2>3, <2>5, <2>6, <2>7, <2>8, <1>t, <1>k DEF Latches
<1>3. CASE TestStop(w)
  <2>1. wpc[w] = "test" /\ wpc' = [wpc EXCEPT ![w] = "pop"] /\ context' = context
    BY <1>3, Zenon DEF TestStop, Goto
  <2>2. LifeTypes'
    BY <2>1, <1>k DEF LifeTypes, Running
  <2>3. w \in Team /\ AllArrived
    BY <2>1 DEF Latches
  <2>5. \A v \in Workers : v # w => wpc'[v] = wpc[v]
    BY <2>1 DEF LifeTypes
  <2>6. wpc'[w] = "pop"
    BY <2>1 DEF LifeTypes
  <2>7. AllArrived'
    BY <2>3, <2>5, <2>6, <1>t, <1>s DEF AllArrived
  <2>8. \A v \in Workers : wpc[v] # "gone"
    BY <2>1, <2>3 DEF Latches
  <2> QED BY <2>1, <2>2, <2>3, <2>5, <2>6, <2>7, <2>8, <1>t, <1>k DEF Latches
<1>4. CASE StopWorker(w)
  <2>1. wpc[w] = "stopped" /\ wpc' = [wpc EXCEPT ![w] = "latch_stop"] /\ context' = context
    BY <1>4, Zenon DEF StopWorker, Goto
  <2>2. LifeTypes'
    BY <2>1, <1>k DEF LifeTypes, Leaving
  <2>3. w \in Team /\ AllArrived
    BY <2>1 DEF Latches
  <2>5. \A v \in Workers : v # w => wpc'[v] = wpc[v]
    BY <2>1 DEF LifeTypes
  <2>6. wpc'[w] = "latch_stop"
    BY <2>1 DEF LifeTypes
  <2>7. AllArrived'
    BY <2>3, <2>5, <2>6, <1>t, <1>s DEF AllArrived
  <2>8. \A v \in Workers : wpc[v] # "gone"
    BY <2>1, <2>3 DEF Latches
  <2> QED BY <2>1, <2>2, <2>3, <2>5, <2>6, <2>7, <2>8, <1>t, <1>k DEF Latches
<1>5. CASE Finalize(w)
  <2>1. wpc[w] = "latch_stop" /\ wpc' = [wpc EXCEPT ![w] = "gone"]
        /\ context' = [context EXCEPT ![w] = "dead"]
    BY <1>5 DEF Finalize, Goto
  <2>2. LifeTypes'
    BY <2>1, <1>k DEF LifeTypes, Leaving
  <2>3. w \in Team /\ AllArrived
    BY <2>1 DEF Latches
  <2>4. \A v \in Team : wpc[v] \in {"latch_stop", "gone"}
    <3>1. CASE kind = "busy"
      BY <1>5, <3>1 DEF Finalize
    <3>2. CASE kind = "unit"
      BY <2>1, <2>3, <3>2 DEF Team
    <3> QED BY <3>1, <3>2 DEF LifeTypes
  <2>5. \A v \in Workers : v # w => wpc'[v] = wpc[v] /\ context'[v] = context[v]
    BY <2>1 DEF LifeTypes
  <2>6. wpc'[w] = "gone" /\ context'[w] = "dead"
    BY <2>1 DEF LifeTypes
  <2>7. AllArrived'
    BY <2>3, <2>5, <2>6, <1>t, <1>s DEF AllArrived
  <2>8. \A v \in Team : wpc'[v] \in {"latch_stop", "gone"}
    BY <2>4, <2>5, <2>6, <1>s
  <2> QED BY <2>1, <2>2, <2>3, <2>5, <2>6, <2>7, <2>8, <1>t, <1>k DEF Latches
<1> QED BY <1>1, <1>2, <1>3, <1>4, <1>5 DEF Ends

(* The owner of the pool keeps to the latches.                             *)
LEMMA LatchesOwner ==
    ASSUME LifeInv, Owner \/ DestroyPool
    PROVE  (LifeTypes /\ Latches)'
<1> USE DEF LifeInv
<1>1. UNCHANGED <<kind, wpc, context>>
  BY Zenon DEF Owner, DestroyPool, Construct, Constructed, PoolDestroyed, workerVars
<1>2. /\ pool' \in {"construct", "latch_start", "open", "join", "destroyed"}
      /\ pool' \in {"open", "join", "destroyed"} => AllArrived
  BY DEF Owner, DestroyPool, Construct, Constructed, PoolDestroyed, Latches
<1>3. Team' = Team /\ AllArrived' = AllArrived
  BY <1>1 DEF Team, AllArrived
<1> QED BY <1>1, <1>2, <1>3 DEF LifeTypes, Latches

(* A client does not touch the latches.                                    *)
LEMMA LatchesQuiet ==
    ASSUME LifeInv, Quiet
    PROVE  (LifeTypes /\ Latches)'
<1>1. Team' = Team /\ AllArrived' = AllArrived
  BY DEF Quiet, Team, AllArrived
<1> QED BY <1>1 DEF LifeInv, Quiet, LifeTypes, Latches

-----------------------------------------------------------------------------
(* Who has arrived stays arrived.                                          *)
LEMMA ArrivedStays ==
    ASSUME LifeInv, kind' = kind,
           \/ wpc' = wpc
           \/ \E w \in Workers, l \in {"start"} \union Running \union Leaving :
                 wpc' = [wpc EXCEPT ![w] = l]
    PROVE  AllArrived => AllArrived'
<1>1. Team' = Team /\ Team \subseteq Workers
  BY SubmissionAssumption DEF Team
<1>2. \A v \in Workers : wpc'[v] = "init" => wpc[v] = "init"
  BY DEF LifeInv, LifeTypes, Running, Leaving
<1> QED BY <1>1, <1>2 DEF AllArrived

(* The flag: again one lemma per group of steps.                           *)
LEMMA StopLoop ==
    ASSUME LifeInv, NEW w \in Workers, LoopFlow(w), PushFlow(w)
    PROVE  (DrainTypes /\ PushTypes /\ StopOrder)'
<1>k. UNCHANGED <<kind, stop, pool, draining>>
  BY DEF LoopFlow
<1>1. PICK l \in Running \union {"stopped"} :
         wpc' = [wpc EXCEPT ![w] = l] /\ (l = "stopped" => draining[w])
  BY DEF LoopFlow
<1>2. AllArrived => AllArrived'
  BY <1>1, <1>k, ArrivedStays DEF Leaving
<1>3. /\ PushTypes'
      /\ \A u \in Threads : pushing'[u] # Null => pushing[u] # Null \/ (~stop /\ AllArrived)
  BY <1>k, PushStep DEF Threads
<1>4. \A v \in Workers : wpc'[v] \in Leaving => stop
  BY <1>1 DEF LifeInv, LifeTypes, StopOrder, Leaving, Running
<1>5. \A u \in Threads : pushing'[u] # Null => ~stop' /\ AllArrived'
  BY <1>2, <1>3, <1>k DEF LifeInv, StopOrder
<1> QED BY <1>k, <1>3, <1>4, <1>5 DEF LifeInv, DrainTypes, StopOrder

(* A client's step keeps stop behind the last push.                        *)
LEMMA StopQuiet ==
    ASSUME LifeInv, NEW t \in Threads, Quiet, PushFlow(t)
    PROVE  (DrainTypes /\ PushTypes /\ StopOrder)'
<1>k. UNCHANGED <<kind, wpc, stop, pool, draining>>
  BY DEF Quiet
<1>2. AllArrived => AllArrived'
  BY <1>k, ArrivedStays
<1>3. /\ PushTypes'
      /\ \A u \in Threads : pushing'[u] # Null => pushing[u] # Null \/ (~stop /\ AllArrived)
  BY <1>k, PushStep
<1>5. \A u \in Threads : pushing'[u] # Null => ~stop' /\ AllArrived'
  BY <1>2, <1>3, <1>k DEF LifeInv, StopOrder
<1> QED BY <1>k, <1>3, <1>5 DEF LifeInv, DrainTypes, StopOrder

(* A worker that starts or ends keeps stop behind the last push.           *)
LEMMA StopEnds ==
    ASSUME LifeInv, NEW w \in Workers, Ends(w)
    PROVE  (DrainTypes /\ PushTypes /\ StopOrder)'
<1>k. UNCHANGED <<kind, pushing>>
  BY EndsDoNotPush
<1>p. pool' = pool
  BY Zenon DEF Ends, WorkerInit, LatchStart, TestStop, StopWorker, Finalize
<1>t. Team' = Team
  BY <1>k DEF Team
<1>0. PushTypes'
  BY <1>k, <1>t DEF LifeInv, PushTypes
<1>w. \E l \in {"start"} \union Running \union Leaving : wpc' = [wpc EXCEPT ![w] = l]
  <2>1. \/ wpc' = [wpc EXCEPT ![w] = "start"] \/ wpc' = [wpc EXCEPT ![w] = "test"]
        \/ wpc' = [wpc EXCEPT ![w] = "pop"] \/ wpc' = [wpc EXCEPT ![w] = "latch_stop"]
        \/ wpc' = [wpc EXCEPT ![w] = "gone"]
    BY Zenon DEF Ends, WorkerInit, LatchStart, TestStop, StopWorker, Finalize, Goto
  <2> QED BY <2>1 DEF Running, Leaving
<1>a. AllArrived => AllArrived'
  BY <1>w, <1>k, ArrivedStays
<1>f. stop' <=> stop
  <2>1. CASE StopWorker(w)
    <3>1. stop' = TRUE /\ wpc[w] = "stopped"
      BY <2>1, Zenon DEF StopWorker
    <3> QED BY <3>1 DEF LifeInv, StopOrder, Leaving
  <2>2. CASE WorkerInit(w) \/ LatchStart(w) \/ TestStop(w) \/ Finalize(w)
    <3>1. stop' = stop
      BY <2>2, Zenon DEF WorkerInit, LatchStart, TestStop, Finalize
    <3> QED BY <3>1
  <2> QED BY <2>1, <2>2 DEF Ends
<1>d. DrainTypes' /\ \A v \in Workers : draining'[v] => stop
  <2>1. CASE TestStop(w)
    <3>1. draining' = [draining EXCEPT ![w] = stop]
      BY <2>1, Zenon DEF TestStop
    <3>2. DOMAIN draining' = Workers
      BY <3>1 DEF LifeInv, DrainTypes
    <3>3. \A v \in Workers : draining'[v] = IF v = w THEN stop ELSE draining[v]
      BY <3>1 DEF LifeInv, DrainTypes
    <3> QED BY <3>2, <3>3 DEF LifeInv, DrainTypes, StopOrder
  <2>2. CASE WorkerInit(w) \/ LatchStart(w) \/ StopWorker(w) \/ Finalize(w)
    <3>1. draining' = draining
      BY <2>2, Zenon DEF WorkerInit, LatchStart, StopWorker, Finalize
    <3> QED BY <3>1 DEF LifeInv, DrainTypes, StopOrder
  <2> QED BY <2>1, <2>2 DEF Ends
<1>l. \A v \in Workers : wpc'[v] \in Leaving => stop
  <2>1. CASE StopWorker(w) \/ Finalize(w)
    <3>1. wpc[w] \in Leaving
      BY <2>1 DEF StopWorker, Finalize, Leaving
    <3> QED BY <3>1, <1>w DEF LifeInv, LifeTypes, StopOrder
  <2>2. CASE WorkerInit(w) \/ LatchStart(w) \/ TestStop(w)
    <3>1. \/ wpc' = [wpc EXCEPT ![w] = "start"] \/ wpc' = [wpc EXCEPT ![w] = "test"]
          \/ wpc' = [wpc EXCEPT ![w] = "pop"]
      BY <2>2, Zenon DEF WorkerInit, LatchStart, TestStop, Goto
    <3> QED BY <3>1 DEF LifeInv, LifeTypes, StopOrder, Leaving
  <2> QED BY <2>1, <2>2 DEF Ends
<1> QED BY <1>0, <1>a, <1>f, <1>d, <1>l, <1>k, <1>p DEF LifeInv, StopOrder

(* The owner raises stop only when nobody pushes any more.                 *)
LEMMA StopOwner ==
    ASSUME LifeInv, Owner \/ DestroyPool
    PROVE  (DrainTypes /\ PushTypes /\ StopOrder)'
<1>k. UNCHANGED <<kind, pushing, wpc, draining>>
  BY Zenon DEF Owner, DestroyPool, Construct, Constructed, PoolDestroyed, workerVars, listVars
<1>t. Team' = Team /\ AllArrived' = AllArrived
  BY <1>k DEF Team, AllArrived
<1>1. CASE Owner
  <2>1. stop' = stop
    BY <1>1, Zenon DEF Owner, Construct, Constructed, PoolDestroyed
  <2>2. stop => pool' \in {"join", "destroyed"}
    BY <1>1 DEF Owner, Construct, Constructed, PoolDestroyed, LifeInv, StopOrder
  <2> QED BY <1>k, <1>t, <2>1, <2>2 DEF LifeInv, DrainTypes, PushTypes, StopOrder
<1>2. CASE DestroyPool
  <2>1. stop' = TRUE /\ pool' = "join" /\ \A t \in Threads : pushing[t] = Null
    BY <1>2, Zenon DEF DestroyPool, Threads
  <2> QED BY <1>k, <1>t, <2>1 DEF LifeInv, DrainTypes, PushTypes, StopOrder
<1> QED BY <1>1, <1>2

-----------------------------------------------------------------------------
(* Every step keeps the invariant.                                         *)
LEMMA LifeStep == LifeInv /\ [Next]_vars => LifeInv'
<1> SUFFICES ASSUME LifeInv, [Next]_vars PROVE LifeInv'
  OBVIOUS
<1>1. ASSUME NEW t \in Threads,
             \/ Link(t) \/ Schedule(t) \/ ScheduleReturns(t)
             \/ Wait(t) \/ Get(t) \/ Detach(t) \/ DestroyFuture(t)
      PROVE  LifeInv'
  BY <1>1, ClientsAreQuiet, ClientPushes, LatchesQuiet, StopQuiet DEF LifeInv
<1>2. ASSUME NEW w \in Workers, Loop(w) PROVE LifeInv'
  <2>1. LoopFlow(w) /\ PushFlow(w)
    BY <1>2, LoopMoves, LoopPushes DEF LifeInv
  <2> QED BY <2>1, LatchesLoop, StopLoop DEF LifeInv
<1>3. ASSUME NEW w \in Workers, Ends(w) PROVE LifeInv'
  BY <1>3, LatchesEnds, StopEnds DEF LifeInv
<1>4. CASE Owner \/ DestroyPool
  BY <1>4, LatchesOwner, StopOwner DEF LifeInv
<1>5. CASE UNCHANGED vars
  <2>1. UNCHANGED <<kind, pushing, wpc, context, stop, pool, draining>>
    BY <1>5, Zenon DEF vars, listVars, workerVars
  <2>2. Team' = Team /\ AllArrived' = AllArrived
    BY <2>1 DEF Team, AllArrived
  <2> QED BY <2>1, <2>2
      DEF LifeInv, LifeTypes, DrainTypes, PushTypes, Latches, StopOrder
<1>6. ASSUME NEW c \in Clients, Schedule(c) \/ Client(c) \/ Detach(c) PROVE LifeInv'
  BY <1>6, <1>1 DEF Client, Threads
<1>7. ASSUME NEW w \in Workers, WorkLoop(w) PROVE LifeInv'
  BY <1>7, <1>2, <1>3 DEF WorkLoop, Loop, Ends
<1>8. ASSUME NEW w \in Workers, Task(w) \/ Fork(w) \/ \E v \in Workers : ResumeOn(w, v)
      PROVE  LifeInv'
  <2>1. CASE Link(w)
    BY <2>1, <1>1 DEF Threads
  <2>2. CASE ~Link(w)
    BY <1>8, <2>2, <1>2 DEF Task, Loop
  <2> QED BY <2>1, <2>2
<1> QED BY <1>4, <1>5, <1>6, <1>7, <1>8 DEF Next

(* "Wait for everyone to have stopped before destroying the context (which *)
(* others could be observing)", in busy_work(): with any number of threads *)
(* and however the destructor of the pool, the workers' stop latch, steals *)
(* and pushes interleave, no context is pushed to, popped or stolen from   *)
(* unless it has been made and not been finalised.                         *)
THEOREM ContextsStayAlive == Spec => []ContextsAreLive
<1>1. Init => LifeInv
  BY LifeInit
<1>2. LifeInv /\ [Next]_vars => LifeInv'
  BY LifeStep
<1>3. LifeInv => ContextsAreLive
  BY LifeImpliesLive
<1> QED BY <1>1, <1>2, <1>3, PTL DEF Spec

-----------------------------------------------------------------------------
(* What a link can be.                                                     *)
Links == Nodes \union {Null, Garbage}

(* There are finitely many nodes.                                          *)
LEMMA NodesAreFinite == IsFiniteSet(Nodes) /\ Cardinality(Nodes) \in Nat
<1>1. IsFiniteSet(Jobs)
  BY SubmissionAssumption, FS_Interval DEF Jobs
<1>2. IsFiniteSet({"root", "frame"})
  <2>1. IsFiniteSet({"root"})
    BY FS_Singleton
  <2>2. IsFiniteSet({"root"} \union {"frame"})
    BY <2>1, FS_AddElement
  <2>3. {"root"} \union {"frame"} = {"root", "frame"}
    OBVIOUS
  <2> QED BY <2>2, <2>3
<1>3. IsFiniteSet(Nodes)
  BY <1>1, <1>2, FS_Product DEF Nodes
<1> QED BY <1>3, FS_CardinalityType

(* The equation of Chain: at most k nodes from m on.                       *)
ChainStep(f, k, m) == IF k = 0 \/ m \notin Nodes THEN <<>> ELSE <<m>> \o f[k - 1][m_next[m]]

(* Chain satisfies it: by induction over the bound, for the links as they  *)
(* are now.                                                                *)
LEMMA ChainEquation ==
    ASSUME m_next \in [Nodes -> Links]
    PROVE  \E f : /\ \A n : Chain(n) = f[Cardinality(Nodes)][n]
                  /\ \A k \in 0..Cardinality(Nodes) : \A m \in Links : f[k][m] = ChainStep(f, k, m)
<1> DEFINE C == Cardinality(Nodes)
           Eq(f) == f = [k \in 0..C |-> [m \in Links |-> ChainStep(f, k, m)]]
           D == [Links -> Seq(Nodes)]
           a == [m \in Links |-> <<>>]
<1>c. C \in Nat
  BY NodesAreFinite
<1>n. PICK nx : nx = m_next
  OBVIOUS
<1> DEFINE G == [h \in D |-> [m \in Links |-> IF m \notin Nodes THEN <<>> ELSE <<m>> \o h[nx[m]]]]
<1>1. a \in D
  OBVIOUS
<1>2. G \in [D -> D]
  <2> SUFFICES ASSUME NEW h \in D, NEW m \in Links
               PROVE  (IF m \notin Nodes THEN <<>> ELSE <<m>> \o h[nx[m]]) \in Seq(Nodes)
    OBVIOUS
  <2>1. CASE m \in Nodes
    <3>1. h[nx[m]] \in Seq(Nodes) /\ <<m>> \in Seq(Nodes)
      BY <2>1, <1>n
    <3> QED BY <2>1, <3>1
  <2>2. CASE m \notin Nodes
    BY <2>2
  <2> QED BY <2>1, <2>2
<1>3. PICK it : IsIteration(it, D, a, G)
  <2>1. MapsInto(G, D)
    BY <1>2 DEF MapsInto
  <2> HIDE DEF D, a, G
  <2> QED BY <1>1, <2>1, Iterates
<1>4. PICK g : g = [k \in 0..C |-> it[k]]
  OBVIOUS
<1>5. ASSUME NEW k \in 0..C PROVE g[k] = [m \in Links |-> ChainStep(g, k, m)]
  <2>1. CASE k = 0
    <3>1. g[k] = a
      BY <1>3, <1>4, <2>1 DEF IsIteration
    <3>2. \A m \in Links : ChainStep(g, k, m) = <<>>
      BY <2>1 DEF ChainStep
    <3> QED BY <3>1, <3>2
  <2>2. CASE k # 0
    <3>1. k - 1 \in Nat /\ k - 1 \in 0..C /\ (k - 1) + 1 = k
      BY <2>2, <1>c
    <3>2. g[k] = it[k] /\ g[k - 1] = it[k - 1]
      BY <1>4, <3>1
    <3>3. it[k] = G[it[k - 1]] /\ it[k - 1] \in D
      <4> HIDE DEF D, G
      <4> QED BY <1>3, <3>1 DEF IsIteration
    <3>4. g[k] = [m \in Links |-> IF m \notin Nodes THEN <<>> ELSE <<m>> \o g[k - 1][m_next[m]]]
      <4> HIDE DEF D
      <4> QED BY <1>n, <3>2, <3>3
    <3>5. \A m \in Links : ChainStep(g, k, m) =
              IF m \notin Nodes THEN <<>> ELSE <<m>> \o g[k - 1][m_next[m]]
      BY <2>2 DEF ChainStep
    <3> QED BY <3>4, <3>5
  <2> QED BY <2>1, <2>2
<1>6. Eq(g)
  <2> DEFINE r == [k \in 0..C |-> [m \in Links |-> ChainStep(g, k, m)]]
  <2>1. \A k \in 0..C : g[k] = r[k]
    BY <1>5
  <2> QED BY <1>4, <2>1
<1> DEFINE f == CHOOSE h : Eq(h)
<1>7. Eq(f)
  <2> HIDE DEF Eq
  <2> QED BY <1>6
<1>8. \A n : Chain(n) = f[Cardinality(Nodes)][n]
  BY DEF Chain, ChainStep, Links
<1>9. \A k \in 0..C : \A m \in Links : f[k][m] = ChainStep(f, k, m)
  <2> HIDE DEF f
  <2>1. f = [k \in 0..C |-> [m \in Links |-> ChainStep(f, k, m)]]
    BY <1>7
  <2> SUFFICES ASSUME NEW k \in 0..C, NEW m \in Links PROVE f[k][m] = ChainStep(f, k, m)
    OBVIOUS
  <2>2. f[k] = [x \in Links |-> ChainStep(f, k, x)]
    BY <2>1, Zenon
  <2> QED BY <2>2, Zenon
<1> HIDE DEF f
<1> QED BY <1>8, <1>9
(* The links lead from n through the nodes of c, each once, to Null.       *)
LinkedFrom(n, c) ==
    /\ c \in Seq(Nodes)
    /\ \A i, k \in 1..Len(c) : c[i] = c[k] => i = k
    /\ n = IF Len(c) = 0 THEN Null ELSE c[1]
    /\ \A i \in 1..Len(c) : m_next[c[i]] = IF i = Len(c) THEN Null ELSE c[i + 1]

(* No list of different nodes is longer than there are nodes.              *)
LEMMA DistinctFits ==
    ASSUME NEW c, c \in Seq(Nodes), \A i, k \in 1..Len(c) : c[i] = c[k] => i = k
    PROVE  Len(c) <= Cardinality(Nodes)
<1>1. IsFiniteSet(1..Len(c)) /\ Cardinality(1..Len(c)) = Len(c)
  <2>1. 1 \in Int /\ Len(c) \in Int /\ Len(c) >= 0
    OBVIOUS
  <2>2. /\ IsFiniteSet(1..Len(c))
        /\ Cardinality(1..Len(c)) = IF 1 > Len(c) THEN 0 ELSE Len(c) - 1 + 1
    BY <2>1, FS_Interval
  <2> QED BY <2>1, <2>2
<1>2. c \in [1..Len(c) -> Nodes]
  OBVIOUS
<1> SUFFICES ASSUME Cardinality(Nodes) < Len(c) PROVE FALSE
  BY NodesAreFinite
<1>3. \E x, y \in 1..Len(c) : x # y /\ c[x] = c[y]
  BY <1>1, <1>2, NodesAreFinite, FS_PigeonHole
<1> QED BY <1>3

(* What Chain returns: the nodes the links lead through.                   *)
LEMMA ChainIs ==
    ASSUME m_next \in [Nodes -> Links], NEW n, NEW c, LinkedFrom(n, c)
    PROVE  Chain(n) = c
<1> DEFINE C == Cardinality(Nodes)
           Suffix(i) == [x \in 1..(Len(c) - i + 1) |-> c[x + i - 1]]
<1>l. /\ c \in Seq(Nodes) /\ Len(c) \in Nat
      /\ n = IF Len(c) = 0 THEN Null ELSE c[1]
      /\ \A i \in 1..Len(c) : m_next[c[i]] = IF i = Len(c) THEN Null ELSE c[i + 1]
  BY DEF LinkedFrom
<1>c. C \in Nat /\ Len(c) <= C
  BY NodesAreFinite, DistinctFits DEF LinkedFrom
<1>n. Null \in Links /\ Null \notin Nodes /\ Nodes \subseteq Links
  BY NullAssumption DEF Links
<1>1. PICK f : /\ \A p : Chain(p) = f[C][p]
               /\ \A k \in 0..C : \A m \in Links : f[k][m] = ChainStep(f, k, m)
  BY ChainEquation
<1>2. \A k \in 0..C : f[k][Null] = <<>>
  BY <1>1, <1>n DEF ChainStep
<1> DEFINE S == {k \in Nat : k <= C => \A i \in 1..Len(c) : Len(c) - i < k => f[k][c[i]] = Suffix(i)}
<1>3. 0 \in S
  OBVIOUS
<1>4. ASSUME NEW k \in Nat, k \in S PROVE k + 1 \in S
  <2> SUFFICES ASSUME k + 1 <= C, NEW i \in 1..Len(c), Len(c) - i < k + 1
               PROVE  f[k + 1][c[i]] = Suffix(i)
    BY <1>4
  <2>1. k \in 0..C /\ k + 1 \in 0..C /\ (k + 1) - 1 = k /\ k + 1 # 0
    BY <1>c
  <2>2. c[i] \in Nodes /\ c[i] \in Links
    BY <1>l, <1>n
  <2>3. f[k + 1][c[i]] = <<c[i]>> \o f[k][m_next[c[i]]]
    BY <1>1, <2>1, <2>2 DEF ChainStep
  <2>4. CASE i = Len(c)
    <3>1. f[k + 1][c[i]] = <<c[i]>> \o <<>>
      BY <1>2, <1>l, <2>1, <2>3, <2>4
    <3>2. <<c[i]>> \o <<>> = <<c[i]>>
      OBVIOUS
    <3>3. Suffix(i) = <<c[i]>>
      BY <2>4, <1>l
    <3> QED BY <3>1, <3>2, <3>3
  <2>5. CASE i # Len(c)
    <3>1. i + 1 \in 1..Len(c) /\ Len(c) - (i + 1) < k /\ k <= C
      BY <1>l, <1>c, <2>5
    <3>2. f[k][c[i + 1]] = Suffix(i + 1)
      BY <1>4, <3>1
    <3>3. f[k + 1][c[i]] = <<c[i]>> \o Suffix(i + 1)
      BY <1>l, <2>3, <2>5, <3>2
    <3>4. Suffix(i + 1) \in Seq(Nodes) /\ Len(Suffix(i + 1)) = Len(c) - i
      <4>1. \A x \in 1..(Len(c) - (i + 1) + 1) : c[x + (i + 1) - 1] \in Nodes
        BY <1>l, <3>1
      <4>2. Len(c) - (i + 1) + 1 = Len(c) - i /\ Len(c) - i \in Nat
        BY <1>l, <3>1
      <4> QED BY <4>1, <4>2
    <3>5. <<c[i]>> \o Suffix(i + 1) = Suffix(i)
      <4>1. PICK q : q = Suffix(i + 1)
        OBVIOUS
      <4>2. q \in Seq(Nodes) /\ Len(q) = Len(c) - i
        BY <3>4, <4>1
      <4>3. \A x \in 1..(Len(c) - i) : q[x] = c[x + i]
        BY <4>1, <1>l, <3>1
      <4>4. PICK r : r = <<c[i]>> \o q
        OBVIOUS
      <4>5. r \in Seq(Nodes) /\ Len(r) = Len(c) - i + 1
        <5>1. <<c[i]>> \in Seq(Nodes) /\ Len(<<c[i]>>) = 1
          BY <2>2
        <5>2. r \in Seq(Nodes) /\ Len(r) = 1 + Len(q)
          BY <5>1, <4>2, <4>4, ConcatProperties
        <5>3. i \in Nat
          OBVIOUS
        <5> QED BY <5>2, <5>3, <4>2, <1>l
      <4>6. ASSUME NEW x \in 1..Len(r) PROVE r[x] = c[x + i - 1]
        <5>1. CASE x = 1
          BY <5>1, <4>4, <4>2, <2>2
        <5>2. CASE x # 1
          <6>1. x - 1 \in 1..(Len(c) - i) /\ (x - 1) + i = x + i - 1
            BY <5>2, <4>5, <1>l
          <6>2. r[x] = q[x - 1]
            BY <5>2, <4>4, <4>2, <4>5, <2>2, <6>1
          <6> QED BY <6>1, <6>2, <4>3
        <5> QED BY <5>1, <5>2
      <4>7. r = [x \in 1..Len(r) |-> c[x + i - 1]]
        BY <4>5, <4>6
      <4> QED BY <4>1, <4>4, <4>5, <4>7
    <3> QED BY <3>3, <3>5
  <2> QED BY <2>4, <2>5
<1>5. \A k \in Nat : k \in S
  <2> HIDE DEF S
  <2> QED BY <1>3, <1>4, SetInduction
<1>6. CASE Len(c) = 0
  <2>1. Chain(n) = <<>>
    BY <1>1, <1>2, <1>6, <1>l, <1>c
  <2>2. c = <<>>
    BY <1>6, <1>l
  <2> QED BY <2>1, <2>2
<1>7. CASE Len(c) # 0
  <2>1. 1 \in 1..Len(c) /\ Len(c) - 1 < C
    BY <1>7, <1>l, <1>c
  <2>2. f[C][c[1]] = Suffix(1)
    BY <1>5, <2>1, <1>c
  <2>3. Suffix(1) = c
    BY <1>l
  <2> QED BY <1>1, <1>l, <1>7, <2>2, <2>3
<1> QED BY <1>6, <1>7

-----------------------------------------------------------------------------
(* Where a worker runs or ends a job, and where it has taken a node from   *)
(* its list and not come back to it.                                       *)
InTask == {"run", "signal", "destroy"}
Resumed == {"run", "return", "switch", "signal", "destroy"}

(* The types of the list's state and of the nodes a worker has in hand.    *)
ListTypes ==
    /\ m_head \in [Workers -> Nodes \union {Null}]
    /\ m_next \in [Nodes -> Links]
    /\ pushing \in [Threads -> Pushes \union {Null}]
    /\ order \in [Workers -> Seq(Nodes)]
    /\ root \in [Workers -> Nodes \union {Null}]
    /\ next \in [Workers -> Nodes \union {Null}]

(* The queue o is in two parts. The first s nodes have been taken, and are *)
(* linked forward from first; the others are still listed, and are linked  *)
(* backward from the head.                                                 *)
IsList(o, s, first, head, nx) ==
    /\ first = IF s = 0 THEN Null ELSE o[1]
    /\ head = IF s = Len(o) THEN Null ELSE o[Len(o)]
    /\ \A i \in 1..Len(o) :
         nx[o[i]] = IF i <= s THEN IF i = s THEN Null ELSE o[i + 1]
                              ELSE IF i = s + 1 THEN Null ELSE o[i - 1]

(* The next node the worker comes to.                                      *)
First(w) == IF wpc[w] = "each" THEN root[w] ELSE next[w]

(* Every submission list with what its worker has taken from it.           *)
Lists ==
    \A w \in Workers : \E s \in 0..Len(order[w]) :
        IsList(order[w], s, First(w), m_head[w], m_next)

(* Where a node can wait: in a push that has not ended, or in a queue.     *)
Pushed(t, n) == pushing[t] # Null /\ pushing[t].node = n
Queued(w, n) == \E i \in 1..Len(order[w]) : order[w][i] = n
Pending(n) == (\E t \in Threads : Pushed(t, n)) \/ (\E w \in Workers : Queued(w, n))

(* A node waits in one place, once; a thread that has linked its node to a *)
(* head it saw still has it so.                                            *)
OnePlace ==
    /\ \A t, u \in Threads : \A n \in Nodes : Pushed(t, n) /\ Pushed(u, n) => t = u
    /\ \A w, v \in Workers : \A i \in 1..Len(order[w]), k \in 1..Len(order[v]) :
         order[w][i] = order[v][k] => w = v /\ i = k
    /\ \A t \in Threads : \A w \in Workers : \A n \in Nodes : ~(Pushed(t, n) /\ Queued(w, n))
    /\ \A t \in Threads : pushing[t] # Null /\ pushing[t].stale_head # Garbage =>
         m_next[pushing[t].node] = pushing[t].stale_head

(* The invariant of the lists.                                             *)
ListInv == ListTypes /\ Lists /\ OnePlace

(* The links of nodes elsewhere do not matter.                             *)
LEMMA ListAgrees ==
    ASSUME NEW o, NEW s, NEW first, NEW head, NEW nx, NEW nx2,
           IsList(o, s, first, head, nx), \A i \in 1..Len(o) : nx2[o[i]] = nx[o[i]]
    PROVE  IsList(o, s, first, head, nx2)
  BY DEF IsList

(* Push: the new node is linked to the head, and becomes it.               *)
LEMMA ListPush ==
    ASSUME NEW o \in Seq(Nodes), NEW n \in Nodes, NEW s \in 0..Len(o), NEW first, NEW head, NEW nx,
           IsList(o, s, first, head, nx), nx[n] = head
    PROVE  /\ s \in 0..Len(Append(o, n))
           /\ IsList(Append(o, n), s, first, n, nx)
<1> DEFINE p == Append(o, n)
<1>1. /\ p \in Seq(Nodes) /\ Len(p) = Len(o) + 1 /\ Len(o) \in Nat
      /\ p[Len(o) + 1] = n /\ \A i \in 1..Len(o) : p[i] = o[i]
  OBVIOUS
<1> HIDE DEF p
<1>2. first = IF s = 0 THEN Null ELSE p[1]
  <2>1. CASE s = 0
    BY <2>1 DEF IsList
  <2>2. CASE s # 0
    BY <2>2, <1>1 DEF IsList
  <2> QED BY <2>1, <2>2
<1>3. n = IF s = Len(p) THEN Null ELSE p[Len(p)]
  BY <1>1
<1>4. ASSUME NEW i \in 1..Len(p)
      PROVE  nx[p[i]] = IF i <= s THEN IF i = s THEN Null ELSE p[i + 1]
                                  ELSE IF i = s + 1 THEN Null ELSE p[i - 1]
  <2>1. CASE i \in 1..Len(o)
    <3>1. /\ p[i] = o[i] /\ (i < s => p[i + 1] = o[i + 1])
          /\ (i > s + 1 => p[i - 1] = o[i - 1])
      BY <1>1, <2>1
    <3>2. nx[o[i]] = IF i <= s THEN IF i = s THEN Null ELSE o[i + 1]
                              ELSE IF i = s + 1 THEN Null ELSE o[i - 1]
      BY <2>1 DEF IsList
    <3> QED BY <3>1, <3>2, <1>1, <2>1
  <2>2. CASE i = Len(o) + 1
    <3>1. p[i] = n /\ nx[p[i]] = head /\ i > s
      BY <1>1, <2>2
    <3>2. CASE s = Len(o)
      <4>1. head = Null /\ i = s + 1
        BY <3>2, <2>2 DEF IsList
      <4> QED BY <3>1, <4>1
    <3>3. CASE s # Len(o)
      <4>1. head = o[Len(o)] /\ i # s + 1 /\ i - 1 = Len(o) /\ Len(o) \in 1..Len(o)
        BY <3>3, <2>2, <1>1 DEF IsList
      <4> QED BY <3>1, <4>1, <1>1
    <3> QED BY <3>2, <3>3
  <2> QED BY <1>1, <2>1, <2>2
<1>5. IsList(p, s, first, n, nx)
  BY <1>2, <1>3, <1>4 DEF IsList
<1>6. s \in 0..Len(p)
  BY <1>1
<1> QED BY <1>5, <1>6 DEF p

(* for_each_elem: the worker goes on from the link of its first node.      *)
LEMMA ListTake ==
    ASSUME NEW o \in Seq(Nodes), NEW s \in 0..Len(o), NEW first, NEW head, NEW nx,
           IsList(o, s, first, head, nx), s # 0
    PROVE  /\ s - 1 \in 0..Len(Tail(o))
           /\ IsList(Tail(o), s - 1, nx[o[1]], head, nx)
<1> DEFINE p == Tail(o)
<1>1. /\ p \in Seq(Nodes) /\ Len(p) = Len(o) - 1 /\ Len(o) \in Nat /\ Len(o) > 0
      /\ \A i \in 1..Len(p) : p[i] = o[i + 1]
  <2>1. Len(o) \in Nat /\ Len(o) > 0
    OBVIOUS
  <2>2. o # <<>>
    BY <2>1
  <2> QED BY <2>1, <2>2
<1> HIDE DEF p
<1>2. nx[o[1]] = IF s - 1 = 0 THEN Null ELSE p[1]
  <2>1. nx[o[1]] = IF 1 = s THEN Null ELSE o[2]
    BY <1>1 DEF IsList
  <2>2. s # 1 => 1 \in 1..Len(p)
    BY <1>1
  <2> QED BY <1>1, <2>1, <2>2
<1>3. head = IF s - 1 = Len(p) THEN Null ELSE p[Len(p)]
  <2>1. CASE s = Len(o)
    BY <2>1, <1>1 DEF IsList
  <2>2. CASE s # Len(o)
    <3>1. head = o[Len(o)] /\ Len(p) \in 1..Len(p) /\ s - 1 # Len(p)
      BY <2>2, <1>1 DEF IsList
    <3> QED BY <3>1, <1>1
  <2> QED BY <2>1, <2>2
<1>4. ASSUME NEW i \in 1..Len(p)
      PROVE  nx[p[i]] = IF i <= s - 1 THEN IF i = s - 1 THEN Null ELSE p[i + 1]
                                      ELSE IF i = (s - 1) + 1 THEN Null ELSE p[i - 1]
  <2>1. i + 1 \in 1..Len(o) /\ p[i] = o[i + 1]
    BY <1>1
  <2>2. nx[o[i + 1]] = IF i + 1 <= s THEN IF i + 1 = s THEN Null ELSE o[(i + 1) + 1]
                                    ELSE IF i + 1 = s + 1 THEN Null ELSE o[(i + 1) - 1]
    BY <2>1 DEF IsList
  <2>3. i < s - 1 => i + 1 \in 1..Len(p)
    BY <1>1
  <2>4. i > s => (i - 1 \in 1..Len(p) /\ (i - 1) + 1 = (i + 1) - 1)
    BY <1>1
  <2> QED BY <1>1, <2>1, <2>2, <2>3, <2>4
<1>5. IsList(p, s - 1, nx[o[1]], head, nx)
  BY <1>2, <1>3, <1>4 DEF IsList
<1>6. s - 1 \in 0..Len(p)
  BY <1>1
<1> QED BY <1>5, <1>6 DEF p

(* The two parts of a queue, in the order of the links.                    *)
Taken(o, s) == [i \in 1..s |-> o[i]]
Listed(o, s) == [i \in 1..(Len(o) - s) |-> o[Len(o) + 1 - i]]
Distinct(o) == \A i, k \in 1..Len(o) : o[i] = o[k] => i = k

(* The links lead through what was taken, first in, first out.             *)
LEMMA TakenIsLinked ==
    ASSUME NEW o \in Seq(Nodes), NEW s \in 0..Len(o), NEW first, NEW head,
           IsList(o, s, first, head, m_next), Distinct(o)
    PROVE  LinkedFrom(first, Taken(o, s))
<1> DEFINE c == Taken(o, s)
<1>1. s \in Nat /\ Len(o) \in Nat /\ s <= Len(o)
  OBVIOUS
<1>2. \A i \in 1..s : i \in 1..Len(o) /\ o[i] \in Nodes
  BY <1>1
<1>3. c \in Seq(Nodes) /\ Len(c) = s /\ \A i \in 1..s : c[i] = o[i]
  BY <1>1, <1>2 DEF Taken
<1> HIDE DEF c
<1>4. \A i, k \in 1..Len(c) : c[i] = c[k] => i = k
  BY <1>2, <1>3 DEF Distinct
<1>5. first = IF Len(c) = 0 THEN Null ELSE c[1]
  BY <1>1, <1>3 DEF IsList
<1>6. ASSUME NEW i \in 1..Len(c) PROVE m_next[c[i]] = IF i = Len(c) THEN Null ELSE c[i + 1]
  <2>1. i \in 1..Len(o) /\ i <= s /\ c[i] = o[i]
    BY <1>1, <1>2, <1>3
  <2>2. m_next[o[i]] = IF i = s THEN Null ELSE o[i + 1]
    BY <2>1 DEF IsList
  <2> QED BY <1>1, <1>3, <2>1, <2>2
<1>7. LinkedFrom(first, c)
  BY <1>3, <1>4, <1>5, <1>6 DEF LinkedFrom
<1> QED BY <1>7 DEF c

(* The links lead through what is listed, last in, first out.              *)
LEMMA ListedIsLinked ==
    ASSUME NEW o \in Seq(Nodes), NEW s \in 0..Len(o), NEW first, NEW head,
           IsList(o, s, first, head, m_next), Distinct(o)
    PROVE  LinkedFrom(head, Listed(o, s))
<1> DEFINE c == Listed(o, s)
<1>1. s \in Nat /\ Len(o) \in Nat /\ s <= Len(o)
  OBVIOUS
<1>2. \A i \in 1..(Len(o) - s) : Len(o) + 1 - i \in 1..Len(o) /\ o[Len(o) + 1 - i] \in Nodes
  BY <1>1
<1>3. c \in Seq(Nodes) /\ Len(c) = Len(o) - s /\ \A i \in 1..(Len(o) - s) : c[i] = o[Len(o) + 1 - i]
  BY <1>1, <1>2 DEF Listed
<1> HIDE DEF c
<1>4. ASSUME NEW i \in 1..Len(c), NEW k \in 1..Len(c), c[i] = c[k] PROVE i = k
  <2>1. o[Len(o) + 1 - i] = o[Len(o) + 1 - k]
    BY <1>3, <1>4
  <2>2. Len(o) + 1 - i = Len(o) + 1 - k
    BY <1>2, <1>3, <2>1, Zenon DEF Distinct
  <2> QED BY <1>1, <2>2
<1>5. head = IF Len(c) = 0 THEN Null ELSE c[1]
  <2>1. CASE s = Len(o)
    BY <1>1, <1>3, <2>1 DEF IsList
  <2>2. CASE s # Len(o)
    <3>1. 1 \in 1..(Len(o) - s) /\ Len(o) + 1 - 1 = Len(o) /\ Len(c) # 0
      BY <1>1, <1>3, <2>2
    <3>2. c[1] = o[Len(o)]
      BY <1>3, <3>1
    <3> QED BY <3>1, <3>2, <2>2, Zenon DEF IsList
  <2> QED BY <2>1, <2>2
<1>6. ASSUME NEW i \in 1..Len(c) PROVE m_next[c[i]] = IF i = Len(c) THEN Null ELSE c[i + 1]
  <2> DEFINE k == Len(o) + 1 - i
  <2>0. i \in Int /\ 1 <= i /\ i <= Len(o) - s
    BY <1>1, <1>3
  <2>1. k \in 1..Len(o) /\ k > s /\ c[i] = o[k] /\ (k = s + 1 <=> i = Len(c))
    <3>1. k \in 1..Len(o) /\ k > s /\ (k = s + 1 <=> i = Len(o) - s)
      BY <1>1, <2>0
    <3>2. c[i] = o[k]
      BY <1>3, <2>0
    <3> QED BY <3>1, <3>2, <1>3
  <2> HIDE DEF k
  <2>2. m_next[o[k]] = IF k = s + 1 THEN Null ELSE o[k - 1]
    BY <2>1, <1>1 DEF IsList
  <2>3. i # Len(c) => c[i + 1] = o[k - 1]
    <3>1. i # Len(o) - s => i + 1 \in 1..(Len(o) - s) /\ Len(o) + 1 - (i + 1) = k - 1
      BY <1>1, <2>0 DEF k
    <3> QED BY <1>3, <3>1
  <2> QED BY <2>1, <2>2, <2>3
<1>7. LinkedFrom(head, c)
  BY <1>3, <1>4, <1>5, <1>6 DEF LinkedFrom
<1> QED BY <1>7 DEF c

(* try_pop_all() turns the listed nodes round and leaves the others alone. *)
LEMMA ListPop ==
    ASSUME m_next \in [Nodes -> Links], NEW o \in Seq(Nodes), NEW head,
           IsList(o, 0, Null, head, m_next), Distinct(o)
    PROVE  /\ Reversed(head).first = IF Len(o) = 0 THEN Null ELSE o[1]
           /\ Reversed(head).nodes \in [Nodes -> Links]
           /\ IsList(o, Len(o), Reversed(head).first, Null, Reversed(head).nodes)
           /\ \A n \in Nodes : (\A i \in 1..Len(o) : o[i] # n) => Reversed(head).nodes[n] = m_next[n]
<1> DEFINE c == Listed(o, 0)
           L == Len(o)
<1>0. 0 \in 0..L /\ L \in Nat
  OBVIOUS
<1>1. LinkedFrom(head, c)
  BY <1>0, ListedIsLinked
<1>2. Chain(head) = c
  BY <1>1, ChainIs
<1>3. /\ c \in Seq(Nodes) /\ Len(c) = L /\ DOMAIN c = 1..L
      /\ \A i \in 1..L : c[i] = o[L + 1 - i] /\ L + 1 - i \in 1..L
      /\ \A i \in 1..L : o[i] = c[L + 1 - i]
  <2>1. \A i \in 1..(L - 0) : L + 1 - i \in 1..L /\ o[L + 1 - i] \in Nodes
    BY <1>0
  <2>2. c = [i \in 1..L |-> o[L + 1 - i]]
    BY <1>0 DEF Listed
  <2>3. c \in [1..L -> Nodes]
    BY <2>1, <2>2, <1>0
  <2>4. c \in Seq(Nodes) /\ Len(c) = L
    BY <2>3, <1>0
  <2>5. \A i \in 1..L : o[i] = c[L + 1 - i]
    BY <2>1, <2>2, <1>0
  <2> QED BY <2>1, <2>2, <2>3, <2>4, <2>5, <1>0
<1> HIDE DEF c
<1> DEFINE at(m) == CHOOSE i \in DOMAIN c : c[i] = m
           prev(m) == IF at(m) = 1 THEN Null ELSE c[at(m) - 1]
           nd == [m \in Nodes |-> IF \E i \in DOMAIN c : c[i] = m THEN prev(m) ELSE m_next[m]]
<1>4. Reversed(head).nodes = nd /\ Reversed(head).first = IF c = <<>> THEN Null ELSE c[Len(c)]
  BY <1>2 DEF Reversed
<1>5. ASSUME NEW i \in 1..L PROVE prev(c[i]) = IF i = 1 THEN Null ELSE c[i - 1]
  <2>1. \A k \in DOMAIN c : c[k] = c[i] => k = i
    BY <1>1, <1>3, Zenon DEF LinkedFrom
  <2>2. at(c[i]) = i
    BY <1>3, <2>1
  <2> HIDE DEF at
  <2> QED BY <2>2
<1>6. \A n \in Nodes : (\A i \in 1..L : o[i] # n) => nd[n] = m_next[n]
  BY <1>3
<1>7. ASSUME NEW i \in 1..L PROVE nd[c[i]] = IF i = 1 THEN Null ELSE c[i - 1]
  <2>1. c[i] \in Nodes /\ \E k \in DOMAIN c : c[k] = c[i]
    BY <1>3
  <2>2. nd[c[i]] = prev(c[i])
    <3> HIDE DEF prev
    <3> QED BY <2>1
  <2> QED BY <1>5, <2>2
<1>8. ASSUME NEW n \in Nodes PROVE nd[n] \in Links
  <2>1. CASE \E i \in 1..L : c[i] = n
    <3>1. PICK i \in 1..L : c[i] = n
      BY <2>1
    <3>2. nd[n] = IF i = 1 THEN Null ELSE c[i - 1]
      BY <1>7, <3>1
    <3>3. i # 1 => c[i - 1] \in Nodes
      BY <1>3, <1>0
    <3> QED BY <3>2, <3>3 DEF Links
  <2>2. CASE ~\E i \in 1..L : c[i] = n
    <3>1. nd[n] = m_next[n]
      BY <2>2, <1>3
    <3> QED BY <3>1
  <2> QED BY <2>1, <2>2
<1>t. nd \in [Nodes -> Links]
  <2>1. nd = [m \in Nodes |-> nd[m]]
    OBVIOUS
  <2> HIDE DEF nd
  <2> QED BY <1>8, <2>1
<1> HIDE DEF nd, prev
<1>9. Reversed(head).first = IF L = 0 THEN Null ELSE o[1]
  <2>1. CASE L = 0
    BY <2>1, <1>3, <1>4
  <2>2. CASE L # 0
    <3>1. c # <<>> /\ c[Len(c)] = o[1]
      BY <2>2, <1>3, <1>0
    <3> QED BY <3>1, <2>2, <1>4
  <2> QED BY <2>1, <2>2
<1>10. ASSUME NEW i \in 1..L
       PROVE  nd[o[i]] = IF i = L THEN Null ELSE o[i + 1]
  <2> DEFINE k == L + 1 - i
  <2>0. i \in Int /\ 1 <= i /\ i <= L
    BY <1>0
  <2>1. k \in 1..L /\ o[i] = c[k] /\ (k = 1 <=> i = L)
    <3>1. k \in 1..L /\ (k = 1 <=> i = L)
      BY <1>0, <2>0
    <3>2. o[i] = c[k]
      BY <1>3
    <3> QED BY <3>1, <3>2
  <2>2. i # L => k - 1 \in 1..L /\ L + 1 - (k - 1) = i + 1
    BY <1>0, SMTT(20)
  <2> HIDE DEF k
  <2>3. i # L => c[k - 1] = o[i + 1]
    BY <1>3, <2>2, Zenon
  <2> QED BY <1>7, <2>1, <2>3
<1>11. IsList(o, L, Reversed(head).first, Null, nd)
  BY <1>0, <1>9, <1>10 DEF IsList
<1> QED BY <1>4, <1>6, <1>9, <1>11, <1>t

-----------------------------------------------------------------------------
(* What a step must keep of the nodes in hand, and a step after which the  *)
(* same nodes wait.                                                        *)
FirstTypes == root \in [Workers -> Nodes \union {Null}] /\ next \in [Workers -> Nodes \union {Null}]
SamePending == \A n \in Nodes : Pending(n)' <=> Pending(n)

(* A step that leaves the lists alone.                                     *)
LEMMA SameListsStep ==
    ASSUME ListInv, UNCHANGED <<m_head, m_next, pushing, order>>,
           FirstTypes', \A w \in Workers : First(w)' = First(w)
    PROVE  ListInv' /\ SamePending
<1>1. ListTypes'
  BY DEF ListInv, ListTypes, FirstTypes
<1>2. Lists'
  BY DEF ListInv, Lists
<1>3. /\ \A t, n : Pushed(t, n)' <=> Pushed(t, n)
      /\ \A w, n : Queued(w, n)' <=> Queued(w, n)
  BY DEF Pushed, Queued
<1>4. OnePlace'
  <2>1. OnePlace
    BY DEF ListInv
  <2> QED BY <2>1, <1>3 DEF OnePlace
<1>5. SamePending
  BY <1>3 DEF SamePending, Pending
<1> QED BY <1>1, <1>2, <1>4, <1>5 DEF ListInv

(* push() begins, with a node that waits nowhere.                          *)
LEMMA StartPushStep ==
    ASSUME ListInv, NEW t \in Threads, NEW n \in Nodes, NEW v \in Workers,
           StartPush(t, n, v), pushing[t] = Null, ~Pending(n),
           UNCHANGED <<m_head, m_next, order>>,
           FirstTypes', \A w \in Workers : First(w)' = First(w)
    PROVE  ListInv' /\ \A m \in Nodes : Pending(m)' <=> Pending(m) \/ m = n
<1>0. PICK r : r = [node |-> n, to |-> v, stale_head |-> Garbage]
  OBVIOUS
<1>1. /\ r \in Pushes /\ r # Null /\ r.node = n /\ r.stale_head = Garbage
      /\ pushing' = [pushing EXCEPT ![t] = r]
  <2>1. r \in Pushes
    BY <1>0 DEF Pushes
  <2> QED BY <1>0, <2>1, NullAssumption DEF StartPush
<1>2. pushing'[t] = r /\ \A u \in Threads : u # t => pushing'[u] = pushing[u]
  BY <1>1 DEF ListInv, ListTypes
<1>3. ListTypes'
  BY <1>1 DEF ListInv, ListTypes, FirstTypes
<1>4. Lists'
  BY DEF ListInv, Lists
<1>5. /\ \A u \in Threads, m \in Nodes : Pushed(u, m)' <=> Pushed(u, m) \/ (u = t /\ m = n)
      /\ \A w, m : Queued(w, m)' <=> Queued(w, m)
  BY <1>1, <1>2 DEF Pushed, Queued
<1>6. OnePlace'
  <2>1. \A u, x \in Threads : \A m \in Nodes : Pushed(u, m)' /\ Pushed(x, m)' => u = x
    BY <1>5 DEF ListInv, OnePlace, Pending
  <2>2. \A u \in Threads : \A w \in Workers : \A m \in Nodes : ~(Pushed(u, m)' /\ Queued(w, m)')
    BY <1>5 DEF ListInv, OnePlace, Pending
  <2>3. ASSUME NEW u \in Threads, pushing'[u] # Null, pushing'[u].stale_head # Garbage
        PROVE  m_next'[pushing'[u].node] = pushing'[u].stale_head
    <3>1. u # t
      BY <1>1, <1>2, <2>3
    <3> QED BY <3>1, <1>2, <2>3 DEF ListInv, OnePlace
  <2>4. \A w, x \in Workers : \A i \in 1..Len(order'[w]), k \in 1..Len(order'[x]) :
         order'[w][i] = order'[x][k] => w = x /\ i = k
    BY DEF ListInv, OnePlace
  <2> QED BY <2>1, <2>2, <2>3, <2>4 DEF OnePlace
<1>7. \A m \in Nodes : Pending(m)' <=> Pending(m) \/ m = n
  BY <1>5 DEF Pending
<1> QED BY <1>3, <1>4, <1>6, <1>7 DEF ListInv

(* push() reads the head and links its node to it.                         *)
LEMMA LinkStep ==
    ASSUME ListInv, NEW t \in Threads, Link(t)
    PROVE  ListInv' /\ SamePending
<1>l. /\ m_head \in [Workers -> Nodes \union {Null}] /\ m_next \in [Nodes -> Links]
      /\ pushing \in [Threads -> Pushes \union {Null}] /\ order \in [Workers -> Seq(Nodes)]
  BY DEF ListInv, ListTypes
<1>0. PICK p, h : p = pushing[t] /\ h = m_head[pushing[t].to]
  OBVIOUS
<1>1. /\ p # Null /\ p \in Pushes /\ p.node \in Nodes /\ p.to \in Workers
      /\ h \in Nodes \union {Null} /\ h \in Links
  BY <1>0, <1>l DEF Link, Pushes, Links
<1>2. PICK r : r = [p EXCEPT !.stale_head = h]
  OBVIOUS
<1>3. r \in Pushes /\ r.node = p.node /\ r.to = p.to /\ r.stale_head = h /\ r # Null
  BY <1>1, <1>2, NullAssumption DEF Pushes, Links
<1>4. /\ pushing' = [pushing EXCEPT ![t] = r]
      /\ m_next' = [m_next EXCEPT ![p.node] = h]
      /\ UNCHANGED <<m_head, order, wpc, root, next>>
  BY <1>0, <1>2, <1>l, Zenon DEF Link, workerVars
<1>5. pushing'[t] = r /\ \A u \in Threads : u # t => pushing'[u] = pushing[u]
  BY <1>4, <1>l
<1>6. ListTypes'
  BY <1>1, <1>3, <1>4 DEF ListInv, ListTypes, Links
<1>7. /\ \A u \in Threads, m \in Nodes : Pushed(u, m)' <=> Pushed(u, m)
      /\ \A w, m : Queued(w, m)' <=> Queued(w, m)
  BY <1>0, <1>1, <1>3, <1>4, <1>5 DEF Pushed, Queued
<1>8. \A w \in Workers : \A i \in 1..Len(order[w]) :
        order[w][i] \in Nodes /\ order[w][i] # p.node
  <2>1. Pushed(t, p.node)
    BY <1>0, <1>1 DEF Pushed
  <2>2. ASSUME NEW w \in Workers, NEW i \in 1..Len(order[w])
        PROVE  order[w][i] \in Nodes /\ Queued(w, order[w][i])
    BY <1>l DEF Queued
  <2> QED BY <2>1, <2>2, <1>1 DEF ListInv, OnePlace
<1>9. Lists'
  <2> SUFFICES ASSUME NEW w \in Workers
               PROVE  \E s \in 0..Len(order'[w]) : IsList(order'[w], s, First(w)', m_head'[w], m_next')
    BY DEF Lists
  <2>1. PICK s \in 0..Len(order[w]) : IsList(order[w], s, First(w), m_head[w], m_next)
    BY DEF ListInv, Lists
  <2>2. \A i \in 1..Len(order[w]) : m_next'[order[w][i]] = m_next[order[w][i]]
    BY <1>4, <1>8, <1>l
  <2>3. IsList(order[w], s, First(w), m_head[w], m_next')
    BY <2>1, <2>2, ListAgrees
  <2>4. First(w)' = First(w)
    BY <1>4 DEF First
  <2> QED BY <1>4, <2>3, <2>4
<1>10. OnePlace'
  <2>1. \A u, x \in Threads : \A m \in Nodes : Pushed(u, m)' /\ Pushed(x, m)' => u = x
    BY <1>7 DEF ListInv, OnePlace
  <2>2. \A u \in Threads : \A w \in Workers : \A m \in Nodes : ~(Pushed(u, m)' /\ Queued(w, m)')
    BY <1>7 DEF ListInv, OnePlace
  <2>3. ASSUME NEW u \in Threads, pushing'[u] # Null, pushing'[u].stale_head # Garbage
        PROVE  m_next'[pushing'[u].node] = pushing'[u].stale_head
    <3>1. CASE u = t
      BY <3>1, <1>1, <1>3, <1>4, <1>5, <1>l
    <3>2. CASE u # t
      <4>1. pushing'[u] = pushing[u] /\ pushing[u].node \in Nodes
        BY <3>2, <1>5, <2>3, <1>l DEF Pushes
      <4>2. pushing[u].node # p.node
        <5>1. Pushed(u, pushing[u].node) /\ Pushed(t, p.node)
          BY <4>1, <2>3, <1>0, <1>1 DEF Pushed
        <5> QED BY <5>1, <4>1, <3>2 DEF ListInv, OnePlace
      <4>3. m_next[pushing[u].node] = pushing[u].stale_head
        BY <4>1, <2>3 DEF ListInv, OnePlace
      <4> QED BY <4>1, <4>2, <4>3, <1>4, <1>l
    <3> QED BY <3>1, <3>2
  <2>4. \A w, x \in Workers : \A i \in 1..Len(order'[w]), k \in 1..Len(order'[x]) :
         order'[w][i] = order'[x][k] => w = x /\ i = k
    BY <1>4 DEF ListInv, OnePlace
  <2> QED BY <2>1, <2>2, <2>3, <2>4 DEF OnePlace
<1>11. SamePending
  BY <1>7 DEF SamePending, Pending
<1> QED BY <1>6, <1>9, <1>10, <1>11 DEF ListInv

(* The compare-exchange succeeds: the node goes from the push to the       *)
(* queue.                                                                  *)
LEMMA ExchangeStep ==
    ASSUME ListInv, NEW t \in Threads, Exchange(t), m_next' = m_next,
           FirstTypes', \A w \in Workers : First(w)' = First(w)
    PROVE  /\ ListInv' /\ SamePending
           /\ pushing' = [pushing EXCEPT ![t] = Null] /\ pushing[t] # Null
           /\ pushing[t].to \in Workers
           /\ \A w \in Workers : w # pushing[t].to => order'[w] = order[w]
<1>l. /\ m_head \in [Workers -> Nodes \union {Null}] /\ m_next \in [Nodes -> Links]
      /\ pushing \in [Threads -> Pushes \union {Null}] /\ order \in [Workers -> Seq(Nodes)]
  BY DEF ListInv, ListTypes
<1>0. PICK p, n, v : p = pushing[t] /\ n = p.node /\ v = p.to
  OBVIOUS
<1>1. /\ p # Null /\ p \in Pushes /\ n \in Nodes /\ v \in Workers
      /\ p.stale_head = m_head[v]
  BY <1>0, <1>l DEF Exchange, Pushes
<1>2. /\ m_head' = [m_head EXCEPT ![v] = n]
      /\ order' = [order EXCEPT ![v] = Append(order[v], n)]
      /\ pushing' = [pushing EXCEPT ![t] = Null]
  BY <1>0, <1>l, Zenon DEF Exchange
<1>3. m_head[v] # Garbage /\ m_next[n] = m_head[v]
  <2>1. m_head[v] # Garbage
    BY <1>l, <1>1, NullAssumption
  <2> QED BY <2>1, <1>0, <1>1 DEF ListInv, OnePlace
<1>4. PICK q : q = Append(order[v], n)
  OBVIOUS
<1>5. /\ order[v] \in Seq(Nodes) /\ q \in Seq(Nodes) /\ Len(q) = Len(order[v]) + 1
      /\ Len(order[v]) \in Nat
      /\ q[Len(order[v]) + 1] = n /\ \A i \in 1..Len(order[v]) : q[i] = order[v][i]
  <2>1. order[v] \in Seq(Nodes)
    BY <1>1, <1>l
  <2> QED BY <2>1, <1>1, <1>4
<1>6. /\ order'[v] = q /\ \A w \in Workers : w # v => order'[w] = order[w]
      /\ m_head'[v] = n /\ \A w \in Workers : w # v => m_head'[w] = m_head[w]
      /\ pushing'[t] = Null /\ \A u \in Threads : u # t => pushing'[u] = pushing[u]
  BY <1>1, <1>2, <1>4, <1>l
<1>7. ListTypes'
  BY <1>1, <1>2, <1>4, <1>5 DEF ListInv, ListTypes, FirstTypes
<1>8. \A w \in Workers : \A i \in 1..Len(order[w]) : order[w][i] # n
  <2>1. Pushed(t, n)
    BY <1>0, <1>1 DEF Pushed
  <2>2. ASSUME NEW w \in Workers, NEW i \in 1..Len(order[w]) PROVE Queued(w, order[w][i])
    BY DEF Queued
  <2> QED BY <2>1, <2>2, <1>1 DEF ListInv, OnePlace
<1>9. Lists'
  <2> SUFFICES ASSUME NEW w \in Workers
               PROVE  \E s \in 0..Len(order'[w]) : IsList(order'[w], s, First(w)', m_head'[w], m_next')
    BY DEF Lists
  <2>1. PICK s \in 0..Len(order[w]) : IsList(order[w], s, First(w), m_head[w], m_next)
    BY DEF ListInv, Lists
  <2>2. CASE w # v
    BY <2>1, <2>2, <1>6
  <2>3. CASE w = v
    <3>1. s \in 0..Len(q) /\ IsList(q, s, First(w), n, m_next)
      BY <2>1, <2>3, <1>1, <1>3, <1>4, <1>5, ListPush
    <3> QED BY <3>1, <2>3, <1>6
  <2> QED BY <2>2, <2>3
<1>10. /\ \A u \in Threads, m \in Nodes : Pushed(u, m)' <=> Pushed(u, m) /\ u # t
       /\ \A w \in Workers, m \in Nodes : Queued(w, m)' <=> Queued(w, m) \/ (w = v /\ m = n)
  <2>1. \A u \in Threads, m \in Nodes : Pushed(u, m)' <=> Pushed(u, m) /\ u # t
    BY <1>6 DEF Pushed
  <2>2. ASSUME NEW w \in Workers, NEW m \in Nodes
        PROVE  Queued(w, m)' <=> Queued(w, m) \/ (w = v /\ m = n)
    <3>1. CASE w # v
      BY <3>1, <1>6 DEF Queued
    <3>2. CASE w = v
      <4>1. Queued(w, m)' <=> \E i \in 1..(Len(order[v]) + 1) : q[i] = m
        BY <3>2, <1>5, <1>6 DEF Queued
      <4>2. (\E i \in 1..(Len(order[v]) + 1) : q[i] = m) <=> (Queued(v, m) \/ m = n)
        <5>1. 1..(Len(order[v]) + 1) = 1..Len(order[v]) \union {Len(order[v]) + 1}
          BY <1>5
        <5> QED BY <5>1, <1>5 DEF Queued
      <4> QED BY <4>1, <4>2, <3>2
    <3> QED BY <3>1, <3>2
  <2> QED BY <2>1, <2>2
<1>p. \A u \in Threads : u # t => ~Pushed(u, n)
  <2>1. Pushed(t, n)
    BY <1>0, <1>1 DEF Pushed
  <2> QED BY <2>1, <1>1 DEF ListInv, OnePlace
<1>11. OnePlace'
  <2>1. \A u, x \in Threads : \A m \in Nodes : Pushed(u, m)' /\ Pushed(x, m)' => u = x
    BY <1>10 DEF ListInv, OnePlace
  <2>2. \A u \in Threads : \A w \in Workers : \A m \in Nodes : ~(Pushed(u, m)' /\ Queued(w, m)')
    BY <1>10, <1>p DEF ListInv, OnePlace
  <2>3. ASSUME NEW u \in Threads, pushing'[u] # Null, pushing'[u].stale_head # Garbage
        PROVE  m_next'[pushing'[u].node] = pushing'[u].stale_head
    <3>1. u # t /\ pushing'[u] = pushing[u]
      BY <1>6, <2>3
    <3> QED BY <3>1, <2>3 DEF ListInv, OnePlace
  <2>4. ASSUME NEW w \in Workers, NEW x \in Workers,
               NEW i \in 1..Len(order'[w]), NEW k \in 1..Len(order'[x]), order'[w][i] = order'[x][k]
        PROVE  w = x /\ i = k
    <3> DEFINE Old(y, a) == a \in 1..Len(order[y]) /\ order'[y][a] = order[y][a]
               New(y, a) == y = v /\ a = Len(order[v]) + 1 /\ order'[y][a] = n
    <3>1. ASSUME NEW y \in Workers, NEW a \in 1..Len(order'[y]) PROVE Old(y, a) \/ New(y, a)
      <4>1. CASE y # v
        BY <4>1, <1>6
      <4>2. CASE y = v
        BY <4>2, <1>5, <1>6
      <4> QED BY <4>1, <4>2
    <3>2. CASE Old(w, i) /\ Old(x, k)
      <4>1. \A y, z \in Workers : \A a \in 1..Len(order[y]), b \in 1..Len(order[z]) :
               order[y][a] = order[z][b] => y = z /\ a = b
        BY DEF ListInv, OnePlace
      <4>2. order[w][i] = order[x][k] /\ i \in 1..Len(order[w]) /\ k \in 1..Len(order[x])
        BY <3>2, <2>4
      <4> QED BY <4>1, <4>2
    <3>3. CASE Old(w, i) /\ New(x, k)
      BY <3>3, <2>4, <1>8
    <3>4. CASE New(w, i) /\ Old(x, k)
      BY <3>4, <2>4, <1>8
    <3>5. CASE New(w, i) /\ New(x, k)
      BY <3>5
    <3>6. (Old(w, i) \/ New(w, i)) /\ (Old(x, k) \/ New(x, k))
      BY <3>1
    <3> HIDE DEF Old, New
    <3> QED BY <3>2, <3>3, <3>4, <3>5, <3>6
  <2> QED BY <2>1, <2>2, <2>3, <2>4 DEF OnePlace
<1>12. SamePending
  <2> SUFFICES ASSUME NEW m \in Nodes PROVE Pending(m)' <=> Pending(m)
    BY DEF SamePending
  <2>1. Pushed(t, m) <=> m = n
    BY <1>0, <1>1 DEF Pushed
  <2>2. Pending(m)' <=> (\E u \in Threads : Pushed(u, m) /\ u # t) \/ (\E w \in Workers : Queued(w, m)) \/ m = n
    BY <1>10, <1>1 DEF Pending
  <2> QED BY <2>1, <2>2 DEF Pending
<1> QED BY <1>0, <1>1, <1>2, <1>6, <1>7, <1>9, <1>11, <1>12 DEF ListInv

(* The memory of a node that waits nowhere is freed.                       *)
LEMMA GarbageStep ==
    ASSUME ListInv, NEW n \in Nodes, ~Pending(n),
           m_next' = m_next \/ m_next' = [m_next EXCEPT ![n] = Garbage],
           UNCHANGED <<m_head, pushing, order>>,
           FirstTypes', \A w \in Workers : First(w)' = First(w)
    PROVE  ListInv' /\ SamePending
<1>l. /\ m_next \in [Nodes -> Links]
      /\ pushing \in [Threads -> Pushes \union {Null}] /\ order \in [Workers -> Seq(Nodes)]
  BY DEF ListInv, ListTypes
<1>1. m_next' \in [Nodes -> Links] /\ \A m \in Nodes : m # n => m_next'[m] = m_next[m]
  BY <1>l DEF Links
<1>2. ListTypes'
  BY <1>1 DEF ListInv, ListTypes, FirstTypes
<1>3. \A w \in Workers : \A i \in 1..Len(order[w]) :
        order[w][i] \in Nodes /\ order[w][i] # n
  BY <1>l DEF Pending, Queued
<1>4. Lists'
  <2> SUFFICES ASSUME NEW w \in Workers
               PROVE  \E s \in 0..Len(order'[w]) : IsList(order'[w], s, First(w)', m_head'[w], m_next')
    BY DEF Lists
  <2>1. PICK s \in 0..Len(order[w]) : IsList(order[w], s, First(w), m_head[w], m_next)
    BY DEF ListInv, Lists
  <2>2. \A i \in 1..Len(order[w]) : m_next'[order[w][i]] = m_next[order[w][i]]
    BY <1>1, <1>3
  <2>3. IsList(order[w], s, First(w), m_head[w], m_next')
    BY <2>1, <2>2, ListAgrees
  <2> QED BY <2>3
<1>5. /\ \A t, m : Pushed(t, m)' <=> Pushed(t, m)
      /\ \A w, m : Queued(w, m)' <=> Queued(w, m)
  BY DEF Pushed, Queued
<1>6. OnePlace'
  <2>1. \A u, x \in Threads : \A m \in Nodes : Pushed(u, m)' /\ Pushed(x, m)' => u = x
    BY <1>5 DEF ListInv, OnePlace
  <2>2. \A u \in Threads : \A w \in Workers : \A m \in Nodes : ~(Pushed(u, m)' /\ Queued(w, m)')
    BY <1>5 DEF ListInv, OnePlace
  <2>3. ASSUME NEW u \in Threads, pushing'[u] # Null, pushing'[u].stale_head # Garbage
        PROVE  m_next'[pushing'[u].node] = pushing'[u].stale_head
    <3>1. pushing[u].node \in Nodes /\ pushing[u].node # n
      BY <2>3, <1>l DEF Pushes, Pending, Pushed
    <3> QED BY <3>1, <1>1, <2>3 DEF ListInv, OnePlace
  <2>4. \A w, x \in Workers : \A i \in 1..Len(order'[w]), k \in 1..Len(order'[x]) :
         order'[w][i] = order'[x][k] => w = x /\ i = k
    BY DEF ListInv, OnePlace
  <2> QED BY <2>1, <2>2, <2>3, <2>4 DEF OnePlace
<1>7. SamePending
  BY <1>5 DEF SamePending, Pending
<1> QED BY <1>2, <1>4, <1>6, <1>7 DEF ListInv

(* The worker pops its list.                                               *)
LEMMA PopAllStep ==
    ASSUME ListInv, NEW w \in Workers, First(w) = Null,
           m_next' = Reversed(m_head[w]).nodes,
           m_head' = [m_head EXCEPT ![w] = Null],
           UNCHANGED <<pushing, order>>,
           FirstTypes', First(w)' = Reversed(m_head[w]).first,
           \A v \in Workers : v # w => First(v)' = First(v)
    PROVE  /\ ListInv' /\ SamePending
           /\ Reversed(m_head[w]).first = IF Len(order[w]) = 0 THEN Null ELSE order[w][1]
<1>l. /\ m_head \in [Workers -> Nodes \union {Null}] /\ m_next \in [Nodes -> Links]
      /\ pushing \in [Threads -> Pushes \union {Null}] /\ order \in [Workers -> Seq(Nodes)]
  BY DEF ListInv, ListTypes
<1>o. \A v, x \in Workers : \A i \in 1..Len(order[v]), k \in 1..Len(order[x]) :
         order[v][i] = order[x][k] => v = x /\ i = k
  BY DEF ListInv, OnePlace
<1>0. PICK o, hd : o = order[w] /\ hd = m_head[w]
  OBVIOUS
<1>1. o \in Seq(Nodes) /\ Distinct(o) /\ Len(o) \in Nat
  BY <1>0, <1>l, <1>o DEF Distinct
<1>2. IsList(o, 0, Null, hd, m_next)
  <2>1. PICK s \in 0..Len(o) : IsList(o, s, Null, hd, m_next)
    BY <1>0 DEF ListInv, Lists
  <2>2. s = 0
    <3>1. s # 0 => o[1] \in Nodes /\ o[1] = Null
      BY <1>1, <2>1 DEF IsList
    <3> QED BY <3>1, NullAssumption
  <2> QED BY <2>1, <2>2
<1>3. /\ Reversed(hd).first = IF Len(o) = 0 THEN Null ELSE o[1]
      /\ m_next' \in [Nodes -> Links]
      /\ IsList(o, Len(o), Reversed(hd).first, Null, m_next')
      /\ \A n \in Nodes : (\A i \in 1..Len(o) : o[i] # n) => m_next'[n] = m_next[n]
  BY <1>0, <1>1, <1>2, <1>l, ListPop
<1>4. m_head'[w] = Null /\ \A v \in Workers : v # w => m_head'[v] = m_head[v]
  BY <1>l
<1>5. ListTypes'
  BY <1>3 DEF ListInv, ListTypes, FirstTypes
<1>6. Lists'
  <2> SUFFICES ASSUME NEW v \in Workers
               PROVE  \E s \in 0..Len(order'[v]) : IsList(order'[v], s, First(v)', m_head'[v], m_next')
    BY DEF Lists
  <2>1. CASE v = w
    <3>1. Len(o) \in 0..Len(o)
      BY <1>1
    <3> QED BY <3>1, <1>0, <1>3, <1>4, <2>1
  <2>2. CASE v # w
    <3>1. PICK s \in 0..Len(order[v]) : IsList(order[v], s, First(v), m_head[v], m_next)
      BY DEF ListInv, Lists
    <3>2. ASSUME NEW i \in 1..Len(order[v]) PROVE m_next'[order[v][i]] = m_next[order[v][i]]
      <4>1. order[v][i] \in Nodes
        BY <1>l
      <4>2. \A k \in 1..Len(o) : o[k] # order[v][i]
        BY <1>o, <1>0, <2>2
      <4> QED BY <4>1, <4>2, <1>3
    <3>3. IsList(order[v], s, First(v), m_head[v], m_next')
      BY <3>1, <3>2, ListAgrees
    <3> QED BY <3>3, <2>2, <1>4
  <2> QED BY <2>1, <2>2
<1>7. /\ \A t, m : Pushed(t, m)' <=> Pushed(t, m)
      /\ \A v, m : Queued(v, m)' <=> Queued(v, m)
  BY DEF Pushed, Queued
<1>8. OnePlace'
  <2>1. \A u, x \in Threads : \A m \in Nodes : Pushed(u, m)' /\ Pushed(x, m)' => u = x
    BY <1>7 DEF ListInv, OnePlace
  <2>2. \A u \in Threads : \A v \in Workers : \A m \in Nodes : ~(Pushed(u, m)' /\ Queued(v, m)')
    BY <1>7 DEF ListInv, OnePlace
  <2>3. ASSUME NEW u \in Threads, pushing'[u] # Null, pushing'[u].stale_head # Garbage
        PROVE  m_next'[pushing'[u].node] = pushing'[u].stale_head
    <3>1. pushing[u].node \in Nodes /\ Pushed(u, pushing[u].node)
      BY <2>3, <1>l DEF Pushes, Pushed
    <3>2. \A i \in 1..Len(o) : o[i] # pushing[u].node
      <4>1. ~Queued(w, pushing[u].node)
        BY <3>1 DEF ListInv, OnePlace
      <4> QED BY <4>1, <1>0 DEF Queued
    <3>3. m_next'[pushing[u].node] = m_next[pushing[u].node]
      BY <3>1, <3>2, <1>3
    <3> QED BY <3>3, <2>3 DEF ListInv, OnePlace
  <2>4. \A v, x \in Workers : \A i \in 1..Len(order'[v]), k \in 1..Len(order'[x]) :
         order'[v][i] = order'[x][k] => v = x /\ i = k
    BY <1>o
  <2> QED BY <2>1, <2>2, <2>3, <2>4 DEF OnePlace
<1>9. SamePending
  BY <1>7 DEF SamePending, Pending
<1> QED BY <1>0, <1>3, <1>5, <1>6, <1>8, <1>9 DEF ListInv

(* The worker takes the next node; it waits no longer.                     *)
LEMMA TakeStep ==
    ASSUME ListInv, NEW w \in Workers, wpc[w] = "each", root[w] \in Nodes,
           ForEach(w), FirstTypes', First(w)' = m_next[root[w]],
           \A v \in Workers : v # w => First(v)' = First(v)
    PROVE  /\ ListInv' /\ Pending(root[w])
           /\ \A m \in Nodes : Pending(m)' <=> Pending(m) /\ m # root[w]
           /\ order' = [order EXCEPT ![w] = Tail(order[w])]
<1>l. /\ m_head \in [Workers -> Nodes \union {Null}] /\ m_next \in [Nodes -> Links]
      /\ pushing \in [Threads -> Pushes \union {Null}] /\ order \in [Workers -> Seq(Nodes)]
  BY DEF ListInv, ListTypes
<1>o. \A v, x \in Workers : \A i \in 1..Len(order[v]), k \in 1..Len(order[x]) :
         order[v][i] = order[x][k] => v = x /\ i = k
  BY DEF ListInv, OnePlace
<1>0. PICK o, n : o = order[w] /\ n = root[w]
  OBVIOUS
<1>u. /\ UNCHANGED <<m_head, pushing>>
      /\ order' = [order EXCEPT ![w] = Tail(o)]
      /\ m_next' = m_next \/ m_next' = [m_next EXCEPT ![n] = Garbage]
  BY <1>0, Zenon DEF ForEach
<1>1. o \in Seq(Nodes) /\ Distinct(o) /\ Len(o) \in Nat /\ n \in Nodes
  BY <1>0, <1>l, <1>o DEF Distinct
<1>2. PICK s \in 0..Len(o) : IsList(o, s, n, m_head[w], m_next)
  BY <1>0 DEF ListInv, Lists, First
<1>3. s # 0 /\ o[1] = n /\ Len(o) > 0
  <2>1. s # 0
    BY <1>1, <1>2, NullAssumption DEF IsList
  <2> QED BY <2>1, <1>1, <1>2 DEF IsList
<1>4. PICK q : q = Tail(o)
  OBVIOUS
<1>5. /\ q \in Seq(Nodes) /\ Len(q) = Len(o) - 1 /\ \A i \in 1..Len(q) : q[i] = o[i + 1]
      /\ order'[w] = q /\ \A v \in Workers : v # w => order'[v] = order[v]
  <2>1. o # <<>>
    BY <1>1, <1>3
  <2> QED BY <2>1, <1>1, <1>4, <1>u, <1>l
<1>6. m_next' \in [Nodes -> Links] /\ \A m \in Nodes : m # n => m_next'[m] = m_next[m]
  BY <1>l, <1>u DEF Links
<1>7. ListTypes'
  BY <1>5, <1>6, <1>u, <1>4 DEF ListInv, ListTypes, FirstTypes
<1>8. \A v \in Workers : \A i \in 1..Len(order'[v]) : order'[v][i] \in Nodes /\ order'[v][i] # n
  <2> SUFFICES ASSUME NEW v \in Workers, NEW i \in 1..Len(order'[v])
               PROVE  order'[v][i] \in Nodes /\ order'[v][i] # n
    OBVIOUS
  <2>1. CASE v = w
    <3>1. i + 1 \in 1..Len(o) /\ 1 \in 1..Len(o) /\ order'[v][i] = o[i + 1] /\ i + 1 # 1
      BY <2>1, <1>1, <1>3, <1>5
    <3> QED BY <3>1, <1>1, <1>3 DEF Distinct
  <2>2. CASE v # w
    <3>1. order'[v][i] = order[v][i] /\ i \in 1..Len(order[v]) /\ 1 \in 1..Len(order[w])
      BY <2>2, <1>5, <1>1, <1>3, <1>0
    <3> QED BY <3>1, <1>l, <1>o, <1>0, <1>3, <2>2
  <2> QED BY <2>1, <2>2
<1>9. Lists'
  <2> SUFFICES ASSUME NEW v \in Workers
               PROVE  \E x \in 0..Len(order'[v]) : IsList(order'[v], x, First(v)', m_head'[v], m_next')
    BY DEF Lists
  <2>a. \A i \in 1..Len(order'[v]) : m_next'[order'[v][i]] = m_next[order'[v][i]]
    BY <1>6, <1>8
  <2>1. CASE v = w
    <3>1. s - 1 \in 0..Len(q) /\ IsList(q, s - 1, m_next[o[1]], m_head[w], m_next)
      BY <1>1, <1>2, <1>3, <1>4, ListTake
    <3>2. IsList(q, s - 1, m_next[o[1]], m_head[w], m_next')
      BY <3>1, <2>a, <2>1, <1>5, ListAgrees
    <3> QED BY <3>1, <3>2, <1>0, <1>3, <1>5, <1>u, <2>1
  <2>2. CASE v # w
    <3>1. PICK x \in 0..Len(order[v]) : IsList(order[v], x, First(v), m_head[v], m_next)
      BY DEF ListInv, Lists
    <3>2. IsList(order[v], x, First(v), m_head[v], m_next')
      BY <3>1, <2>a, <1>5, <2>2, ListAgrees
    <3> QED BY <3>2, <2>2, <1>5, <1>u
  <2> QED BY <2>1, <2>2
<1>10. ASSUME NEW v \in Workers, NEW m \in Nodes
       PROVE  Queued(v, m)' <=> Queued(v, m) /\ m # n
  <2>1. CASE v # w
    <3>1. ~Queued(v, n)
      <4>1. ASSUME NEW i \in 1..Len(order[v]) PROVE order[v][i] # n
        BY <2>1, <1>8, <1>5
      <4> QED BY <4>1 DEF Queued
    <3> QED BY <3>1, <2>1, <1>5 DEF Queued
  <2>2. CASE v = w
    <3>1. ASSUME NEW i \in 1..Len(q), q[i] = m PROVE Queued(v, m) /\ m # n
      <4>1. i + 1 \in 1..Len(o) /\ o[i + 1] = m
        BY <3>1, <1>5, <1>1
      <4>2. m # n
        BY <3>1, <1>8, <1>5, <2>2
      <4> QED BY <4>1, <4>2, <1>0, <2>2 DEF Queued
    <3>2. ASSUME NEW i \in 1..Len(o), o[i] = m, m # n PROVE \E k \in 1..Len(q) : q[k] = m
      <4>1. i # 1
        BY <3>2, <1>3
      <4>2. i - 1 \in 1..Len(q) /\ (i - 1) + 1 = i
        BY <4>1, <1>5, <1>1
      <4>3. q[i - 1] = m
        BY <4>2, <3>2, <1>5
      <4> QED BY <4>2, <4>3
    <3> QED BY <3>1, <3>2, <2>2, <1>0, <1>5 DEF Queued
  <2> QED BY <2>1, <2>2
<1>q. Queued(w, n) /\ Pending(n)
  <2>1. Queued(w, n)
    <3>1. 1 \in 1..Len(o)
      BY <1>1, <1>3
    <3> QED BY <3>1, <1>0, <1>3 DEF Queued
  <2> QED BY <2>1 DEF Pending
<1>11. \A t, m : Pushed(t, m)' <=> Pushed(t, m)
  BY <1>u DEF Pushed
<1>p. \A t \in Threads : ~Pushed(t, n)
  BY <1>q, <1>1 DEF ListInv, OnePlace
<1>12. OnePlace'
  <2>1. \A u, x \in Threads : \A m \in Nodes : Pushed(u, m)' /\ Pushed(x, m)' => u = x
    BY <1>11 DEF ListInv, OnePlace
  <2>2. \A u \in Threads : \A v \in Workers : \A m \in Nodes : ~(Pushed(u, m)' /\ Queued(v, m)')
    BY <1>10, <1>11 DEF ListInv, OnePlace
  <2>3. ASSUME NEW u \in Threads, pushing'[u] # Null, pushing'[u].stale_head # Garbage
        PROVE  m_next'[pushing'[u].node] = pushing'[u].stale_head
    <3>1. pushing'[u] = pushing[u] /\ pushing[u].node \in Nodes /\ pushing[u].node # n
      BY <2>3, <1>l, <1>u, <1>p DEF Pushes, Pushed
    <3>2. m_next'[pushing[u].node] = m_next[pushing[u].node]
      BY <3>1, <1>6
    <3> QED BY <3>1, <3>2, <2>3 DEF ListInv, OnePlace
  <2>4. ASSUME NEW v \in Workers, NEW x \in Workers,
               NEW i \in 1..Len(order'[v]), NEW k \in 1..Len(order'[x]), order'[v][i] = order'[x][k]
        PROVE  v = x /\ i = k
    <3> DEFINE d(y) == IF y = w THEN 1 ELSE 0
    <3>1. ASSUME NEW y \in Workers, NEW a \in 1..Len(order'[y])
          PROVE  a + d(y) \in 1..Len(order[y]) /\ order'[y][a] = order[y][a + d(y)]
      <4>1. CASE y = w
        BY <4>1, <1>5, <1>1, <1>0
      <4>2. CASE y # w
        BY <4>2, <1>5
      <4> QED BY <4>1, <4>2
    <3>2. order[v][i + d(v)] = order[x][k + d(x)]
      BY <3>1, <2>4
    <3>3. v = x /\ i + d(v) = k + d(x)
      <4> HIDE DEF d
      <4> QED BY <3>1, <3>2, <1>o, SMTT(30)
    <3> QED BY <3>3
  <2> QED BY <2>1, <2>2, <2>3, <2>4 DEF OnePlace
<1>13. \A m \in Nodes : Pending(m)' <=> Pending(m) /\ m # n
  BY <1>10, <1>11, <1>p DEF Pending
<1> QED BY <1>0, <1>7, <1>9, <1>12, <1>13, <1>q, <1>u DEF ListInv

-----------------------------------------------------------------------------
(* The account of a job: p parts, the tokens T that stand for those at     *)
(* workers, the nodes W at which it waits, the holders sh of the shared    *)
(* state, semaphore, status and result, the workers E that end it and      *)
(* those S of them that have not signalled.                                *)
Account(p, T, W, sh, se, st, re, E, S, fresh) ==
    /\ IsFiniteSet(T)
    /\ W # {} => p = 1 /\ T = {}
    /\ \A n, m \in W : n = m
    /\ W = {} => p = Cardinality(T)
    /\ fresh = TRUE => p = 0 /\ sh = {} /\ se = 0 /\ st = "no_wait"
    /\ "coroutine" \in sh <=> p > 0 \/ E # {}
    /\ E # {} => p = 0 /\ re = TRUE /\ \E w : E = {w}
    /\ p > 0 \/ S # {} => se = 0 /\ st = "no_wait"
    /\ st # "no_wait" \/ se = 1 => re = TRUE
    /\ S \subseteq E

(* A part at a worker means that the job runs: it does not wait, is not    *)
(* being ended and has not signalled.                                      *)
LEMMA TokenMeansRunning ==
    ASSUME NEW p \in Nat, NEW T, NEW W, NEW sh, NEW se, NEW st, NEW re, NEW E, NEW S, NEW fresh,
           Account(p, T, W, sh, se, st, re, E, S, fresh), NEW x \in T
    PROVE  /\ W = {} /\ p = Cardinality(T) /\ p > 0 /\ E = {} /\ S = {}
           /\ se = 0 /\ st = "no_wait" /\ ~(fresh = TRUE) /\ "coroutine" \in sh
<1>1. W = {} /\ IsFiniteSet(T) /\ p = Cardinality(T)
  BY DEF Account
<1>2. Cardinality(T) # 0
  BY <1>1, FS_EmptySet
<1>3. p > 0
  BY <1>1, <1>2
<1> QED BY <1>1, <1>3 DEF Account

(* schedule() opens the account: one part, which waits.                    *)
LEMMA AccountSchedule ==
    ASSUME NEW p \in Nat, NEW T, NEW W, NEW sh, NEW se, NEW st, NEW re, NEW E, NEW S, NEW c, NEW n,
           Account(p, T, W, sh, se, st, re, E, S, TRUE)
    PROVE  Account(1, T, W \union {n}, {c, "coroutine"}, se, st, re, E, S, FALSE)
<1>1. p = 0 /\ sh = {} /\ se = 0 /\ st = "no_wait" /\ W = {} /\ IsFiniteSet(T) /\ p = Cardinality(T)
  BY DEF Account
<1>2. T = {}
  BY <1>1, FS_EmptySet
<1>3. E = {} /\ S = {}
  BY <1>1 DEF Account
<1> QED BY <1>1, <1>2, <1>3 DEF Account

(* A waiting part is resumed.                                              *)
LEMMA AccountResume ==
    ASSUME NEW p \in Nat, NEW T, NEW W, NEW sh, NEW se, NEW st, NEW re, NEW E, NEW S, NEW fresh,
           Account(p, T, W, sh, se, st, re, E, S, fresh), NEW n \in W, NEW x
    PROVE  Account(p, T \union {x}, W \ {n}, sh, se, st, re, E, S, fresh)
<1>1. p = 1 /\ T = {} /\ W \ {n} = {}
  BY DEF Account
<1>2. PICK U : U = T \union {x}
  OBVIOUS
<1>3. U = {x} /\ IsFiniteSet(U) /\ Cardinality(U) = 1
  <2>1. U = {x}
    BY <1>1, <1>2
  <2>2. IsFiniteSet({x}) /\ Cardinality({x}) = 1
    BY FS_Singleton
  <2> QED BY <2>1, <2>2
<1>4. E = {} /\ S = {} /\ se = 0 /\ st = "no_wait" /\ ~(fresh = TRUE) /\ "coroutine" \in sh
  BY <1>1 DEF Account
<1> QED BY <1>1, <1>2, <1>3, <1>4 DEF Account

(* A part splits.                                                          *)
LEMMA AccountFork ==
    ASSUME NEW p \in Nat, NEW T, NEW W, NEW sh, NEW se, NEW st, NEW re, NEW E, NEW S, NEW fresh,
           Account(p, T, W, sh, se, st, re, E, S, fresh), NEW x \in T, NEW y, y \notin T
    PROVE  Account(p + 1, T \union {y}, W, sh, se, st, re, E, S, fresh)
<1>1. /\ W = {} /\ p = Cardinality(T) /\ p > 0 /\ E = {} /\ S = {}
      /\ se = 0 /\ st = "no_wait" /\ ~(fresh = TRUE) /\ "coroutine" \in sh
  BY TokenMeansRunning
<1>2. IsFiniteSet(T)
  BY DEF Account
<1>3. PICK U : U = T \union {y}
  OBVIOUS
<1>4. IsFiniteSet(U) /\ Cardinality(U) = p + 1
  BY <1>1, <1>2, <1>3, FS_AddElement
<1>5. p + 1 > 0
  OBVIOUS
<1> QED BY <1>1, <1>3, <1>4, <1>5 DEF Account

(* A part changes hands.                                                   *)
LEMMA AccountSteal ==
    ASSUME NEW p \in Nat, NEW T, NEW W, NEW sh, NEW se, NEW st, NEW re, NEW E, NEW S, NEW fresh,
           Account(p, T, W, sh, se, st, re, E, S, fresh), NEW x \in T, NEW y, y \notin T
    PROVE  Account(p, (T \ {x}) \union {y}, W, sh, se, st, re, E, S, fresh)
<1>1. /\ W = {} /\ p = Cardinality(T) /\ p > 0 /\ E = {} /\ S = {}
      /\ se = 0 /\ st = "no_wait" /\ ~(fresh = TRUE) /\ "coroutine" \in sh
  BY TokenMeansRunning
<1>2. IsFiniteSet(T)
  BY DEF Account
<1>3. PICK V : V = T \ {x}
  OBVIOUS
<1>4. IsFiniteSet(V) /\ Cardinality(V) = p - 1 /\ y \notin V
  BY <1>1, <1>2, <1>3, FS_RemoveElement
<1>5. PICK U : U = V \union {y}
  OBVIOUS
<1>6. IsFiniteSet(U) /\ Cardinality(U) = p
  <2>1. IsFiniteSet(U) /\ Cardinality(U) = Cardinality(V) + 1
    BY <1>4, <1>5, FS_AddElement
  <2> QED BY <2>1, <1>4
<1> QED BY <1>1, <1>3, <1>5, <1>6 DEF Account

(* A part that is not the last ends.                                       *)
LEMMA AccountPartEnds ==
    ASSUME NEW p \in Nat, NEW T, NEW W, NEW sh, NEW se, NEW st, NEW re, NEW E, NEW S, NEW fresh,
           Account(p, T, W, sh, se, st, re, E, S, fresh), NEW x \in T, p > 1
    PROVE  Account(p - 1, T \ {x}, W, sh, se, st, re, E, S, fresh)
<1>1. /\ W = {} /\ p = Cardinality(T) /\ p > 0 /\ E = {} /\ S = {}
      /\ se = 0 /\ st = "no_wait" /\ ~(fresh = TRUE) /\ "coroutine" \in sh
  BY TokenMeansRunning
<1>2. IsFiniteSet(T)
  BY DEF Account
<1>3. PICK V : V = T \ {x}
  OBVIOUS
<1>4. IsFiniteSet(V) /\ Cardinality(V) = p - 1 /\ p - 1 > 0
  BY <1>1, <1>2, <1>3, FS_RemoveElement
<1> QED BY <1>1, <1>3, <1>4 DEF Account

(* Two parts are more than one, and nothing is left of one.                *)
LEMMA TwoTokens ==
    ASSUME NEW T, IsFiniteSet(T), NEW x \in T, NEW y \in T, x # y
    PROVE  Cardinality(T) > 1
<1>0. Cardinality(T) \in Nat
  BY FS_CardinalityType
<1>1. Cardinality(T) # 0
  BY FS_EmptySet
<1>2. Cardinality(T) # 1
  <2> SUFFICES ASSUME Cardinality(T) = 1 PROVE FALSE
    OBVIOUS
  <2>1. \E z : T = {z}
    BY FS_Singleton
  <2> QED BY <2>1
<1> QED BY <1>0, <1>1, <1>2

(* Nothing is left of a single part once it is taken away.                 *)
LEMMA OneToken ==
    ASSUME NEW T, IsFiniteSet(T), NEW x \in T, Cardinality(T) = 1
    PROVE  T \ {x} = {}
<1>1. \E z : T = {z}
  BY FS_Singleton
<1> QED BY <1>1

(* The only part suspends itself and waits.                                *)
LEMMA AccountSwitch ==
    ASSUME NEW p \in Nat, NEW T, NEW W, NEW sh, NEW se, NEW st, NEW re, NEW E, NEW S, NEW fresh,
           Account(p, T, W, sh, se, st, re, E, S, fresh), NEW x \in T, p = 1, NEW n
    PROVE  Account(p, T \ {x}, W \union {n}, sh, se, st, re, E, S, fresh)
<1>1. /\ W = {} /\ p = Cardinality(T) /\ p > 0 /\ E = {} /\ S = {}
      /\ se = 0 /\ st = "no_wait" /\ ~(fresh = TRUE) /\ "coroutine" \in sh
  BY TokenMeansRunning
<1>2. IsFiniteSet(T)
  BY DEF Account
<1>3. T \ {x} = {}
  BY <1>1, <1>2, OneToken
<1>4. IsFiniteSet({})
  BY FS_EmptySet
<1> QED BY <1>1, <1>3, <1>4 DEF Account

(* The last part ends, and its worker ends the job.                        *)
LEMMA AccountReturn ==
    ASSUME NEW p \in Nat, NEW T, NEW W, NEW sh, NEW se, NEW st, NEW re, NEW E, NEW S, NEW fresh,
           Account(p, T, W, sh, se, st, re, E, S, fresh), NEW x \in T, p = 1, NEW w
    PROVE  Account(0, T \ {x}, W, sh, se, st, TRUE, E \union {w}, S \union {w}, fresh)
<1>1. /\ W = {} /\ p = Cardinality(T) /\ p > 0 /\ E = {} /\ S = {}
      /\ se = 0 /\ st = "no_wait" /\ ~(fresh = TRUE) /\ "coroutine" \in sh
  BY TokenMeansRunning
<1>2. IsFiniteSet(T)
  BY DEF Account
<1>3. T \ {x} = {}
  BY <1>1, <1>2, OneToken
<1>4. IsFiniteSet({}) /\ Cardinality({}) = 0
  BY FS_EmptySet
<1>5. E \union {w} = {w} /\ S \union {w} = {w}
  BY <1>1
<1> QED BY <1>1, <1>3, <1>4, <1>5 DEF Account

(* The semaphore is released, once.                                        *)
LEMMA AccountSignal ==
    ASSUME NEW p \in Nat, NEW T, NEW W, NEW sh, NEW se, NEW st, NEW re, NEW E, NEW S, NEW fresh,
           Account(p, T, W, sh, se, st, re, E, S, fresh), NEW w \in S
    PROVE  se = 0 /\ Account(p, T, W, sh, se + 1, st, re, E, S \ {w}, fresh)
<1>1. p = 0 /\ re = TRUE /\ E = {w} /\ "coroutine" \in sh
  BY DEF Account
<1>2. se = 0 /\ S \ {w} = {} /\ ~(fresh = TRUE)
  BY <1>1 DEF Account
<1> QED BY <1>1, <1>2 DEF Account

(* The coroutine drops its pointer to the shared state.                    *)
LEMMA AccountDestroy ==
    ASSUME NEW p \in Nat, NEW T, NEW W, NEW sh, NEW se, NEW st, NEW re, NEW E, NEW S, NEW fresh,
           Account(p, T, W, sh, se, st, re, E, S, fresh), NEW w \in E, w \notin S
    PROVE  Account(p, T, W, sh \ {"coroutine"}, se, st, re, E \ {w}, S, fresh)
<1>1. p = 0 /\ re = TRUE /\ E = {w} /\ "coroutine" \in sh /\ S = {}
  BY DEF Account
<1>2. E \ {w} = {} /\ ~(fresh = TRUE)
  BY <1>1 DEF Account
<1> QED BY <1>1, <1>2 DEF Account

(* A future that waits gets past the semaphore after the result is there.  *)
LEMMA AccountAcquire ==
    ASSUME NEW p \in Nat, NEW T, NEW W, NEW sh, NEW se \in 0..1, NEW st, NEW re, NEW E, NEW S, NEW fresh,
           Account(p, T, W, sh, se, st, re, E, S, fresh), NEW st2,
           st = "no_wait" => se = 1
    PROVE  Account(p, T, W, sh, IF st = "no_wait" THEN se - 1 ELSE se, st2, re, E, S, fresh)
<1>1. re = TRUE /\ ~(p > 0) /\ S = {} /\ ~(fresh = TRUE)
  BY DEF Account
<1>2. PICK se2 : se2 = IF st = "no_wait" THEN se - 1 ELSE se
  OBVIOUS
<1>3. Account(p, T, W, sh, se2, st2, re, E, S, fresh)
  BY <1>1 DEF Account
<1> QED BY <1>2, <1>3

(* A future drops its pointer.                                             *)
LEMMA AccountDrop ==
    ASSUME NEW p \in Nat, NEW T, NEW W, NEW sh, NEW se, NEW st, NEW re, NEW E, NEW S, NEW fresh,
           Account(p, T, W, sh, se, st, re, E, S, fresh), NEW c, c # "coroutine"
    PROVE  Account(p, T, W, sh \ {c}, se, st, re, E, S, fresh)
  BY DEF Account

-----------------------------------------------------------------------------
(* The types of the jobs' state and of the futures' state.                 *)
TaskTypes ==
    /\ job \in [Workers -> Jobs \union {Null}]
    /\ parts \in [Jobs -> Nat]
    /\ deque \in [Workers -> Seq(Jobs)]
    /\ made \in [jobs : 0..NumJobs, forks : Nat, switches : Nat]

FutureTypes ==
    /\ cpc \in [Clients -> {"idle", "push", "future"}]
    /\ fut \in [Clients -> Jobs \union {Null}]
    /\ shared \in [Jobs -> SUBSET (Clients \union {"coroutine"})]
    /\ status \in [Jobs -> {"no_wait", "ready", "retrievd"}]
    /\ sem \in [Jobs -> 0..1]
    /\ DOMAIN result = Jobs

(* What the position of a worker says of the rest of its state.            *)
Role(w) ==
    /\ pushing[w] # Null <=> wpc[w] = "switch"
    /\ wpc[w] \in InTask => job[w] \in 1..made.jobs
    /\ wpc[w] \notin InTask => job[w] = Null
    /\ \A i \in 1..Len(deque[w]) : wpc[w] = "run" /\ deque[w][i] = job[w]
    /\ wpc[w] \notin Resumed => next[w] = Null
    /\ wpc[w] = "each" => root[w] \in Nodes

Roles ==
    /\ \A w \in Workers : Role(w)
    /\ \A c \in Clients : pushing[c] # Null <=> cpc[c] = "push"

(* The parts of a job at workers, its waiting nodes, and the workers that  *)
(* end it.                                                                 *)
Tokens(j) ==
    {x \in Workers \X Nat : wpc[x[1]] = "run" /\ job[x[1]] = j /\ x[2] <= Len(deque[x[1]])}
Waiting(j) == {n \in Nodes : n[1] = j /\ Pending(n)}
Enders(j) == {w \in Workers : wpc[w] \in {"signal", "destroy"} /\ job[w] = j}
Signalling(j) == {w \in Workers : wpc[w] = "signal" /\ job[w] = j}

(* Every job's account is in order.                                        *)
JobOK(j) ==
    Account(parts[j], Tokens(j), Waiting(j), shared[j], sem[j], status[j], result[j],
            Enders(j), Signalling(j), j > made.jobs)
JobsOK == \A j \in Jobs : JobOK(j)

(* A worker outside its loop has nothing in its queue.                     *)
Parked == {"init", "stopped", "latch_stop", "gone"}
Drained == \A w \in Workers : wpc[w] \in Parked => order[w] = <<>>

(* The inductive invariant.                                                *)
SubInv == LifeInv /\ ListInv /\ TaskTypes /\ FutureTypes /\ Roles /\ JobsOK /\ Drained

-----------------------------------------------------------------------------
(* A step that does not concern a worker.                                  *)
WorkerSame(v) ==
    /\ wpc'[v] = wpc[v] /\ job'[v] = job[v] /\ deque'[v] = deque[v]
    /\ next'[v] = next[v] /\ root'[v] = root[v] /\ pushing'[v] = pushing[v]

(* Then its role is what it was,                                           *)
LEMMA RoleSame ==
    ASSUME NEW v \in Workers, Role(v), WorkerSame(v), made'.jobs = made.jobs
    PROVE  Role(v)'
  BY DEF Role, WorkerSame

(* and so are all roles if the one worker that moves keeps to its own.     *)
LEMMA RolesStep ==
    ASSUME Roles, NEW w \in Workers, \A v \in Workers : v # w => WorkerSame(v),
           Role(w)', made'.jobs = made.jobs, cpc' = cpc,
           \A c \in Clients : pushing'[c] = pushing[c]
    PROVE  Roles'
  BY RoleSame DEF Roles

(* What a worker has of job j.                                             *)
Has(w, j) == wpc[w] \in InTask /\ job[w] = j
SameWork(v) == wpc'[v] = wpc[v] /\ job'[v] = job[v] /\ deque'[v] = deque[v]

(* The parts and the enders of a job at workers that the step does not     *)
(* concern.                                                                *)
LEMMA SetsSame ==
    ASSUME NEW j, \A v \in Workers : SameWork(v) \/ (~Has(v, j) /\ ~Has(v, j)')
    PROVE  Tokens(j)' = Tokens(j) /\ Enders(j)' = Enders(j) /\ Signalling(j)' = Signalling(j)
<1>1. ASSUME NEW v \in Workers
      PROVE  /\ (wpc'[v] = "run" /\ job'[v] = j) <=> (wpc[v] = "run" /\ job[v] = j)
             /\ (wpc'[v] = "signal" /\ job'[v] = j) <=> (wpc[v] = "signal" /\ job[v] = j)
             /\ (wpc'[v] = "destroy" /\ job'[v] = j) <=> (wpc[v] = "destroy" /\ job[v] = j)
             /\ (wpc[v] = "run" /\ job[v] = j) => deque'[v] = deque[v]
  <2>1. CASE SameWork(v)
    BY <2>1 DEF SameWork
  <2>2. CASE ~Has(v, j) /\ ~Has(v, j)'
    BY <2>2 DEF Has, InTask
  <2> QED BY <2>1, <2>2
<1>2. Tokens(j)' = Tokens(j)
  BY <1>1 DEF Tokens
<1>3. Enders(j)' = Enders(j)
  BY <1>1 DEF Enders
<1>4. Signalling(j)' = Signalling(j)
  BY <1>1 DEF Signalling
<1> QED BY <1>2, <1>3, <1>4

(* The nodes a job waits at after a step of the lists.                     *)
LEMMA WaitingSame ==
    ASSUME SamePending PROVE \A j : Waiting(j)' = Waiting(j)
  BY DEF SamePending, Waiting

(* A job of which nothing changes keeps its account.                       *)
LEMMA JobSame ==
    ASSUME NEW j \in Jobs, JobOK(j),
           Tokens(j)' = Tokens(j), Enders(j)' = Enders(j), Signalling(j)' = Signalling(j),
           Waiting(j)' = Waiting(j), parts'[j] = parts[j], shared'[j] = shared[j],
           sem'[j] = sem[j], status'[j] = status[j], result'[j] = result[j],
           (j > made'.jobs) = (j > made.jobs)
    PROVE  JobOK(j)'
  BY Zenon DEF JobOK

(* A step after which every job is as it was.                              *)
LEMMA JobsSame ==
    ASSUME JobsOK, UNCHANGED <<parts, shared, sem, status, result>>, made'.jobs = made.jobs,
           SamePending, \A v \in Workers, j \in Jobs : SameWork(v) \/ (~Has(v, j) /\ ~Has(v, j)')
    PROVE  JobsOK'
<1> SUFFICES ASSUME NEW j \in Jobs PROVE JobOK(j)'
  BY DEF JobsOK
<1>1. Tokens(j)' = Tokens(j) /\ Enders(j)' = Enders(j) /\ Signalling(j)' = Signalling(j)
  BY SetsSame
<1>2. Waiting(j)' = Waiting(j)
  BY WaitingSame
<1>3. /\ parts'[j] = parts[j] /\ shared'[j] = shared[j] /\ sem'[j] = sem[j]
      /\ status'[j] = status[j] /\ result'[j] = result[j]
  OBVIOUS
<1>4. JobOK(j)
  BY DEF JobsOK
<1>5. (j > made'.jobs) = (j > made.jobs)
  OBVIOUS
<1> QED BY <1>1, <1>2, <1>3, <1>4, <1>5, JobSame

-----------------------------------------------------------------------------
(* A step of a worker that runs no job before it and none after it.        *)
LEMMA OutsideStep ==
    ASSUME SubInv, LifeInv', ListInv', SamePending, Drained',
           NEW w \in Workers, NEW l, Goto(w, l),
           UNCHANGED <<job, parts, deque, made, cpc, fut, shared, status, sem, result>>,
           wpc[w] \notin InTask, l \notin InTask,
           \A v \in Workers : v # w =>
               next'[v] = next[v] /\ root'[v] = root[v] /\ pushing'[v] = pushing[v],
           \A c \in Clients : pushing'[c] = pushing[c],
           pushing'[w] # Null <=> l = "switch",
           l \notin Resumed => next'[w] = Null, l = "each" => root'[w] \in Nodes
    PROVE  SubInv'
<1>1. wpc'[w] = l /\ \A v \in Workers : v # w => wpc'[v] = wpc[v]
  BY DEF SubInv, LifeInv, LifeTypes, Goto
<1>2. TaskTypes' /\ FutureTypes'
  BY DEF SubInv, TaskTypes, FutureTypes
<1>3. Role(w)'
  <2>1. Role(w)
    BY DEF SubInv, Roles
  <2> QED BY <1>1, <2>1 DEF Role, InTask
<1>4. Roles'
  <2>1. \A v \in Workers : v # w => WorkerSame(v)
    BY <1>1 DEF WorkerSame
  <2>2. Roles /\ made'.jobs = made.jobs
    BY DEF SubInv
  <2> QED BY <1>3, <2>1, <2>2, RolesStep
<1>5. JobsOK'
  <2>1. \A v \in Workers, j \in Jobs : SameWork(v) \/ (~Has(v, j) /\ ~Has(v, j)')
    BY <1>1 DEF SameWork, Has
  <2>2. JobsOK /\ made'.jobs = made.jobs
    BY DEF SubInv
  <2> QED BY <2>1, <2>2, JobsSame
<1> QED BY <1>2, <1>4, <1>5 DEF SubInv

(* A step after which the queues are what they were.                       *)
LEMMA DrainedSame ==
    ASSUME SubInv, NEW w \in Workers, NEW l, Goto(w, l), order' = order,
           l \in Parked => order[w] = <<>>
    PROVE  Drained'
<1>1. wpc'[w] = l /\ \A v \in Workers : v # w => wpc'[v] = wpc[v]
  BY DEF SubInv, LifeInv, LifeTypes, Goto
<1> QED BY <1>1 DEF SubInv, Drained, Parked

(* The beginning and the end of a worker, the look at stop, a failed       *)
(* steal.                                                                  *)
LEMMA IdleStep ==
    ASSUME SubInv, LifeInv', NEW w \in Workers, Ends(w) \/ StealFails(w)
    PROVE  SubInv'
<1>1. UNCHANGED <<m_head, m_next, pushing, order, cpc, fut, shared, status, sem, result,
                  root, next, job, parts, deque, made>>
  BY Zenon DEF Ends, WorkerInit, LatchStart, TestStop, StopWorker, Finalize, StealFails,
               listVars, futureVars
<1>2. PICK l \in {"start", "test", "pop", "latch_stop", "gone"} :
        Goto(w, l) /\ (l \in Parked => wpc[w] \in Parked)
  <2>1. \/ Goto(w, "start") \/ Goto(w, "test") \/ Goto(w, "pop")
        \/ (Goto(w, "latch_stop") /\ wpc[w] = "stopped")
        \/ (Goto(w, "gone") /\ wpc[w] = "latch_stop")
    BY Zenon DEF Ends, WorkerInit, LatchStart, TestStop, StopWorker, Finalize, StealFails
  <2> QED BY <2>1 DEF Parked
<1>3. wpc[w] \in {"init", "start", "test", "steal", "stopped", "latch_stop"}
  BY DEF Ends, WorkerInit, LatchStart, TestStop, StopWorker, Finalize, StealFails
<1>4. \A v \in Workers : First(v)' = First(v)
  BY <1>1, <1>2, <1>3 DEF First, Goto, SubInv, LifeInv, LifeTypes
<1>5. ListInv' /\ SamePending
  BY <1>1, <1>4, SameListsStep DEF SubInv, ListInv, ListTypes, FirstTypes
<1>6. Drained'
  <2>1. l \in Parked => order[w] = <<>>
    BY <1>2 DEF SubInv, Drained, Parked
  <2> QED BY <1>1, <1>2, <2>1, DrainedSame
<1>7. Role(w)
  BY DEF SubInv, Roles
<1>8. next[w] = Null /\ pushing[w] = Null /\ wpc[w] \notin InTask /\ l \notin InTask
  BY <1>3, <1>7 DEF Role, Resumed, InTask
<1> QED BY <1>1, <1>2, <1>5, <1>6, <1>8, OutsideStep

(* resume() returns.                                                       *)
LEMMA ResumeReturnsStep ==
    ASSUME SubInv, LifeInv', NEW w \in Workers, ResumeReturns(w)
    PROVE  SubInv'
<1>1. /\ wpc[w] = "return"
      /\ UNCHANGED <<m_head, m_next, pushing, order, cpc, fut, shared, status, sem, result,
                     job, parts, deque, made>>
      /\ root' = [root EXCEPT ![w] = next[w]] /\ next' = [next EXCEPT ![w] = Null]
  BY Zenon DEF ResumeReturns, listVars, futureVars
<1>2. PICK l \in {"each", "test", "pop"} : Goto(w, l) /\ (l = "each" <=> next[w] # Null)
  BY DEF ResumeReturns
<1>t. /\ root \in [Workers -> Nodes \union {Null}]
      /\ next \in [Workers -> Nodes \union {Null}]
      /\ wpc'[w] = l /\ \A v \in Workers : v # w => wpc'[v] = wpc[v]
  BY <1>2 DEF SubInv, LifeInv, LifeTypes, Goto, ListInv, ListTypes
<1>4. FirstTypes' /\ \A v \in Workers : First(v)' = First(v)
  BY <1>1, <1>2, <1>t DEF First, FirstTypes
<1>5. ListInv' /\ SamePending
  BY <1>1, <1>4, SameListsStep DEF SubInv
<1>6. Drained'
  BY <1>1, <1>2, DrainedSame DEF Parked
<1>7. pushing[w] = Null
  BY <1>1 DEF SubInv, Roles, Role
<1>8. /\ next'[w] = Null /\ pushing'[w] = Null /\ (l = "each" => root'[w] \in Nodes)
      /\ \A v \in Workers : v # w => next'[v] = next[v] /\ root'[v] = root[v]
      /\ wpc[w] \notin InTask /\ l \notin InTask
  BY <1>1, <1>2, <1>t, <1>7 DEF InTask
<1> QED BY <1>1, <1>2, <1>5, <1>6, <1>8, OutsideStep

(* try_pop_all(): only an empty list lets a worker out of its loop.        *)
LEMMA PopAllKeeps ==
    ASSUME SubInv, LifeInv', NEW w \in Workers, PopAll(w)
    PROVE  SubInv'
<1>0. PICK f : f = Reversed(m_head[w]).first
  OBVIOUS
<1>1. /\ wpc[w] = "pop"
      /\ UNCHANGED <<pushing, order, cpc, fut, shared, status, sem, result,
                     next, job, parts, deque, made>>
      /\ m_next' = Reversed(m_head[w]).nodes
      /\ root' = [root EXCEPT ![w] = f] /\ m_head' = [m_head EXCEPT ![w] = Null]
  BY <1>0, Zenon DEF PopAll, futureVars
<1>2. PICK l \in {"each", "test", "steal", "stopped"} : Goto(w, l) /\ (l = "each" <=> f # Null)
  BY <1>0 DEF PopAll
<1>t. /\ root \in [Workers -> Nodes \union {Null}] /\ order[w] \in Seq(Nodes)
      /\ next \in [Workers -> Nodes \union {Null}]
      /\ wpc'[w] = l /\ \A v \in Workers : v # w => wpc'[v] = wpc[v]
  BY <1>2 DEF SubInv, LifeInv, LifeTypes, Goto, ListInv, ListTypes
<1>r. next[w] = Null /\ pushing[w] = Null
  BY <1>1 DEF SubInv, Roles, Role, Resumed
<1>3. First(w) = Null /\ First(w)' = f /\ \A v \in Workers : v # w => First(v)' = First(v)
  BY <1>1, <1>2, <1>t, <1>r DEF First
<1>f. f = IF Len(order[w]) = 0 THEN Null ELSE order[w][1]
  <2>1. PICK s \in 0..Len(order[w]) : IsList(order[w], s, Null, m_head[w], m_next)
    BY <1>3 DEF SubInv, ListInv, Lists
  <2>2. IsList(order[w], 0, Null, m_head[w], m_next) /\ Distinct(order[w])
    <3>1. s = 0
      <4> SUFFICES ASSUME s # 0 PROVE FALSE
        OBVIOUS
      <4>1. 1 \in 1..Len(order[w]) /\ order[w][1] \in Nodes /\ order[w][1] = Null
        BY <1>t, <2>1 DEF IsList
      <4> QED BY <4>1, NullAssumption
    <3> QED BY <2>1, <3>1 DEF SubInv, ListInv, OnePlace, Distinct
  <2>3. PICK o, h : o = order[w] /\ h = m_head[w]
    OBVIOUS
  <2>4. Reversed(h).first = IF Len(o) = 0 THEN Null ELSE o[1]
    BY <1>t, <2>2, <2>3, ListPop DEF SubInv, ListInv, ListTypes
  <2> QED BY <1>0, <2>3, <2>4
<1>4. FirstTypes'
  <2>1. f \in Nodes \union {Null}
    BY <1>f, <1>t
  <2> QED BY <1>1, <1>t, <2>1 DEF FirstTypes
<1>5. ListInv' /\ SamePending
  BY <1>0, <1>1, <1>3, <1>4, PopAllStep DEF SubInv
<1>6. Drained'
  <2>1. l \in Parked => f = Null
    BY <1>2 DEF Parked
  <2>2. f = Null => Len(order[w]) = 0
    BY <1>f, <1>t, NullAssumption
  <2> QED BY <1>1, <1>2, <1>t, <2>1, <2>2, DrainedSame
<1>8. /\ next'[w] = Null /\ pushing'[w] = Null /\ (l = "each" => root'[w] \in Nodes)
      /\ \A v \in Workers : v # w => next'[v] = next[v] /\ root'[v] = root[v]
      /\ wpc[w] \notin InTask /\ l \notin InTask
  BY <1>1, <1>2, <1>t, <1>r, <1>4 DEF InTask, FirstTypes
<1> QED BY <1>1, <1>2, <1>5, <1>6, <1>8, OutsideStep

(* A push ends at a worker that is in its loop.                            *)
LEMMA DrainedExchange ==
    ASSUME SubInv, NEW t \in Threads, pushing[t] # Null,
           \A w \in Workers : w # pushing[t].to => order'[w] = order[w],
           \A w \in Workers : wpc'[w] \in Parked => wpc[w] \in Parked
    PROVE  Drained'
<1>1. pushing[t].to \in Team /\ ~stop /\ AllArrived
  BY DEF SubInv, LifeInv, PushTypes, StopOrder
<1>2. wpc[pushing[t].to] # "init"
  BY <1>1 DEF AllArrived
<1>3. Team \subseteq Workers
  BY SubmissionAssumption DEF Team
<1>4. wpc[pushing[t].to] \notin Parked
  BY <1>1, <1>2, <1>3 DEF SubInv, LifeInv, StopOrder, Leaving, Parked
<1> QED BY <1>4 DEF SubInv, Drained, Parked

(* The push of resume_on() ends.                                           *)
LEMMA ResumeOnReturnsStep ==
    ASSUME SubInv, LifeInv', NEW w \in Workers, ResumeOnReturns(w)
    PROVE  SubInv'
<1>1. /\ wpc[w] = "switch" /\ Goto(w, "return") /\ Exchange(w)
      /\ UNCHANGED <<m_next, cpc, fut, shared, status, sem, result,
                     root, next, job, parts, deque, made>>
  BY Zenon DEF ResumeOnReturns, futureVars
<1>t. /\ wpc'[w] = "return" /\ \A v \in Workers : v # w => wpc'[v] = wpc[v]
  BY <1>1 DEF SubInv, LifeInv, LifeTypes, Goto
<1>4. FirstTypes' /\ \A v \in Workers : First(v)' = First(v)
  BY <1>1, <1>t DEF First, FirstTypes, SubInv, ListInv, ListTypes
<1>5. /\ ListInv' /\ SamePending
      /\ pushing' = [pushing EXCEPT ![w] = Null] /\ pushing[w] # Null
      /\ \A v \in Workers : v # pushing[w].to => order'[v] = order[v]
  BY <1>1, <1>4, ExchangeStep DEF SubInv, Threads
<1>6. Drained'
  <2>1. \A v \in Workers : wpc'[v] \in Parked => wpc[v] \in Parked
    BY <1>t DEF Parked
  <2> QED BY <1>5, <2>1, DrainedExchange DEF Threads
<1>8. /\ pushing'[w] = Null /\ \A u \in Threads : u # w => pushing'[u] = pushing[u]
      /\ wpc[w] \notin InTask
  BY <1>1, <1>5 DEF InTask, SubInv, ListInv, ListTypes, Threads
<1>9. \A c \in Clients : pushing'[c] = pushing[c]
  BY <1>8, SubmissionAssumption DEF Threads
<1>10. \A v \in Workers : v # w => pushing'[v] = pushing[v]
  BY <1>8 DEF Threads
<1> QED BY <1>1, <1>5, <1>6, <1>8, <1>9, <1>10, OutsideStep DEF InTask, Resumed

-----------------------------------------------------------------------------
(* A step of a client: no worker moves.                                    *)
LEMMA ClientStep ==
    ASSUME SubInv, LifeInv', ListInv', Drained', TaskTypes', FutureTypes', JobsOK',
           UNCHANGED <<wpc, job, deque, next, root>>, 1..made.jobs \subseteq 1..made'.jobs,
           \A w \in Workers : pushing'[w] # Null <=> pushing[w] # Null,
           \A c \in Clients : pushing'[c] # Null <=> cpc'[c] = "push"
    PROVE  SubInv'
<1>1. Roles'
  BY DEF SubInv, Roles, Role
<1> QED BY <1>1 DEF SubInv

(* A step after which every future and every job is as it was.             *)
LEMMA StillStep ==
    ASSUME SubInv, LifeInv', ListInv', SamePending, Drained',
           UNCHANGED <<wpc, job, deque, next, root, parts, made, fut, shared, status, sem, result>>,
           cpc' \in [Clients -> {"idle", "push", "future"}],
           \A w \in Workers : pushing'[w] # Null <=> pushing[w] # Null,
           \A c \in Clients : pushing'[c] # Null <=> cpc'[c] = "push"
    PROVE  SubInv'
<1>1. TaskTypes' /\ FutureTypes'
  BY DEF SubInv, TaskTypes, FutureTypes
<1>2. JobsOK'
  <2>1. \A v \in Workers, j \in Jobs : SameWork(v) \/ (~Has(v, j) /\ ~Has(v, j)')
    BY DEF SameWork
  <2> QED BY <2>1, JobsSame DEF SubInv
<1> QED BY <1>1, <1>2, ClientStep

(* push() links its node.                                                  *)
LEMMA LinkKeeps ==
    ASSUME SubInv, LifeInv', NEW t \in Threads, Link(t)
    PROVE  SubInv'
<1>1. /\ UNCHANGED <<order, wpc, job, deque, next, root, parts, made, cpc, fut, shared, status, sem, result>>
      /\ pushing[t] # Null
      /\ pushing' = [pushing EXCEPT ![t].stale_head = m_head[pushing[t].to]]
  BY Zenon DEF Link, futureVars, workerVars
<1>2. ListInv' /\ SamePending
  BY LinkStep DEF SubInv
<1>3. Drained'
  BY <1>1 DEF SubInv, Drained, Parked
<1>4. \A u \in Threads : pushing'[u] # Null <=> pushing[u] # Null
  <2>1. pushing \in [Threads -> Pushes \union {Null}] /\ pushing' \in [Threads -> Pushes \union {Null}]
    BY <1>2 DEF SubInv, ListInv, ListTypes
  <2>2. \A u \in Threads : u # t => pushing'[u] = pushing[u]
    BY <1>1, <2>1
  <2>3. pushing'[t] # Null
    <3>1. PICK h : h = m_head[pushing[t].to]
      OBVIOUS
    <3>2. pushing'[t] = [pushing[t] EXCEPT !.stale_head = h]
      BY <1>1, <2>1, <3>1
    <3>3. pushing[t] \in Pushes
      BY <1>1, <2>1
    <3>4. pushing'[t] = [node |-> pushing[t].node, to |-> pushing[t].to, stale_head |-> h]
      BY <3>2, <3>3 DEF Pushes
    <3>5. h \in Nodes \union {Null, Garbage}
      BY <3>1, <3>3 DEF SubInv, ListInv, ListTypes, Pushes
    <3>6. pushing'[t] \in Pushes
      BY <3>3, <3>4, <3>5 DEF Pushes
    <3> QED BY <3>6, NullAssumption
  <2> QED BY <1>1, <2>2, <2>3
<1>5. \A c \in Clients : pushing'[c] # Null <=> cpc'[c] = "push"
  BY <1>1, <1>4 DEF SubInv, Roles, Threads
<1>6. \A w \in Workers : pushing'[w] # Null <=> pushing[w] # Null
  BY <1>4 DEF Threads
<1>7. cpc' \in [Clients -> {"idle", "push", "future"}]
  BY <1>1 DEF SubInv, FutureTypes
<1> QED BY <1>1, <1>2, <1>3, <1>5, <1>6, <1>7, StillStep

(* The owner of the pool, or nobody.                                       *)
LEMMA OwnerKeeps ==
    ASSUME SubInv, LifeInv', Owner \/ DestroyPool \/ UNCHANGED vars
    PROVE  SubInv'
<1>1. UNCHANGED <<m_head, m_next, pushing, order, wpc, job, deque, next, root, parts, made,
                  cpc, fut, shared, status, sem, result>>
  BY Zenon DEF Owner, Construct, Constructed, PoolDestroyed, DestroyPool, vars, listVars, futureVars,
               workerVars
<1>2. FirstTypes' /\ \A v \in Workers : First(v)' = First(v)
  BY <1>1 DEF First, FirstTypes, SubInv, ListInv, ListTypes
<1>3. ListInv' /\ SamePending
  BY <1>1, <1>2, SameListsStep DEF SubInv
<1>4. Drained'
  BY <1>1 DEF SubInv, Drained, Parked
<1>5. \A c \in Clients : pushing'[c] # Null <=> cpc'[c] = "push"
  BY <1>1 DEF SubInv, Roles
<1>7. cpc' \in [Clients -> {"idle", "push", "future"}]
  BY <1>1 DEF SubInv, FutureTypes
<1> QED BY <1>1, <1>3, <1>4, <1>5, <1>7, StillStep

(* The push of schedule() ends.                                            *)
LEMMA ScheduleReturnsStep ==
    ASSUME SubInv, LifeInv', NEW c \in Clients, ScheduleReturns(c)
    PROVE  SubInv'
<1>1. /\ cpc[c] = "push" /\ Exchange(c) /\ cpc' = [cpc EXCEPT ![c] = "future"]
      /\ UNCHANGED <<m_next, wpc, job, deque, next, root, parts, made, fut, shared, status, sem, result>>
  BY Zenon DEF ScheduleReturns, workerVars
<1>2. FirstTypes' /\ \A v \in Workers : First(v)' = First(v)
  BY <1>1 DEF First, FirstTypes, SubInv, ListInv, ListTypes
<1>3. /\ ListInv' /\ SamePending
      /\ pushing' = [pushing EXCEPT ![c] = Null] /\ pushing[c] # Null
      /\ \A v \in Workers : v # pushing[c].to => order'[v] = order[v]
  BY <1>1, <1>2, ExchangeStep DEF SubInv, Threads
<1>4. Drained'
  BY <1>1, <1>3, DrainedExchange DEF Threads
<1>5. /\ cpc' \in [Clients -> {"idle", "push", "future"}] /\ cpc'[c] = "future"
      /\ \A d \in Clients : d # c => cpc'[d] = cpc[d]
  BY <1>1 DEF SubInv, FutureTypes
<1>6. pushing'[c] = Null /\ \A u \in Threads : u # c => pushing'[u] = pushing[u]
  BY <1>3 DEF SubInv, ListInv, ListTypes, Threads
<1>7. \A w \in Workers : pushing'[w] = pushing[w]
  BY <1>6, SubmissionAssumption DEF Threads
<1>8. \A d \in Clients : pushing'[d] # Null <=> cpc'[d] = "push"
  BY <1>5, <1>6 DEF SubInv, Roles, Threads
<1> QED BY <1>1, <1>3, <1>4, <1>5, <1>7, <1>8, StillStep

-----------------------------------------------------------------------------
(* The sets of a job when no worker moves.                                 *)
LEMMA SameWorkSets ==
    ASSUME UNCHANGED <<wpc, job, deque>>
    PROVE  \A j : Tokens(j)' = Tokens(j) /\ Enders(j)' = Enders(j) /\ Signalling(j)' = Signalling(j)
  BY DEF Tokens, Enders, Signalling

(* A future waits for its job or lets go of it.                            *)
LEMMA FutureStep ==
    ASSUME SubInv, NEW j \in Jobs, NEW se, NEW st, NEW sh, NEW c,
           UNCHANGED <<wpc, job, deque, parts, result, made>>, SamePending,
           sem' = [sem EXCEPT ![j] = se], status' = [status EXCEPT ![j] = st],
           shared' = [shared EXCEPT ![j] = sh],
           Account(parts[j], Tokens(j), Waiting(j), sh, se, st, result[j],
                   Enders(j), Signalling(j), j > made.jobs)
    PROVE  JobsOK'
<1> SUFFICES ASSUME NEW k \in Jobs PROVE JobOK(k)'
  BY DEF JobsOK
<1>1. /\ Tokens(k)' = Tokens(k) /\ Enders(k)' = Enders(k) /\ Signalling(k)' = Signalling(k)
      /\ Waiting(k)' = Waiting(k)
  BY SameWorkSets, WaitingSame
<1>2. CASE k = j
  <2>1. sem'[k] = se /\ status'[k] = st /\ shared'[k] = sh
    BY <1>2 DEF SubInv, FutureTypes
  <2> QED BY <1>1, <1>2, <2>1, Zenon DEF JobOK
<1>3. CASE k # j
  <2>1. sem'[k] = sem[k] /\ status'[k] = status[k] /\ shared'[k] = shared[k]
    BY <1>3 DEF SubInv, FutureTypes
  <2>2. JobOK(k) /\ parts'[k] = parts[k] /\ result'[k] = result[k] /\ (k > made'.jobs) = (k > made.jobs)
    BY DEF SubInv, JobsOK
  <2> QED BY <1>1, <2>1, <2>2, JobSame
<1> QED BY <1>2, <1>3

(* What waiting does to the account of the job,                            *)
LEMMA AcquireAccount ==
    ASSUME SubInv, NEW j \in Jobs, NEW st, Acquire(j, st)
    PROVE  \E se \in 0..1 :
             /\ sem' = [sem EXCEPT ![j] = se]
             /\ Account(parts[j], Tokens(j), Waiting(j), shared[j], se, st, result[j],
                        Enders(j), Signalling(j), j > made.jobs)
<1>0. PICK p, T, W, sh, s, t, re, E, S, f :
        /\ p = parts[j] /\ T = Tokens(j) /\ W = Waiting(j) /\ sh = shared[j] /\ s = sem[j]
        /\ t = status[j] /\ re = result[j] /\ E = Enders(j) /\ S = Signalling(j)
        /\ f = (j > made.jobs)
  OBVIOUS
<1>1. Account(p, T, W, sh, s, t, re, E, S, f)
  BY <1>0 DEF SubInv, JobsOK, JobOK
<1>2. p \in Nat /\ s \in 0..1 /\ (t = "no_wait" => s = 1)
  BY <1>0 DEF SubInv, TaskTypes, FutureTypes, Acquire
<1>3. PICK se : se = IF t = "no_wait" THEN s - 1 ELSE s
  OBVIOUS
<1>4. Account(p, T, W, sh, se, st, re, E, S, f)
  BY <1>1, <1>2, <1>3, AccountAcquire
<1>5. se \in 0..1
  BY <1>2, <1>3
<1>6. sem' = [sem EXCEPT ![j] = se]
  BY <1>0, <1>3 DEF Acquire
<1> QED BY <1>0, <1>4, <1>5, <1>6, Zenon

(* and what dropping the future's pointer does.                            *)
LEMMA DropAccount ==
    ASSUME SubInv, NEW j \in Jobs, NEW se, NEW st, NEW c \in Clients,
           Account(parts[j], Tokens(j), Waiting(j), shared[j], se, st, result[j],
                   Enders(j), Signalling(j), j > made.jobs)
    PROVE  Account(parts[j], Tokens(j), Waiting(j), shared[j] \ {c}, se, st, result[j],
                   Enders(j), Signalling(j), j > made.jobs)
<1>0. PICK p, T, W, sh, re, E, S, f :
        /\ p = parts[j] /\ T = Tokens(j) /\ W = Waiting(j) /\ sh = shared[j]
        /\ re = result[j] /\ E = Enders(j) /\ S = Signalling(j)
        /\ f = (j > made.jobs)
  OBVIOUS
<1>1. Account(p, T, W, sh, se, st, re, E, S, f) /\ p \in Nat
  BY <1>0 DEF SubInv, TaskTypes
<1>2. c # "coroutine"
  BY SubmissionAssumption
<1>3. Account(p, T, W, sh \ {c}, se, st, re, E, S, f)
  BY <1>1, <1>2, AccountDrop
<1> QED BY <1>0, <1>3

(* Nobody waits on a node whose shared state goes.                         *)
LEMMA FreedIsNotPending ==
    ASSUME SubInv, NEW j \in Jobs, "coroutine" \notin shared[j] \/ Enders(j) # {}
    PROVE  \A k \in {"root", "frame"} : ~Pending(<<j, k>>)
<1>1. JobOK(j)
  BY DEF SubInv, JobsOK
<1>2. Waiting(j) = {}
  BY <1>1 DEF JobOK, Account
<1>3. \A k \in {"root", "frame"} : <<j, k>> \in Nodes /\ <<j, k>>[1] = j
  BY DEF Nodes
<1> QED BY <1>2, <1>3 DEF Waiting

(* The shared state of a job and its node may go.                          *)
LEMMA DropStep ==
    ASSUME SubInv, NEW j \in Jobs, NEW h, h # "coroutine" \/ Enders(j) # {}, Drop(j, h),
           UNCHANGED <<m_head, pushing, order, root, next>>,
           \A v \in Workers : First(v)' = First(v)
    PROVE  ListInv' /\ SamePending
<1>t. FirstTypes' /\ ListInv
  BY DEF FirstTypes, SubInv, ListInv, ListTypes
<1>n. <<j, "root">> \in Nodes
  BY DEF Nodes
<1>1. CASE Freed(j, h)
  <2>1. ~Pending(<<j, "root">>)
    BY <1>1, FreedIsNotPending DEF Freed
  <2>2. m_next' = [m_next EXCEPT ![<<j, "root">>] = Garbage]
    BY <1>1 DEF Drop
  <2>3. PICK n : n = <<j, "root">>
    OBVIOUS
  <2> QED BY <1>t, <1>n, <2>1, <2>2, <2>3, GarbageStep
<1>2. CASE ~Freed(j, h)
  <2>1. m_next' = m_next
    BY <1>2 DEF Drop
  <2> QED BY <1>t, <2>1, SameListsStep
<1> QED BY <1>1, <1>2

(* wait() and get().                                                       *)
LEMMA WaitStep ==
    ASSUME SubInv, LifeInv', NEW c \in Clients, Wait(c) \/ Get(c)
    PROVE  SubInv'
<1>1. PICK st \in {"ready", "retrievd"} :
        /\ fut[c] # Null /\ Acquire(fut[c], st)
        /\ UNCHANGED <<m_head, m_next, pushing, order, cpc, fut, shared, result,
                       wpc, job, deque, next, root, parts, made>>
  BY Zenon DEF Wait, Get, listVars, workerVars
<1>2. PICK j \in Jobs : j = fut[c]
  BY <1>1 DEF SubInv, FutureTypes
<1>3. PICK se \in 0..1 :
             /\ sem' = [sem EXCEPT ![j] = se]
             /\ Account(parts[j], Tokens(j), Waiting(j), shared[j], se, st, result[j],
                        Enders(j), Signalling(j), j > made.jobs)
  BY <1>1, <1>2, AcquireAccount
<1>4. status' = [status EXCEPT ![j] = st]
  BY <1>1, <1>2 DEF Acquire
<1>5. FirstTypes' /\ \A v \in Workers : First(v)' = First(v)
  BY <1>1 DEF First, FirstTypes, SubInv, ListInv, ListTypes
<1>6. ListInv' /\ SamePending
  BY <1>1, <1>5, SameListsStep DEF SubInv
<1>7. Drained' /\ TaskTypes' /\ \A d \in Clients : pushing'[d] # Null <=> cpc'[d] = "push"
  BY <1>1 DEF SubInv, Drained, Parked, TaskTypes, Roles
<1>8. FutureTypes'
  BY <1>1, <1>3, <1>4 DEF SubInv, FutureTypes
<1>9. JobsOK'
  <2>1. PICK sh : sh = shared[j]
    OBVIOUS
  <2>2. shared' = [shared EXCEPT ![j] = sh]
    BY <1>1, <2>1 DEF SubInv, FutureTypes
  <2> QED BY <1>1, <1>3, <1>4, <1>6, <2>1, <2>2, FutureStep
<1> QED BY <1>1, <1>6, <1>7, <1>8, <1>9, ClientStep

(* detach() and ~future().                                                 *)
LEMMA DetachStep ==
    ASSUME SubInv, LifeInv', NEW c \in Clients, Detach(c) \/ DestroyFuture(c)
    PROVE  SubInv'
<1>1. /\ UNCHANGED <<m_head, pushing, order, result, wpc, job, deque, next, root, parts, made>>
      /\ cpc[c] = "future" /\ fut' = [fut EXCEPT ![c] = Null]
      /\ cpc' = cpc \/ cpc' = [cpc EXCEPT ![c] = "idle"]
  BY Zenon DEF Detach, DestroyFuture, workerVars
<1>2. FirstTypes' /\ \A v \in Workers : First(v)' = First(v)
  BY <1>1 DEF First, FirstTypes, SubInv, ListInv, ListTypes
<1>3. /\ fut' \in [Clients -> Jobs \union {Null}] /\ cpc' \in [Clients -> {"idle", "push", "future"}]
      /\ \A d \in Clients : cpc'[d] = "push" <=> cpc[d] = "push"
  BY <1>1 DEF SubInv, FutureTypes
<1>4. Drained' /\ TaskTypes' /\ \A d \in Clients : pushing'[d] # Null <=> cpc'[d] = "push"
  BY <1>1, <1>3 DEF SubInv, Drained, Parked, TaskTypes, Roles
<1>5. CASE fut[c] = Null
  <2>1. UNCHANGED <<m_next, shared, status, sem>>
    BY <1>5, Zenon DEF Detach, DestroyFuture
  <2>2. ListInv' /\ SamePending
    BY <1>1, <1>2, <2>1, SameListsStep DEF SubInv
  <2>3. FutureTypes'
    BY <1>1, <1>3, <2>1 DEF SubInv, FutureTypes
  <2>4. JobsOK'
    <3>1. \A v \in Workers, j \in Jobs : SameWork(v) \/ (~Has(v, j) /\ ~Has(v, j)')
      BY <1>1 DEF SameWork
    <3> QED BY <1>1, <2>1, <2>2, <3>1, JobsSame DEF SubInv
  <2> QED BY <1>1, <1>4, <2>2, <2>3, <2>4, ClientStep
<1>6. CASE fut[c] # Null
  <2>0. PICK j \in Jobs : j = fut[c]
    BY <1>6 DEF SubInv, FutureTypes
  <2>1. Drop(j, c)
    BY <1>6, <2>0, Zenon DEF Detach, DestroyFuture
  <2>2. c # "coroutine"
    BY SubmissionAssumption
  <2>3. ListInv' /\ SamePending
    BY <1>1, <1>2, <2>1, <2>2, DropStep
  <2>4. PICK st, sh : st = status[j] /\ sh = shared[j] \ {c}
    OBVIOUS
  <2>5. PICK se \in 0..1 :
             /\ sem' = [sem EXCEPT ![j] = se] /\ status' = [status EXCEPT ![j] = st]
             /\ Account(parts[j], Tokens(j), Waiting(j), shared[j], se, st, result[j],
                        Enders(j), Signalling(j), j > made.jobs)
    <3>1. CASE Detach(c)
      <4>1. UNCHANGED <<sem, status>>
        BY <3>1, Zenon DEF Detach
      <4>2. PICK s \in 0..1 : s = sem[j]
        BY DEF SubInv, FutureTypes
      <4>3. sem' = [sem EXCEPT ![j] = s] /\ status' = [status EXCEPT ![j] = st]
        BY <2>4, <4>1, <4>2 DEF SubInv, FutureTypes
      <4>4. Account(parts[j], Tokens(j), Waiting(j), shared[j], s, st, result[j],
                    Enders(j), Signalling(j), j > made.jobs)
        BY <2>4, <4>2 DEF SubInv, JobsOK, JobOK
      <4> QED BY <4>3, <4>4
    <3>2. CASE DestroyFuture(c)
      <4>1. Acquire(j, st)
        BY <3>2, <1>6, <2>0, <2>4, Zenon DEF DestroyFuture
      <4>2. status' = [status EXCEPT ![j] = st]
        BY <4>1 DEF Acquire
      <4> QED BY <4>1, <4>2, AcquireAccount
    <3> QED BY <3>1, <3>2
  <2>6. shared' = [shared EXCEPT ![j] = sh] /\ sh \in SUBSET (Clients \union {"coroutine"})
    BY <2>1, <2>4 DEF Drop, SubInv, FutureTypes
  <2>7. FutureTypes'
    <3>1. st \in {"no_wait", "ready", "retrievd"}
      BY <2>4 DEF SubInv, FutureTypes
    <3> QED BY <1>1, <1>3, <2>5, <2>6, <3>1 DEF SubInv, FutureTypes
  <2>8. Account(parts[j], Tokens(j), Waiting(j), sh, se, st, result[j],
                        Enders(j), Signalling(j), j > made.jobs)
    BY <2>4, <2>5, DropAccount
  <2>9. JobsOK'
    BY <1>1, <2>3, <2>5, <2>6, <2>8, FutureStep
  <2> QED BY <1>1, <1>4, <2>3, <2>7, <2>9, ClientStep
<1> QED BY <1>5, <1>6

-----------------------------------------------------------------------------
(* The nodes that wait after one more is pushed, or one is resumed.        *)
LEMMA WaitingMore ==
    ASSUME NEW n \in Nodes, \A m \in Nodes : Pending(m)' <=> Pending(m) \/ m = n
    PROVE  Waiting(n[1])' = Waiting(n[1]) \union {n} /\ \A j : j # n[1] => Waiting(j)' = Waiting(j)
  BY DEF Waiting

(* And when one is resumed.                                                *)
LEMMA WaitingLess ==
    ASSUME NEW n \in Nodes, \A m \in Nodes : Pending(m)' <=> Pending(m) /\ m # n
    PROVE  Waiting(n[1])' = Waiting(n[1]) \ {n} /\ \A j : j # n[1] => Waiting(j)' = Waiting(j)
  BY DEF Waiting

(* Sets of pairs are compared pair by pair.                                *)
LEMMA PairsEqual ==
    ASSUME NEW A, NEW B, A \subseteq Workers \X Nat, B \subseteq Workers \X Nat,
           \A v \in Workers, i \in Nat : <<v, i>> \in A <=> <<v, i>> \in B
    PROVE  A = B
  OBVIOUS

(* When a pair is a part of the job.                                       *)
LEMMA TokenPairs ==
    ASSUME NEW j
    PROVE  /\ Tokens(j) \subseteq Workers \X Nat
           /\ \A v \in Workers, i \in Nat :
                <<v, i>> \in Tokens(j) <=> wpc[v] = "run" /\ job[v] = j /\ i <= Len(deque[v])
  BY DEF Tokens

(* A step that concerns one job.                                           *)
LEMMA OneJobStep ==
    ASSUME SubInv, LifeInv', ListInv', Drained', TaskTypes', FutureTypes', Roles',
           NEW j \in Jobs, JobOK(j)',
           \A k \in Jobs : k # j =>
               /\ \A v \in Workers : SameWork(v) \/ (~Has(v, k) /\ ~Has(v, k)')
               /\ Waiting(k)' = Waiting(k) /\ parts'[k] = parts[k] /\ shared'[k] = shared[k]
               /\ sem'[k] = sem[k] /\ status'[k] = status[k] /\ result'[k] = result[k]
               /\ (k > made'.jobs) = (k > made.jobs)
    PROVE  SubInv'
<1>1. ASSUME NEW k \in Jobs, k # j PROVE JobOK(k)'
  <2>1. Tokens(k)' = Tokens(k) /\ Enders(k)' = Enders(k) /\ Signalling(k)' = Signalling(k)
    BY <1>1, SetsSame
  <2>2. JobOK(k)
    BY DEF SubInv, JobsOK
  <2> QED BY <1>1, <2>1, <2>2, JobSame
<1>2. JobsOK'
  BY <1>1 DEF JobsOK
<1> QED BY <1>2 DEF SubInv

(* schedule().                                                             *)
LEMMA ScheduleStep ==
    ASSUME SubInv, LifeInv', NEW c \in Clients, Schedule(c)
    PROVE  SubInv'
<1>0. made \in [jobs : 0..NumJobs, forks : Nat, switches : Nat] /\ NumJobs \in Nat
  BY SubmissionAssumption DEF SubInv, TaskTypes
<1>1. PICK j : j = made.jobs + 1
  OBVIOUS
<1>2. /\ cpc[c] = "idle" /\ made.jobs < NumJobs
      /\ made' = [made EXCEPT !.jobs = j] /\ shared' = [shared EXCEPT ![j] = {c, "coroutine"}]
      /\ fut' = [fut EXCEPT ![c] = j] /\ parts' = [parts EXCEPT ![j] = 1]
      /\ cpc' = [cpc EXCEPT ![c] = "push"]
      /\ UNCHANGED <<m_head, m_next, order, status, sem, result, wpc, root, next, job, deque>>
  BY <1>1, Zenon DEF Schedule
<1>3. PICK v \in Team : StartPush(c, <<j, "root">>, v)
  BY <1>1, Zenon DEF Schedule
<1>4. j \in Jobs /\ j > made.jobs /\ made'.jobs = j /\ v \in Workers
  BY <1>0, <1>1, <1>2, SubmissionAssumption DEF Jobs, Team
<1>5. PICK n \in Nodes : n = <<j, "root">> /\ n[1] = j
  <2>1. <<j, "root">> \in Nodes /\ <<j, "root">>[1] = j
    BY <1>4 DEF Nodes
  <2> QED BY <2>1
<1>6. Waiting(j) = {}
  <2>1. JobOK(j)
    BY <1>4 DEF SubInv, JobsOK
  <2>2. (j > made.jobs) = TRUE
    BY <1>4
  <2> QED BY <2>1, <2>2 DEF JobOK, Account
<1>7. ~Pending(n)
  BY <1>5, <1>6 DEF Waiting
<1>8. pushing[c] = Null
  BY <1>2 DEF SubInv, Roles
<1>9. FirstTypes' /\ \A u \in Workers : First(u)' = First(u)
  BY <1>2 DEF First, FirstTypes, SubInv, ListInv, ListTypes
<1>10. ListInv' /\ \A m \in Nodes : Pending(m)' <=> Pending(m) \/ m = n
  BY <1>2, <1>3, <1>4, <1>5, <1>7, <1>8, <1>9, StartPushStep DEF SubInv, Threads
<1>11. Drained'
  BY <1>2 DEF SubInv, Drained, Parked
<1>12. TaskTypes'
  <2>1. made' \in [jobs : 0..NumJobs, forks : Nat, switches : Nat]
    BY <1>0, <1>1, <1>2
  <2> QED BY <1>2, <1>4, <2>1 DEF SubInv, TaskTypes
<1>13. FutureTypes'
  BY <1>2, <1>4 DEF SubInv, FutureTypes
<1>14. Roles'
  <2>0. PICK r : r = [node |-> <<j, "root">>, to |-> v, stale_head |-> Garbage]
    OBVIOUS
  <2>1. pushing' = [pushing EXCEPT ![c] = r]
    BY <1>3, <2>0 DEF StartPush
  <2>2. r \in Pushes
    BY <1>4, <1>5, <2>0 DEF Pushes
  <2>3. /\ pushing'[c] # Null /\ \A u \in Threads : u # c => pushing'[u] = pushing[u]
    BY <2>1, <2>2, NullAssumption DEF SubInv, ListInv, ListTypes, Threads
  <2>4. \A u \in Workers : pushing'[u] = pushing[u]
    BY <2>3, SubmissionAssumption DEF Threads
  <2>5. \A w \in Workers : Role(w)'
    <3>1. \A k : k \in 1..made.jobs => k \in 1..made'.jobs
      BY <1>0, <1>1, <1>4
    <3> QED BY <1>2, <2>4, <3>1 DEF SubInv, Roles, Role
  <2>6. cpc'[c] = "push" /\ \A d \in Clients : d # c => cpc'[d] = cpc[d]
    BY <1>2 DEF SubInv, FutureTypes
  <2> QED BY <2>3, <2>5, <2>6 DEF SubInv, Roles, Threads
<1>15. JobOK(j)'
  <2>0. PICK p, T, W, sh, s, t, re, E, S :
        /\ p = parts[j] /\ T = Tokens(j) /\ W = Waiting(j) /\ sh = shared[j] /\ s = sem[j]
        /\ t = status[j] /\ re = result[j] /\ E = Enders(j) /\ S = Signalling(j)
    OBVIOUS
  <2>1. Account(p, T, W, sh, s, t, re, E, S, TRUE)
    <3>1. (j > made.jobs) = TRUE
      BY <1>4
    <3> QED BY <1>4, <2>0, <3>1 DEF SubInv, JobsOK, JobOK
  <2>2. Account(1, T, W \union {n}, {c, "coroutine"}, s, t, re, E, S, FALSE)
    <3>1. p \in Nat
      BY <1>4, <2>0 DEF SubInv, TaskTypes
    <3> QED BY <2>1, <3>1, AccountSchedule
  <2>3. Tokens(j)' = T /\ Enders(j)' = E /\ Signalling(j)' = S
    BY <1>2, <2>0, SameWorkSets
  <2>4. Waiting(j)' = W \union {n}
    BY <1>5, <1>10, <2>0, WaitingMore
  <2>5. parts'[j] = 1 /\ shared'[j] = {c, "coroutine"} /\ sem'[j] = s /\ status'[j] = t /\ result'[j] = re
    BY <1>2, <1>4, <2>0 DEF SubInv, TaskTypes, FutureTypes
  <2>6. (j > made'.jobs) = FALSE
    BY <1>0, <1>1, <1>4
  <2> QED BY <2>2, <2>3, <2>4, <2>5, <2>6 DEF JobOK
<1>16. ASSUME NEW k \in Jobs, k # j
       PROVE  /\ \A u \in Workers : SameWork(u) \/ (~Has(u, k) /\ ~Has(u, k)')
              /\ Waiting(k)' = Waiting(k) /\ parts'[k] = parts[k] /\ shared'[k] = shared[k]
              /\ sem'[k] = sem[k] /\ status'[k] = status[k] /\ result'[k] = result[k]
              /\ (k > made'.jobs) = (k > made.jobs)
  <2>1. \A u \in Workers : SameWork(u)
    BY <1>2 DEF SameWork
  <2>2. Waiting(k)' = Waiting(k)
    BY <1>5, <1>10, <1>16, WaitingMore
  <2>3. parts'[k] = parts[k] /\ shared'[k] = shared[k]
    BY <1>2, <1>16 DEF SubInv, TaskTypes, FutureTypes
  <2>4. (k > made'.jobs) = (k > made.jobs)
    BY <1>0, <1>1, <1>4, <1>16 DEF Jobs
  <2> QED BY <1>2, <2>1, <2>2, <2>3, <2>4
<1> QED BY <1>4, <1>10, <1>11, <1>12, <1>13, <1>14, <1>15, <1>16, OneJobStep

-----------------------------------------------------------------------------
(* A worker that runs a job: what the invariant says of the two.           *)
LEMMA AtWork ==
    ASSUME SubInv, NEW w \in Workers, wpc[w] = "run"
    PROVE  /\ job[w] \in Jobs /\ pushing[w] = Null
           /\ deque[w] \in Seq(Jobs) /\ Len(deque[w]) \in Nat
           /\ \A i \in 0..Len(deque[w]) : <<w, i>> \in Tokens(job[w])
           /\ JobOK(job[w])
<1>1. job[w] \in Jobs /\ pushing[w] = Null
  <2>1. Role(w)
    BY DEF SubInv, Roles
  <2>2. 1..made.jobs \subseteq Jobs
    BY SubmissionAssumption DEF SubInv, TaskTypes, Jobs
  <2> QED BY <2>1, <2>2 DEF Role, InTask
<1>2. deque[w] \in Seq(Jobs) /\ Len(deque[w]) \in Nat
  BY DEF SubInv, TaskTypes
<1>3. \A i \in 0..Len(deque[w]) : i \in Nat /\ i <= Len(deque[w])
  BY <1>2
<1>4. PICK j : j = job[w]
  OBVIOUS
<1>5. \A i \in 0..Len(deque[w]) : <<w, i>> \in Tokens(j)
  BY <1>3, <1>4, TokenPairs
<1> QED BY <1>1, <1>2, <1>4, <1>5 DEF SubInv, JobsOK

(* Two parts at one worker are two parts.                                  *)
LEMMA MoreParts ==
    ASSUME SubInv, NEW w \in Workers, wpc[w] = "run", Len(deque[w]) > 0
    PROVE  parts[job[w]] > 1
<1>1. PICK T, l, p : T = Tokens(job[w]) /\ l = Len(deque[w]) /\ p = parts[job[w]]
  OBVIOUS
<1>2. l \in Nat /\ l > 0 /\ \A i \in 0..l : <<w, i>> \in T
  BY <1>1, AtWork
<1>3. <<w, 0>> \in T /\ <<w, l>> \in T /\ <<w, 0>> # <<w, l>>
  BY <1>2
<1>4. IsFiniteSet(T) /\ p = Cardinality(T)
  BY <1>1, <1>3, AtWork DEF JobOK, Account
<1>5. Cardinality(T) > 1
  BY <1>3, <1>4, TwoTokens
<1> QED BY <1>1, <1>4, <1>5

(* Which jobs a step of one worker leaves alone.                           *)
LEMMA OnlyThisJob ==
    ASSUME SubInv, NEW w \in Workers, NEW j, \A v \in Workers : v # w => SameWork(v),
           job[w] \in {j, Null}, job'[w] \in {j, Null}
    PROVE  \A k \in Jobs : k # j => \A v \in Workers : SameWork(v) \/ (~Has(v, k) /\ ~Has(v, k)')
  BY NullAssumption DEF Has

(* The bounds count on.                                                    *)
LEMMA MadeForks ==
    ASSUME NEW m \in [jobs : 0..NumJobs, forks : Nat, switches : Nat]
    PROVE  /\ [m EXCEPT !.forks = m.forks + 1] \in [jobs : 0..NumJobs, forks : Nat, switches : Nat]
           /\ [m EXCEPT !.forks = m.forks + 1].jobs = m.jobs
           /\ [m EXCEPT !.switches = m.switches + 1] \in [jobs : 0..NumJobs, forks : Nat, switches : Nat]
           /\ [m EXCEPT !.switches = m.switches + 1].jobs = m.jobs
  OBVIOUS

(* A running part splits.                                                  *)
LEMMA ForkStep ==
    ASSUME SubInv, LifeInv', NEW w \in Workers, Fork(w)
    PROVE  SubInv'
<1>0. PICK j, l, d : j = job[w] /\ l = Len(deque[w]) /\ d = deque[w]
  OBVIOUS
<1>1. /\ wpc[w] = "run"
      /\ made' = [made EXCEPT !.forks = made.forks + 1]
      /\ deque' = [deque EXCEPT ![w] = Append(d, j)]
      /\ parts' = [parts EXCEPT ![j] = parts[j] + 1]
      /\ UNCHANGED <<m_head, m_next, pushing, order, cpc, fut, shared, status, sem, result,
                     wpc, root, next, job>>
  <2>1. /\ wpc[w] = "run" /\ made' = [made EXCEPT !.forks = @ + 1]
        /\ deque' = [deque EXCEPT ![w] = Append(@, job[w])]
        /\ parts' = [parts EXCEPT ![job[w]] = @ + 1]
        /\ UNCHANGED <<m_head, m_next, pushing, order, cpc, fut, shared, status, sem, result,
                       wpc, root, next, job>>
    BY Zenon DEF Fork, listVars, futureVars
  <2> QED BY <2>1, <1>0
<1>2. /\ j \in Jobs /\ pushing[w] = Null /\ d \in Seq(Jobs) /\ l \in Nat
      /\ \A i \in 0..l : <<w, i>> \in Tokens(j)
      /\ JobOK(j)
  BY <1>0, <1>1, AtWork
<1>3. FirstTypes' /\ \A v \in Workers : First(v)' = First(v)
  BY <1>1 DEF First, FirstTypes, SubInv, ListInv, ListTypes
<1>4. ListInv' /\ SamePending
  BY <1>1, <1>3, SameListsStep DEF SubInv
<1>5. Drained' /\ FutureTypes'
  BY <1>1 DEF SubInv, Drained, Parked, FutureTypes
<1>6. /\ deque'[w] = Append(d, j) /\ Len(Append(d, j)) = l + 1 /\ Append(d, j) \in Seq(Jobs)
      /\ \A v \in Workers : v # w => deque'[v] = deque[v]
  BY <1>0, <1>1, <1>2 DEF SubInv, TaskTypes
<1>7. TaskTypes' /\ made'.jobs = made.jobs /\ parts'[j] = parts[j] + 1
  <2>1. made' \in [jobs : 0..NumJobs, forks : Nat, switches : Nat] /\ made'.jobs = made.jobs
    <3>1. PICK m \in [jobs : 0..NumJobs, forks : Nat, switches : Nat] : m = made
      BY DEF SubInv, TaskTypes
    <3>2. made' = [m EXCEPT !.forks = m.forks + 1]
      BY <1>1, <3>1
    <3> QED BY <3>1, <3>2, MadeForks
  <2> QED BY <1>1, <1>2, <1>6, <2>1 DEF SubInv, TaskTypes
<1>8. Roles'
  <2>1. Role(w)'
    <3>1. Role(w)
      BY DEF SubInv, Roles
    <3>2. \A i \in 1..Len(deque'[w]) : deque'[w][i] = j
      <4>1. \A i \in 1..l : Append(d, j)[i] = d[i] /\ d[i] = j
        BY <1>0, <1>2, <3>1 DEF Role
      <4>2. Append(d, j)[l + 1] = j
        BY <1>0, <1>2
      <4>3. \A i \in 1..(l + 1) : i \in 1..l \/ i = l + 1
        BY <1>2
      <4> QED BY <1>6, <4>1, <4>2, <4>3
    <3> QED BY <1>0, <1>1, <1>7, <3>1, <3>2 DEF Role
  <2>2. \A v \in Workers : v # w => WorkerSame(v)
    BY <1>1, <1>6 DEF WorkerSame
  <2> QED BY <1>1, <1>7, <2>1, <2>2, RolesStep DEF SubInv
<1>9. JobOK(j)'
  <2>0. PICK p, T, W, sh, s, t, re, E, S, f :
        /\ p = parts[j] /\ T = Tokens(j) /\ W = Waiting(j) /\ sh = shared[j] /\ s = sem[j]
        /\ t = status[j] /\ re = result[j] /\ E = Enders(j) /\ S = Signalling(j)
        /\ f = (j > made.jobs)
    OBVIOUS
  <2>1. PICK x, y : x = <<w, l>> /\ y = <<w, l + 1>>
    OBVIOUS
  <2>2. x \in T /\ y \notin T
    <3>1. l \in 0..l /\ l + 1 \in Nat /\ ~(l + 1 <= Len(deque[w]))
      BY <1>0, <1>2
    <3> QED BY <1>2, <2>0, <2>1, <3>1, TokenPairs
  <2>3. Account(p + 1, T \union {y}, W, sh, s, t, re, E, S, f)
    <3>1. p \in Nat /\ Account(p, T, W, sh, s, t, re, E, S, f)
      BY <1>2, <2>0 DEF SubInv, TaskTypes, JobOK
    <3> QED BY <2>2, <3>1, AccountFork
  <2>4. Tokens(j)' = T \union {y}
    <3>1. PICK U : U = Tokens(j)'
      OBVIOUS
    <3>2. U \subseteq Workers \X Nat
      BY <3>1 DEF Tokens
    <3>3. \A v \in Workers, i \in Nat :
            <<v, i>> \in U <=> wpc[v] = "run" /\ job[v] = j /\ i <= Len(deque'[v])
      BY <1>1, <3>1 DEF Tokens
    <3>4. T \union {y} \subseteq Workers \X Nat
      BY <1>2, <2>0, <2>1, TokenPairs
    <3>5. ASSUME NEW v \in Workers, NEW i \in Nat PROVE <<v, i>> \in U <=> <<v, i>> \in T \union {y}
      <4>1. <<v, i>> \in T <=> wpc[v] = "run" /\ job[v] = j /\ i <= Len(deque[v])
        BY <2>0, TokenPairs
      <4>2. <<v, i>> = y <=> v = w /\ i = l + 1
        BY <2>1
      <4>3. CASE v = w
        BY <1>0, <1>1, <1>2, <1>6, <3>3, <4>1, <4>2, <4>3
      <4>4. CASE v # w
        BY <1>6, <3>3, <4>1, <4>2, <4>4
      <4> QED BY <4>3, <4>4
    <3>6. PICK V : V = T \union {y}
      OBVIOUS
    <3> QED BY <3>1, <3>2, <3>4, <3>5, <3>6, PairsEqual
  <2>5. Waiting(j)' = W
    BY <1>4, <2>0, WaitingSame
  <2>6. Enders(j)' = E /\ Signalling(j)' = S
    BY <1>1, <2>0 DEF Enders, Signalling
  <2>7. parts'[j] = p + 1 /\ shared'[j] = sh /\ sem'[j] = s /\ status'[j] = t /\ result'[j] = re
        /\ (j > made'.jobs) = f
    BY <1>1, <1>7, <2>0
  <2> QED BY <2>3, <2>4, <2>5, <2>6, <2>7, Zenon DEF JobOK
<1>10. ASSUME NEW k \in Jobs, k # j
       PROVE  /\ \A v \in Workers : SameWork(v) \/ (~Has(v, k) /\ ~Has(v, k)')
              /\ Waiting(k)' = Waiting(k) /\ parts'[k] = parts[k] /\ shared'[k] = shared[k]
              /\ sem'[k] = sem[k] /\ status'[k] = status[k] /\ result'[k] = result[k]
              /\ (k > made'.jobs) = (k > made.jobs)
  <2>1. \A v \in Workers : SameWork(v) \/ (~Has(v, k) /\ ~Has(v, k)')
    <3>1. \A v \in Workers : v # w => SameWork(v)
      BY <1>1, <1>6 DEF SameWork
    <3> QED BY <1>0, <1>1, <1>10, <3>1, OnlyThisJob
  <2>2. parts'[k] = parts[k]
    BY <1>1, <1>10 DEF SubInv, TaskTypes
  <2>3. Waiting(k)' = Waiting(k)
    BY <1>4, WaitingSame
  <2> QED BY <1>1, <1>7, <2>1, <2>2, <2>3
<1> QED BY <1>2, <1>4, <1>5, <1>7, <1>8, <1>9, <1>10, OneJobStep

-----------------------------------------------------------------------------
(* A step of one worker that concerns the job it runs.                     *)
OtherJobsSame(j) ==
    \A k \in Jobs : k # j =>
        /\ Waiting(k)' = Waiting(k) /\ parts'[k] = parts[k] /\ shared'[k] = shared[k]
        /\ sem'[k] = sem[k] /\ status'[k] = status[k] /\ result'[k] = result[k]

(* The rest of the invariant follows from the role and that job.           *)
LEMMA TaskStep ==
    ASSUME SubInv, LifeInv', ListInv', Drained', TaskTypes', FutureTypes',
           NEW w \in Workers, Role(w)', NEW j \in Jobs, JobOK(j)',
           job[w] \in {j, Null}, job'[w] \in {j, Null}, OtherJobsSame(j),
           \A v \in Workers : v # w => WorkerSame(v), cpc' = cpc, made'.jobs = made.jobs,
           \A c \in Clients : pushing'[c] = pushing[c]
    PROVE  SubInv'
<1>1. \A v \in Workers : v # w => SameWork(v)
  BY DEF WorkerSame, SameWork
<1>2. \A k \in Jobs : k # j => \A v \in Workers : SameWork(v) \/ (~Has(v, k) /\ ~Has(v, k)')
  BY <1>1, OnlyThisJob
<1>3. \A k \in Jobs : (k > made'.jobs) = (k > made.jobs)
  OBVIOUS
<1>4. Roles'
  BY RolesStep DEF SubInv
<1> QED BY <1>2, <1>3, <1>4, OneJobStep DEF OtherJobsSame

(* A worker takes a part up, or puts its only or its youngest one down.    *)
LEMMA TokenGained ==
    ASSUME NEW w \in Workers, NEW j, \A v \in Workers : v # w => SameWork(v),
           wpc[w] # "run", wpc'[w] = "run", job'[w] = j, deque'[w] = <<>>
    PROVE  Tokens(j)' = Tokens(j) \union {<<w, 0>>} /\ <<w, 0>> \notin Tokens(j)
<1>0. PICK T, U, y : T = Tokens(j) /\ U = Tokens(j)' /\ y = <<w, 0>>
  OBVIOUS
<1>1. U \subseteq Workers \X Nat /\ T \union {y} \subseteq Workers \X Nat
  BY <1>0 DEF Tokens
<1>2. ASSUME NEW v \in Workers, NEW i \in Nat PROVE <<v, i>> \in U <=> <<v, i>> \in T \union {y}
  <2>1. /\ <<v, i>> \in T <=> wpc[v] = "run" /\ job[v] = j /\ i <= Len(deque[v])
        /\ <<v, i>> \in U <=> wpc'[v] = "run" /\ job'[v] = j /\ i <= Len(deque'[v])
        /\ <<v, i>> = y <=> v = w /\ i = 0
    BY <1>0 DEF Tokens
  <2>2. CASE v = w
    <3>1. Len(deque'[v]) = 0
      BY <2>2
    <3> QED BY <2>1, <2>2, <3>1
  <2>3. CASE v # w
    BY <2>1, <2>3 DEF SameWork
  <2> QED BY <2>2, <2>3
<1>3. PICK V : V = T \union {y}
  OBVIOUS
<1>4. U = V
  BY <1>1, <1>2, <1>3, PairsEqual
<1>5. <<w, 0>> \notin Tokens(j)
  BY TokenPairs
<1> QED BY <1>0, <1>3, <1>4, <1>5

(* Its only or its youngest part is put down.                              *)
LEMMA TokenLost ==
    ASSUME NEW w \in Workers, NEW j, NEW l \in Nat, \A v \in Workers : v # w => SameWork(v),
           wpc[w] = "run", job[w] = j, Len(deque[w]) = l,
           \/ wpc'[w] # "run" /\ l = 0
           \/ wpc'[w] = "run" /\ job'[w] = j /\ l > 0 /\ Len(deque'[w]) = l - 1
    PROVE  Tokens(j)' = Tokens(j) \ {<<w, l>>} /\ <<w, l>> \in Tokens(j)
<1>0. PICK T, U, y : T = Tokens(j) /\ U = Tokens(j)' /\ y = <<w, l>>
  OBVIOUS
<1>1. U \subseteq Workers \X Nat /\ T \ {y} \subseteq Workers \X Nat
  BY <1>0 DEF Tokens
<1>2. ASSUME NEW v \in Workers, NEW i \in Nat PROVE <<v, i>> \in U <=> <<v, i>> \in T \ {y}
  <2>1. /\ <<v, i>> \in T <=> wpc[v] = "run" /\ job[v] = j /\ i <= Len(deque[v])
        /\ <<v, i>> \in U <=> wpc'[v] = "run" /\ job'[v] = j /\ i <= Len(deque'[v])
        /\ <<v, i>> = y <=> v = w /\ i = l
    BY <1>0 DEF Tokens
  <2>2. CASE v = w
    BY <2>1, <2>2
  <2>3. CASE v # w
    BY <2>1, <2>3 DEF SameWork
  <2> QED BY <2>2, <2>3
<1>3. PICK V : V = T \ {y}
  OBVIOUS
<1>4. U = V
  BY <1>1, <1>2, <1>3, PairsEqual
<1>5. <<w, l>> \in Tokens(j)
  BY TokenPairs
<1> QED BY <1>0, <1>3, <1>4, <1>5

(* A part ends.                                                            *)
LEMMA PartEndsStep ==
    ASSUME SubInv, LifeInv', NEW w \in Workers, PartEnds(w)
    PROVE  SubInv'
<1>0. PICK j, l, d : j = job[w] /\ l = Len(deque[w]) /\ d = deque[w]
  OBVIOUS
<1>1. /\ wpc[w] = "run" /\ (d # <<>> \/ parts[j] > 1)
      /\ parts' = [parts EXCEPT ![j] = parts[j] - 1]
      /\ UNCHANGED <<m_head, m_next, pushing, order, cpc, fut, shared, status, sem, result,
                     root, next, made>>
  <2>1. /\ wpc[w] = "run" /\ (deque[w] # <<>> \/ parts[job[w]] > 1)
        /\ parts' = [parts EXCEPT ![job[w]] = @ - 1]
        /\ UNCHANGED <<m_head, m_next, pushing, order, cpc, fut, shared, status, sem, result,
                       root, next, made>>
    BY Zenon DEF PartEnds, listVars, futureVars
  <2> QED BY <2>1, <1>0
<1>2. /\ j \in Jobs /\ pushing[w] = Null /\ d \in Seq(Jobs) /\ l \in Nat
      /\ \A i \in 0..l : <<w, i>> \in Tokens(j)
      /\ JobOK(j)
  BY <1>0, <1>1, AtWork
<1>3. parts[j] \in Nat /\ parts[j] > 1
  <2>1. d # <<>> => l > 0
    BY <1>0, <1>2
  <2> QED BY <1>0, <1>1, <1>2, <2>1, MoreParts DEF SubInv, TaskTypes
<1>4. \/ /\ d # <<>> /\ deque' = [deque EXCEPT ![w] = Front(d)] /\ UNCHANGED <<wpc, job>>
      \/ /\ d = <<>> /\ job' = [job EXCEPT ![w] = Null] /\ Goto(w, "return") /\ deque' = deque
  <2>1. \/ /\ deque[w] # <<>> /\ deque' = [deque EXCEPT ![w] = Front(@)] /\ UNCHANGED <<wpc, job>>
        \/ /\ deque[w] = <<>> /\ job' = [job EXCEPT ![w] = Null] /\ Goto(w, "return") /\ deque' = deque
    BY Zenon DEF PartEnds
  <2> QED BY <2>1, <1>0
<1>5. /\ \A v \in Workers : v # w => wpc'[v] = wpc[v] /\ job'[v] = job[v] /\ deque'[v] = deque[v]
      /\ wpc' \in [Workers -> {"init", "start"} \union Running \union Leaving]
      /\ job'[w] \in {j, Null} /\ job' \in [Workers -> Jobs \union {Null}]
      /\ \/ wpc'[w] # "run" /\ l = 0 /\ wpc'[w] = "return" /\ job'[w] = Null /\ deque'[w] = <<>>
         \/ wpc'[w] = "run" /\ job'[w] = j /\ l > 0 /\ deque'[w] = Front(d)
  <2>1. CASE d # <<>> /\ deque' = [deque EXCEPT ![w] = Front(d)] /\ UNCHANGED <<wpc, job>>
    <3>1. l > 0
      BY <2>1, <1>0, <1>2
    <3> QED BY <2>1, <3>1, <1>0, <1>1 DEF SubInv, TaskTypes, LifeInv, LifeTypes
  <2>2. CASE d = <<>> /\ job' = [job EXCEPT ![w] = Null] /\ Goto(w, "return") /\ deque' = deque
    BY <2>2, <1>0 DEF SubInv, TaskTypes, LifeInv, LifeTypes, Goto, Running
  <2> QED BY <1>4, <2>1, <2>2
<1>f. l > 0 => Front(d) \in Seq(Jobs) /\ Len(Front(d)) = l - 1 /\ \A i \in 1..(l - 1) : Front(d)[i] = d[i]
  BY <1>0, <1>2 DEF Front
<1>6. FirstTypes' /\ \A v \in Workers : First(v)' = First(v)
  BY <1>1, <1>5 DEF First, FirstTypes, SubInv, ListInv, ListTypes
<1>7. ListInv' /\ SamePending
  BY <1>1, <1>6, SameListsStep DEF SubInv
<1>8. Drained' /\ FutureTypes'
  BY <1>1, <1>5 DEF SubInv, Drained, Parked, FutureTypes
<1>9. TaskTypes'
  <2>1. deque' \in [Workers -> Seq(Jobs)]
    <3>0. deque \in [Workers -> Seq(Jobs)] /\ <<>> \in Seq(Jobs)
      BY DEF SubInv, TaskTypes
    <3>1. deque'[w] \in Seq(Jobs)
      <4>1. CASE deque'[w] = <<>>
        BY <3>0, <4>1
      <4>2. CASE l > 0 /\ deque'[w] = Front(d)
        BY <1>f, <4>2
      <4> QED BY <1>5, <4>1, <4>2
    <3>2. DOMAIN deque' = Workers /\ deque' = [v \in Workers |-> deque'[v]]
      BY <1>4, <3>0
    <3>3. \A v \in Workers : deque'[v] \in Seq(Jobs)
      BY <1>5, <3>0, <3>1
    <3> QED BY <3>2, <3>3
  <2>2. parts' \in [Jobs -> Nat]
    BY <1>1, <1>2, <1>3 DEF SubInv, TaskTypes
  <2> QED BY <1>1, <1>5, <2>1, <2>2 DEF SubInv, TaskTypes
<1>10. Role(w)'
  <2>1. Role(w)
    BY DEF SubInv, Roles
  <2>2. CASE wpc'[w] = "return" /\ job'[w] = Null /\ deque'[w] = <<>>
    BY <1>1, <1>2, <2>1, <2>2 DEF Role, InTask, Resumed
  <2>3. CASE wpc'[w] = "run" /\ job'[w] = j /\ l > 0 /\ deque'[w] = Front(d)
    <3>1. \A i \in 1..(l - 1) : i \in 1..l
      BY <1>2
    <3> QED BY <1>0, <1>1, <1>2, <1>f, <2>1, <2>3, <3>1 DEF Role, InTask, Resumed
  <2> QED BY <1>5, <2>2, <2>3
<1>11. \A v \in Workers : v # w => WorkerSame(v) /\ SameWork(v)
  BY <1>1, <1>5 DEF WorkerSame, SameWork
<1>12. JobOK(j)'
  <2>0. PICK p, T, W, sh, s, t, re, E, S, f :
        /\ p = parts[j] /\ T = Tokens(j) /\ W = Waiting(j) /\ sh = shared[j] /\ s = sem[j]
        /\ t = status[j] /\ re = result[j] /\ E = Enders(j) /\ S = Signalling(j)
        /\ f = (j > made.jobs)
    OBVIOUS
  <2>1. PICK x : x = <<w, l>>
    OBVIOUS
  <2>2. Tokens(j)' = T \ {x} /\ x \in T
    <3>1. \/ wpc'[w] # "run" /\ l = 0
          \/ wpc'[w] = "run" /\ job'[w] = j /\ l > 0 /\ Len(deque'[w]) = l - 1
      BY <1>5, <1>f
    <3>2. Tokens(j)' = Tokens(j) \ {<<w, l>>} /\ <<w, l>> \in Tokens(j)
      BY <1>0, <1>1, <1>2, <1>11, <3>1, TokenLost
    <3> QED BY <2>0, <2>1, <3>2
  <2>3. Account(p - 1, T \ {x}, W, sh, s, t, re, E, S, f)
    <3>1. p \in Nat /\ p > 1 /\ Account(p, T, W, sh, s, t, re, E, S, f)
      BY <1>2, <1>3, <2>0 DEF JobOK
    <3> QED BY <2>2, <3>1, AccountPartEnds
  <2>5. Waiting(j)' = W
    BY <1>7, <2>0, WaitingSame
  <2>6. Enders(j)' = E /\ Signalling(j)' = S
    BY <1>0, <1>1, <1>5, <2>0 DEF Enders, Signalling
  <2>7. parts'[j] = p - 1 /\ shared'[j] = sh /\ sem'[j] = s /\ status'[j] = t /\ result'[j] = re
        /\ (j > made'.jobs) = f
    BY <1>1, <1>2, <2>0 DEF SubInv, TaskTypes
  <2> QED BY <2>2, <2>3, <2>5, <2>6, <2>7, Zenon DEF JobOK
<1>13. OtherJobsSame(j)
  <2>1. \A k \in Jobs : k # j => parts'[k] = parts[k]
    BY <1>1 DEF SubInv, TaskTypes
  <2> QED BY <1>1, <1>7, <2>1, WaitingSame DEF OtherJobsSame
<1> QED BY <1>0, <1>1, <1>2, <1>5, <1>7, <1>8, <1>9, <1>10, <1>11, <1>12, <1>13, TaskStep

-----------------------------------------------------------------------------
(* A job ended by one worker.                                              *)
LEMMA AtEnd ==
    ASSUME SubInv, NEW w \in Workers, wpc[w] \in {"signal", "destroy"}
    PROVE  /\ job[w] \in Jobs /\ pushing[w] = Null /\ deque[w] \in Seq(Jobs)
           /\ w \in Enders(job[w]) /\ (wpc[w] = "signal" <=> w \in Signalling(job[w]))
           /\ deque[w] = <<>> /\ JobOK(job[w])
<1>1. Role(w)
  BY DEF SubInv, Roles
<1>2. 1..made.jobs \subseteq Jobs
  BY SubmissionAssumption DEF SubInv, TaskTypes, Jobs
<1>3. job[w] \in Jobs /\ pushing[w] = Null
  BY <1>1, <1>2 DEF Role, InTask
<1>4. deque[w] \in Seq(Jobs) /\ \A i \in 1..Len(deque[w]) : FALSE
  BY <1>1 DEF Role, SubInv, TaskTypes
<1>5. deque[w] = <<>>
  <2>1. Len(deque[w]) \in Nat /\ (Len(deque[w]) > 0 => 1 \in 1..Len(deque[w]))
    BY <1>4
  <2>2. Len(deque[w]) = 0
    BY <1>4, <2>1
  <2> QED BY <1>4, <2>2
<1> QED BY <1>3, <1>4, <1>5 DEF Enders, Signalling, SubInv, JobsOK

(* The root task returns.                                                  *)
LEMMA RootReturnsStep ==
    ASSUME SubInv, LifeInv', NEW w \in Workers, RootReturns(w)
    PROVE  SubInv'
<1>0. PICK j : j = job[w]
  OBVIOUS
<1>1. /\ wpc[w] = "run" /\ deque[w] = <<>> /\ parts[j] = 1
      /\ parts' = [parts EXCEPT ![j] = 0] /\ result' = [result EXCEPT ![j] = TRUE]
      /\ Goto(w, "signal")
      /\ UNCHANGED <<m_head, m_next, pushing, order, cpc, fut, shared, status, sem,
                     root, next, job, deque, made>>
  BY <1>0, Zenon DEF RootReturns, listVars
<1>2. j \in Jobs /\ pushing[w] = Null /\ JobOK(j) /\ Len(deque[w]) = 0
  BY <1>0, <1>1, AtWork
<1>3. wpc'[w] = "signal" /\ \A v \in Workers : v # w => wpc'[v] = wpc[v]
  BY <1>1 DEF SubInv, LifeInv, LifeTypes, Goto
<1>4. FirstTypes' /\ \A v \in Workers : First(v)' = First(v)
  BY <1>1, <1>3 DEF First, FirstTypes, SubInv, ListInv, ListTypes
<1>5. ListInv' /\ SamePending
  BY <1>1, <1>4, SameListsStep DEF SubInv
<1>6. Drained' /\ FutureTypes' /\ TaskTypes'
  BY <1>1, <1>2, <1>3 DEF SubInv, Drained, Parked, FutureTypes, TaskTypes
<1>7. Role(w)'
  <2>1. Role(w)
    BY DEF SubInv, Roles
  <2> QED BY <1>1, <1>2, <1>3, <2>1 DEF Role, InTask, Resumed
<1>8. \A v \in Workers : v # w => WorkerSame(v) /\ SameWork(v)
  BY <1>1, <1>3 DEF WorkerSame, SameWork
<1>9. JobOK(j)'
  <2>0. PICK p, T, W, sh, s, t, re, E, S, f :
        /\ p = parts[j] /\ T = Tokens(j) /\ W = Waiting(j) /\ sh = shared[j] /\ s = sem[j]
        /\ t = status[j] /\ re = result[j] /\ E = Enders(j) /\ S = Signalling(j)
        /\ f = (j > made.jobs)
    OBVIOUS
  <2>1. PICK x : x = <<w, 0>>
    OBVIOUS
  <2>2. Tokens(j)' = T \ {x} /\ x \in T
    <3>1. Tokens(j)' = Tokens(j) \ {<<w, 0>>} /\ <<w, 0>> \in Tokens(j)
      BY <1>0, <1>1, <1>2, <1>3, <1>8, TokenLost
    <3> QED BY <2>0, <2>1, <3>1
  <2>3. Account(0, T \ {x}, W, sh, s, t, TRUE, E \union {w}, S \union {w}, f)
    <3>1. p \in Nat /\ p = 1 /\ Account(p, T, W, sh, s, t, re, E, S, f)
      BY <1>1, <1>2, <2>0 DEF JobOK
    <3> QED BY <2>2, <3>1, AccountReturn
  <2>5. Waiting(j)' = W
    BY <1>5, <2>0, WaitingSame
  <2>6. Enders(j)' = E \union {w} /\ Signalling(j)' = S \union {w}
    BY <1>0, <1>1, <1>3, <2>0 DEF Enders, Signalling
  <2>7. /\ parts'[j] = 0 /\ shared'[j] = sh /\ sem'[j] = s /\ status'[j] = t
        /\ (j > made'.jobs) = f
    BY <1>1, <1>2, <2>0 DEF SubInv, TaskTypes
  <2>8. result'[j] = TRUE
    BY <1>1, <1>2 DEF SubInv, FutureTypes
  <2> QED BY <2>2, <2>3, <2>5, <2>6, <2>7, <2>8, Zenon DEF JobOK
<1>10. OtherJobsSame(j)
  <2>1. \A k \in Jobs : k # j => parts'[k] = parts[k] /\ result'[k] = result[k]
    BY <1>1 DEF SubInv, TaskTypes, FutureTypes
  <2> QED BY <1>1, <1>5, <2>1, WaitingSame DEF OtherJobsSame
<1> QED BY <1>0, <1>1, <1>2, <1>5, <1>6, <1>7, <1>8, <1>9, <1>10, TaskStep

(* The semaphore is released.                                              *)
LEMMA SignalStep ==
    ASSUME SubInv, LifeInv', NEW w \in Workers, Signal(w)
    PROVE  SubInv'
<1>0. PICK j : j = job[w]
  OBVIOUS
<1>1. /\ wpc[w] = "signal" /\ Goto(w, "destroy")
      /\ UNCHANGED <<m_head, m_next, pushing, order, cpc, fut, shared, status, result,
                     root, next, job, parts, deque, made>>
  BY Zenon DEF Signal, listVars
<1>s. sem' = [sem EXCEPT ![j] = sem[j] + 1]
  BY <1>0 DEF Signal
<1>2. /\ j \in Jobs /\ pushing[w] = Null /\ JobOK(j) /\ w \in Enders(j) /\ w \in Signalling(j)
      /\ deque[w] = <<>>
  BY <1>0, <1>1, AtEnd
<1>3. wpc'[w] = "destroy" /\ \A v \in Workers : v # w => wpc'[v] = wpc[v]
  BY <1>1 DEF SubInv, LifeInv, LifeTypes, Goto
<1>4. FirstTypes' /\ \A v \in Workers : First(v)' = First(v)
  BY <1>1, <1>3 DEF First, FirstTypes, SubInv, ListInv, ListTypes
<1>5. ListInv' /\ SamePending
  BY <1>1, <1>4, SameListsStep DEF SubInv
<1>6. Drained' /\ TaskTypes'
  BY <1>1, <1>3 DEF SubInv, Drained, Parked, TaskTypes
<1>7. Role(w)'
  <2>1. Role(w)
    BY DEF SubInv, Roles
  <2> QED BY <1>1, <1>2, <1>3, <2>1 DEF Role, InTask, Resumed
<1>8. \A v \in Workers : v # w => WorkerSame(v) /\ SameWork(v)
  BY <1>1, <1>3 DEF WorkerSame, SameWork
<1>9. sem[j] = 0 /\ JobOK(j)'
  <2>0. PICK p, T, W, sh, s, t, re, E, S, f :
        /\ p = parts[j] /\ T = Tokens(j) /\ W = Waiting(j) /\ sh = shared[j] /\ s = sem[j]
        /\ t = status[j] /\ re = result[j] /\ E = Enders(j) /\ S = Signalling(j)
        /\ f = (j > made.jobs)
    OBVIOUS
  <2>1. s = 0 /\ Account(p, T, W, sh, s + 1, t, re, E, S \ {w}, f)
    <3>1. p \in Nat /\ w \in S /\ Account(p, T, W, sh, s, t, re, E, S, f)
      BY <1>2, <2>0 DEF JobOK, SubInv, TaskTypes
    <3> QED BY <3>1, AccountSignal
  <2>2. Tokens(j)' = T
    BY <1>1, <1>3, <2>0 DEF Tokens
  <2>5. Waiting(j)' = W
    BY <1>5, <2>0, WaitingSame
  <2>6. Enders(j)' = E /\ Signalling(j)' = S \ {w}
    BY <1>0, <1>1, <1>3, <2>0 DEF Enders, Signalling
  <2>7. /\ parts'[j] = p /\ shared'[j] = sh /\ status'[j] = t /\ result'[j] = re
        /\ (j > made'.jobs) = f
    BY <1>1, <1>2, <2>0
  <2>8. sem'[j] = s + 1
    BY <1>s, <1>2, <2>0 DEF SubInv, FutureTypes
  <2> QED BY <2>0, <2>1, <2>2, <2>5, <2>6, <2>7, <2>8, Zenon DEF JobOK
<1>f. FutureTypes'
  <2>1. sem[j] + 1 \in 0..1
    BY <1>9
  <2> QED BY <1>1, <1>s, <2>1 DEF SubInv, FutureTypes
<1>10. OtherJobsSame(j)
  <2>1. \A k \in Jobs : k # j => sem'[k] = sem[k]
    BY <1>s DEF SubInv, FutureTypes
  <2> QED BY <1>1, <1>5, <2>1, WaitingSame DEF OtherJobsSame
<1> QED BY <1>0, <1>1, <1>2, <1>5, <1>6, <1>f, <1>7, <1>8, <1>9, <1>10, TaskStep

(* The coroutine is destroyed.                                             *)
LEMMA DestroyStep ==
    ASSUME SubInv, LifeInv', NEW w \in Workers, DestroyCoroutine(w)
    PROVE  SubInv'
<1>0. PICK j : j = job[w]
  OBVIOUS
<1>1. /\ wpc[w] = "destroy" /\ Drop(j, "coroutine")
      /\ job' = [job EXCEPT ![w] = Null] /\ Goto(w, "return")
      /\ UNCHANGED <<m_head, pushing, order, cpc, fut, status, sem, result,
                     root, next, parts, deque, made>>
  BY <1>0, Zenon DEF DestroyCoroutine
<1>2. /\ j \in Jobs /\ pushing[w] = Null /\ JobOK(j) /\ w \in Enders(j) /\ w \notin Signalling(j)
      /\ deque[w] = <<>>
  BY <1>0, <1>1, AtEnd
<1>3. /\ wpc'[w] = "return" /\ \A v \in Workers : v # w => wpc'[v] = wpc[v]
      /\ job'[w] = Null /\ \A v \in Workers : v # w => job'[v] = job[v]
  BY <1>1 DEF SubInv, LifeInv, LifeTypes, Goto, TaskTypes
<1>4. \A v \in Workers : First(v)' = First(v)
  BY <1>1, <1>3 DEF First
<1>5. ListInv' /\ SamePending
  BY <1>1, <1>2, <1>4, DropStep
<1>6. Drained' /\ TaskTypes'
  BY <1>1, <1>3 DEF SubInv, Drained, Parked, TaskTypes
<1>7. Role(w)'
  <2>1. Role(w)
    BY DEF SubInv, Roles
  <2> QED BY <1>1, <1>2, <1>3, <2>1 DEF Role, InTask, Resumed
<1>8. \A v \in Workers : v # w => WorkerSame(v) /\ SameWork(v)
  BY <1>1, <1>3 DEF WorkerSame, SameWork
<1>s. shared' = [shared EXCEPT ![j] = shared[j] \ {"coroutine"}]
  BY <1>1 DEF Drop
<1>9. JobOK(j)'
  <2>0. PICK p, T, W, sh, s, t, re, E, S, f :
        /\ p = parts[j] /\ T = Tokens(j) /\ W = Waiting(j) /\ sh = shared[j] /\ s = sem[j]
        /\ t = status[j] /\ re = result[j] /\ E = Enders(j) /\ S = Signalling(j)
        /\ f = (j > made.jobs)
    OBVIOUS
  <2>1. Account(p, T, W, sh \ {"coroutine"}, s, t, re, E \ {w}, S, f)
    <3>1. p \in Nat /\ w \in E /\ w \notin S /\ Account(p, T, W, sh, s, t, re, E, S, f)
      BY <1>2, <2>0 DEF JobOK, SubInv, TaskTypes
    <3> QED BY <3>1, AccountDestroy
  <2>2. Tokens(j)' = T
    BY <1>1, <1>3, <2>0 DEF Tokens
  <2>5. Waiting(j)' = W
    BY <1>5, <2>0, WaitingSame
  <2>6. Enders(j)' = E \ {w} /\ Signalling(j)' = S
    BY <1>0, <1>1, <1>3, <2>0 DEF Enders, Signalling
  <2>7. /\ parts'[j] = p /\ sem'[j] = s /\ status'[j] = t /\ result'[j] = re
        /\ (j > made'.jobs) = f
    BY <1>1, <1>2, <2>0
  <2>8. shared'[j] = sh \ {"coroutine"}
    BY <1>s, <1>2, <2>0 DEF SubInv, FutureTypes
  <2> QED BY <2>1, <2>2, <2>5, <2>6, <2>7, <2>8, Zenon DEF JobOK
<1>f. FutureTypes'
  BY <1>1, <1>s, <1>2 DEF SubInv, FutureTypes
<1>10. OtherJobsSame(j)
  <2>1. \A k \in Jobs : k # j => shared'[k] = shared[k]
    BY <1>s DEF SubInv, FutureTypes
  <2> QED BY <1>1, <1>5, <2>1, WaitingSame DEF OtherJobsSame
<1> QED BY <1>0, <1>1, <1>2, <1>3, <1>5, <1>6, <1>f, <1>7, <1>8, <1>9, <1>10, TaskStep

-----------------------------------------------------------------------------
(* A worker that runs nothing has nothing on its deque.                    *)
LEMMA IdleDeque ==
    ASSUME SubInv, NEW w \in Workers, wpc[w] # "run"
    PROVE  deque[w] = <<>>
<1>1. deque[w] \in Seq(Jobs) /\ \A i \in 1..Len(deque[w]) : FALSE
  BY DEF SubInv, Roles, Role, TaskTypes
<1>2. Len(deque[w]) \in Nat /\ (Len(deque[w]) > 0 => 1 \in 1..Len(deque[w]))
  BY <1>1
<1>3. Len(deque[w]) = 0
  BY <1>1, <1>2
<1> QED BY <1>1, <1>3

(* The next submitted job is resumed.                                      *)
LEMMA ForEachStep ==
    ASSUME SubInv, LifeInv', NEW w \in Workers, ForEach(w)
    PROVE  SubInv'
<1>0. PICK n, j : n = root[w] /\ j = n[1]
  OBVIOUS
<1>1. /\ wpc[w] = "each" /\ next' = [next EXCEPT ![w] = m_next[n]]
      /\ job' = [job EXCEPT ![w] = j] /\ Goto(w, "run")
      /\ UNCHANGED <<m_head, pushing, cpc, fut, shared, status, sem, result,
                     root, parts, deque, made>>
  BY <1>0, Zenon DEF ForEach, futureVars
<1>2. n \in Nodes /\ j \in Jobs /\ pushing[w] = Null /\ job[w] = Null
  <2>1. n \in Nodes /\ pushing[w] = Null /\ job[w] = Null
    BY <1>0, <1>1 DEF SubInv, Roles, Role, InTask
  <2> QED BY <1>0, <2>1 DEF Nodes
<1>3. /\ wpc'[w] = "run" /\ \A v \in Workers : v # w => wpc'[v] = wpc[v]
      /\ job'[w] = j /\ \A v \in Workers : v # w => job'[v] = job[v]
      /\ next'[w] = m_next[n] /\ \A v \in Workers : v # w => next'[v] = next[v]
  BY <1>1 DEF SubInv, LifeInv, LifeTypes, Goto, TaskTypes, ListInv, ListTypes
<1>4. FirstTypes' /\ First(w)' = m_next[root[w]] /\ \A v \in Workers : v # w => First(v)' = First(v)
  <2>1. m_next[n] \in Nodes \union {Null}
    <3>1. PICK s \in 0..Len(order[w]) : IsList(order[w], s, n, m_head[w], m_next)
      BY <1>0, <1>1 DEF SubInv, ListInv, Lists, First
    <3>2. order[w] \in Seq(Nodes)
      BY DEF SubInv, ListInv, ListTypes
    <3>3. s # 0 /\ n = order[w][1]
      BY <1>2, <3>1, NullAssumption DEF IsList
    <3>4. m_next[n] = IF 1 = s THEN Null ELSE order[w][2]
      <4>1. 1 \in 1..Len(order[w]) /\ 1 <= s
        BY <3>1, <3>2, <3>3
      <4> QED BY <3>1, <3>3, <4>1 DEF IsList
    <3>5. s # 1 => order[w][2] \in Nodes
      BY <3>1, <3>2, <3>3
    <3> QED BY <3>4, <3>5
  <2>2. FirstTypes'
    BY <1>1, <2>1 DEF FirstTypes, SubInv, ListInv, ListTypes
  <2> QED BY <1>0, <1>1, <1>3, <2>2 DEF First
<1>5. /\ ListInv' /\ Pending(n) /\ \A m \in Nodes : Pending(m)' <=> Pending(m) /\ m # n
      /\ order' = [order EXCEPT ![w] = Tail(order[w])]
  BY <1>0, <1>1, <1>2, <1>4, TakeStep DEF SubInv
<1>6. Drained'
  <2>1. \A v \in Workers : v # w => order'[v] = order[v]
    BY <1>5 DEF SubInv, ListInv, ListTypes
  <2> QED BY <1>3, <2>1 DEF SubInv, Drained, Parked
<1>7. TaskTypes' /\ FutureTypes'
  BY <1>1, <1>2 DEF SubInv, TaskTypes, FutureTypes
<1>d. deque[w] = <<>>
  BY <1>1, IdleDeque
<1>8. \A v \in Workers : v # w => WorkerSame(v) /\ SameWork(v)
  BY <1>1, <1>3 DEF WorkerSame, SameWork
<1>w. n \in Waiting(j)
  BY <1>0, <1>2, <1>5 DEF Waiting
<1>9. ~(j > made.jobs) /\ JobOK(j)'
  <2>0. PICK p, T, W, sh, s, t, re, E, S, f :
        /\ p = parts[j] /\ T = Tokens(j) /\ W = Waiting(j) /\ sh = shared[j] /\ s = sem[j]
        /\ t = status[j] /\ re = result[j] /\ E = Enders(j) /\ S = Signalling(j)
        /\ f = (j > made.jobs)
    OBVIOUS
  <2>1. PICK x : x = <<w, 0>>
    OBVIOUS
  <2>2. Tokens(j)' = T \union {x}
    <3>1. Tokens(j)' = Tokens(j) \union {<<w, 0>>}
      BY <1>1, <1>3, <1>8, <1>d, TokenGained
    <3> QED BY <2>0, <2>1, <3>1
  <2>a. p \in Nat /\ n \in W /\ Account(p, T, W, sh, s, t, re, E, S, f)
    BY <1>2, <1>w, <2>0 DEF JobOK, SubInv, TaskTypes, JobsOK
  <2>3. Account(p, T \union {x}, W \ {n}, sh, s, t, re, E, S, f)
    BY <2>a, AccountResume
  <2>4. ~(f = TRUE)
    BY <2>a DEF Account
  <2>5. Waiting(j)' = W \ {n}
    BY <1>0, <1>2, <1>5, <2>0, WaitingLess
  <2>6. Enders(j)' = E /\ Signalling(j)' = S
    BY <1>1, <1>3, <2>0 DEF Enders, Signalling
  <2>7. /\ parts'[j] = p /\ shared'[j] = sh /\ sem'[j] = s /\ status'[j] = t /\ result'[j] = re
        /\ (j > made'.jobs) = f
    BY <1>1, <2>0
  <2>8. JobOK(j)'
    BY <2>2, <2>3, <2>5, <2>6, <2>7, Zenon DEF JobOK
  <2> QED BY <2>0, <2>4, <2>8
<1>10. Role(w)'
  <2>1. j \in 1..made.jobs
    BY <1>2, <1>9 DEF Jobs, SubInv, TaskTypes
  <2>2. \A i \in 1..Len(deque'[w]) : FALSE
    BY <1>1, <1>d
  <2> QED BY <1>1, <1>2, <1>3, <2>1, <2>2 DEF Role, InTask, Resumed
<1>11. OtherJobsSame(j)
  <2>1. \A k \in Jobs : k # j => Waiting(k)' = Waiting(k)
    BY <1>0, <1>2, <1>5, WaitingLess
  <2> QED BY <1>1, <2>1 DEF OtherJobsSame
<1> QED BY <1>1, <1>2, <1>3, <1>5, <1>6, <1>7, <1>8, <1>9, <1>10, <1>11, TaskStep

(* co_await resume_on().                                                   *)
LEMMA ResumeOnStep ==
    ASSUME SubInv, LifeInv', NEW w \in Workers, NEW v \in Workers, ResumeOn(w, v)
    PROVE  SubInv'
<1>0. PICK j : j = job[w]
  OBVIOUS
<1>1. /\ wpc[w] = "run" /\ v \in Team /\ parts[j] = 1
      /\ StartPush(w, <<j, "frame">>, v)
      /\ job' = [job EXCEPT ![w] = Null] /\ Goto(w, "switch")
      /\ UNCHANGED <<m_head, m_next, order, cpc, fut, shared, status, sem, result,
                     root, next, parts, deque>>
  BY <1>0, Zenon DEF ResumeOn, futureVars
<1>m. made' \in [jobs : 0..NumJobs, forks : Nat, switches : Nat] /\ made'.jobs = made.jobs
  <2>1. PICK m \in [jobs : 0..NumJobs, forks : Nat, switches : Nat] : m = made
    BY DEF SubInv, TaskTypes
  <2>2. made' = [m EXCEPT !.switches = m.switches + 1]
    BY <2>1 DEF ResumeOn
  <2> QED BY <2>1, <2>2, MadeForks
<1>2. j \in Jobs /\ pushing[w] = Null /\ JobOK(j) /\ Len(deque[w]) \in Nat /\ deque[w] \in Seq(Jobs)
  BY <1>0, <1>1, AtWork
<1>d. deque[w] = <<>> /\ Len(deque[w]) = 0
  <2>1. ~(Len(deque[w]) > 0)
    BY <1>0, <1>1, MoreParts
  <2>2. Len(deque[w]) = 0
    BY <1>2, <2>1
  <2> QED BY <1>2, <2>2
<1>3. /\ wpc'[w] = "switch" /\ \A u \in Workers : u # w => wpc'[u] = wpc[u]
      /\ job'[w] = Null /\ \A u \in Workers : u # w => job'[u] = job[u]
  BY <1>1 DEF SubInv, LifeInv, LifeTypes, Goto, TaskTypes
<1>n. PICK n \in Nodes : n = <<j, "frame">> /\ n[1] = j
  <2>1. <<j, "frame">> \in Nodes /\ <<j, "frame">>[1] = j
    BY <1>2 DEF Nodes
  <2> QED BY <2>1
<1>a. PICK p, T, W, sh, s, t, re, E, S, f :
        /\ p = parts[j] /\ T = Tokens(j) /\ W = Waiting(j) /\ sh = shared[j] /\ s = sem[j]
        /\ t = status[j] /\ re = result[j] /\ E = Enders(j) /\ S = Signalling(j)
        /\ f = (j > made.jobs)
  OBVIOUS
<1>8. \A u \in Workers : u # w => SameWork(u)
  BY <1>1, <1>3 DEF SameWork
<1>x. PICK x : x = <<w, 0>>
  OBVIOUS
<1>t. Tokens(j)' = T \ {x} /\ x \in T
  <2>1. Tokens(j)' = Tokens(j) \ {<<w, 0>>} /\ <<w, 0>> \in Tokens(j)
    BY <1>0, <1>1, <1>2, <1>3, <1>8, <1>d, TokenLost
  <2> QED BY <1>a, <1>x, <2>1
<1>b. p \in Nat /\ p = 1 /\ x \in T /\ Account(p, T, W, sh, s, t, re, E, S, f)
  BY <1>1, <1>2, <1>t, <1>a DEF JobOK
<1>p. ~Pending(n)
  <2>1. W = {}
    BY <1>b DEF Account
  <2> QED BY <1>a, <1>n, <2>1 DEF Waiting
<1>4. FirstTypes' /\ \A u \in Workers : First(u)' = First(u)
  BY <1>1, <1>3 DEF First, FirstTypes, SubInv, ListInv, ListTypes
<1>5. ListInv' /\ \A m \in Nodes : Pending(m)' <=> Pending(m) \/ m = n
  BY <1>1, <1>2, <1>4, <1>n, <1>p, StartPushStep DEF SubInv, Threads
<1>6. Drained' /\ TaskTypes' /\ FutureTypes'
  BY <1>1, <1>3, <1>m DEF SubInv, Drained, Parked, TaskTypes, FutureTypes
<1>7. /\ pushing'[w] # Null /\ (\A u \in Workers : u # w => pushing'[u] = pushing[u])
      /\ \A c \in Clients : pushing'[c] = pushing[c]
  <2>0. PICK r : r = [node |-> <<j, "frame">>, to |-> v, stale_head |-> Garbage]
    OBVIOUS
  <2>1. pushing' = [pushing EXCEPT ![w] = r]
    BY <1>1, <2>0 DEF StartPush
  <2>2. r \in Pushes
    BY <1>n, <2>0 DEF Pushes
  <2>3. /\ pushing'[w] # Null /\ \A u \in Threads : u # w => pushing'[u] = pushing[u]
    BY <2>1, <2>2, NullAssumption DEF SubInv, ListInv, ListTypes, Threads
  <2>4. \A c \in Clients : pushing'[c] = pushing[c]
    BY <2>3, SubmissionAssumption DEF Threads
  <2> QED BY <2>3, <2>4 DEF Threads
<1>9. \A u \in Workers : u # w => WorkerSame(u)
  BY <1>1, <1>3, <1>7 DEF WorkerSame
<1>10. Role(w)'
  <2>1. \A i \in 1..Len(deque'[w]) : FALSE
    BY <1>1, <1>d
  <2> QED BY <1>3, <1>7, <2>1 DEF Role, InTask, Resumed
<1>11. JobOK(j)'
  <2>3. Account(p, T \ {x}, W \union {n}, sh, s, t, re, E, S, f)
    BY <1>b, AccountSwitch
  <2>5. Waiting(j)' = W \union {n}
    BY <1>5, <1>n, <1>a, WaitingMore
  <2>6. Enders(j)' = E /\ Signalling(j)' = S
    BY <1>1, <1>3, <1>a DEF Enders, Signalling
  <2>7. /\ parts'[j] = p /\ shared'[j] = sh /\ sem'[j] = s /\ status'[j] = t /\ result'[j] = re
        /\ (j > made'.jobs) = f
    BY <1>1, <1>m, <1>a
  <2> QED BY <1>t, <2>3, <2>5, <2>6, <2>7, Zenon DEF JobOK
<1>12. OtherJobsSame(j)
  <2>1. \A k \in Jobs : k # j => Waiting(k)' = Waiting(k)
    BY <1>5, <1>n, WaitingMore
  <2> QED BY <1>1, <2>1 DEF OtherJobsSame
<1> QED BY <1>0, <1>1, <1>2, <1>3, <1>m, <1>5, <1>6, <1>7, <1>9, <1>10, <1>11, <1>12, TaskStep

(* A part is stolen.                                                       *)
LEMMA StealStep ==
    ASSUME SubInv, LifeInv', NEW w \in Workers, NEW v \in Workers, Steal(w, v)
    PROVE  SubInv'
<1>0. PICK d, j, l : d = deque[v] /\ j = job[v] /\ l = Len(deque[v])
  OBVIOUS
<1>1. /\ wpc[w] = "steal" /\ v # w /\ d # <<>>
      /\ job' = [job EXCEPT ![w] = Head(d)] /\ deque' = [deque EXCEPT ![v] = Tail(d)]
      /\ Goto(w, "run")
      /\ UNCHANGED <<m_head, m_next, pushing, order, cpc, fut, shared, status, sem, result,
                     root, next, parts, made>>
  <2>1. /\ wpc[w] = "steal" /\ v # w /\ deque[v] # <<>>
        /\ job' = [job EXCEPT ![w] = Head(deque[v])] /\ deque' = [deque EXCEPT ![v] = Tail(@)]
        /\ Goto(w, "run")
        /\ UNCHANGED <<m_head, m_next, pushing, order, cpc, fut, shared, status, sem, result,
                       root, next, parts, made>>
    BY Zenon DEF Steal, listVars, futureVars
  <2> QED BY <2>1, <1>0
<1>2. wpc[v] = "run"
  BY <1>0, <1>1, IdleDeque
<1>3. j \in Jobs /\ d \in Seq(Jobs) /\ l \in Nat /\ JobOK(j) /\ Role(v) /\ Role(w)
  BY <1>0, <1>2, AtWork DEF SubInv, Roles
<1>4. /\ l > 0 /\ Head(d) = j /\ Tail(d) \in Seq(Jobs) /\ Len(Tail(d)) = l - 1
      /\ \A i \in 1..(l - 1) : Tail(d)[i] = j
  <2>1. l > 0
    BY <1>0, <1>1, <1>3
  <2>2. \A i \in 1..l : d[i] = j
    BY <1>0, <1>3 DEF Role
  <2>3. Head(d) = d[1] /\ Tail(d) \in Seq(Jobs) /\ Len(Tail(d)) = l - 1
        /\ \A i \in 1..(l - 1) : Tail(d)[i] = d[i + 1]
    BY <1>0, <1>1, <1>3
  <2>4. 1 \in 1..l /\ \A i \in 1..(l - 1) : i + 1 \in 1..l
    BY <1>3, <2>1
  <2> QED BY <2>1, <2>2, <2>3, <2>4
<1>5. /\ wpc'[w] = "run" /\ (\A u \in Workers : u # w => wpc'[u] = wpc[u])
      /\ job'[w] = j /\ (\A u \in Workers : u # w => job'[u] = job[u])
      /\ deque'[v] = Tail(d) /\ (\A u \in Workers : u # v => deque'[u] = deque[u])
  BY <1>1, <1>4 DEF SubInv, LifeInv, LifeTypes, Goto, TaskTypes
<1>6. deque'[w] = <<>> /\ pushing[w] = Null /\ job[w] = Null /\ next[w] = Null
  <2>1. deque[w] = <<>>
    BY <1>1, IdleDeque
  <2> QED BY <1>1, <1>3, <1>5, <2>1 DEF Role, InTask, Resumed
<1>7. FirstTypes' /\ \A u \in Workers : First(u)' = First(u)
  BY <1>1, <1>5 DEF First, FirstTypes, SubInv, ListInv, ListTypes
<1>8. ListInv' /\ SamePending
  BY <1>1, <1>7, SameListsStep DEF SubInv
<1>9. Drained' /\ FutureTypes'
  BY <1>1, <1>5 DEF SubInv, Drained, Parked, FutureTypes
<1>10. TaskTypes'
  BY <1>1, <1>3, <1>4 DEF SubInv, TaskTypes
<1>11. Roles'
  <2>1. Role(w)'
    <3>1. \A i \in 1..Len(deque'[w]) : FALSE
      BY <1>6
    <3>2. j \in 1..made.jobs
      BY <1>0, <1>2, <1>3 DEF Role, InTask
    <3> QED BY <1>1, <1>5, <1>6, <3>1, <3>2 DEF Role, InTask, Resumed
  <2>2. Role(v)'
    BY <1>0, <1>1, <1>2, <1>3, <1>4, <1>5 DEF Role, InTask, Resumed
  <2>3. ASSUME NEW u \in Workers, u # v, u # w PROVE Role(u)'
    <3>1. WorkerSame(u)
      BY <1>1, <1>5, <2>3 DEF WorkerSame
    <3>2. Role(u) /\ made'.jobs = made.jobs
      BY <1>1 DEF SubInv, Roles
    <3> QED BY <3>1, <3>2, RoleSame
  <2> QED BY <1>1, <2>1, <2>2, <2>3 DEF SubInv, Roles
<1>12. JobOK(j)'
  <2>0. PICK p, T, W, sh, s, t, re, E, S, f :
        /\ p = parts[j] /\ T = Tokens(j) /\ W = Waiting(j) /\ sh = shared[j] /\ s = sem[j]
        /\ t = status[j] /\ re = result[j] /\ E = Enders(j) /\ S = Signalling(j)
        /\ f = (j > made.jobs)
    OBVIOUS
  <2>1. PICK x, y : x = <<v, l>> /\ y = <<w, 0>>
    OBVIOUS
  <2>2. x \in T /\ y \notin T
    <3>1. l \in Nat /\ 0 \in Nat /\ l <= Len(deque[v])
      BY <1>0, <1>3
    <3> QED BY <1>0, <1>1, <1>2, <2>0, <2>1, <3>1, TokenPairs
  <2>3. PICK V : V = (T \ {x}) \union {y}
    OBVIOUS
  <2>4. Account(p, V, W, sh, s, t, re, E, S, f)
    <3>1. p \in Nat /\ Account(p, T, W, sh, s, t, re, E, S, f)
      BY <1>3, <2>0 DEF JobOK, SubInv, TaskTypes
    <3> QED BY <2>2, <2>3, <3>1, AccountSteal
  <2>5. Tokens(j)' = V
    <3>1. PICK U : U = Tokens(j)'
      OBVIOUS
    <3>2. U \subseteq Workers \X Nat
      BY <3>1 DEF Tokens
    <3>3. V \subseteq Workers \X Nat
      BY <2>0, <2>1, <2>3, TokenPairs
    <3>4. ASSUME NEW u \in Workers, NEW i \in Nat PROVE <<u, i>> \in U <=> <<u, i>> \in V
      <4>1. /\ <<u, i>> \in T <=> wpc[u] = "run" /\ job[u] = j /\ i <= Len(deque[u])
            /\ <<u, i>> \in U <=> wpc'[u] = "run" /\ job'[u] = j /\ i <= Len(deque'[u])
        BY <2>0, <3>1 DEF Tokens
      <4>2. /\ <<u, i>> = x <=> u = v /\ i = l
            /\ <<u, i>> = y <=> u = w /\ i = 0
        BY <2>1
      <4>3. <<u, i>> \in V <=> (<<u, i>> \in T /\ <<u, i>> # x) \/ <<u, i>> = y
        BY <2>3
      <4>4. CASE u = w
        <5>1. Len(deque'[u]) = 0
          BY <1>6, <4>4
        <5> QED BY <1>1, <1>5, <4>1, <4>2, <4>3, <4>4, <5>1
      <4>5. CASE u = v
        <5>1. wpc'[u] = "run" /\ job'[u] = j /\ Len(deque'[u]) = l - 1
          BY <1>0, <1>1, <1>2, <1>4, <1>5, <4>5
        <5>2. wpc[u] = "run" /\ job[u] = j /\ Len(deque[u]) = l /\ u # w
          BY <1>0, <1>1, <1>2, <4>5
        <5>3. i <= l - 1 <=> i <= l /\ i # l
          BY <1>3
        <5> QED BY <4>1, <4>2, <4>3, <4>5, <5>1, <5>2, <5>3
      <4>6. CASE u # w /\ u # v
        BY <1>5, <4>1, <4>2, <4>3, <4>6
      <4> QED BY <4>4, <4>5, <4>6
    <3> QED BY <3>1, <3>2, <3>3, <3>4, PairsEqual
  <2>6. Waiting(j)' = W
    BY <1>8, <2>0, WaitingSame
  <2>7. Enders(j)' = E /\ Signalling(j)' = S
    BY <1>1, <1>5, <2>0 DEF Enders, Signalling
  <2>8. /\ parts'[j] = p /\ shared'[j] = sh /\ sem'[j] = s /\ status'[j] = t /\ result'[j] = re
        /\ (j > made'.jobs) = f
    BY <1>1, <2>0
  <2> QED BY <2>4, <2>5, <2>6, <2>7, <2>8, Zenon DEF JobOK
<1>13. ASSUME NEW k \in Jobs, k # j
       PROVE  /\ \A u \in Workers : SameWork(u) \/ (~Has(u, k) /\ ~Has(u, k)')
              /\ Waiting(k)' = Waiting(k) /\ parts'[k] = parts[k] /\ shared'[k] = shared[k]
              /\ sem'[k] = sem[k] /\ status'[k] = status[k] /\ result'[k] = result[k]
              /\ (k > made'.jobs) = (k > made.jobs)
  <2>1. ASSUME NEW u \in Workers PROVE SameWork(u) \/ (~Has(u, k) /\ ~Has(u, k)')
    <3>1. CASE u = w
      BY <1>5, <1>6, <1>13, <3>1, NullAssumption DEF Has
    <3>2. CASE u = v
      BY <1>0, <1>1, <1>5, <1>13, <3>2 DEF Has
    <3>3. CASE u # w /\ u # v
      BY <1>5, <3>3 DEF SameWork
    <3> QED BY <3>1, <3>2, <3>3
  <2>2. Waiting(k)' = Waiting(k)
    BY <1>8, WaitingSame
  <2> QED BY <1>1, <2>1, <2>2
<1> QED BY <1>3, <1>8, <1>9, <1>10, <1>11, <1>12, <1>13, OneJobStep

-----------------------------------------------------------------------------
(* The invariant holds before the pool is made,                            *)
LEMMA SubInit == Init => SubInv
<1> SUFFICES ASSUME Init PROVE SubInv
  OBVIOUS
<1>l. LifeInv
  BY LifeInit
<1>0. Threads = Clients \union Workers /\ \A t \in Threads : pushing[t] = Null
  BY DEF Init, Threads
<1>1. ListTypes
  <2>1. \A w \in Workers : <<>> \in Seq(Nodes)
    OBVIOUS
  <2> QED BY <2>1 DEF Init, ListTypes, Links, Threads
<1>2. Lists
  <2> SUFFICES ASSUME NEW w \in Workers
               PROVE  \E s \in 0..Len(order[w]) : IsList(order[w], s, First(w), m_head[w], m_next)
    BY DEF Lists
  <2>1. order[w] = <<>> /\ First(w) = Null /\ m_head[w] = Null
    BY DEF Init, First
  <2>2. 0 \in 0..Len(order[w]) /\ IsList(order[w], 0, First(w), m_head[w], m_next)
    BY <2>1 DEF IsList
  <2> QED BY <2>2
<1>3. \A n : ~Pending(n)
  BY <1>0 DEF Init, Pending, Pushed, Queued
<1>4. OnePlace
  BY <1>0 DEF Init, OnePlace, Pushed, Queued
<1>5. TaskTypes
  BY SubmissionAssumption DEF Init, TaskTypes
<1>6. FutureTypes
  BY DEF Init, FutureTypes
<1>7. Roles
  BY <1>0 DEF Init, Roles, Role, InTask, Threads
<1>8. JobsOK
  <2> SUFFICES ASSUME NEW j \in Jobs PROVE JobOK(j)
    BY DEF JobsOK
  <2>1. Tokens(j) = {} /\ Enders(j) = {} /\ Signalling(j) = {}
    BY DEF Init, Tokens, Enders, Signalling
  <2>2. Waiting(j) = {}
    BY <1>3 DEF Waiting
  <2>3. parts[j] = 0 /\ shared[j] = {} /\ sem[j] = 0 /\ status[j] = "no_wait"
    BY DEF Init
  <2>4. IsFiniteSet({}) /\ Cardinality({}) = 0
    BY FS_EmptySet
  <2>5. PICK re, f : re = result[j] /\ f = (j > made.jobs)
    OBVIOUS
  <2>6. Account(0, {}, {}, {}, 0, "no_wait", re, {}, {}, f)
    BY <2>4 DEF Account
  <2> QED BY <2>1, <2>2, <2>3, <2>5, <2>6 DEF JobOK
<1>9. Drained
  BY DEF Init, Drained, Parked
<1> QED BY <1>l, <1>1, <1>2, <1>4, <1>5, <1>6, <1>7, <1>8, <1>9 DEF SubInv, ListInv

(* and every step keeps it.                                                *)
LEMMA SubStep == SubInv /\ [Next]_vars => SubInv'
<1> SUFFICES ASSUME SubInv, [Next]_vars PROVE SubInv'
  OBVIOUS
<1>l. LifeInv'
  BY LifeStep DEF SubInv
<1>1. ASSUME NEW c \in Clients, Schedule(c) \/ Client(c) \/ Detach(c) PROVE SubInv'
  BY <1>l, <1>1, ScheduleStep, LinkKeeps, ScheduleReturnsStep, WaitStep, DetachStep DEF Client, Threads
<1>2. ASSUME NEW w \in Workers, WorkLoop(w) PROVE SubInv'
  BY <1>l, <1>2, IdleStep, PopAllKeeps, StealStep, ForEachStep, ResumeReturnsStep DEF WorkLoop, Ends
<1>3. ASSUME NEW w \in Workers, Task(w) PROVE SubInv'
  BY <1>l, <1>3, LinkKeeps, ResumeOnReturnsStep, PartEndsStep, RootReturnsStep, SignalStep, DestroyStep
     DEF Task, Threads
<1>4. ASSUME NEW w \in Workers, Fork(w) \/ \E v \in Workers : ResumeOn(w, v) PROVE SubInv'
  BY <1>l, <1>4, ForkStep, ResumeOnStep
<1>5. CASE Owner \/ DestroyPool \/ UNCHANGED vars
  BY <1>l, <1>5, OwnerKeeps
<1> QED BY <1>1, <1>2, <1>3, <1>4, <1>5 DEF Next

-----------------------------------------------------------------------------
(* The destructor returns when all workers are gone.                       *)
Ended == pool = "destroyed" => \A w \in Team : wpc[w] = "gone"

(* A worker that is gone stays gone.                                       *)
LEMMA EndedStep == LifeInv /\ Ended /\ [Next]_vars => Ended'
<1> SUFFICES ASSUME LifeInv, Ended, [Next]_vars, pool' = "destroyed" PROVE \A v \in Team' : wpc'[v] = "gone"
  BY DEF Ended
<1>s. Team \subseteq Workers
  BY SubmissionAssumption DEF Team
<1>1. CASE PoolDestroyed
  BY <1>1 DEF PoolDestroyed, workerVars, Team
<1>2. CASE Construct \/ Constructed \/ DestroyPool
  BY <1>2 DEF Construct, Constructed, DestroyPool
<1>3. ASSUME NEW t \in Threads,
             \/ Link(t) \/ Schedule(t) \/ ScheduleReturns(t)
             \/ Wait(t) \/ Get(t) \/ Detach(t) \/ DestroyFuture(t)
      PROVE  \A v \in Team' : wpc'[v] = "gone"
  BY <1>3, ClientsAreQuiet DEF Quiet, Team, Ended
<1>4. ASSUME NEW w \in Workers, Loop(w) \/ Ends(w) PROVE \A v \in Team' : wpc'[v] = "gone"
  <2>1. UNCHANGED <<kind, pool>>
    <3>1. CASE Loop(w)
      BY <3>1, LoopMoves DEF LoopFlow, LifeInv
    <3>2. CASE Ends(w)
      BY <3>2, Zenon DEF Ends, WorkerInit, LatchStart, TestStop, StopWorker, Finalize
    <3> QED BY <1>4, <3>1, <3>2
  <2>2. wpc[w] # "gone"
    <3>1. CASE Loop(w)
      BY <3>1, LoopMoves DEF LoopFlow, LifeInv, Running
    <3>2. CASE Ends(w)
      BY <3>2 DEF Ends, WorkerInit, LatchStart, TestStop, StopWorker, Finalize
    <3> QED BY <1>4, <3>1, <3>2
  <2>3. w \in Team
    <3>1. CASE WorkerInit(w)
      BY <3>1 DEF WorkerInit
    <3>2. CASE wpc[w] # "init"
      BY <3>2 DEF LifeInv, Latches
    <3>3. wpc[w] = "init" => WorkerInit(w)
      <4>1. CASE Loop(w)
        BY <4>1, LoopMoves DEF LoopFlow, LifeInv, Running
      <4>2. CASE Ends(w)
        BY <4>2 DEF Ends, LatchStart, TestStop, StopWorker, Finalize
      <4> QED BY <1>4, <4>1, <4>2
    <3> QED BY <3>1, <3>2, <3>3
  <2> QED BY <2>1, <2>2, <2>3 DEF Ended
<1>5. CASE UNCHANGED vars
  <2>1. UNCHANGED <<kind, wpc, pool>>
    BY <1>5, Zenon DEF vars, workerVars
  <2> QED BY <2>1 DEF Ended, Team
<1>6. ASSUME NEW c \in Clients, Schedule(c) \/ Client(c) \/ Detach(c) PROVE \A v \in Team' : wpc'[v] = "gone"
  BY <1>6, <1>3 DEF Client, Threads
<1>7. ASSUME NEW w \in Workers, WorkLoop(w) PROVE \A v \in Team' : wpc'[v] = "gone"
  BY <1>7, <1>4 DEF WorkLoop, Loop, Ends
<1>8. ASSUME NEW w \in Workers, Task(w) \/ Fork(w) \/ \E v \in Workers : ResumeOn(w, v)
      PROVE  \A v \in Team' : wpc'[v] = "gone"
  <2>1. CASE Link(w)
    BY <2>1, <1>3 DEF Threads
  <2>2. CASE ~Link(w)
    BY <1>8, <2>2, <1>4 DEF Task, Loop
  <2> QED BY <2>1, <2>2
<1> QED BY <1>1, <1>2, <1>5, <1>6, <1>7, <1>8 DEF Next, Owner

-----------------------------------------------------------------------------
(* A job that has signalled has nothing left but its end,                  *)
LEMMA FutureLemma == SubInv => FutureIsSafe
<1> SUFFICES ASSUME SubInv PROVE FutureIsSafe
  OBVIOUS
<1>1. ASSUME NEW w \in Workers, wpc[w] \in {"signal", "destroy"} PROVE shared[job[w]] # {}
  BY <1>1, AtEnd DEF JobOK, Account
<1>2. \A j \in Jobs : sem[j] \in 0..1
  BY DEF SubInv, FutureTypes
<1>3. ASSUME NEW j \in Jobs, status[j] # "no_wait" \/ sem[j] = 1
      PROVE  /\ result[j] /\ parts[j] = 0
             /\ \A w \in Workers : job[w] = j => wpc[w] = "destroy"
  <2>1. JobOK(j) /\ parts[j] \in Nat
    BY DEF SubInv, JobsOK, TaskTypes
  <2>2. ~(parts[j] > 0) /\ Signalling(j) = {} /\ result[j] = TRUE
    BY <1>3, <2>1 DEF JobOK, Account
  <2>3. ASSUME NEW w \in Workers, job[w] = j PROVE wpc[w] = "destroy"
    <3>1. wpc[w] \in InTask
      BY <2>3, NullAssumption DEF SubInv, Roles, Role
    <3>2. wpc[w] # "signal"
      BY <2>2, <2>3 DEF Signalling
    <3>3. wpc[w] # "run"
      <4> SUFFICES ASSUME wpc[w] = "run" PROVE FALSE
        OBVIOUS
      <4>0. 0 \in 0..Len(deque[w])
        BY AtWork
      <4>1. <<w, 0>> \in Tokens(j)
        BY <2>3, <4>0, AtWork
      <4>2. PICK p, T, W, sh, s, t, re, E, S, f :
              /\ p = parts[j] /\ T = Tokens(j) /\ W = Waiting(j) /\ sh = shared[j] /\ s = sem[j]
              /\ t = status[j] /\ re = result[j] /\ E = Enders(j) /\ S = Signalling(j)
              /\ f = (j > made.jobs)
        OBVIOUS
      <4>3. p > 0
        <5>1. PICK x : x = <<w, 0>>
          OBVIOUS
        <5>2. Account(p, T, W, sh, s, t, re, E, S, f) /\ x \in T /\ p \in Nat
          BY <2>1, <4>1, <4>2, <5>1 DEF JobOK
        <5> QED BY <5>2, TokenMeansRunning
      <4> QED BY <2>2, <4>2, <4>3
    <3> QED BY <3>1, <3>2, <3>3 DEF InTask
  <2> QED BY <2>1, <2>2, <2>3
<1> QED BY <1>1, <1>2, <1>3 DEF FutureIsSafe, SharedStateOutlivesSignal, ResultIsThere

(* and nobody is left to have any part of a job once all workers are gone. *)
LEMMA EndedLemma == SubInv /\ Ended => NothingLeftBehind
<1> SUFFICES ASSUME SubInv, Ended, pool = "destroyed", NEW j \in 1..made.jobs
             PROVE  parts[j] = 0 /\ "coroutine" \notin shared[j]
  BY DEF NothingLeftBehind
<1>s. Team \subseteq Workers /\ Solo \in Team
  BY SubmissionAssumption DEF Team
<1>1. \A w \in Workers : wpc[w] \in {"init", "gone"}
  BY DEF Ended, SubInv, LifeInv, Latches
<1>2. stop
  BY <1>s DEF Ended, SubInv, LifeInv, StopOrder, Leaving
<1>3. \A t \in Threads : pushing[t] = Null
  BY <1>2 DEF SubInv, LifeInv, StopOrder
<1>4. \A w \in Workers : order[w] = <<>>
  BY <1>1 DEF SubInv, Drained, Parked
<1>5. Tokens(j) = {} /\ Enders(j) = {}
  BY <1>1 DEF Tokens, Enders
<1>6. Waiting(j) = {}
  BY <1>3, <1>4 DEF Waiting, Pending, Pushed, Queued
<1>7. j \in Jobs /\ JobOK(j)
  BY SubmissionAssumption DEF SubInv, JobsOK, TaskTypes, Jobs
<1>8. parts[j] = 0
  <2>1. parts[j] = Cardinality({})
    BY <1>5, <1>6, <1>7 DEF JobOK, Account
  <2> QED BY <2>1, FS_EmptySet
<1>9. "coroutine" \notin shared[j]
  BY <1>5, <1>7, <1>8 DEF JobOK, Account
<1> QED BY <1>8, <1>9

(* A queue cut at s is what has been taken and, backwards, what is listed. *)
LEMMA QueueParts ==
    ASSUME NEW o \in Seq(Nodes), NEW s \in 0..Len(o)
    PROVE  Taken(o, s) \o Reverse(Listed(o, s)) = o
<1> DEFINE a == Taken(o, s)
           b == Listed(o, s)
           r == Reverse(b)
<1>0. s \in Nat /\ Len(o) \in Nat /\ s <= Len(o) /\ Len(o) - s \in Nat
  OBVIOUS
<1>1. a \in Seq(Nodes) /\ Len(a) = s /\ \A i \in 1..s : a[i] = o[i]
  BY <1>0 DEF Taken
<1>2. b \in Seq(Nodes) /\ Len(b) = Len(o) - s /\ \A i \in 1..(Len(o) - s) : b[i] = o[Len(o) + 1 - i]
  <2>1. \A i \in 1..(Len(o) - s) : Len(o) + 1 - i \in 1..Len(o) /\ o[Len(o) + 1 - i] \in Nodes
    BY <1>0
  <2> QED BY <1>0, <2>1 DEF Listed
<1> HIDE DEF a, b
<1>3. r \in Seq(Nodes) /\ Len(r) = Len(o) - s /\ \A i \in 1..(Len(o) - s) : r[i] = o[s + i]
  <2>1. ASSUME NEW i \in 1..(Len(o) - s)
        PROVE  b[(Len(b) - i) + 1] = o[s + i] /\ b[(Len(b) - i) + 1] \in Nodes
    <3>1. (Len(b) - i) + 1 \in 1..(Len(o) - s) /\ Len(o) + 1 - ((Len(b) - i) + 1) = s + i
      BY <1>0, <1>2
    <3> QED BY <1>2, <3>1, SMTT(30)
  <2>2. r = [i \in 1..(Len(o) - s) |-> b[(Len(b) - i) + 1]]
    BY <1>2 DEF Reverse
  <2> HIDE DEF r
  <2>3. r \in Seq(Nodes) /\ Len(r) = Len(o) - s
    BY <1>0, <2>1, <2>2
  <2>4. \A i \in 1..(Len(o) - s) : r[i] = o[s + i]
    BY <2>1, <2>2
  <2> QED BY <2>3, <2>4
<1> HIDE DEF r
<1>4. PICK q : q = a \o r
  OBVIOUS
<1>5. /\ q \in Seq(Nodes) /\ Len(q) = Len(o)
      /\ \A i \in 1..s : q[i] = a[i]
      /\ \A i \in 1..(Len(o) - s) : q[s + i] = r[i]
  <2>1. /\ a \o r \in Seq(Nodes) /\ Len(a \o r) = Len(a) + Len(r)
        /\ \A i \in 1 .. Len(a)+Len(r) : (a \o r)[i] = IF i <= Len(a) THEN a[i] ELSE r[i - Len(a)]
    BY <1>1, <1>3, ConcatProperties
  <2>2. Len(q) = Len(o) /\ q \in Seq(Nodes)
    BY <1>0, <1>1, <1>3, <1>4, <2>1
  <2>3. \A i \in 1..s : i \in 1..(Len(a) + Len(r)) /\ i <= Len(a)
    BY <1>0, <1>1, <1>3
  <2>4. \A i \in 1..(Len(o) - s) : s + i \in 1..(Len(a) + Len(r)) /\ ~(s + i <= Len(a)) /\ (s + i) - Len(a) = i
    BY <1>0, <1>1, <1>3
  <2> QED BY <1>4, <2>1, <2>2, <2>3, <2>4
<1>6. ASSUME NEW i \in 1..Len(o) PROVE q[i] = o[i]
  <2>1. CASE i <= s
    <3>1. i \in 1..s
      BY <1>0, <2>1
    <3> QED BY <1>1, <1>5, <3>1
  <2>2. CASE ~(i <= s)
    <3>1. i - s \in 1..(Len(o) - s) /\ s + (i - s) = i
      BY <1>0, <2>2
    <3> QED BY <1>3, <1>5, <3>1
  <2> QED BY <2>1, <2>2
<1>7. q = o
  BY <1>5, <1>6
<1> QED BY <1>4, <1>7 DEF a, b, r

(* What the pointers lead through is the queue, and who waits in it is     *)
(* alive.                                                                  *)
LEMMA FifoLemma == SubInv => SubmissionsAreFifo
<1> SUFFICES ASSUME SubInv, NEW w \in Workers
             PROVE  LET taken == Chain(IF wpc[w] = "each" THEN root[w] ELSE next[w])
                    IN  /\ taken \o Reverse(Chain(m_head[w])) = order[w]
                        /\ \A i \in DOMAIN order[w] : Alive(order[w][i])
                        /\ {m_head[w], next[w]} \subseteq Nodes \union {Null}
                        /\ wpc[w] = "each" => root[w] \in Nodes
  BY DEF SubmissionsAreFifo
<1>t. /\ order[w] \in Seq(Nodes) /\ m_next \in [Nodes -> Links]
      /\ {m_head[w], next[w]} \subseteq Nodes \union {Null}
  BY DEF SubInv, ListInv, ListTypes
<1>0. PICK o, f, h : o = order[w] /\ f = First(w) /\ h = m_head[w]
  OBVIOUS
<1>1. PICK s \in 0..Len(o) : IsList(o, s, f, h, m_next)
  BY <1>0 DEF SubInv, ListInv, Lists
<1>2. o \in Seq(Nodes) /\ Distinct(o)
  BY <1>0, <1>t DEF SubInv, ListInv, OnePlace, Distinct
<1>3. Chain(f) = Taken(o, s) /\ Chain(h) = Listed(o, s)
  <2>1. LinkedFrom(f, Taken(o, s)) /\ LinkedFrom(h, Listed(o, s))
    BY <1>1, <1>2, TakenIsLinked, ListedIsLinked
  <2> QED BY <1>t, <2>1, ChainIs
<1>4. Chain(f) \o Reverse(Chain(h)) = o
  BY <1>1, <1>2, <1>3, QueueParts
<1>5. ASSUME NEW i \in DOMAIN order[w] PROVE Alive(order[w][i])
  <2>1. i \in 1..Len(o) /\ o[i] \in Nodes
    BY <1>0, <1>2
  <2>2. PICK n, j : n = o[i] /\ j = n[1]
    OBVIOUS
  <2>3. n \in Nodes /\ j \in Jobs /\ Pending(n)
    BY <1>0, <2>1, <2>2 DEF Nodes, Pending, Queued
  <2>4. n \in Waiting(j)
    BY <2>2, <2>3 DEF Waiting
  <2>5. shared[j] # {}
    <3>1. JobOK(j) /\ Waiting(j) # {}
      BY <2>3, <2>4 DEF SubInv, JobsOK
    <3>2. parts[j] = 1
      BY <3>1 DEF JobOK, Account
    <3> QED BY <3>1, <3>2 DEF JobOK, Account
  <2>6. m_next[n] # Garbage
    <3>1. m_next[n] = IF i <= s THEN IF i = s THEN Null ELSE o[i + 1]
                              ELSE IF i = s + 1 THEN Null ELSE o[i - 1]
      BY <1>1, <2>1, <2>2 DEF IsList
    <3>2. (i <= s /\ i # s) => o[i + 1] \in Nodes
      BY <1>1, <1>2, <2>1
    <3>3. (~(i <= s) /\ i # s + 1) => o[i - 1] \in Nodes
      BY <1>1, <1>2, <2>1
    <3> QED BY <3>1, <3>2, <3>3, NullAssumption
  <2> QED BY <1>0, <2>2, <2>5, <2>6 DEF Alive
<1>6. wpc[w] = "each" => root[w] \in Nodes
  BY DEF SubInv, Roles, Role
<1> QED BY <1>0, <1>t, <1>4, <1>5, <1>6 DEF First

(* The invariant holds always.                                             *)
LEMMA SubAlways == Spec => [](SubInv /\ Ended)
<1>1. Init => SubInv /\ Ended
  BY SubInit DEF Init, Ended
<1>2. SubInv /\ Ended /\ [Next]_vars => (SubInv /\ Ended)'
  BY SubStep, EndedStep DEF SubInv
<1> QED BY <1>1, <1>2, PTL DEF Spec

(* The submission list is a queue: with any number of clients and workers, *)
(* however pushes, failed compare-exchanges, pops of the whole list and    *)
(* resumed jobs that free their nodes interleave, for_each_elem resumes    *)
(* exactly the nodes that were pushed, in the order of the pushes, and     *)
(* every pointer it follows leads to a node that exists.                   *)
THEOREM SubmissionsStayFifo == Spec => []SubmissionsAreFifo
BY SubAlways, FifoLemma, PTL

(* The worker that ends a root task never touches a shared state that is   *)
(* gone, the semaphore never holds more than one permit, and who got past  *)
(* it finds the result stored and no part of the job running, whoever      *)
(* detaches, waits or destroys the future meanwhile.                       *)
THEOREM FuturesAreSafe == Spec => []FutureIsSafe
BY SubAlways, FutureLemma, PTL

(* When the destructor of the pool returns, every job that was submitted   *)
(* has ended and its coroutine is destroyed: stop is seen before the last  *)
(* look at the list, never instead of it.                                  *)
THEOREM PoolsLeaveNothing == Spec => []NothingLeftBehind
BY SubAlways, EndedLemma, PTL
=============================================================================

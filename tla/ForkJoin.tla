------------------------------ MODULE ForkJoin ------------------------------
(***************************************************************************)
(* Continuation stealing: what libfork's workers do with coroutine frames. *)
(*                                                                         *)
(* A frame that forks pushes ITSELF (its continuation) on its worker's     *)
(* deque and the worker runs the child.  If nobody steals the continuation *)
(* the child pops it when it ends; otherwise the thief increments m_steal  *)
(* and runs it, and the two meet through m_join.  The 16 bit counters are  *)
(* combined as follows: m_join starts at k_u16_max and every child whose   *)
(* parent was stolen subtracts 1; a parent that has to wait at its join    *)
(* subtracts k_u16_max - m_steal, so that m_join becomes the number of     *)
(* children still missing, and the child that takes it to 0 resumes the    *)
(* parent.                                                                 *)
(*                                                                         *)
(* Frames live on stacks, in LIFO order.  A worker owns at most one        *)
(* non-empty stack; the stack a stolen frame lives on stays with the       *)
(* worker that forked and is handed over at the join.  A frame may also    *)
(* move itself to another worker (context_switch_awaitable).               *)
(*                                                                         *)
(* Deques are atomic here (WorkDeque is what the implementations refine);  *)
(* segments of a stack are not told apart; the bodies of the tasks are     *)
(* arbitrary: at any time a running frame may fork, call, join, switch, or *)
(* end by returning or by throwing, where the library allows it.           *)
(***************************************************************************)
EXTENDS Integers, FiniteSets, Sequences, SequencesExt

CONSTANTS
    Workers,     \* worker threads
    MaxFrames,   \* bound: number of frames created in a behaviour
    MaxRoots,    \* bound: number of root tasks submitted
    MaxSwitch,   \* bound: number of explicit context switches
    MaxThrow,    \* bound: number of exceptions that leave a task
    CounterMax   \* k_u16_max, the largest value of m_join and m_steal

ASSUME ConstantsAssumption ==
    /\ {MaxFrames, MaxRoots, MaxSwitch, MaxThrow} \subseteq Nat
    /\ CounterMax \in Nat \ {0}
    /\ IsFiniteSet(Workers)

Frames == 1..MaxFrames
None == 0

VARIABLES
    frame,    \* the control block of each frame
    worker,   \* what each worker does, with its locals and its stack
    deque,    \* each worker's deque of continuations, oldest first
    submit,   \* frames submitted to a worker and not resumed yet
    mem,      \* the frames allocated on each stack, in allocation order
    parked,   \* frames suspended in join_awaitable::await_suspend
    created,  \* number of frames created; frame ids are used in order
    budget    \* roots, switches and exceptions that may still happen

vars == <<frame, worker, deque, submit, mem, parked, created, budget>>

(***************************************************************************)
(* A frame's fields: its parent and how it was started; the stack it is    *)
(* on (named after the first frame on it); m_steal and m_join; m_except    *)
(* and m_eptr ("flag" between the exchange and the construction of the     *)
(* pointer); and, for the user's program: is a fork not joined yet, which  *)
(* child was forked last and at which m_steal (the sync-fork awaitable).   *)
(***************************************************************************)
Fresh(parent, kind, stack) ==
    [st |-> "live", parent |-> parent, kind |-> kind, stack |-> stack,
     steal |-> 0, join |-> CounterMax, exc |-> "none",
     open |-> FALSE, last |-> None, pre |-> 0]

Unused == [Fresh(None, "root", None) EXCEPT !.st = "none"]

Wrap(n) == n % (CounterMax + 1)

(* A worker: its position, the frame it works on, a parent it reports to   *)
(* or has stored an exception in (or m_steal as read by a context switch), *)
(* and its thread-local stack, None when that is empty.                    *)
IdleOn(stack) == [pc |-> "idle", f |-> None, arg |-> None, stack |-> stack]
RunOn(f, stack) == [pc |-> "run", f |-> f, arg |-> None, stack |-> stack]

(* frame::reset, once all forked children have joined                      *)
Reset(fr) == [fr EXCEPT !.steal = 0, !.join = CounterMax]

(* join_awaitable::await_resume: rethrows, so the exception is gone        *)
AfterJoin(fr) == [fr EXCEPT !.exc = "none", !.open = FALSE, !.last = None]

(* Allocation on the worker's stack; the first frame founds a new stack.   *)
StackFor(w, f) == IF worker[w].stack = None THEN f ELSE worker[w].stack

Allocate(w, f) ==
    mem' = [mem EXCEPT ![StackFor(w, f)] = Append(@, f)]

Deallocate(w) == mem' = [mem EXCEPT ![worker[w].stack] = Front(@)]

(* The worker's stack once its top frame is gone.                          *)
StackLeft(w) == IF Len(mem[worker[w].stack]) = 1 THEN None ELSE worker[w].stack

-----------------------------------------------------------------------------
(* schedule(): a root task is created on a fresh stack, which is released  *)
(* and travels with the task, and is submitted to some worker.             *)
Submit(w) ==
    /\ budget.roots > 0 /\ created < MaxFrames
    /\ LET f == created + 1 IN
         /\ frame' = [frame EXCEPT ![f] = Fresh(None, "root", f)]
         /\ mem' = [mem EXCEPT ![f] = <<f>>]
         /\ submit' = [submit EXCEPT ![w] = @ \union {f}]
         /\ created' = f
    /\ budget' = [budget EXCEPT !.roots = @ - 1]
    /\ UNCHANGED <<worker, deque, parked>>

(* resume(submit_handle): take the stack unless the frame has been stolen  *)
ResumeSubmitted(w, f) ==
    /\ worker[w].pc = "idle"
    /\ f \in submit[w]
    /\ submit' = [submit EXCEPT ![w] = @ \ {f}]
    /\ worker' = [worker EXCEPT ![w] =
                    RunOn(f, IF frame[f].steal = 0 THEN frame[f].stack ELSE @.stack)]
    /\ UNCHANGED <<frame, deque, mem, parked, created, budget>>

(* MUTANT of Steal: forgets fetch_add_steal().                             *)
BugStealNotCounted(w, v) ==
    /\ worker[w].pc = "idle"
    /\ w # v
    /\ deque[v] # <<>>
    /\ worker' = [worker EXCEPT ![w] = RunOn(Head(deque[v]), @.stack)]
    /\ deque' = [deque EXCEPT ![v] = Tail(@)]
    /\ UNCHANGED <<frame, submit, mem, parked, created, budget>>

(* try_steal() on a victim, then resume(task_handle)                       *)
Steal(w, v) ==
    /\ worker[w].pc = "idle"
    /\ w # v
    /\ deque[v] # <<>>
    /\ LET f == Head(deque[v]) IN
         /\ frame' = [frame EXCEPT ![f].steal = Wrap(@ + 1)]
         /\ worker' = [worker EXCEPT ![w] = RunOn(f, @.stack)]
    /\ deque' = [deque EXCEPT ![v] = Tail(@)]
    /\ UNCHANGED <<submit, mem, parked, created, budget>>

(* fork_awaitable: the child is allocated, the parent pushed, the child run *)
Fork(w) ==
    /\ worker[w].pc = "run"
    /\ created < MaxFrames
    /\ LET p == worker[w].f
           c == created + 1
       IN  /\ frame' = [frame EXCEPT
                          ![c] = Fresh(p, "fork", StackFor(w, c)),
                          ![p].open = TRUE, ![p].last = c, ![p].pre = frame[p].steal]
           /\ Allocate(w, c)
           /\ deque' = [deque EXCEPT ![w] = Append(@, p)]
           /\ worker' = [worker EXCEPT ![w] = RunOn(c, StackFor(w, c))]
           /\ created' = c
    /\ UNCHANGED <<submit, parked, budget>>

(* call_awaitable: the child is run, the parent waits for it               *)
Call(w) ==
    /\ worker[w].pc = "run"
    /\ created < MaxFrames
    /\ LET p == worker[w].f
           c == created + 1
       IN  /\ frame' = [frame EXCEPT ![c] = Fresh(p, "call", StackFor(w, c))]
           /\ Allocate(w, c)
           /\ worker' = [worker EXCEPT ![w] = RunOn(c, StackFor(w, c))]
           /\ created' = c
    /\ UNCHANGED <<deque, submit, parked, budget>>

(***************************************************************************)
(* The end of a task.  unhandled_exception() stores an exception in the    *)
(* task's result, if that can hold one (then it ends as by a return), or   *)
(* in the parent: the first child to set m_except constructs m_eptr.       *)
(***************************************************************************)
MayEnd(f) == ~frame[f].open /\ frame[f].exc = "none"

Return(w) ==
    /\ worker[w].pc = "run"
    /\ MayEnd(worker[w].f)
    /\ worker' = [worker EXCEPT ![w].pc = "final"]
    /\ UNCHANGED <<frame, deque, submit, mem, parked, created, budget>>

CaptureException(w) ==
    /\ worker[w].pc = "run"
    /\ budget.throws > 0
    /\ MayEnd(worker[w].f)
    /\ frame[worker[w].f].kind # "root"
    /\ LET p == frame[worker[w].f].parent IN
         /\ worker' = [worker EXCEPT
                          ![w].pc = IF frame[p].exc = "none" THEN "construct" ELSE "final",
                          ![w].arg = p]
         /\ frame' = [frame EXCEPT ![p].exc = IF @ = "none" THEN "flag" ELSE @]
    /\ budget' = [budget EXCEPT !.throws = @ - 1]
    /\ UNCHANGED <<deque, submit, mem, parked, created>>

ConstructException(w) ==
    /\ worker[w].pc = "construct"
    /\ frame' = [frame EXCEPT ![frame[worker[w].f].parent].exc = "set"]
    /\ worker' = [worker EXCEPT ![w].pc = "final"]
    /\ UNCHANGED <<deque, submit, mem, parked, created, budget>>

(* final_awaitable: destroy the frame, then continue by kind of task.      *)
FinalRoot(w) ==
    LET f == worker[w].f IN
    /\ worker[w].pc = "final" /\ frame[f].kind = "root"
    /\ frame' = [frame EXCEPT ![f].st = "done"]
    /\ Deallocate(w)
    /\ worker' = [worker EXCEPT ![w] = IdleOn(StackLeft(w))]
    /\ UNCHANGED <<deque, submit, parked, created, budget>>

(* The parent goes on.  Only if the child's result can hold exceptions do  *)
(* the awaitables of an eager call and of a sync fork look at the parent's *)
(* frame, where the exception of a sibling may be; they rethrow it if      *)
(* nothing has been stolen in this scope, and leave it to the join if not. *)
Rethrows(w, p, eager) == eager /\ worker[w].arg = None /\ frame[p].steal = 0

FinalCall(w) ==
    LET f == worker[w].f
        p == frame[f].parent
    IN
    /\ worker[w].pc = "final" /\ frame[f].kind = "call"
    /\ \E eager \in BOOLEAN :
         frame' = [frame EXCEPT
                     ![f].st = "done",
                     ![p].exc = IF Rethrows(w, p, eager) THEN "none" ELSE @]
    /\ Deallocate(w)
    /\ worker' = [worker EXCEPT ![w] = RunOn(p, StackLeft(w))]
    /\ UNCHANGED <<deque, submit, parked, created, budget>>

(* The continuation was not stolen: keep going with it.                    *)
FinalForkPop(w) ==
    LET f == worker[w].f
        p == Last(deque[w])
    IN
    /\ worker[w].pc = "final" /\ frame[f].kind = "fork"
    /\ deque[w] # <<>>
    /\ \E sync \in BOOLEAN :
         frame' = [frame EXCEPT
                     ![f].st = "done",
                     ![p].exc = IF Rethrows(w, p, sync) THEN "none" ELSE @]
    /\ Deallocate(w)
    /\ deque' = [deque EXCEPT ![w] = Front(@)]
    /\ worker' = [worker EXCEPT ![w] = RunOn(p, StackLeft(w))]
    /\ UNCHANGED <<submit, parked, created, budget>>

FinalForkStolen(w) ==
    LET f == worker[w].f IN
    /\ worker[w].pc = "final" /\ frame[f].kind = "fork"
    /\ deque[w] = <<>>
    /\ frame' = [frame EXCEPT ![f].st = "done"]
    /\ Deallocate(w)
    /\ worker' = [worker EXCEPT ![w] = [pc |-> "report", f |-> None,
                                        arg |-> frame[f].parent, stack |-> StackLeft(w)]]
    /\ UNCHANGED <<deque, submit, parked, created, budget>>

(* MUTANT of LastToJoin: all steals have joined, whoever waits for them.   *)
BugLastToJoinBySteals(p) == CounterMax - frame[p].join + 1 = frame[p].steal

(* parent->fetch_sub_joins(1): the last child takes the parent's stack,    *)
(* resets and resumes it; another child gives the stack up if it has it.   *)
LastToJoin(p) == frame[p].join = 1

ReportWins(w) ==
    LET p == worker[w].arg IN
    /\ worker[w].pc = "report"
    /\ LastToJoin(p)
    /\ frame' = [frame EXCEPT ![p] = AfterJoin(Reset(@))]
    /\ parked' = parked \ {p}
    /\ worker' = [worker EXCEPT ![w] = RunOn(p, frame[p].stack)]
    /\ UNCHANGED <<deque, submit, mem, created, budget>>

ReportLoses(w) ==
    LET p == worker[w].arg IN
    /\ worker[w].pc = "report"
    /\ ~LastToJoin(p)
    /\ frame' = [frame EXCEPT ![p].join = Wrap(@ - 1)]
    /\ worker' = [worker EXCEPT ![w] =
                    IF frame[p].stack = worker[w].stack THEN [@ EXCEPT !.pc = "release"]
                                                        ELSE IdleOn(@.stack)]
    /\ UNCHANGED <<deque, submit, mem, parked, created, budget>>

(* tls_stack->release() after a lost join race                             *)
ReportReleases(w) ==
    /\ worker[w].pc = "release"
    /\ worker' = [worker EXCEPT ![w] = IdleOn(None)]
    /\ UNCHANGED <<frame, deque, submit, mem, parked, created, budget>>

(***************************************************************************)
(* join_awaitable.                                                         *)
(***************************************************************************)
TakeStackResetFrame(w, f) ==
    /\ frame' = [frame EXCEPT ![f] = AfterJoin(Reset(@))]
    /\ worker' = [worker EXCEPT ![w] = RunOn(f, frame[f].stack)]

(* k_u16_max - joins() == steals: every child that was separated reported  *)
AllReported(f) == frame[f].steal = CounterMax - frame[f].join

(* MUTANT of JoinReady: does not wait for the children that were separated. *)
BugJoinIgnoresMissing(w) ==
    LET f == worker[w].f IN
    /\ worker[w].pc = "run"
    /\ IF frame[f].steal = 0
       THEN frame' = [frame EXCEPT ![f] = AfterJoin(@)] /\ UNCHANGED worker
       ELSE TakeStackResetFrame(w, f)
    /\ UNCHANGED <<deque, submit, mem, parked, created, budget>>

(* await_ready: no steals, or all children have reported                   *)
JoinReady(w) ==
    LET f == worker[w].f IN
    /\ worker[w].pc = "run"
    /\ \/ /\ frame[f].steal = 0
          /\ frame' = [frame EXCEPT ![f] = AfterJoin(@)]
          /\ UNCHANGED worker
       \/ /\ frame[f].steal # 0
          /\ AllReported(f)
          /\ TakeStackResetFrame(w, f)
    /\ UNCHANGED <<deque, submit, mem, parked, created, budget>>

JoinNotReady(w) ==
    LET f == worker[w].f IN
    /\ worker[w].pc = "run"
    /\ frame[f].steal # 0
    /\ ~AllReported(f)
    /\ worker' = [worker EXCEPT ![w].pc = "suspend"]
    /\ UNCHANGED <<frame, deque, submit, mem, parked, created, budget>>

(* MUTANT of JoinWins: parks without looking whether anybody is missing.   *)
BugParksUnconditionally(w) ==
    LET f == worker[w].f IN
    /\ worker[w].pc = "suspend"
    /\ AllReported(f)
    /\ frame' = [frame EXCEPT ![f].join = Wrap(@ - (CounterMax - frame[f].steal))]
    /\ parked' = parked \union {f}
    /\ worker' = [worker EXCEPT ![w] = [@ EXCEPT !.pc = "selfsteal", !.f = None]]
    /\ UNCHANGED <<deque, submit, mem, created, budget>>

(* await_suspend: subtract what turns m_join into the number of missing    *)
(* children, unless there are none left.                                   *)
JoinWins(w) ==
    LET f == worker[w].f IN
    /\ worker[w].pc = "suspend"
    /\ AllReported(f)
    /\ TakeStackResetFrame(w, f)
    /\ UNCHANGED <<deque, submit, mem, parked, created, budget>>

(* MUTANT of JoinParks: returns to the scheduler without self-stealing.    *)
BugParkNoSelfSteal(w) ==
    LET f == worker[w].f IN
    /\ worker[w].pc = "suspend"
    /\ ~AllReported(f)
    /\ frame' = [frame EXCEPT ![f].join = Wrap(@ - (CounterMax - frame[f].steal))]
    /\ parked' = parked \union {f}
    /\ worker' = [worker EXCEPT ![w] = IdleOn(@.stack)]
    /\ UNCHANGED <<deque, submit, mem, created, budget>>

JoinParks(w) ==
    LET f == worker[w].f IN
    /\ worker[w].pc = "suspend"
    /\ ~AllReported(f)
    /\ frame' = [frame EXCEPT ![f].join = Wrap(@ - (CounterMax - frame[f].steal))]
    /\ parked' = parked \union {f}
    /\ worker' = [worker EXCEPT ![w] = [@ EXCEPT !.pc = "selfsteal", !.f = None]]
    /\ UNCHANGED <<deque, submit, mem, created, budget>>

(* MUTANT of SelfSteal: the ancestor is not marked as stolen.              *)
BugSelfStealNotCounted(w) ==
    /\ worker[w].pc = "selfsteal"
    /\ worker' = [worker EXCEPT ![w] = IF deque[w] # <<>> THEN RunOn(Last(deque[w]), @.stack)
                                                          ELSE IdleOn(@.stack)]
    /\ deque' = [deque EXCEPT ![w] = IF @ # <<>> THEN Front(@) ELSE @]
    /\ UNCHANGED <<frame, submit, mem, parked, created, budget>>

(* try_self_stealing: resume an ancestor left on the own deque as stolen   *)
SelfSteal(w) ==
    /\ worker[w].pc = "selfsteal"
    /\ \/ /\ deque[w] # <<>>
          /\ frame' = [frame EXCEPT ![Last(deque[w])].steal = Wrap(@ + 1)]
          /\ worker' = [worker EXCEPT ![w] = RunOn(Last(deque[w]), @.stack)]
          /\ deque' = [deque EXCEPT ![w] = Front(@)]
       \/ /\ deque[w] = <<>>
          /\ worker' = [worker EXCEPT ![w] = IdleOn(@.stack)]
          /\ UNCHANGED <<frame, deque>>
    /\ UNCHANGED <<submit, mem, parked, created, budget>>

(***************************************************************************)
(* context_switch_awaitable: submit the running frame to another worker,   *)
(* then release the stack if it travels with the frame, then self-steal.   *)
(***************************************************************************)
Switch(w, v) ==
    LET f == worker[w].f IN
    /\ worker[w].pc = "run"
    /\ budget.switches > 0
    /\ w # v
    /\ submit' = [submit EXCEPT ![v] = @ \union {f}]
    /\ worker' = [worker EXCEPT ![w] = [pc |-> "switch", f |-> None,
                                        arg |-> frame[f].steal, stack |-> @.stack]]
    /\ budget' = [budget EXCEPT !.switches = @ - 1]
    /\ UNCHANGED <<frame, deque, mem, parked, created>>

SwitchReleases(w) ==
    /\ worker[w].pc = "switch"
    /\ worker' = [worker EXCEPT ![w] = [pc |-> "selfsteal", f |-> None, arg |-> None,
                                        stack |-> IF @.arg = 0 THEN None ELSE @.stack]]
    /\ UNCHANGED <<frame, deque, submit, mem, parked, created, budget>>

-----------------------------------------------------------------------------
Init ==
    /\ frame = [f \in Frames |-> Unused]
    /\ worker = [w \in Workers |-> IdleOn(None)]
    /\ deque = [w \in Workers |-> <<>>]
    /\ submit = [w \in Workers |-> {}]
    /\ mem = [f \in Frames |-> <<>>]
    /\ parked = {}
    /\ created = 0
    /\ budget = [roots |-> MaxRoots, switches |-> MaxSwitch, throws |-> MaxThrow]

(* What a worker that is not idle does on its own.                         *)
Proceed(w) ==
    \/ Fork(w) \/ Call(w)
    \/ Return(w) \/ CaptureException(w) \/ ConstructException(w)
    \/ FinalRoot(w) \/ FinalCall(w) \/ FinalForkPop(w) \/ FinalForkStolen(w)
    \/ ReportWins(w) \/ ReportLoses(w) \/ ReportReleases(w)
    \/ JoinReady(w) \/ JoinNotReady(w) \/ JoinWins(w) \/ JoinParks(w)
    \/ SelfSteal(w) \/ SwitchReleases(w)
    \/ \E v \in Workers : Switch(w, v)

(* What an idle worker finds to do.                                        *)
FindWork(w) ==
    \/ \E f \in submit[w] : ResumeSubmitted(w, f)
    \/ \E v \in Workers : Steal(w, v)

Next == \E w \in Workers : Submit(w) \/ Proceed(w) \/ FindWork(w)

Spec == Init /\ [][Next]_vars

(* Workers do not stop half way, and idle ones keep looking for work.      *)
Fairness == \A w \in Workers : WF_vars(Proceed(w)) /\ WF_vars(FindWork(w))

FairSpec == Spec /\ Fairness

-----------------------------------------------------------------------------
Executing == {"run", "construct", "final", "suspend"}

Live == {f \in Frames : frame[f].st = "live"}

RunnersOf(f) == {w \in Workers : worker[w].f = f}
DequesOf(f) == {q \in Workers \X (1..MaxFrames) :
                  q[2] <= Len(deque[q[1]]) /\ deque[q[1]][q[2]] = f}
SubmittedTo(f) == {w \in Workers : f \in submit[w]}
Callees(f) == {c \in Live : frame[c].kind = "call" /\ frame[c].parent = f}

(* Forked children that f must still wait for: those that have not ended,  *)
(* and those that have ended but not told f yet.                           *)
Reporters(f) == {w \in Workers : worker[w].pc = "report" /\ worker[w].arg = f}
Outstanding(f) ==
    Cardinality({c \in Live : frame[c].kind = "fork" /\ frame[c].parent = f})
    + Cardinality(Reporters(f))

(* Values of the fields, of the workers and of the queues.                 *)
TypeOK ==
    /\ frame \in [Frames -> [st : {"none", "live", "done"}, parent : 0..MaxFrames,
                             kind : {"root", "fork", "call"}, stack : 0..MaxFrames,
                             steal : 0..CounterMax, join : 0..CounterMax,
                             exc : {"none", "flag", "set"}, open : BOOLEAN,
                             last : 0..MaxFrames, pre : 0..CounterMax]]
    /\ worker \in [Workers -> [pc : Executing \union {"idle", "report", "release",
                                                     "selfsteal", "switch"},
                               f : 0..MaxFrames, arg : Nat, stack : 0..MaxFrames]]
    /\ \A w \in Workers : IsInjective(deque[w]) /\ ToSet(deque[w]) \subseteq Live
    /\ submit \in [Workers -> SUBSET Live]
    /\ \A f \in Frames : IsInjective(mem[f]) /\ ToSet(mem[f]) \subseteq Live
    /\ parked \subseteq Live
    /\ created \in 0..MaxFrames

(* A frame that has not ended is in exactly one place: run by one worker,  *)
(* on one deque, submitted to one worker, suspended at its join, or waiting *)
(* for the one child it called.  So it is never resumed twice and never    *)
(* forgotten.                                                              *)
OnePlace ==
    \A f \in Live :
        Cardinality(RunnersOf(f)) + Cardinality(DequesOf(f)) + Cardinality(SubmittedTo(f))
        + Cardinality({f} \intersect parked) + Cardinality(Callees(f)) = 1

(* "Currently: joins() = k_u16_max - num_joined": the two counters always  *)
(* account for the children that are missing.                              *)
CountersAccountForChildren ==
    \A f \in Live :
        LET separated == frame[f].steal - (CounterMax - frame[f].join) IN
        Outstanding(f) = IF f \in parked THEN frame[f].join
                         ELSE IF DequesOf(f) # {} THEN separated + 1
                         ELSE separated

(* Past its join a frame has no child that still runs or still has to      *)
(* report: nobody writes to its results or touches its control block any   *)
(* more, whichever worker resumed it.                                      *)
JoinWaitsForChildren ==
    \A w \in Workers :
        LET f == worker[w].f IN
        worker[w].pc \in Executing /\ ~frame[f].open => Outstanding(f) = 0

(* "Parent has reached join and we are the last child task to complete":   *)
(* the child that sees m_join at 1 resumes a parent that is suspended at   *)
(* its join, not one that is still running.                                *)
LastChildResumesParkedParent ==
    \A w \in Workers :
        worker[w].pc = "report" /\ LastToJoin(worker[w].arg) => worker[w].arg \in parked

(* "if there have been any steals then we do not own the stack": a worker  *)
(* has the stack of the frame it runs exactly if that frame has not been   *)
(* stolen since its last join, and otherwise its own stack is empty (the   *)
(* assertions in context_switch_awaitable::await_suspend(), in             *)
(* take_stack_reset_frame() and in final_await_suspend()).                 *)
OwnsStackUnlessStolen ==
    \A w \in Workers :
        LET me == worker[w] IN
        /\ me.pc \in Executing =>
             me.stack = IF frame[me.f].steal = 0 THEN frame[me.f].stack ELSE None
        /\ me.pc = "selfsteal" => me.stack = None
        /\ me.pc = "report" => me.stack \in {None, frame[me.arg].stack}

(* resume() asserts context()->empty() and stack()->empty() before and     *)
(* after every task: a worker that looks for work has left no continuation *)
(* on its deque and no frame on its stack.                                 *)
IdleWorkerIsClean ==
    \A w \in Workers :
        worker[w].pc = "idle" => worker[w].stack = None /\ deque[w] = <<>>

(* No two workers work on one stack: one of them is just about to let go.  *)
StackHasOneUser ==
    \A w, v \in Workers :
        w # v /\ worker[w].stack = worker[v].stack /\ worker[w].stack # None
        => {worker[w].pc, worker[v].pc} \intersect {"release", "switch"} # {}

(* A frame is destroyed by the worker on whose stack it is the top: frames *)
(* leave a stack in FILO order even though any worker may end them.        *)
FramesEndOnTop ==
    \A w \in Workers :
        worker[w].pc \in {"construct", "final"} =>
            /\ worker[w].stack # None
            /\ mem[worker[w].stack] # <<>>
            /\ Last(mem[worker[w].stack]) = worker[w].f

(* LF_ASSERT(parent_task == parent): what a child that ends finds on its   *)
(* worker's deque is its own parent.                                       *)
PopFindsParent ==
    \A w \in Workers :
        (worker[w].pc = "final" /\ frame[worker[w].f].kind = "fork" /\ deque[w] # <<>>)
        => Last(deque[w]) = frame[worker[w].f].parent

(* sync_fork_awaitable: if m_steal is what it was before the fork, then    *)
(* the child that was forked has completed and its result may be used.     *)
SyncForkHasCompleted ==
    \A w \in Workers :
        LET f == worker[w].f IN
        (worker[w].pc = "run" /\ frame[f].last # None /\ frame[f].steal = frame[f].pre)
        => frame[frame[f].last].st = "done"

(* w's next step may rethrow, and so destroy, the exception of f.          *)
MayRethrow(w, f) ==
    LET me == worker[w] IN
    \/ me.pc \in {"run", "suspend"} /\ me.f = f /\ (frame[f].steal = 0 \/ AllReported(f))
    \/ me.pc = "final" /\ frame[me.f].kind = "call"
         /\ frame[me.f].parent = f /\ Rethrows(w, f, TRUE)
    \/ me.pc = "final" /\ frame[me.f].kind = "fork" /\ deque[w] # <<>>
         /\ Last(deque[w]) = f /\ Rethrows(w, f, TRUE)
    \/ me.pc = "report" /\ me.arg = f /\ LastToJoin(f)

(* "exception is not safe to touch until after a join": nobody rethrows    *)
(* m_eptr while the child that set m_except is still constructing it.      *)
ExceptionIsSafeToTouch ==
    \A f \in Live : frame[f].exc = "flag" => \A w \in Workers : ~MayRethrow(w, f)

(* What a worker finds: its stack and its deque are what the frame it runs *)
(* left there, and an idle worker has left nothing.                        *)
WorkerDiscipline ==
    /\ OwnsStackUnlessStolen /\ IdleWorkerIsClean
    /\ StackHasOneUser /\ FramesEndOnTop /\ PopFindsParent

(* What a parent may rely on at its joins: the children, their results and *)
(* their exceptions are there, and exactly one worker goes on.             *)
JoinIsSafe ==
    /\ JoinWaitsForChildren /\ LastChildResumesParkedParent
    /\ SyncForkHasCompleted /\ ExceptionIsSafeToTouch

(* Every task that was created ends, whatever was stolen, thrown or moved  *)
(* to another worker on the way.                                           *)
EveryTaskEnds == \A f \in Frames : (frame[f].st = "live") ~> (frame[f].st = "done")
=============================================================================

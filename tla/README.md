# libfork in TLA+

libfork is a C++ header library for continuation-stealing fork-join parallelism
on coroutines. This directory holds TLA+ models of it, the TLC
runs that check them and the theorems TLAPS proves about them. Paths below are
relative to `src/include/libfork/`.

## 1. The system

| part | source | state it keeps | operations |
|---|---|---|---|
| Chase-Lev deque (default) | `core/ext/deque_chase_lev.hpp` | `m_top`, `m_bottom`, `m_buf`, ring buffers | push, pop (owner), steal (anyone) |
| Lace split deque | `core/ext/deque_lace.hpp` | `m_top_split`, `m_allstolen`, `m_splitreq`, the owner's `m_worker`, one fixed array | the same; grow/shrink the shared part |
| lock-based deque | `core/ext/deque_blocking.hpp` | `m_flag`, two indices, one ring buffer | the same, under a spin lock |
| frames, fork, call, join | `core/impl/{frame,promise,awaitables}.hpp`, `core/ext/resume.hpp` | per frame: parent, `m_join`, `m_steal`, exception, stacklet | the awaitables, final suspend, resume |
| segmented stack | `core/impl/stack.hpp`, `core/co_alloc.hpp` | chain of stacklets, one cached | allocate, deallocate, release |
| worker context | `core/ext/{context,tls,list}.hpp`, `core/extern.hpp` | a deque, a submission list, a notify function | schedule, try_pop_all, push, pop, try_steal, worker_init, finalize |
| futures | `core/sync_wait.hpp` | semaphore, status, result | schedule, wait, get, detach |
| event_count | `schedule/ext/event_count.hpp` | epoch and waiter count in one 64 bit word | prepare_wait, cancel_wait, wait, notify |
| lazy_pool | `schedule/lazy_pool.hpp` | thief counter and event_count per NUMA node, active counter, stop, latches | worker loop, schedule, destructor |
| busy_pool, unit_pool | `schedule/{busy,unit}_pool.hpp` | stop flag, latches | worker loop, schedule, destructor |
| numa | `schedule/ext/numa.hpp`, `schedule/impl/numa_context.hpp` | per worker: its node, its victims and their weights | split, distribute, init_worker_and_bind, try_steal |
| algorithms | `algorithm/*.hpp` | none | for_each, map, fold, scan |

How they interact. A pool's threads each own a worker context. Jobs from outside
enter a context's submission list and the context's notify function is called
(for lazy_pool it notifies the node's event_count). A worker resumes its
submissions, or steals a continuation from another worker's deque. A running
frame that forks pushes its own handle on its worker's deque and the worker runs
the child; on its way out the child pops the parent or, when the parent was
stolen, reports to it through the atomic `m_join`. Frames live on segmented
stacks, which change hands when frames are stolen and joined.

What is hard. The deques are lock-free algorithms on a weak memory model. The
join is a race between a parent and its children, won by whoever comes last,
with two 16 bit counters and a stack to hand over, and the loser may not touch a
parent that the winner is already destroying. A frame may move itself to another
worker (an explicit context switch) and leave its ancestors on the old deque.
Sleeping workers must not miss work: two counters and an event_count are updated
one after the other by everybody. Shutdown races all of that. Exceptions are
raised in a child and looked at in the parent. The list of these, line by line,
is `hazards` in PROJECT.json.

What makes each part correct:

- a deque: every item pushed is handed out exactly once, pop takes the newest,
  steal the oldest, and pop says empty only when there is nothing left;
- frames: no frame is lost or resumed twice, a join waits for exactly its
  children, nobody touches a frame or a stack that is gone or used by another;
  every task ends;
- a stack: stacklets are neither leaked nor freed in use nor shared, allocations
  do not overlap, and a frame knows where its stack ends, since that is how the
  next owner finds it;
- submissions and futures: what is submitted is run, in order, and once; the
  result is there when the future says so; nobody signals freed memory or waits
  for ever; the pool's destructor leaves nothing behind;
- the algorithms: the result is the sequential one for every division into chunks
  and every pattern of steals, without data races, and an exception reaches the
  caller after all children have ended;
- lazy_pool: while somebody is active each node has an awake thief unless nobody
  sleeps there, nobody sleeps on a submission or through shutdown, every job is
  run and the destructor returns.

## 2. Modules

`WorkDeque` is the abstract specification of a deque; the three implementations
refine it. The n-th push carries the item n, so items can be told apart, and what
has been handed out is a bag: an item that is delivered twice is no step of
WorkDeque.

### ChaseLevDeque

Memory order is the subject here, so the model has a store buffer. The owner's
stores (slots, `m_buf`, `m_bottom`) go to `sb` and become visible to thieves one
by one (`Flush`, external: it is the machine). With `StoreOrder = "program"` in
order (x86), with `"relaxed"` in any order that respects same-location order and
release fences (ARM, POWER). The seq_cst fence in `pop()` waits for an empty
buffer. Thieves' loads are ordered by acquire and the fence in the code, so each
load is one step in program order. Owner stores with no shared load between them
are issued by one action; other threads only see their flushes.

`Push` is `push()` with its growth. `pop()` is `PopReserve` (lower bottom), then
after the fence one of `PopMany`, `PopLast`, `PopEmpty`, and `PopCas` for the
last item. `steal()` is `StealTop`, `StealBottom`, `StealBuf`, `StealSlot`,
`StealCas`, one per load plus the CAS. An unwritten slot reads as `Garbage`.

### LaceDeque

Each access to the packed word `top|split`, to `m_allstolen` and `m_splitreq` is
a step, memory is sequentially consistent. `push()` is `PushWrite` and then
either the reopening path (`PushReopen`, `PushUnsteal`, `PushReopened`) or
`PushAnswer`, `Grown`, `PushCount`; `pop()` is `PopPrivate`, or
`shrink_shared()` step by step (`ShrinkLoad`, `ShrinkSub`, `ShrinkFresh`,
`ShrinkCorrect`) and `PopShrunk` or `PopAllStolen`. `steal()` claims with a CAS
and reads the slot afterwards; the model keeps what the CAS claimed in `want`.

### BlockingDeque

The spin lock, what runs under it as one step, and its release as the next one.
A check made without the lock may see old values (`MaxStale` times, since stores
become visible in finite time): a thief may then go for the lock of an empty
deque, and so may the owner, but the owner knows `m_bottom` and no `m_top` it
reads is ahead of the real one, so it never takes a filled deque for empty.
`AllocFails` lets the allocation in `push()` throw. In the code nothing unlocks
on that way out, and so it is in the model.

### ForkJoin

Frames and workers, with atomic deques (justified by the three refinements). A
worker's record says what it does, which frame it runs and which stack it owns;
a frame's record holds its parent, how it was invoked, the two counters, its
stack, its exception. Each awaitable is cut where it touches memory that others
may use: `join_awaitable` into `JoinReady`/`JoinNotReady` (await_ready) and
`JoinWins`/`JoinParks` (await_suspend), the end of a child into `Return` or
`CaptureException` and `ConstructException`, then `Final...`, then `ReportWins` or
`ReportLoses` and `ReportReleases`; a context switch into `Switch`,
`SwitchReleases` and `SelfSteal`. Bodies are arbitrary: whenever user code runs,
the frame may fork, call, join, switch, return or throw where the library allows
it (no return with open children, for instance). Counters are kept modulo
`CounterMax + 1`. A child whose result can hold an exception (`try_eventually`)
ends by `Return`; any other stores it in the parent (`CaptureException`). The
awaitables of an eager call and of a sync fork are compiled with a rethrow in the
first case only (`promise.hpp`, line 217), so they can only meet the exception of
a sibling (`Rethrows`).

### LazyPool

The worker loop of lazy_pool with every read-modify-write of the thief counter,
the active counter and the event_count as a step, schedule from outside and from
tasks, construction (start latch) and destruction (stop, notify each node, stop
latch, join). The epoch of the event_count is only ever compared for equality,
so the model keeps the set of workers whose key is current. `SpuriousUnblock` is
what `std::atomic::wait` may do. Memory is sequentially consistent.

`MCLazyPool` gives the pool its nodes from `Numa`.

### Numa

`numa.hpp` and `numa_context.hpp` as operators over a tree of hardware objects: the
packages `split()` chooses, the numbering of the NUMA nodes, the distance of two
units, the neighbour lists of `distribute()` with and without hwloc, and the
weights with which `try_steal()` draws its victims (`Rarity` is the inverse of a
weight, to stay with integers). `hwloc_distrib` may choose any units.

### SegmentedStack

`stack.hpp` stacklet by stacklet, with sizes in bytes: `allocate` and `deallocate`
are functions from heap to heap, as the code chains several of their parts. Frames
(`NewFrame`, `EndFrame`) and `co_new` memory (`CoNew`, `CoNewThrows`, `CoFree`) use
them in the order coroutines do. `Release` gives a stack up; it can be found again
only through the stacklet pointer of its topmost frame, which is what `Continue`
uses. This is the stack ForkJoin takes for a sequence of frames. A frame has a size, as
it holds its promise; `co_new` of nothing gets an address and no room.

### Submission

`sync_wait.hpp`, `list.hpp`, `busy_pool.hpp` and `unit_pool.hpp` together, because
their difficulty is in how they meet. The list is modelled by its pointers; a
node lives in the shared state of a future or in a suspended frame, and freed
memory reads as `Garbage`. `push()` is `Link` and `Exchange`: a node that was
popped and pushed again between the two leaves the compare-exchange right, as only
the head's identity matters (ABA is harmless). A job is a number of parts that can
be stolen, the last of which ends the root task (`RootReturns`, `Signal`,
`DestroyCoroutine`). `ResumeOn` moves a job that has no other parts. The pool may be
destroyed as soon as nobody submits any more, as its documentation demands, with
jobs still queued or running.

### Algorithms

for_each, map, fold and scan as trees of tasks. `Fork` chooses whether the
continuation is stolen: then the parent goes on next to its child, otherwise after
it; in `scan` that decides whether the right half is scanned or only folded
(`Fuses`). A value is the range of elements it was computed from, so a result shows
whether anything was left out, taken twice or combined in the wrong order, for any
associative operation. Chunks are single steps; `NoRace` looks at what those that
are enabled together read and write. `async` says that the binary operation is a
task, `unset` that comparing an iterator which was never assigned may give any
result (raw pointers). Chunks throw on their first call. The overloads for `n = 1`
make the same trees with chunks of one element.

## 3. Runs

Passing runs (distinct states; two TLC workers need less than three minutes for
each):

| run | instance | shows |
|---|---|---|
| `chaselev_tso` | 2 thieves, 4 pushes, buffers 1 -> 2 -> 4, in-order stores (299k) | nothing claimed twice, a winning thief holds the right item, refinement of WorkDeque, no item stays for ever |
| `chaselev_relaxed` | 2 thieves, 5 pushes, one buffer of 2, out-of-order stores (110k) | the refinement and the inductive invariant `IndexInv`: the fences suffice while nothing grows |
| `lace` | 2 thieves, 6 pushes, 8 slots (999k) | claims stay below the owner's split, the owner's copies are right, refinement |
| `blocking` | 2 thieves, 5 pushes, buffers 1 -> 2 -> 4 -> 8, one stale check, throwing allocations (54k) | the locked parts exclude each other, refinement; the owner's spinning ends unless a push threw |
| `forkjoin` | 3 workers, 4 frames in up to 2 trees, 1 switch, 1 exception (467k) | each frame is in one place, counters account for children, what a worker and what a parent may rely on (`WorkerDiscipline`, `JoinIsSafe`, conjunctions of nine named parts) |
| `forkjoin_live` | 2 workers, 4 frames, 1 switch, 1 exception (109k) | every task ends |
| `lazypool` | 3 workers on 2 nodes, 1 outside job, 1 submission by a task (397k) | the thief/active/sleeper protocol, no sleep on a submission or after stop, the topology, every job is resumed, the destructor returns |
| `stack` | 2 workers, 4 stacklets, 5 allocations of 0, 4 or 40 bytes (216k) | ownership of stacklets, no overlap, frames know the top, the cache stays small |
| `submission` | a client, a busy_pool of 2 or a unit_pool, 2 jobs, 1 fork, 1 switch (160k) | FIFO through all pointers, futures, contexts, drain, liveness of futures and of the destructor |
| `algorithms` | inputs of 0 to 6 elements, chunks of 1 to 3, 2 exceptions, all steals (446k) | sequential result, no race, exceptions contained, termination |

Runs that must find a violation, each with an entry in `findings`:

| run | what TLC finds |
|---|---|
| `chaselev_relaxed_grow` | with out-of-order stores a thief reads a grown buffer before its content was copied (`m_buf.store(buf, relaxed)`) |
| `algorithms_rethrow` | the exception of an asynchronous binary operation is lost: `eager_throw_outside` rethrows only if the return address can hold exceptions, and the algorithms pass plain pointers. Two steps: a chunk of two elements, `bop` throws, the chunk returns |

With a synchronous operation and raw pointers the second one also happens to
`scan`: the left child throws, the sync fork reports it as done, `left_out` was never
assigned, and if it compares equal to the middle the right half is scanned and the
exception stays in the frame. `ExceptionsAreContained` therefore claims delivery for
synchronous operations and iterators that are initialised only.

Known limits that other bounds show, and that the passing runs stay below:

- `CounterMax = 3` and `MaxFrames = 5` (three steals in one scope) violate `JoinIsSafe`: `m_join` is 16
  bits wide and nothing bounds the steals of a scope, so the 65534th makes a child
  resume a parent that is running. The runs have `CounterMax = 7`.
- `Capacity = 2, MaxPush = 5, MaxSize = 2` violates `ImplementsWorkDeque` of LaceDeque: the fast
  path of `pop()` reads its array unmasked, behind its end once as many items were
  stolen as there are slots (2^24 in the code). Beyond the capacity a thief that is
  delayed between its CAS and its read may also return a later item.
- An allocation that throws in `push()` of the lock-based deque leaves the lock taken;
  the owner's next call never returns, which `OwnerWaitsOnlyAfterThrow` excepts.

Bounds. Two thieves give thief-thief and owner-thief races; a third adds only
symmetric ones. The ring buffers are small enough to wrap around and to grow
twice within the pushes. Four frames allow a parent with three children, two
nested joins, or two trees on three workers; with one switch a frame can end on
a worker that never forked. `CounterMax = 7` is more than the frames can count.
Two nodes, one with two workers and one with a single worker, give both the last
thief of a node and a thief that is not the last. The sizes of `stack` make requests
fit the top, fit only the cached stacklet, and fit neither, and make a cached
stacklet more than eight times as large as its predecessor; `co_new` may ask for no
memory at all, a frame may not. Six elements in chunks of one
give scan trees of depth three, with inner, left and right tasks on each level.

In `lazypool` jobs are promised to be resumed as long as the pool is not being destroyed:
a job submitted just before an early destructor may be dropped, when its worker is
between its last look at the submissions (line 230) and its test of `stop` (line
237). The documentation does not promise otherwise; `busy_pool` and `unit_pool` drain
their submissions after they have seen `stop` (`NothingLeftBehind`).

Deadlock is not checked where the system may stop: when all tasks have ended and
the bounds forbid new ones, when the pool is destroyed, when the algorithm has
returned; there the liveness properties say that nothing hangs.

Fairness. Threads are scheduled again and again and tasks end: weak fairness per
worker and per client in ForkJoin, LazyPool and Submission, nothing for the user's
decisions to submit, detach, fork, switch or destroy the pool; a client that has a
future destroys it some day. Algorithms assumes that some enabled task makes a step,
which ForkJoin shows. ChaseLevDeque adds that stores become visible in finite time
and that thieves keep trying, as the pools' loops do. In BlockingDeque nothing is
assumed about who gets the lock: `OwnerWaitsOnlyAfterThrow` holds because thieves
look before they try the lock, and their looks are not stale for ever.

Every property of a passing run has a mutant, a definition whose name starts
with `Bug` and that changes one operation the way a slip in the code would.

## 4. Proofs

`ChaseLevDequeProofs` proves, for every number of thieves, every set of
capacities, every number of pushes and both store orders:

- `TypeCorrect`: `Spec => []TypeOK`;
- `IndexSafety`: `Spec => []IndexInv`;
- `NoIndexTakenTwice`: `Spec => []ClaimsAreLive`. A thief whose CAS would succeed
  claims an index that is still in the deque, and when the owner takes an item
  without a CAS no thief can win it.

`ClaimsAreLive` is not inductive. That the owner may take the newest of several
items without a CAS depends on what thieves can have seen: a thief acts on a
`g_bottom` that may be old. `IndexInv` therefore also says that the newest
pending store of bottom is the owner's bottom (`BottomIsLastStore`), how high a
visible or pending bottom can be relative to the owner's position
(`VisibleBottomIsBounded`), and that the tops thieves hold are not ahead of
`m_top` (`TopsAreOld`). Lemmas about sequences describe `sb` after appending a
store and after removing one from the middle (a flush out of order); then there
is one lemma per action. The assumptions are those stated with the constants:
capacities are positive, `InitialCap` is one of them, `MaxPush` is a natural
number and `StoreOrder` one of the two.

The same module goes on from there to the items:

- `ReadsAreSafe`: `InOrder => (Spec => [](IndexInv /\ ReadInv))`;
- `WinnerReadsTheItem` and `PublishedBeforeVisible`: `WinnerReadIsClean` and
  `VisibleItemsAreReadable` are invariants;
- `Refinement`: `InOrder => (Spec => ImplementsWorkDeque)`.

`InOrder` says that stores become visible in program order or that no ring can
grow. It is there because the claim is false without it: relaxed stores and a
growing ring are the run `chaselev_relaxed_grow`. `ReadInv` says for each index in
the deque, for each ring that a thief may be looking at and for each state of the
store buffer in which the index is published, that the slot holds the item now or a
pending store puts it there before the index can be seen (`Readable`); thieves hold
either an item they can still win or a top that is already old (`ThiefReads`). A
push that grows stores the copies, the ring, the item and bottom; the proof that
`Readable` survives it, for rings of any size, is most of that part.

`BlockingDequeProofs` proves `MutualExclusion`, `Spec => []LockExcludes`: at most
one thread is between its lock and its unlock. The inductive invariant `LockInv`
says that `m_flag` names the thread that is inside. The converse is false: after
a push that threw the flag names the owner although nobody is inside, which is
why `OwnerWaitsOnlyAfterThrow` excepts that case. `Refinement`,
`Spec => ImplementsWorkDeque`, rests on `RingInv`: the ring is as large as its
capacity, holds the items from top to bottom in their masked slots, and what was
delivered is what is no longer there.

`LaceDequeProofs` proves for every capacity and every number of thieves:

- `SplitIsSafe`: `Spec => []LaceInv`, where top, split and bottom are at every step
  of the owner (`SplitProtocol`), and that a thief at its CAS saw an item
  (`ThiefSawItem`);
- `PrivatePartIsPrivate` and `OwnersCopiesAgree`: `ClaimsAreShared`,
  `OwnerKnowsSplit`;
- `RefinementUntilWraparound`: `Unwrapped => (Spec => ImplementsWorkDeque)`, where
  `Unwrapped` is `MaxPush <= Capacity`. The hypothesis is that of the code: `pop()`
  indexes its array unmasked. `SlotInv` adds what is in the slots and what a thief
  that has won and not yet read will find.

`LazyPoolProofs` proves for every number of workers and nodes, every placement of the
workers, and every number of jobs:

- `CountersAreExact`: `Spec => []TypeOK`, in particular each counter is the number of
  workers at the positions it counts (`Counters`); no decrement underflows;
- `SleepIsSafe`: `Spec => []SleepAndShutdownAreSafe`. Inductive with
  `SubmissionsAreSeen` (whoever is heading for sleep with a valid key and a filled
  submission list is about to be notified), `LifeCycle` (what positions of the
  workers go with which state of the pool) and `StopIsSeen`;
- `ActivePoolKeepsThieves`: `Spec => []ActiveImpliesThief`. Inductive with `ThiefStays`: a
  sleeper of a node in an active pool is covered (`Cover`) by a thief, by somebody
  who was woken or will find its key outdated, or by an active worker that has not
  scanned that node yet.

`SubmissionProofs` proves for busy_pool and unit_pool of every size, any number of
clients, jobs, forks and switches:

- `ContextsStayAlive`: `Spec => []ContextsAreLive`. Inductive with `Latches` (the two latches
  order the life of every context around the loops of all workers) and `StopOrder` (the
  flag is set when nobody pushes any more, and workers leave because of it);
- `SubmissionsStayFifo`, `FuturesAreSafe`, `PoolsLeaveNothing`: `Spec => []P` for
  `SubmissionsAreFifo`, `FutureIsSafe` and `NothingLeftBehind`. They have one inductive
  invariant, `SubInv`, as a list is right only while its nodes are alive, and those are
  alive only while their futures and tasks are accounted for.

In `SubInv`, `ListInv` says that the queue of each worker is cut in two (`IsList`): a part
that was taken, whose nodes are linked forwards from the node at hand, and a part that is
listed, whose nodes are linked backwards from the head; and that each node is in at most
one push or queue (`OnePlace`). `JobOK` keeps an `Account` for each job: its parts are the
workers that run it and the entries of deques (`Tokens`), or it has one part and waits at
one node (`Waiting`); the coroutine's pointer to the shared state lasts exactly until the
worker that ends it (`Enders`) drops it; status, semaphore and result go together. `Drained`
says that who leaves the loop leaves no queue. What `try_pop_all` finds along the pointers
is `ChainIs`: `Chain` is a recursive function over a bound, unfolded by `ChainEquation`, and
the node it has reached after k steps is proved by induction on k.

`ForkJoinProofs` proves for every number of workers, frames, roots, context switches and
exceptions, and for counters of any width:

- `FramesHaveOnePlace`, `CountersAreRight`, `JoinsAreSafe`, `PopsFindTheParent`:
  `Spec /\ []StealsFit => []P` for `OnePlace`, `CountersAccountForChildren`, `JoinIsSafe` and
  `PopFindsParent`;
- `WorkersKeepDiscipline`, `TypesAreRight`: the same for `WorkerDiscipline` and `TypeOK`;
- `SmallProgramsFit`: `MaxFrames + 1 < CounterMax => (Spec => []StealsFit)`.

`StealsFit` says that `m_steal` of no frame gets to the last two values of its 16 bits.
Nothing in the code sees to that, and without it the theorems are false (the hazard at
`frame.hpp`, line 73), so it is a hypothesis on the behaviour. `SmallProgramsFit` shows
how far away it is: a frame can only be stolen after it forked, so a scope sees no more
steals than frames were created; its own invariant is `FewSteals`.

The inductive invariant is `JoinInv`. It says that there are functions `at`, `who` and
`pos` which give each frame its one place (running on a worker, at a position of a deque,
submitted, parked at its join, or waiting for the child it called) such that the workers,
deques, lists and frames have it exactly there (`Placed`). `OnePlace` alone, a sum of
cardinalities, would not say where a step finds the frame it moves. The counters then
depend on the place only (`Counted`). That a child which ends pops its own parent needs
the shape of the deque: each entry is the parent of the fork in which the next entry, or
the frame that runs, was called (`Chained`, where `base` leads from a called frame to the
fork it belongs to). `Scopes` (no steals without a fork, no end in an open scope),
`LastForks` (m_steal against what the sync fork saw) and `FlagIsSet` (who is constructing
m_eptr) are what `JoinIsSafe` adds. There is one lemma per action; `StepLinks` and
`CreatedLinks` hold what all steps that end frames, or create one, have in common.

`StackInv` adds the stacks. A stack holds live frames, each allocated by the one below it
(`StackShape`); the child a frame called or forked last is on the same stack if the
frame was not stolen when it forked or called, and founds a stack of its own if it was
(`Beside`). Whoever has a stack has a frame on top of it: a worker that runs an unstolen
frame, a worker that reports to a parent whose child it just took off that stack, or nobody
yet when the frame is submitted with its stack (`Owners`); two workers that report never
hold the same stack (`OneReporter`). A frame can be destroyed or take its stack only
when it has no children left, which is what the counters of `JoinInv` say (`Settled`), and
then it is on top (`AloneIsOnTop`). That is why the two invariants go together: FILO order
is not kept by the stacks alone, it is a consequence of the joins.

`SegmentedStackProofs` proves for every number of workers and stacklets and all sizes:

- `StacksStaySound`: `Spec => []StackInv`;
- `StackletsAreOwned`, `LastIsOnTop`, `FramesKnowTheirTop`, `CachesAreBounded`: `Spec => []P`
  for the four properties of the run, which follow from `StackInv`.

A chain of pointers gives an induction nothing to hold on to, so `StackInv` says that there
are functions `root` and `depth` which give each stacklet its place: `m_prev` leads one
step down in the same stack and `m_next` back, and no two stacklets have the same place
(`Linked`). Each root has one top, at most one stacklet lies above it, and that one is
empty (`Owned`). The allocations of a stack fit (`Within`), are in order (`Ordered`), and
each begins where the one before it ends or at the beginning of the next stacklet
(`Adjacent`), up to the top's stack pointer (`TopIs`); no stacklet below the top is
forgotten (`Tight`). This is what makes it right to set the stack pointer back to the
address that is freed, and to take a stack pointer at the beginning for an empty stacklet.
The first allocation of a stack has a size (`Bottom`), so a stack that looks empty is.
`Known` says for every allocation which frame ran then and that it knows the stacklet, so
that it is still right when later frames have ended. `Holding` says who has which stack.

`allocate`, `deallocate` and `next_stacklet` chain several changes of the heap, and
`CoNewThrows` calls two of them in one step. The lemmas are therefore about the heap as a
value: first one change at a time (cut the cached stacklet off, move the stack pointer,
move the top up or down, chain a new stacklet), then `AllocateSound` and `DeallocateSound`
for any heap, then one lemma per action. `Aside` is what a step at one stack leaves of the
others. `Chain`, by which the properties are stated, is a recursive function; that it
yields the stacklets of a root up to the top's depth is `ChainIs`, by induction on the
number of steps, and the bound on the recursion suffices because the stacklets of a stack
are at different depths (`DepthIsBounded`).

`Lemmas` holds what several proofs use: facts about masked indices and about sequences
that shrink or grow at one end; induction over the naturals, stated for sets
(`SetInduction`) because the provers cannot instantiate an operator; and that a function
which is defined by recursion over a bound satisfies its equation (`Iterates`).
All theorems use only the assumptions stated with the constants (`CapacityAssumption`,
`LaceAssumption`, `BlockingAssumption`, `PoolAssumption`, `SubmissionAssumption`,
`NullAssumption`, `ConstantsAssumption`, `StackAssumption`): sets of threads and of
addresses are finite, sizes and bounds natural numbers, capacities positive.

Only model-checked:

- liveness, which needs fairness and ENABLED;
- Algorithms: its trees of tasks are built by recursion over the input;
- `TopologyIsSound`, a statement about operators on trees (Numa), not about steps.

## 5. What is not modelled

- Weak memory outside the Chase-Lev deque: LaceDeque, LazyPool, ForkJoin and
  Submission are sequentially consistent. Store buffers would multiply state spaces
  that are already close to what a run can take.
- The 32 bit epoch of event_count, which would have to wrap around between two steps
  of one waiter, and `event_count::await`, which nothing in the library calls.
- Failures before a task is submitted: a scheduler that throws in `schedule()`, failing
  allocations of frames and of workers (`tls.hpp`, line 112). The pools' own `schedule()`
  does not throw.
- Move assignment of futures; `eventually` and `just` as storage, a tagged union that
  one thread uses at a time (their effect on exceptions is in the actions).
- hwloc itself: discovery of the machine, `hwloc_distrib`, binding.
- Compile-time typing (`task`, `promise` traits, concepts, constraints), macros, logging,
  atomics shims: no state of their own.
- Random numbers: every choice is allowed. The pools' `m_rng` is used without
  synchronisation by `schedule()`; what a race on it does to the generator is not
  modelled.
- Benchmarks and tests, and `single_header/libfork.hpp`, which is generated from the
  headers that are modelled and is over a third of the repository's lines.

One remark of a comment that the code does not follow and no property is about:
`fold.hpp`, line 184, says that the n = 1 case is used for n <= 3; line 198 uses it for
n = 1 only. The results are the same.

## 6. Plan

1. Done: WorkDeque, ChaseLevDeque, ForkJoin, LazyPool with Numa, LaceDeque,
   BlockingDeque, SegmentedStack, Submission, Algorithms; the proofs of section 4.
2. Next: ForkJoin's stacks, sequences of frames, as a refinement of SegmentedStack: both are
   proved sound, but that a sequence of frames is what `stack.hpp` provides is stated by
   the two modules' interfaces only.
3. A store buffer for LaceDeque.

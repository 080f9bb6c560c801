--------------------------- MODULE SegmentedStack ---------------------------
(***************************************************************************)
(* core/impl/stack.hpp: the segmented stacks that coroutine frames live    *)
(* on, with the frames of core/impl/promise.hpp and the co_new memory of   *)
(* core/co_alloc.hpp that use them.                                        *)
(*                                                                         *)
(* A stacklet is a malloc'ed block; m_prev and m_next link the stacklets   *)
(* of a stack.  A worker's stack object is its m_fib, the top stacklet.    *)
(* Above it there may be one cached stacklet.  A worker that gives a stack *)
(* up forgets it; whoever continues it finds it by the stacklet pointer    *)
(* that the topmost frame keeps.                                           *)
(***************************************************************************)
EXTENDS Integers, Sequences, FiniteSets

CONSTANTS
    Workers,     \* threads, each with a stack object in its tls
    Stacklets,   \* bound: addresses malloc can return
    Null,        \* nullptr
    Sizes,       \* bound: sizes of frames and of co_new requests, in bytes
    MaxAllocs,   \* bound: allocations alive at a time
    PageSize, MetaSize, HeaderSize, Align, InitSize

ASSUME StackAssumption ==
    /\ Null \notin Stacklets /\ IsFiniteSet(Stacklets)
    /\ Sizes \subseteq Nat /\ MaxAllocs \in Nat
    /\ {PageSize, HeaderSize, Align, InitSize} \subseteq Nat \ {0} /\ MetaSize \in Nat

VARIABLES
    heap,       \* the stacklets that are malloc'ed
    m_sp,       \* stack pointer of a stacklet, relative to its m_lo
    m_hi,       \* capacity of a stacklet: m_hi - m_lo
    m_prev, m_next,
    m_fib,      \* per worker: the top stacklet, or Null before worker_init and after finalize
    allocs,     \* per worker: the allocations on its stack, oldest first
    released    \* stacks nobody owns: the stacklet the topmost frame knows and the allocations

links == <<m_prev, m_next>>
vars == <<heap, m_sp, m_hi, links, m_fib, allocs, released>>

RoundUp(n, to) == ((n + to - 1) \div to) * to
round_up_to_page_size(size) == RoundUp(size + MetaSize, PageSize) - MetaSize
CapacityFor(size) == round_up_to_page_size(size + HeaderSize) - HeaderSize

unused(s) == m_hi[s] - m_sp[s]
is_empty(s) == m_sp[s] = 0
is_top(s) == m_next[s] # Null => is_empty(m_next[s]) /\ m_next[m_next[s]] = Null

-----------------------------------------------------------------------------
(* The heap as a value, so that operations that chain several updates can  *)
(* be written as functions from heap to heap.                              *)
Mem == [heap |-> heap, sp |-> m_sp, hi |-> m_hi, prev |-> m_prev, next |-> m_next]
Becomes(m) ==
    /\ heap' = m.heap /\ m_sp' = m.sp /\ m_hi' = m.hi
    /\ m_prev' = m.prev /\ m_next' = m.next

Free(m, s) == [m EXCEPT !.heap = @ \ {s}]

(* The cached stacklet ahead of s, if any, is freed first.                 *)
set_next(m, s, new) == [Free(m, m.next[s]) EXCEPT !.next[s] = new]

(* new is what malloc returned; the first stacklet of a stack has no prev. *)
next_stacklet(m, new, size, prev) ==
    LET m1 == [m EXCEPT !.heap = @ \union {new}]
        m2 == IF prev = Null THEN m1 ELSE set_next(m1, prev, new)
    IN  [m2 EXCEPT !.sp[new] = 0, !.hi[new] = CapacityFor(size),
                   !.prev[new] = prev, !.next[new] = Null]

(* ~stack(): only at the root, with nothing but a cached stacklet ahead.   *)
Destroy(m, s) == Free(set_next(m, s, Null), s)

-----------------------------------------------------------------------------
(* allocate(): returns the memory, the top and the offset in it. There are *)
(* three ways: on the top, on the cached stacklet, on a new one.           *)
Max2(a, b) == IF a > b THEN a ELSE b
ext_size(size) == RoundUp(size, Align)

Bump(m, s, n) == [mem |-> [m EXCEPT !.sp[s] = @ + n], top |-> s, off |-> m.sp[s]]

(* MUTANT of allocate: takes the cached stacklet whatever its capacity.    *)
BugAnyCache(f, size, new) ==
    LET n == ext_size(size)
    IN  IF unused(f) >= n THEN Bump(Mem, f, n)
        ELSE IF m_next[f] # Null THEN Bump(Mem, m_next[f], n)
        ELSE Bump(next_stacklet(Mem, new, Max2(2 * m_hi[f], n), f), new, n)

allocate(f, size, new) ==
    LET n == ext_size(size)
    IN  IF unused(f) >= n THEN Bump(Mem, f, n)
        ELSE IF m_next[f] # Null /\ m_hi[m_next[f]] >= n
             THEN Bump(Mem, m_next[f], n)
             ELSE Bump(next_stacklet(Mem, new, Max2(2 * m_hi[f], n), f), new, n)

(* The third way.                                                          *)
NeedsStacklet(f, size) ==
    /\ unused(f) < ext_size(size)
    /\ m_next[f] = Null \/ m_hi[m_next[f]] < ext_size(size)

(* MUTANT of deallocate: leaves the second order cached stacklet.          *)
BugKeepSecondCache(m, f, off) ==
    LET m1 == [m EXCEPT !.sp[f] = off]
        top == IF off = 0 /\ m1.prev[f] # Null THEN m1.prev[f] ELSE f
        m3 == IF /\ off = 0 /\ m1.next[top] # Null
                 /\ m1.hi[m1.next[top]] > 8 * m1.hi[top]
              THEN set_next(m1, top, Null) ELSE m1
    IN  [mem |-> m3, top |-> top]

(* MUTANT of deallocate: does not guard against over-caching.              *)
BugKeepOversized(m, f, off) ==
    LET m1 == [m EXCEPT !.sp[f] = off]
        back == off = 0 /\ m1.prev[f] # Null
    IN  [mem |-> IF back THEN set_next(m1, f, Null) ELSE m1,
         top |-> IF back THEN m1.prev[f] ELSE f]

(* deallocate(): an emptied stacklet becomes the cached one of its         *)
(* predecessor, unless it is more than eight times as large.               *)
deallocate(m, f, off) ==
    LET m1 == [m EXCEPT !.sp[f] = off]
        back == off = 0 /\ m1.prev[f] # Null
        m2 == IF back THEN set_next(m1, f, Null) ELSE m1
        top == IF back THEN m1.prev[f] ELSE f
        m3 == IF /\ off = 0 /\ m2.next[top] # Null
                 /\ m2.hi[m2.next[top]] > 8 * m2.hi[top]
              THEN set_next(m2, top, Null) ELSE m2
    IN  [mem |-> m3, top |-> top]

-----------------------------------------------------------------------------
(* An allocation: a frame with the stacklet pointer it keeps (frame's      *)
(* m_stacklet), or memory from co_new.                                     *)
Alloc(kind, a, size) ==
    [kind |-> kind, frag |-> a.top, off |-> a.off, size |-> ext_size(size), known |-> a.top]

RunningFrame(as) == CHOOSE i \in DOMAIN as :
    as[i].kind = "frame" /\ \A j \in (i + 1)..Len(as) : as[j].kind # "frame"

(* stack::empty() of a worker's stack.                                     *)
StackEmpty(w) == is_empty(m_fib[w]) /\ m_prev[m_fib[w]] = Null

Init ==
    /\ heap = {}
    /\ m_sp = [s \in Stacklets |-> 0] /\ m_hi = [s \in Stacklets |-> 0]
    /\ m_prev = [s \in Stacklets |-> Null] /\ m_next = [s \in Stacklets |-> Null]
    /\ m_fib = [w \in Workers |-> Null]
    /\ allocs = [w \in Workers |-> <<>>]
    /\ released = {}

(* stack(): in worker_init(), and in schedule() for a non-worker thread.   *)
Construct(w) ==
    /\ m_fib[w] = Null
    /\ \E new \in Stacklets \ heap :
        /\ Becomes(next_stacklet(Mem, new, InitSize, Null))
        /\ m_fib' = [m_fib EXCEPT ![w] = new]
    /\ UNCHANGED <<allocs, released>>

(* ~stack(): in finalize(), and when schedule() returns.                   *)
Destruct(w) ==
    /\ m_fib[w] # Null /\ StackEmpty(w)
    /\ Becomes(Destroy(Mem, m_fib[w]))
    /\ m_fib' = [m_fib EXCEPT ![w] = Null]
    /\ UNCHANGED <<allocs, released>>

Allocate(w, size, Use(_)) ==
    /\ m_fib[w] # Null
    /\ Len(allocs[w]) < MaxAllocs
    /\ \E new \in (IF NeedsStacklet(m_fib[w], size) THEN Stacklets \ heap ELSE {Null}) :
         Use(allocate(m_fib[w], size, new))

(* promise_base::operator new and the constructor of the promise, which    *)
(* notes the top stacklet. A frame holds at least its promise.             *)
NewFrame(w, size) ==
    /\ size # 0
    /\ Allocate(w, size, LAMBDA a :
         /\ Becomes(a.mem)
         /\ m_fib' = [m_fib EXCEPT ![w] = a.top]
         /\ allocs' = [allocs EXCEPT ![w] = Append(@, Alloc("frame", a, size))]
         /\ UNCHANGED released)

Pop(w, kind) == allocs[w] # <<>> /\ allocs[w][Len(allocs[w])].kind = kind
Rest(as) == SubSeq(as, 1, Len(as) - 1)

(* ~promise_base() and operator delete of the topmost frame.               *)
EndFrame(w) ==
    /\ Pop(w, "frame")
    /\ LET d == deallocate(Mem, m_fib[w], allocs[w][Len(allocs[w])].off)
       IN  /\ Becomes(d.mem)
           /\ m_fib' = [m_fib EXCEPT ![w] = d.top]
    /\ allocs' = [allocs EXCEPT ![w] = Rest(@)]
    /\ UNCHANGED released

(* MUTANT of CoNew: the frame does not note its new top stacklet.          *)
BugKeepStacklet(w, size) ==
    /\ allocs[w] # <<>>
    /\ Allocate(w, size, LAMBDA a :
        /\ Becomes(a.mem)
        /\ m_fib' = [m_fib EXCEPT ![w] = a.top]
        /\ allocs' = [allocs EXCEPT ![w] = Append(@, Alloc("co_new", a, size))]
        /\ UNCHANGED released)

(* alloc_awaitable: memory for the running frame, on top of it.            *)
CoNew(w, size) ==
    /\ allocs[w] # <<>>
    /\ Allocate(w, size, LAMBDA a :
        /\ Becomes(a.mem)
        /\ m_fib' = [m_fib EXCEPT ![w] = a.top]
        /\ allocs' = [allocs EXCEPT ![w] =
                        Append([@ EXCEPT ![RunningFrame(@)].known = a.top],
                               Alloc("co_new", a, size))]
        /\ UNCHANGED released)

(* alloc_awaitable when the constructor of an element throws.              *)
CoNewThrows(w, size) ==
    /\ allocs[w] # <<>>
    /\ Allocate(w, size, LAMBDA a :
        LET d == deallocate(a.mem, a.top, a.off)
        IN  /\ Becomes(d.mem)
            /\ m_fib' = [m_fib EXCEPT ![w] = d.top]
            /\ UNCHANGED <<allocs, released>>)

(* ~stack_allocated()                                                      *)
CoFree(w) ==
    /\ Pop(w, "co_new")
    /\ LET d == deallocate(Mem, m_fib[w], allocs[w][Len(allocs[w])].off)
       IN  /\ Becomes(d.mem)
           /\ m_fib' = [m_fib EXCEPT ![w] = d.top]
           /\ allocs' = [allocs EXCEPT ![w] = [Rest(@) EXCEPT ![RunningFrame(@)].known = d.top]]
    /\ UNCHANGED released

(* release(): the worker starts over with a small stack; the old one can   *)
(* only be found through its topmost frame.                                *)
Release(w) ==
    /\ allocs[w] # <<>>
    /\ \E new \in Stacklets \ heap :
        /\ Becomes(next_stacklet(Mem, new, InitSize, Null))
        /\ m_fib' = [m_fib EXCEPT ![w] = new]
    /\ released' = released \union
          {[top |-> allocs[w][RunningFrame(allocs[w])].known, allocs |-> allocs[w]]}
    /\ allocs' = [allocs EXCEPT ![w] = <<>>]

(* *stack = stack{frame->stacklet()}: the worker's own, empty stack is     *)
(* swapped into the temporary and destroyed with it.                       *)
Continue(w, r) ==
    /\ m_fib[w] # Null /\ StackEmpty(w)
    /\ Becomes(Destroy(Mem, m_fib[w]))
    /\ m_fib' = [m_fib EXCEPT ![w] = r.top]
    /\ allocs' = [allocs EXCEPT ![w] = r.allocs]
    /\ released' = released \ {r}

Next == \E w \in Workers :
    \/ Construct(w) \/ Destruct(w)
    \/ \E size \in Sizes : NewFrame(w, size) \/ CoNew(w, size) \/ CoNewThrows(w, size)
    \/ EndFrame(w) \/ CoFree(w)
    \/ Release(w)
    \/ \E r \in released : Continue(w, r)

Spec == Init /\ [][Next]_vars

-----------------------------------------------------------------------------
(* A stack somebody owns or may continue: its top and its allocations.     *)
Stacks ==
    released \union {[top |-> m_fib[w], allocs |-> allocs[w]] : w \in {v \in Workers : m_fib[v] # Null}}

(* The stacklets from s down to the root.                                  *)
Chain(s) ==
    LET down[n \in 0..Cardinality(Stacklets)] ==
            IF n = 0 THEN {s} ELSE down[n - 1] \union {m_prev[c] : c \in down[n - 1] \ {Null}}
    IN  down[Cardinality(Stacklets)] \ {Null}

Cache(s) == {m_next[s]} \ {Null}

(* Every stacklet on the heap belongs to exactly one stack, as part of its *)
(* chain or as its one cached stacklet, and no stack reaches a stacklet    *)
(* that was freed: nothing leaks and nothing is used after free, whatever  *)
(* sequence of calls and hand-overs came before. Both links agree, and the *)
(* top passes is_top(), which every operation asserts.                     *)
StackletsHaveOneOwner ==
    /\ heap = UNION {Chain(k.top) \union Cache(k.top) : k \in Stacks}
    /\ \A k, l \in Stacks : k # l =>
         (Chain(k.top) \union Cache(k.top)) \intersect (Chain(l.top) \union Cache(l.top)) = {}
    /\ \A k \in Stacks :
         /\ is_top(k.top)
         /\ \A s \in Chain(k.top) : m_prev[s] # Null => m_next[m_prev[s]] = s
         /\ \A s \in Cache(k.top) : m_prev[s] = k.top

(* "The top stacklet contains the last allocation or the stack is empty":  *)
(* so deallocate() may set the top's stack pointer. Live allocations fit   *)
(* their stacklets and do not overlap.                                     *)
LastAllocationIsOnTop ==
    \A k \in Stacks :
        LET as == k.allocs
            In(s) == {i \in DOMAIN as : as[i].frag = s}
        IN  /\ as = <<>> => m_sp[k.top] = 0 /\ m_prev[k.top] = Null
            /\ as # <<>> => as[Len(as)].frag = k.top
            /\ \A i \in DOMAIN as : as[i].frag \in Chain(k.top)
            /\ \A s \in Chain(k.top) :
                 /\ m_sp[s] <= m_hi[s]
                 /\ In(s) = {} => m_sp[s] = 0
                 /\ \A i \in In(s) :
                      LET later == {j \in In(s) : j > i}
                      IN  as[i].off + as[i].size <=
                            IF later = {} THEN m_sp[s]
                            ELSE as[CHOOSE j \in later : \A l \in later : j <= l].off

(* A running frame's m_stacklet is the top of its stack: who comes to      *)
(* continue the frame finds the whole stack through it, and comparing two  *)
(* frames' stacklets tells whether they share a stack.                     *)
FrameKnowsTop ==
    \A k \in Stacks : k.allocs # <<>> =>
        k.allocs[RunningFrame(k.allocs)].known = k.top

(* The guard against over-caching: what a stack holds on to is at most     *)
(* eight times the stacklet it is cached behind.                           *)
CacheIsBounded ==
    \A k \in Stacks : \A s \in Cache(k.top) : m_hi[s] <= 8 * m_hi[k.top]
=============================================================================

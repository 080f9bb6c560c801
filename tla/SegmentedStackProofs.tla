------------------------ MODULE SegmentedStackProofs -------------------------
(***************************************************************************)
(* The segmented stacks are sound for every number of workers, stacklets   *)
(* and sizes.  The inductive invariant is about the heap as a value (Mem), *)
(* as allocate() and deallocate() are functions from heap to heap, which   *)
(* some steps apply one after the other.                                   *)
(***************************************************************************)
EXTENDS SegmentedStack, Lemmas, FunctionTheorems

MaybeStacklets == Stacklets \union {Null}

Memory == [heap : SUBSET Stacklets, sp : [Stacklets -> Nat], hi : [Stacklets -> Nat],
           prev : [Stacklets -> MaybeStacklets], next : [Stacklets -> MaybeStacklets]]

AllocRec == [kind : {"frame", "co_new"}, frag : Stacklets, off : Nat, size : Nat, known : Stacklets]

Ranks(root, depth) == root \in [Stacklets -> Stacklets] /\ depth \in [Stacklets -> Nat]

-----------------------------------------------------------------------------
(* root and depth give every stacklet its place in a stack: the chain of   *)
(* m_prev ends in its root, after depth steps. There is one stacklet at    *)
(* each place, and m_next leads back.                                      *)
Linked(m, root, depth) ==
    /\ \A s \in m.heap : root[s] \in m.heap /\ root[root[s]] = root[s] /\ depth[root[s]] = 0
    /\ \A s \in m.heap : m.prev[s] = Null => root[s] = s /\ depth[s] = 0
    /\ \A s \in m.heap : m.prev[s] # Null =>
         /\ m.prev[s] \in m.heap /\ m.next[m.prev[s]] = s
         /\ root[m.prev[s]] = root[s] /\ depth[s] = depth[m.prev[s]] + 1
    /\ \A s \in m.heap : m.next[s] # Null => m.next[s] \in m.heap /\ m.prev[m.next[s]] = s
    /\ \A s, u \in m.heap : root[s] = root[u] /\ depth[s] = depth[u] => s = u
    /\ \A s \in m.heap : m.sp[s] <= m.hi[s]

(* T is the set of tops: one for each root, with at most one stacklet      *)
(* above it, which is empty.                                               *)
Owned(m, root, depth, T) ==
    /\ T \subseteq m.heap
    /\ \A t, u \in T : root[t] = root[u] => t = u
    /\ \A s \in m.heap : \E t \in T : root[s] = root[t] /\ depth[s] <= depth[t] + 1
    /\ \A t \in T : m.next[t] # Null => m.sp[m.next[t]] = 0 /\ m.next[m.next[t]] = Null

Bounded(m, T) == \A t \in T : m.next[t] # Null => m.hi[m.next[t]] <= 8 * m.hi[t]

-----------------------------------------------------------------------------
(* The allocations of the stack with top t lie one behind the other, each  *)
(* where the one before it ends or at the beginning of the next stacklet.  *)
(* The first one, a frame, takes room.                                     *)
Within(m, root, depth, t, A) ==
    \A i \in 1..Len(A) :
      /\ A[i].frag \in m.heap /\ root[A[i].frag] = root[t] /\ depth[A[i].frag] <= depth[t]
      /\ A[i].off + A[i].size <= m.sp[A[i].frag]
      /\ A[i].off = 0 /\ m.prev[A[i].frag] # Null => A[i].size # 0

Ordered(depth, A) ==
    \A i, j \in 1..Len(A) : i < j =>
      /\ depth[A[i].frag] <= depth[A[j].frag]
      /\ A[i].frag = A[j].frag => A[i].off + A[i].size <= A[j].off

Follows(m, a, b) ==
    \/ b.frag = a.frag /\ b.off = a.off + a.size
    \/ b.off = 0 /\ m.prev[b.frag] = a.frag /\ m.sp[a.frag] = a.off + a.size

Adjacent(m, A) == \A i \in 1..Len(A) : i # 1 => Follows(m, A[i - 1], A[i])

Bottom(m, a) ==
    /\ a.off = 0 /\ a.size # 0
    /\ m.prev[a.frag] # Null => m.sp[m.prev[a.frag]] = 0 /\ m.prev[m.prev[a.frag]] = Null

TopIs(m, t, A) ==
    IF A = <<>> THEN m.sp[t] = 0 /\ m.prev[t] = Null
    ELSE /\ A[Len(A)].frag = t /\ m.sp[t] = A[Len(A)].off + A[Len(A)].size
         /\ Bottom(m, A[1])

Tight(m, root, depth, t, A) ==
    \A s \in m.heap : root[s] = root[t] /\ depth[s] <= depth[t] =>
      m.sp[s] = 0 \/ \E i \in 1..Len(A) : A[i].frag = s

Filled(m, root, depth, t, A) ==
    /\ A \in Seq(AllocRec)
    /\ Within(m, root, depth, t, A) /\ Ordered(depth, A) /\ Adjacent(m, A)
    /\ TopIs(m, t, A) /\ Tight(m, root, depth, t, A)

(* The frame that runs after i allocations, when the next one is a frame   *)
(* or there is none, knows the stacklet of the last of them.               *)
IsRunning(A, i, j) ==
    i <= j /\ A[i].kind = "frame" /\ \A l \in (i + 1)..j : A[l].kind # "frame"

Known(A) ==
    /\ \A j \in 1..Len(A) : \E i \in 1..Len(A) : IsRunning(A, i, j)
    /\ \A j \in 1..Len(A) : j = Len(A) \/ A[j + 1].kind = "frame" =>
         \A i \in 1..Len(A) : IsRunning(A, i, j) => A[i].known = A[j].frag

-----------------------------------------------------------------------------
(* K is the set of stacks.                                                 *)
Tops(K) == {k.top : k \in K}
StackRec == [top : Stacklets, allocs : Seq(AllocRec)]

Sound(m, root, depth, K) ==
    /\ Ranks(root, depth)
    /\ Linked(m, root, depth) /\ Owned(m, root, depth, Tops(K)) /\ Bounded(m, Tops(K))
    /\ \A k, l \in K : k.top = l.top => k = l
    /\ \A k \in K : Filled(m, root, depth, k.top, k.allocs) /\ Known(k.allocs)

HeapTypes == Mem \in Memory

(* Who holds a stack: fib and al are what the workers have, rel is what    *)
(* was released.                                                           *)
Holding(fib, al, rel) ==
    /\ fib \in [Workers -> MaybeStacklets] /\ al \in [Workers -> Seq(AllocRec)]
    /\ rel \subseteq StackRec
    /\ \A v, w \in Workers : fib[v] = fib[w] /\ fib[v] # Null => v = w
    /\ \A r \in rel : \A w \in Workers : r.top # fib[w]
    /\ \A r, q \in rel : r.top = q.top => r = q
    /\ \A w \in Workers : fib[w] = Null => al[w] = <<>>

HeldBy(fib, al, w) == [top |-> fib[w], allocs |-> al[w]]
StacksOf(fib, al, rel) == rel \union {HeldBy(fib, al, w) : w \in {v \in Workers : fib[v] # Null}}

StackInv ==
    /\ HeapTypes /\ Holding(m_fib, allocs, released)
    /\ \E root, depth : Sound(Mem, root, depth, Stacks)

-----------------------------------------------------------------------------
(* What the operations on the heap do to its parts.                        *)

(* Rounding up loses nothing.                                              *)
LEMMA RoundUpCovers ==
    ASSUME NEW n \in Nat, NEW to \in Nat \ {0}
    PROVE  RoundUp(n, to) \in Nat /\ RoundUp(n, to) >= n
<1> DEFINE i == n + to - 1
           q == i \div to
           r == i % to
<1>1. i \in Nat
  OBVIOUS
<1>2. q \in Int /\ r \in 0..(to - 1) /\ i = to * q + r
  BY <1>1, DivMod
<1>3. RoundUp(n, to) = q * to
  BY DEF RoundUp
<1> HIDE DEF q, r
<1>4. q * to = to * q /\ to * q \in Int
  BY <1>2
<1>5. to * q >= n
  BY <1>2, <1>4
<1> QED BY <1>3, <1>4, <1>5

(* A new stacklet has room for what was asked for.                         *)
LEMMA CapacityCovers ==
    ASSUME NEW n \in Nat
    PROVE  CapacityFor(n) \in Nat /\ CapacityFor(n) >= n
<1>1. PageSize \in Nat \ {0} /\ HeaderSize \in Nat /\ MetaSize \in Nat
  BY StackAssumption
<1>2. PICK k \in Nat : k = n + HeaderSize + MetaSize
  BY <1>1
<1>3. RoundUp(k, PageSize) \in Nat /\ RoundUp(k, PageSize) >= k
  BY <1>1, RoundUpCovers
<1>4. CapacityFor(n) = RoundUp(k, PageSize) - MetaSize - HeaderSize
  BY <1>1, <1>2 DEF CapacityFor, round_up_to_page_size
<1> QED BY <1>1, <1>2, <1>3, <1>4

(* Only a request for nothing takes nothing.                               *)
LEMMA ExtSize ==
    ASSUME NEW n \in Nat
    PROVE  ext_size(n) \in Nat /\ (n # 0 => ext_size(n) # 0)
<1>1. Align \in Nat \ {0}
  BY StackAssumption
<1>2. RoundUp(n, Align) \in Nat /\ RoundUp(n, Align) >= n
  BY <1>1, RoundUpCovers
<1> QED BY <1>2 DEF ext_size

(* The parts of a heap.                                                    *)
LEMMA MemoryParts ==
    ASSUME NEW m \in Memory
    PROVE  /\ m.heap \subseteq Stacklets /\ m.sp \in [Stacklets -> Nat] /\ m.hi \in [Stacklets -> Nat]
           /\ m.prev \in [Stacklets -> MaybeStacklets] /\ m.next \in [Stacklets -> MaybeStacklets]
           /\ m = [heap |-> m.heap, sp |-> m.sp, hi |-> m.hi, prev |-> m.prev, next |-> m.next]
           /\ Null \notin Stacklets
  BY StackAssumption DEF Memory

(* set_next().                                                             *)
LEMMA CutParts ==
    ASSUME NEW m \in Memory, NEW s \in Stacklets, NEW new \in MaybeStacklets,
           NEW m2, m2 = set_next(m, s, new)
    PROVE  /\ m2 \in Memory /\ m2.heap = m.heap \ {m.next[s]}
           /\ m2.sp = m.sp /\ m2.hi = m.hi /\ m2.prev = m.prev
           /\ m2.next = [m.next EXCEPT ![s] = new]
<1>1. set_next(m, s, new) = [heap |-> m.heap \ {m.next[s]}, sp |-> m.sp, hi |-> m.hi, prev |-> m.prev,
                             next |-> [m.next EXCEPT ![s] = new]]
  <2>1. PICK x : x = m.next[s]
    OBVIOUS
  <2>2. PICK f : f = Free(m, x)
    OBVIOUS
  <2>3. f = [heap |-> m.heap \ {x}, sp |-> m.sp, hi |-> m.hi, prev |-> m.prev, next |-> m.next]
    BY <2>2 DEF Free, Memory
  <2>4. set_next(m, s, new) = [f EXCEPT !.next[s] = new]
    BY <2>1, <2>2 DEF set_next
  <2> QED BY <2>1, <2>3, <2>4
<1>2. [m.next EXCEPT ![s] = new] \in [Stacklets -> MaybeStacklets] /\ m.heap \ {m.next[s]} \in SUBSET Stacklets
  BY MemoryParts
<1> QED BY <1>1, <1>2, MemoryParts DEF Memory

(* ~stacklet.                                                              *)
LEMMA FreeParts ==
    ASSUME NEW m \in Memory, NEW s, NEW m2, m2 = Free(m, s)
    PROVE  /\ m2 \in Memory /\ m2.heap = m.heap \ {s}
           /\ m2.sp = m.sp /\ m2.hi = m.hi /\ m2.prev = m.prev /\ m2.next = m.next
<1>1. Free(m, s) = [heap |-> m.heap \ {s}, sp |-> m.sp, hi |-> m.hi, prev |-> m.prev, next |-> m.next]
  BY DEF Free, Memory
<1> QED BY <1>1, MemoryParts DEF Memory

(* A stack pointer is moved.                                               *)
LEMMA SpParts ==
    ASSUME NEW m \in Memory, NEW s \in Stacklets, NEW x \in Nat,
           NEW m2, m2 = [m EXCEPT !.sp[s] = x]
    PROVE  /\ m2 \in Memory /\ m2.heap = m.heap /\ m2.sp = [m.sp EXCEPT ![s] = x]
           /\ m2.hi = m.hi /\ m2.prev = m.prev /\ m2.next = m.next
<1>1. [m EXCEPT !.sp[s] = x] = [heap |-> m.heap, sp |-> [m.sp EXCEPT ![s] = x], hi |-> m.hi,
                                prev |-> m.prev, next |-> m.next]
  BY DEF Memory
<1>2. [m.sp EXCEPT ![s] = x] \in [Stacklets -> Nat]
  BY MemoryParts
<1> QED BY <1>1, <1>2, MemoryParts DEF Memory

(* next_stacklet() of the first stacklet of a stack.                       *)
LEMMA FirstParts ==
    ASSUME NEW m \in Memory, NEW new \in Stacklets, NEW size \in Nat,
           NEW m2, m2 = next_stacklet(m, new, size, Null)
    PROVE  /\ m2 \in Memory /\ m2.heap = m.heap \union {new}
           /\ m2.sp = [m.sp EXCEPT ![new] = 0] /\ m2.hi = [m.hi EXCEPT ![new] = CapacityFor(size)]
           /\ m2.prev = [m.prev EXCEPT ![new] = Null] /\ m2.next = [m.next EXCEPT ![new] = Null]
<1>1. m2 = [heap |-> m.heap \union {new}, sp |-> [m.sp EXCEPT ![new] = 0],
            hi |-> [m.hi EXCEPT ![new] = CapacityFor(size)],
            prev |-> [m.prev EXCEPT ![new] = Null], next |-> [m.next EXCEPT ![new] = Null]]
  BY DEF next_stacklet, Memory
<1>2. /\ [m.sp EXCEPT ![new] = 0] \in [Stacklets -> Nat]
      /\ [m.hi EXCEPT ![new] = CapacityFor(size)] \in [Stacklets -> Nat]
      /\ [m.prev EXCEPT ![new] = Null] \in [Stacklets -> MaybeStacklets]
      /\ [m.next EXCEPT ![new] = Null] \in [Stacklets -> MaybeStacklets]
  BY MemoryParts, CapacityCovers DEF MaybeStacklets
<1> QED BY <1>1, <1>2, MemoryParts DEF Memory

(* next_stacklet() of a further one.                                       *)
Extended(m, m2, new, size, p) ==
    /\ m2.heap = (m.heap \union {new}) \ {m.next[p]}
    /\ m2.sp = [m.sp EXCEPT ![new] = 0] /\ m2.hi = [m.hi EXCEPT ![new] = CapacityFor(size)]
    /\ m2.prev = [m.prev EXCEPT ![new] = p]
    /\ m2.next = [m.next EXCEPT ![p] = new, ![new] = Null]

(* A further stacklet is one of those.                                     *)
LEMMA FurtherParts ==
    ASSUME NEW m \in Memory, NEW new \in Stacklets, NEW size \in Nat, NEW p \in Stacklets,
           NEW m2, m2 = next_stacklet(m, new, size, p)
    PROVE  m2 \in Memory /\ Extended(m, m2, new, size, p)
<1>1. PICK m1 : m1 = [heap |-> m.heap \union {new}, sp |-> m.sp, hi |-> m.hi, prev |-> m.prev, next |-> m.next]
  OBVIOUS
<1>2. m1 = [m EXCEPT !.heap = @ \union {new}] /\ m1 \in Memory
  BY <1>1, MemoryParts DEF Memory
<1>3. PICK m3 : m3 = set_next(m1, p, new)
  OBVIOUS
<1>4. /\ m3.heap = (m.heap \union {new}) \ {m.next[p]} /\ m3.sp = m.sp /\ m3.hi = m.hi /\ m3.prev = m.prev
      /\ m3.next = [m.next EXCEPT ![p] = new] /\ m3 \in Memory
  <2>1. new \in MaybeStacklets
    BY DEF MaybeStacklets
  <2>0. m1 \in Memory
    BY <1>2
  <2>2. /\ m3 \in Memory /\ m3.heap = m1.heap \ {m1.next[p]} /\ m3.sp = m1.sp /\ m3.hi = m1.hi
        /\ m3.prev = m1.prev /\ m3.next = [m1.next EXCEPT ![p] = new]
    BY <2>0, <1>3, <2>1, CutParts
  <2>3. /\ m1.heap = m.heap \union {new} /\ m1.sp = m.sp /\ m1.hi = m.hi /\ m1.prev = m.prev
        /\ m1.next = m.next
    BY <1>1
  <2> QED BY <2>2, <2>3
<1>5. m2 = [m3 EXCEPT !.sp[new] = 0, !.hi[new] = CapacityFor(size), !.prev[new] = p, !.next[new] = Null]
  <2>1. p # Null
    BY StackAssumption
  <2> QED BY <1>2, <1>3, <2>1 DEF next_stacklet
<1>6. m2 = [heap |-> m3.heap, sp |-> [m3.sp EXCEPT ![new] = 0],
            hi |-> [m3.hi EXCEPT ![new] = CapacityFor(size)],
            prev |-> [m3.prev EXCEPT ![new] = p], next |-> [m3.next EXCEPT ![new] = Null]]
  BY <1>4, <1>5 DEF Memory
<1>7. /\ [m3.sp EXCEPT ![new] = 0] \in [Stacklets -> Nat]
      /\ [m3.hi EXCEPT ![new] = CapacityFor(size)] \in [Stacklets -> Nat]
      /\ [m3.prev EXCEPT ![new] = p] \in [Stacklets -> MaybeStacklets]
      /\ [m3.next EXCEPT ![new] = Null] \in [Stacklets -> MaybeStacklets]
  BY <1>4, MemoryParts, CapacityCovers DEF MaybeStacklets
<1>8. m2 \in Memory
  BY <1>6, <1>7, <1>4, MemoryParts DEF Memory
<1> QED BY <1>4, <1>6, <1>8 DEF Extended

-----------------------------------------------------------------------------
(* The stacks but the one with root rt are left as they are.               *)
Aside(m, m2, root, depth, root2, depth2, rt) ==
    /\ \A s \in Stacklets : s \in m2.heap /\ root2[s] # rt <=> s \in m.heap /\ root[s] # rt
    /\ \A s \in m.heap : root[s] # rt =>
         /\ root2[s] = root[s] /\ depth2[s] = depth[s]
         /\ m2.sp[s] = m.sp[s] /\ m2.hi[s] = m.hi[s]
         /\ m2.prev[s] = m.prev[s] /\ m2.next[s] = m.next[s]

(* One after the other.                                                    *)
LEMMA AsideTwice ==
    ASSUME NEW m \in Memory, NEW m1 \in Memory, NEW m2, NEW root, NEW depth, NEW root1, NEW depth1,
           NEW root2, NEW depth2, NEW rt,
           Aside(m, m1, root, depth, root1, depth1, rt), Aside(m1, m2, root1, depth1, root2, depth2, rt)
    PROVE  Aside(m, m2, root, depth, root2, depth2, rt)
<1>1. m.heap \subseteq Stacklets /\ m1.heap \subseteq Stacklets
  BY MemoryParts
<1>2. \A s \in m.heap : root[s] # rt => s \in m1.heap /\ root1[s] # rt
  BY <1>1 DEF Aside
<1> QED BY <1>1, <1>2 DEF Aside

(* What is cached: a stacklet that nobody else links to.                   *)
LEMMA CacheShape ==
    ASSUME NEW m \in Memory, NEW root, NEW depth, NEW T, Ranks(root, depth), Linked(m, root, depth),
           Owned(m, root, depth, T), NEW t \in T, NEW c, c = m.next[t], c # Null
    PROVE  /\ c \in m.heap /\ m.prev[c] = t /\ root[c] = root[t] /\ depth[c] = depth[t] + 1
           /\ m.next[c] = Null /\ m.sp[c] = 0 /\ c # t /\ c \notin T
           /\ \A s \in m.heap : m.prev[s] # c /\ root[s] # c /\ (s # t => m.next[s] # c)
<1>1. t \in m.heap /\ m.heap \subseteq Stacklets /\ Null \notin Stacklets /\ t # Null
  BY MemoryParts DEF Owned
<1>2. c \in m.heap /\ m.prev[c] = t
  BY <1>1 DEF Linked
<1>3. root[c] = root[t] /\ depth[c] = depth[t] + 1
  BY <1>1, <1>2 DEF Linked
<1>4. m.next[c] = Null /\ m.sp[c] = 0
  BY DEF Owned
<1>5. depth[t] \in Nat /\ c \in Stacklets
  BY <1>1, <1>2 DEF Ranks
<1>6. c # t
  BY <1>3, <1>5
<1>7. c \notin T
  BY <1>3, <1>6 DEF Owned
<1>8. ASSUME NEW s \in m.heap PROVE m.prev[s] # c /\ root[s] # c /\ (s # t => m.next[s] # c)
  <2>1. m.prev[s] # c
    <3> SUFFICES ASSUME m.prev[s] = c PROVE FALSE
      OBVIOUS
    <3>1. m.next[c] = s
      BY DEF Linked
    <3> QED BY <3>1, <1>1, <1>4
  <2>2. root[s] # c
    <3> SUFFICES ASSUME root[s] = c PROVE FALSE
      OBVIOUS
    <3>1. depth[c] = 0
      BY DEF Linked
    <3> QED BY <3>1, <1>3, <1>5
  <2>3. s # t => m.next[s] # c
    BY <1>2 DEF Linked
  <2> QED BY <2>1, <2>2, <2>3
<1> QED BY <1>2, <1>3, <1>4, <1>6, <1>7, <1>8

(* The cached stacklet of a top is freed.                                  *)
LEMMA CutSound ==
    ASSUME NEW m \in Memory, NEW root, NEW depth, NEW T, Ranks(root, depth), Linked(m, root, depth),
           Owned(m, root, depth, T), NEW t \in T, NEW m2, m2 = set_next(m, t, Null)
    PROVE  /\ Linked(m2, root, depth) /\ Owned(m2, root, depth, T)
           /\ Aside(m, m2, root, depth, root, depth, root[t])
           /\ Bounded(m, T \ {t}) => Bounded(m2, T)
<1>1. t \in m.heap /\ m.heap \subseteq Stacklets /\ Null \notin Stacklets /\ t # Null /\ T \subseteq m.heap
  BY MemoryParts DEF Owned
<1>2. /\ m2 \in Memory /\ m2.heap = m.heap \ {m.next[t]} /\ m2.sp = m.sp /\ m2.hi = m.hi /\ m2.prev = m.prev
      /\ m2.next = [m.next EXCEPT ![t] = Null]
  BY <1>1, CutParts DEF MaybeStacklets
<1>3. /\ m2.next[t] = Null
      /\ \A s \in Stacklets : s # t => m2.next[s] = m.next[s]
  BY <1>1, <1>2, MemoryParts
<1>4. CASE m.next[t] = Null
  <2>1. m2.heap = m.heap /\ \A s \in Stacklets : m2.next[s] = m.next[s]
    BY <1>1, <1>2, <1>3, <1>4
  <2>2. \A s \in m.heap : m.next[s] # Null => m.next[s] \in Stacklets
    BY <1>1 DEF Linked
  <2>3. Linked(m2, root, depth)
    BY <1>1, <1>2, <2>1 DEF Linked
  <2>4. Owned(m2, root, depth, T)
    <3>1. \A u \in T : m2.next[u] # Null => m2.sp[m2.next[u]] = 0 /\ m2.next[m2.next[u]] = Null
      BY <1>1, <1>2, <2>1, <2>2 DEF Owned
    <3> QED BY <1>2, <2>1, <3>1 DEF Owned
  <2>5. Aside(m, m2, root, depth, root, depth, root[t])
    BY <1>1, <1>2, <2>1 DEF Aside
  <2>6. Bounded(m, T \ {t}) => Bounded(m2, T)
    BY <1>1, <1>2, <1>3, <1>4 DEF Bounded
  <2> QED BY <2>3, <2>4, <2>5, <2>6
<1>5. CASE m.next[t] # Null
  <2>1. PICK c : c = m.next[t]
    OBVIOUS
  <2>2. /\ c \in m.heap /\ m.prev[c] = t /\ root[c] = root[t] /\ depth[c] = depth[t] + 1
        /\ m.next[c] = Null /\ m.sp[c] = 0 /\ c # t /\ c \notin T
        /\ \A s \in m.heap : m.prev[s] # c /\ root[s] # c /\ (s # t => m.next[s] # c)
    BY <2>1, <1>5, CacheShape
  <2>3. m2.heap = m.heap \ {c}
    BY <2>1, <1>2
  <2>4. Linked(m2, root, depth)
    <3>1. \A s \in m2.heap : /\ s \in m.heap /\ m2.prev[s] = m.prev[s] /\ m2.sp[s] = m.sp[s] /\ m2.hi[s] = m.hi[s]
                             /\ root[s] # c /\ m.prev[s] # c
      BY <1>2, <2>2, <2>3
    <3>2. ASSUME NEW s \in m2.heap, m2.prev[s] # Null
          PROVE  /\ m2.prev[s] \in m2.heap /\ m2.next[m2.prev[s]] = s
                 /\ root[m2.prev[s]] = root[s] /\ depth[s] = depth[m2.prev[s]] + 1
      <4>1. PICK p \in m.heap : p = m.prev[s] /\ m.next[p] = s /\ root[p] = root[s] /\ depth[s] = depth[p] + 1
        BY <3>1, <3>2 DEF Linked
      <4>2. p # c /\ p # t
        BY <2>1, <2>3, <3>1, <4>1
      <4>3. m2.next[p] = m.next[p]
        BY <1>1, <1>3, <4>2
      <4> QED BY <3>1, <4>1, <4>2, <4>3, <2>3
    <3>3. ASSUME NEW s \in m2.heap, m2.next[s] # Null PROVE m2.next[s] \in m2.heap /\ m2.prev[m2.next[s]] = s
      <4>1. s # t /\ m2.next[s] = m.next[s]
        BY <1>1, <1>3, <3>1, <3>3
      <4>2. m.next[s] \in m.heap /\ m.prev[m.next[s]] = s /\ m.next[s] # c
        BY <4>1, <3>1, <3>3, <2>2 DEF Linked
      <4> QED BY <4>1, <4>2, <1>2, <2>3
    <3>4. \A s \in m2.heap : root[s] \in m2.heap /\ root[root[s]] = root[s] /\ depth[root[s]] = 0
      BY <3>1, <2>3 DEF Linked
    <3>5. \A s \in m2.heap : m2.prev[s] = Null => root[s] = s /\ depth[s] = 0
      BY <3>1 DEF Linked
    <3>6. \A s, u \in m2.heap : root[s] = root[u] /\ depth[s] = depth[u] => s = u
      BY <3>1 DEF Linked
    <3>7. \A s \in m2.heap : m2.sp[s] <= m2.hi[s]
      BY <3>1 DEF Linked
    <3> QED BY <3>2, <3>3, <3>4, <3>5, <3>6, <3>7 DEF Linked
  <2>5. Owned(m2, root, depth, T)
    <3>1. T \subseteq m2.heap /\ \A s \in m2.heap : s \in m.heap
      BY <1>1, <2>2, <2>3
    <3>2. ASSUME NEW u \in T, m2.next[u] # Null PROVE m2.sp[m2.next[u]] = 0 /\ m2.next[m2.next[u]] = Null
      <4>1. u # t /\ u \in Stacklets /\ m2.next[u] = m.next[u]
        BY <1>1, <1>3, <3>2
      <4>2. m.next[u] \in m.heap /\ m.prev[m.next[u]] = u /\ m.sp[m.next[u]] = 0 /\ m.next[m.next[u]] = Null
        BY <1>1, <3>2, <4>1 DEF Linked, Owned
      <4>3. m2.next[m.next[u]] = Null
        BY <4>2, <1>1, <1>3
      <4> QED BY <4>1, <4>2, <4>3, <1>2
    <3> QED BY <3>1, <3>2 DEF Owned
  <2>6. Aside(m, m2, root, depth, root, depth, root[t])
    BY <1>1, <1>2, <1>3, <2>2, <2>3 DEF Aside
  <2>7. Bounded(m, T \ {t}) => Bounded(m2, T)
    BY <1>1, <1>2, <1>3 DEF Bounded
  <2> QED BY <2>4, <2>5, <2>6, <2>7
<1> QED BY <1>4, <1>5

(* The stack pointer of a top is moved.                                    *)
LEMMA SpSound ==
    ASSUME NEW m \in Memory, NEW root, NEW depth, NEW T, Ranks(root, depth), Linked(m, root, depth),
           Owned(m, root, depth, T), NEW t \in T, NEW x \in Nat, x <= m.hi[t],
           NEW m2, m2 = [m EXCEPT !.sp[t] = x]
    PROVE  /\ Linked(m2, root, depth) /\ Owned(m2, root, depth, T)
           /\ Aside(m, m2, root, depth, root, depth, root[t])
           /\ \A U : Bounded(m, U) => Bounded(m2, U)
<1>1. t \in m.heap /\ m.heap \subseteq Stacklets /\ Null \notin Stacklets /\ T \subseteq m.heap
  BY MemoryParts DEF Owned
<1>2. /\ m2.heap = m.heap /\ m2.sp = [m.sp EXCEPT ![t] = x] /\ m2.hi = m.hi /\ m2.prev = m.prev /\ m2.next = m.next
  BY <1>1, SpParts
<1>3. m2.sp[t] = x /\ \A s \in Stacklets : s # t => m2.sp[s] = m.sp[s]
  BY <1>1, <1>2, MemoryParts
<1>4. Linked(m2, root, depth)
  <2>1. \A s \in m.heap : m2.sp[s] <= m2.hi[s]
    BY <1>1, <1>2, <1>3 DEF Linked
  <2> QED BY <1>2, <2>1 DEF Linked
<1>5. Owned(m2, root, depth, T)
  <2>1. ASSUME NEW u \in T, m.next[u] # Null PROVE m2.sp[m.next[u]] = 0
    <3>1. m.next[u] \in m.heap /\ m.next[u] \notin T /\ m.sp[m.next[u]] = 0
      BY <2>1, CacheShape
    <3> QED BY <3>1, <1>1, <1>3
  <2> QED BY <1>2, <2>1 DEF Owned
<1>6. Aside(m, m2, root, depth, root, depth, root[t])
  BY <1>1, <1>2, <1>3 DEF Aside
<1> QED BY <1>2, <1>4, <1>5, <1>6 DEF Bounded

(* The cached stacklet becomes the top.                                    *)
LEMMA UpSound ==
    ASSUME NEW m \in Memory, NEW root, NEW depth, NEW T, Ranks(root, depth), Linked(m, root, depth),
           Owned(m, root, depth, T), Bounded(m, T), NEW t \in T, NEW c, c = m.next[t], c # Null
    PROVE  Owned(m, root, depth, (T \ {t}) \union {c}) /\ Bounded(m, (T \ {t}) \union {c})
<1>1. t \in m.heap /\ m.heap \subseteq Stacklets /\ T \subseteq m.heap
  BY MemoryParts DEF Owned
<1>2. /\ c \in m.heap /\ root[c] = root[t] /\ depth[c] = depth[t] + 1 /\ m.next[c] = Null /\ c \notin T
  BY CacheShape
<1>3. \A s \in m.heap : depth[s] \in Nat
  BY <1>1 DEF Ranks
<1>4. ASSUME NEW s \in m.heap PROVE \E u \in (T \ {t}) \union {c} : root[s] = root[u] /\ depth[s] <= depth[u] + 1
  <2>1. PICK u \in T : root[s] = root[u] /\ depth[s] <= depth[u] + 1
    BY DEF Owned
  <2>2. CASE u = t
    BY <1>1, <1>2, <1>3, <2>1, <2>2
  <2>3. CASE u # t
    BY <2>1, <2>3
  <2> QED BY <2>2, <2>3
<1>5. \A u, v \in (T \ {t}) \union {c} : root[u] = root[v] => u = v
  BY <1>2 DEF Owned
<1>6. \A u \in (T \ {t}) \union {c} : m.next[u] # Null => m.sp[m.next[u]] = 0 /\ m.next[m.next[u]] = Null
  BY <1>2 DEF Owned
<1> QED BY <1>1, <1>2, <1>4, <1>5, <1>6 DEF Owned, Bounded

(* An emptied top without a cached stacklet becomes the cached one itself. *)
LEMMA DownSound ==
    ASSUME NEW m \in Memory, NEW root, NEW depth, NEW T, Ranks(root, depth), Linked(m, root, depth),
           Owned(m, root, depth, T), NEW t \in T, NEW p, p = m.prev[t], p # Null, m.next[t] = Null, m.sp[t] = 0
    PROVE  /\ Owned(m, root, depth, (T \ {t}) \union {p}) /\ p \in m.heap /\ p \notin T
           /\ m.next[p] = t /\ root[p] = root[t] /\ depth[t] = depth[p] + 1
<1>1. t \in m.heap /\ m.heap \subseteq Stacklets /\ T \subseteq m.heap
  BY MemoryParts DEF Owned
<1>2. p \in m.heap /\ m.next[p] = t /\ root[p] = root[t] /\ depth[t] = depth[p] + 1
  BY <1>1 DEF Linked
<1>3. \A s \in m.heap : depth[s] \in Nat
  BY <1>1 DEF Ranks
<1>4. p # t /\ p \notin T
  <2>1. p # t
    BY <1>1, <1>2, <1>3
  <2> QED BY <1>2, <2>1 DEF Owned
<1>5. ASSUME NEW s \in m.heap PROVE \E u \in (T \ {t}) \union {p} : root[s] = root[u] /\ depth[s] <= depth[u] + 1
  <2>1. PICK u \in T : root[s] = root[u] /\ depth[s] <= depth[u] + 1
    BY DEF Owned
  <2>2. CASE u # t
    BY <2>1, <2>2
  <2>3. CASE u = t
    <3>1. depth[s] # depth[t] + 1
      <4> SUFFICES ASSUME depth[s] = depth[t] + 1 PROVE FALSE
        OBVIOUS
      <4>1. m.prev[s] # Null
        BY <1>1, <1>3 DEF Linked
      <4>2. m.prev[s] \in m.heap /\ root[m.prev[s]] = root[t] /\ depth[m.prev[s]] = depth[t] /\ m.next[m.prev[s]] = s
        BY <4>1, <2>1, <2>3, <1>1, <1>3 DEF Linked
      <4>3. m.prev[s] = t
        BY <4>2, <1>1 DEF Linked
      <4>4. s # Null
        BY <1>1, MemoryParts
      <4> QED BY <4>2, <4>3, <4>4
    <3>2. depth[s] <= depth[p] + 1
      BY <2>1, <2>3, <3>1, <1>1, <1>2, <1>3
    <3> QED BY <2>1, <2>3, <3>2, <1>2
  <2> QED BY <2>2, <2>3
<1>6. \A u, v \in (T \ {t}) \union {p} : root[u] = root[v] => u = v
  BY <1>2 DEF Owned
<1>7. \A u \in (T \ {t}) \union {p} : m.next[u] # Null => m.sp[m.next[u]] = 0 /\ m.next[m.next[u]] = Null
  BY <1>2 DEF Owned
<1>8. Owned(m, root, depth, (T \ {t}) \union {p})
  BY <1>1, <1>2, <1>5, <1>6, <1>7 DEF Owned
<1> QED BY <1>2, <1>4, <1>8

(* A new stacklet gets its place.                                          *)
NewPlace(root, depth, root2, depth2, new, r, d) ==
    root2 = [root EXCEPT ![new] = r] /\ depth2 = [depth EXCEPT ![new] = d]

(* m2 is m with a new stacklet after t.                                    *)
Added(m, m2, t, new) ==
    /\ m2.sp[new] = 0 /\ m2.hi[new] \in Nat /\ m2.prev[new] = t /\ m2.next[new] = Null
    /\ m2.next[t] = new
    /\ \A s \in Stacklets \ {new} :
         /\ m2.sp[s] = m.sp[s] /\ m2.hi[s] = m.hi[s] /\ m2.prev[s] = m.prev[s]
         /\ s # t => m2.next[s] = m.next[s]

(* A new stacklet on top of one that has nothing cached.                   *)
LEMMA AddSound ==
    ASSUME NEW m \in Memory, NEW root, NEW depth, NEW T, Ranks(root, depth), Linked(m, root, depth),
           Owned(m, root, depth, T), NEW t \in T, m.next[t] = Null,
           NEW new \in Stacklets, new \notin m.heap,
           NEW m2 \in Memory, m2.heap = m.heap \union {new}, Added(m, m2, t, new),
           NEW root2, NEW depth2, NewPlace(root, depth, root2, depth2, new, root[t], depth[t] + 1)
    PROVE  /\ Ranks(root2, depth2) /\ Linked(m2, root2, depth2)
           /\ Owned(m2, root2, depth2, (T \ {t}) \union {new})
           /\ Aside(m, m2, root, depth, root2, depth2, root[t])
           /\ Bounded(m, T) => Bounded(m2, (T \ {t}) \union {new})
<1>1. t \in m.heap /\ m.heap \subseteq Stacklets /\ Null \notin Stacklets /\ T \subseteq m.heap /\ t # new
  BY MemoryParts DEF Owned
<1>2. Ranks(root2, depth2)
  BY <1>1 DEF Ranks, NewPlace
<1>3. /\ m2.sp[new] = 0 /\ m2.hi[new] \in Nat /\ m2.prev[new] = t /\ m2.next[new] = Null
      /\ root2[new] = root[t] /\ depth2[new] = depth[t] + 1 /\ m2.next[t] = new
  BY <1>1 DEF Ranks, Added, NewPlace
<1>4. \A s \in m.heap : /\ s # new /\ m2.sp[s] = m.sp[s] /\ m2.hi[s] = m.hi[s] /\ m2.prev[s] = m.prev[s]
                        /\ (s # t => m2.next[s] = m.next[s])
                        /\ root2[s] = root[s] /\ depth2[s] = depth[s]
                        /\ root[s] \in Stacklets /\ depth[s] \in Nat
  BY <1>1, <1>3 DEF Ranks, Added, NewPlace
<1>5. \A s \in m2.heap : s # new => s \in m.heap
  BY <1>3
<1>6. \A s \in m.heap : root[s] \in m.heap /\ root[s] # new
  BY <1>1 DEF Linked
<1>7. \A s \in m.heap : root[s] = root[t] => depth[s] <= depth[t]
  <2> SUFFICES ASSUME NEW s \in m.heap, root[s] = root[t] PROVE depth[s] <= depth[t]
    OBVIOUS
  <2>1. depth[s] <= depth[t] + 1
    <3>1. PICK u \in T : root[s] = root[u] /\ depth[s] <= depth[u] + 1
      BY DEF Owned
    <3>2. u = t
      BY <3>1 DEF Owned
    <3> QED BY <3>1, <3>2
  <2>2. depth[s] # depth[t] + 1
    <3> SUFFICES ASSUME depth[s] = depth[t] + 1 PROVE FALSE
      OBVIOUS
    <3>1. m.prev[s] # Null
      BY <1>1, <1>4 DEF Linked
    <3>2. PICK p \in m.heap : p = m.prev[s] /\ root[p] = root[s] /\ depth[s] = depth[p] + 1 /\ m.next[p] = s
      BY <3>1 DEF Linked
    <3>3. p = t
      <4>1. depth[p] = depth[t] /\ root[p] = root[t]
        BY <3>2, <1>1, <1>4
      <4> QED BY <4>1, <1>1 DEF Linked
    <3>4. s # Null
      BY <1>1
    <3> QED BY <3>2, <3>3, <3>4
  <2> QED BY <2>1, <2>2, <1>1, <1>4
<1>8. Linked(m2, root2, depth2)
  <2>1. ASSUME NEW s \in m2.heap
        PROVE  root2[s] \in m2.heap /\ root2[root2[s]] = root2[s] /\ depth2[root2[s]] = 0
    <3>1. PICK u \in m.heap : root2[s] = root[u]
      BY <1>1, <1>3, <1>4
    <3>2. root[u] \in m.heap /\ root[root[u]] = root[u] /\ depth[root[u]] = 0
      BY DEF Linked
    <3> QED BY <3>1, <3>2, <1>4
  <2>2. ASSUME NEW s \in m2.heap, m2.prev[s] = Null PROVE root2[s] = s /\ depth2[s] = 0
    <3>1. s \in m.heap /\ m.prev[s] = Null
      BY <2>2, <1>1, <1>3, <1>4, <1>5
    <3> QED BY <3>1, <1>4 DEF Linked
  <2>3. ASSUME NEW s \in m2.heap, m2.prev[s] # Null
        PROVE  /\ m2.prev[s] \in m2.heap /\ m2.next[m2.prev[s]] = s
               /\ root2[m2.prev[s]] = root2[s] /\ depth2[s] = depth2[m2.prev[s]] + 1
    <3>1. CASE s = new
      BY <3>1, <1>1, <1>3, <1>4
    <3>2. CASE s # new
      <4>1. PICK p \in m.heap : p = m.prev[s] /\ m.next[p] = s /\ root[p] = root[s] /\ depth[s] = depth[p] + 1
        BY <2>3, <3>2, <1>4, <1>5 DEF Linked
      <4>2. p # t
        BY <4>1, <1>1
      <4> QED BY <3>2, <4>1, <4>2, <1>4, <1>5
    <3> QED BY <3>1, <3>2
  <2>4. ASSUME NEW s \in m2.heap, m2.next[s] # Null PROVE m2.next[s] \in m2.heap /\ m2.prev[m2.next[s]] = s
    <3>1. CASE s = t
      BY <3>1, <1>3
    <3>2. CASE s # t
      <4>1. s \in m.heap /\ m2.next[s] = m.next[s]
        BY <2>4, <3>2, <1>3, <1>4, <1>5
      <4>2. m.next[s] \in m.heap /\ m.prev[m.next[s]] = s
        BY <2>4, <4>1 DEF Linked
      <4> QED BY <4>1, <4>2, <1>4
    <3> QED BY <3>1, <3>2
  <2>5. ASSUME NEW s \in m2.heap, NEW u \in m2.heap, root2[s] = root2[u], depth2[s] = depth2[u]
        PROVE  s = u
    <3>1. \A x \in m.heap : root2[x] = root2[new] => depth2[x] # depth2[new]
      BY <1>1, <1>3, <1>4, <1>7
    <3>2. CASE s \in m.heap /\ u \in m.heap
      BY <2>5, <3>2, <1>4 DEF Linked
    <3> QED BY <2>5, <3>1, <3>2, <1>5
  <2>6. \A s \in m2.heap : m2.sp[s] <= m2.hi[s]
    BY <1>3, <1>4, <1>5 DEF Linked
  <2> QED BY <2>1, <2>2, <2>3, <2>4, <2>5, <2>6 DEF Linked
<1>9. Owned(m2, root2, depth2, (T \ {t}) \union {new})
  <2>1. ASSUME NEW s \in m2.heap
        PROVE  \E u \in (T \ {t}) \union {new} : root2[s] = root2[u] /\ depth2[s] <= depth2[u] + 1
    <3>1. CASE s = new
      BY <3>1, <1>1, <1>3, <1>4
    <3>2. CASE s # new
      <4>1. s \in m.heap
        BY <3>2
      <4>2. PICK u \in T : root[s] = root[u] /\ depth[s] <= depth[u] + 1
        BY <4>1 DEF Owned
      <4>3. CASE u = t
        <5>1. root2[s] = root2[new] /\ depth2[s] <= depth2[new] + 1
          BY <4>1, <4>2, <4>3, <1>1, <1>3, <1>4, <1>7
        <5> QED BY <5>1
      <4>4. CASE u # t
        BY <4>1, <4>2, <4>4, <1>1, <1>4
      <4> QED BY <4>3, <4>4
    <3> QED BY <3>1, <3>2
  <2>2. ASSUME NEW u \in (T \ {t}) \union {new}, NEW v \in (T \ {t}) \union {new}, root2[u] = root2[v]
        PROVE  u = v
    <3>1. \A x \in T : x # t => root2[x] = root[x] /\ root[x] # root[t]
      BY <1>1, <1>4 DEF Owned
    <3> QED BY <2>2, <3>1, <1>3 DEF Owned
  <2>3. ASSUME NEW u \in (T \ {t}) \union {new}, m2.next[u] # Null
        PROVE  m2.sp[m2.next[u]] = 0 /\ m2.next[m2.next[u]] = Null
    <3>1. u \in T /\ u # t /\ m2.next[u] = m.next[u] /\ m.next[u] # Null
      BY <2>3, <1>1, <1>3, <1>4
    <3>2. m.next[u] \in m.heap /\ m.sp[m.next[u]] = 0 /\ m.next[m.next[u]] = Null
      BY <3>1, CacheShape
    <3>3. m.next[u] # t
      <4>1. m.next[u] \notin T
        BY <3>1, CacheShape
      <4> QED BY <4>1
    <3> QED BY <3>1, <3>2, <3>3, <1>4
  <2> QED BY <1>1, <2>1, <2>2, <2>3 DEF Owned
<1>10. Aside(m, m2, root, depth, root2, depth2, root[t])
  BY <1>1, <1>3, <1>4, <1>5 DEF Aside
<1>11. ASSUME Bounded(m, T) PROVE Bounded(m2, (T \ {t}) \union {new})
  <2> SUFFICES ASSUME NEW u \in (T \ {t}) \union {new}, m2.next[u] # Null
               PROVE  m2.hi[m2.next[u]] <= 8 * m2.hi[u]
    BY DEF Bounded
  <2>1. u \in T /\ u # t /\ m2.next[u] = m.next[u] /\ m.next[u] # Null
    BY <1>1, <1>3, <1>4
  <2>2. m.next[u] \in m.heap /\ m.hi[m.next[u]] <= 8 * m.hi[u]
    BY <2>1, <1>1, <1>11 DEF Bounded, Linked
  <2> QED BY <2>1, <2>2, <1>1, <1>4
<1> QED BY <1>2, <1>8, <1>9, <1>10, <1>11

(* allocate() needs a new stacklet; what was cached is freed.              *)
LEMMA GrowSound ==
    ASSUME NEW m \in Memory, NEW root, NEW depth, NEW T, Ranks(root, depth), Linked(m, root, depth),
           Owned(m, root, depth, T), Bounded(m, T), NEW t \in T,
           NEW new \in Stacklets, new \notin m.heap, NEW size \in Nat,
           NEW m2, m2 = next_stacklet(m, new, size, t),
           NEW root2, NEW depth2, NewPlace(root, depth, root2, depth2, new, root[t], depth[t] + 1)
    PROVE  /\ Ranks(root2, depth2) /\ Linked(m2, root2, depth2)
           /\ Owned(m2, root2, depth2, (T \ {t}) \union {new})
           /\ Aside(m, m2, root, depth, root2, depth2, root[t])
           /\ Bounded(m2, (T \ {t}) \union {new})
<1>1. t \in m.heap /\ m.heap \subseteq Stacklets /\ Null \notin Stacklets /\ T \subseteq m.heap /\ t # new
  BY MemoryParts DEF Owned
<1>2. PICK m1 : m1 = set_next(m, t, Null)
  OBVIOUS
<1>3. /\ m1 \in Memory /\ m1.heap = m.heap \ {m.next[t]} /\ m1.sp = m.sp /\ m1.hi = m.hi /\ m1.prev = m.prev
      /\ m1.next = [m.next EXCEPT ![t] = Null]
  BY <1>1, <1>2, CutParts DEF MaybeStacklets
<1>4. /\ Linked(m1, root, depth) /\ Owned(m1, root, depth, T) /\ Bounded(m1, T)
      /\ Aside(m, m1, root, depth, root, depth, root[t])
  <2>1. Bounded(m, T \ {t})
    BY DEF Bounded
  <2> QED BY <1>2, <2>1, CutSound
<1>5. CapacityFor(size) \in Nat
  BY CapacityCovers
<1>6. /\ m2 \in Memory /\ m2.heap = (m.heap \union {new}) \ {m.next[t]}
      /\ m2.sp = [m.sp EXCEPT ![new] = 0] /\ m2.hi = [m.hi EXCEPT ![new] = CapacityFor(size)]
      /\ m2.prev = [m.prev EXCEPT ![new] = t]
      /\ m2.next = [m.next EXCEPT ![t] = new, ![new] = Null]
  <2>1. t \in Stacklets
    BY <1>1
  <2>2. m2 \in Memory /\ Extended(m, m2, new, size, t)
    BY <2>1, FurtherParts
  <2> QED BY <2>2 DEF Extended
<1>7. m.next[t] # new
  BY <1>1 DEF Linked
<1>8. m2.heap = m1.heap \union {new} /\ new \notin m1.heap /\ m1.next[t] = Null
  <2>1. m2.heap = m1.heap \union {new}
    BY <1>3, <1>6, <1>7
  <2>2. m1.next[t] = Null
    BY <1>1, <1>3, MemoryParts
  <2> QED BY <2>1, <2>2, <1>3
<1>9. Added(m1, m2, t, new)
  <2>1. /\ m2.sp[new] = 0 /\ m2.hi[new] \in Nat /\ m2.prev[new] = t /\ m2.next[new] = Null
        /\ m2.next[t] = new
    BY <1>1, <1>5, <1>6, MemoryParts
  <2>2. ASSUME NEW s \in Stacklets, s # new
        PROVE  /\ m2.sp[s] = m1.sp[s] /\ m2.hi[s] = m1.hi[s] /\ m2.prev[s] = m1.prev[s]
               /\ s # t => m2.next[s] = m1.next[s]
    <3>1. /\ m2.sp[s] = m.sp[s] /\ m2.hi[s] = m.hi[s] /\ m2.prev[s] = m.prev[s]
          /\ s # t => m2.next[s] = m.next[s]
      BY <2>2, <1>6, MemoryParts
    <3>2. s # t => m1.next[s] = m.next[s]
      BY <1>3, MemoryParts
    <3> QED BY <3>1, <3>2, <1>3
  <2> QED BY <2>1, <2>2 DEF Added
<1>10. /\ Ranks(root2, depth2) /\ Linked(m2, root2, depth2)
       /\ Owned(m2, root2, depth2, (T \ {t}) \union {new})
       /\ Aside(m1, m2, root, depth, root2, depth2, root[t])
       /\ Bounded(m2, (T \ {t}) \union {new})
  BY <1>3, <1>4, <1>6, <1>8, <1>9, AddSound
<1>11. Aside(m, m2, root, depth, root2, depth2, root[t])
  BY <1>3, <1>4, <1>10, AsideTwice
<1> QED BY <1>10, <1>11

(* What next_stacklet() without a predecessor leaves.                      *)
Founded(m, m2, root, depth, root2, depth2, T, new) ==
    /\ Ranks(root2, depth2) /\ Linked(m2, root2, depth2)
    /\ Owned(m2, root2, depth2, T \union {new}) /\ Aside(m, m2, root, depth, root2, depth2, new)
    /\ Bounded(m2, T \union {new})
    /\ m2 \in Memory /\ m2.prev[new] = Null /\ m2.sp[new] = 0 /\ new \in m2.heap
    /\ root2[new] = new /\ \A s \in m.heap : root[s] # new

(* A new stack.                                                            *)
LEMMA FoundSound ==
    ASSUME NEW m \in Memory, NEW root, NEW depth, NEW T, Ranks(root, depth), Linked(m, root, depth),
           Owned(m, root, depth, T), Bounded(m, T),
           NEW new \in Stacklets, new \notin m.heap, NEW size \in Nat,
           NEW m2, m2 = next_stacklet(m, new, size, Null),
           NEW root2, NEW depth2, NewPlace(root, depth, root2, depth2, new, new, 0)
    PROVE  Founded(m, m2, root, depth, root2, depth2, T, new)
<1>1. m.heap \subseteq Stacklets /\ Null \notin Stacklets /\ T \subseteq m.heap
  BY MemoryParts DEF Owned
<1>2. /\ m2 \in Memory /\ m2.heap = m.heap \union {new}
      /\ m2.sp = [m.sp EXCEPT ![new] = 0] /\ m2.hi = [m.hi EXCEPT ![new] = CapacityFor(size)]
      /\ m2.prev = [m.prev EXCEPT ![new] = Null] /\ m2.next = [m.next EXCEPT ![new] = Null]
  BY FirstParts
<1>3. /\ m2.sp[new] = 0 /\ m2.hi[new] \in Nat /\ m2.prev[new] = Null /\ m2.next[new] = Null
      /\ root2[new] = new /\ depth2[new] = 0
  BY <1>2, CapacityCovers, MemoryParts DEF Ranks, NewPlace
<1>4. \A s \in m.heap : /\ s # new /\ m2.sp[s] = m.sp[s] /\ m2.hi[s] = m.hi[s] /\ m2.prev[s] = m.prev[s]
                        /\ m2.next[s] = m.next[s]
                        /\ root2[s] = root[s] /\ depth2[s] = depth[s]
  BY <1>1, <1>2, MemoryParts DEF Ranks, NewPlace
<1>5. \A s \in m2.heap : s # new => s \in m.heap
  BY <1>2
<1>6. \A s \in m.heap : root[s] \in m.heap /\ root[s] # new
  BY <1>1 DEF Linked
<1>7. Ranks(root2, depth2)
  BY DEF Ranks, NewPlace
<1>8. Linked(m2, root2, depth2)
  <2>1. \A s \in m2.heap : root2[s] \in m2.heap /\ root2[root2[s]] = root2[s] /\ depth2[root2[s]] = 0
    BY <1>2, <1>3, <1>4, <1>5, <1>6 DEF Linked
  <2>2. \A s \in m2.heap : m2.prev[s] = Null => root2[s] = s /\ depth2[s] = 0
    BY <1>3, <1>4, <1>5 DEF Linked
  <2>3. ASSUME NEW s \in m2.heap, m2.prev[s] # Null
        PROVE  /\ m2.prev[s] \in m2.heap /\ m2.next[m2.prev[s]] = s
               /\ root2[m2.prev[s]] = root2[s] /\ depth2[s] = depth2[m2.prev[s]] + 1
    <3>1. s \in m.heap /\ m2.prev[s] = m.prev[s]
      BY <2>3, <1>3, <1>4, <1>5
    <3>2. /\ m.prev[s] \in m.heap /\ m.next[m.prev[s]] = s
          /\ root[m.prev[s]] = root[s] /\ depth[s] = depth[m.prev[s]] + 1
      BY <2>3, <3>1 DEF Linked
    <3> QED BY <3>1, <3>2, <1>2, <1>4
  <2>4. ASSUME NEW s \in m2.heap, m2.next[s] # Null PROVE m2.next[s] \in m2.heap /\ m2.prev[m2.next[s]] = s
    <3>1. s \in m.heap /\ m2.next[s] = m.next[s]
      BY <2>4, <1>3, <1>4, <1>5
    <3>2. m.next[s] \in m.heap /\ m.prev[m.next[s]] = s
      BY <2>4, <3>1 DEF Linked
    <3> QED BY <3>1, <3>2, <1>2, <1>4
  <2>5. \A s, u \in m2.heap : root2[s] = root2[u] /\ depth2[s] = depth2[u] => s = u
    BY <1>3, <1>4, <1>5, <1>6 DEF Linked
  <2>6. \A s \in m2.heap : m2.sp[s] <= m2.hi[s]
    BY <1>3, <1>4, <1>5 DEF Linked
  <2> QED BY <2>1, <2>2, <2>3, <2>4, <2>5, <2>6 DEF Linked
<1>9. Owned(m2, root2, depth2, T \union {new})
  <2>1. ASSUME NEW s \in m2.heap PROVE \E u \in T \union {new} : root2[s] = root2[u] /\ depth2[s] <= depth2[u] + 1
    <3>1. CASE s = new
      BY <3>1, <1>3
    <3>2. CASE s # new
      <4>1. PICK u \in T : root[s] = root[u] /\ depth[s] <= depth[u] + 1
        BY <3>2, <1>5 DEF Owned
      <4> QED BY <3>2, <4>1, <1>1, <1>4, <1>5
    <3> QED BY <3>1, <3>2
  <2>2. \A u, v \in T \union {new} : root2[u] = root2[v] => u = v
    BY <1>1, <1>3, <1>4, <1>6 DEF Owned
  <2>3. ASSUME NEW u \in T \union {new}, m2.next[u] # Null
        PROVE  m2.sp[m2.next[u]] = 0 /\ m2.next[m2.next[u]] = Null
    <3>1. u \in T /\ m2.next[u] = m.next[u] /\ m.next[u] # Null
      BY <2>3, <1>1, <1>3, <1>4
    <3>2. m.next[u] \in m.heap /\ m.sp[m.next[u]] = 0 /\ m.next[m.next[u]] = Null
      BY <3>1, CacheShape
    <3> QED BY <3>1, <3>2, <1>4
  <2> QED BY <1>1, <1>2, <2>1, <2>2, <2>3 DEF Owned
<1>10. Aside(m, m2, root, depth, root2, depth2, new)
  BY <1>1, <1>2, <1>3, <1>4, <1>5, <1>6 DEF Aside
<1>11. Bounded(m2, T \union {new})
  <2> SUFFICES ASSUME NEW u \in T \union {new}, m2.next[u] # Null PROVE m2.hi[m2.next[u]] <= 8 * m2.hi[u]
    BY DEF Bounded
  <2>1. u \in T /\ m2.next[u] = m.next[u] /\ m.next[u] # Null
    BY <1>1, <1>3, <1>4
  <2>2. m.next[u] \in m.heap /\ m.hi[m.next[u]] <= 8 * m.hi[u]
    BY <2>1, <1>1 DEF Bounded, Linked
  <2> QED BY <2>1, <2>2, <1>1, <1>4
<1> QED BY <1>2, <1>3, <1>6, <1>7, <1>8, <1>9, <1>10, <1>11 DEF Founded

(* A stack whose top is its root is destroyed, with what it has cached.    *)
LEMMA DestroySound ==
    ASSUME NEW m \in Memory, NEW root, NEW depth, NEW T, Ranks(root, depth), Linked(m, root, depth),
           Owned(m, root, depth, T), Bounded(m, T), NEW t \in T, m.prev[t] = Null,
           NEW m2, m2 = Destroy(m, t)
    PROVE  /\ m2 \in Memory /\ Linked(m2, root, depth) /\ Owned(m2, root, depth, T \ {t})
           /\ Aside(m, m2, root, depth, root, depth, root[t])
           /\ Bounded(m2, T \ {t})
<1>1. t \in m.heap /\ m.heap \subseteq Stacklets /\ Null \notin Stacklets /\ T \subseteq m.heap
  BY MemoryParts DEF Owned
<1>2. PICK m1 : m1 = set_next(m, t, Null)
  OBVIOUS
<1>3. /\ m1 \in Memory /\ m1.heap = m.heap \ {m.next[t]} /\ m1.sp = m.sp /\ m1.hi = m.hi /\ m1.prev = m.prev
      /\ m1.next = [m.next EXCEPT ![t] = Null]
  BY <1>1, <1>2, CutParts DEF MaybeStacklets
<1>4. /\ Linked(m1, root, depth) /\ Owned(m1, root, depth, T) /\ Bounded(m1, T)
      /\ Aside(m, m1, root, depth, root, depth, root[t])
  <2>1. Bounded(m, T \ {t})
    BY DEF Bounded
  <2> QED BY <1>2, <2>1, CutSound
<1>5. /\ m2 \in Memory /\ m2.heap = m1.heap \ {t} /\ m2.sp = m1.sp /\ m2.hi = m1.hi /\ m2.prev = m1.prev
      /\ m2.next = m1.next
  <2>1. m2 = Free(m1, t)
    BY <1>2 DEF Destroy
  <2> QED BY <2>1, <1>3, FreeParts
<1>6. m1.next[t] = Null /\ m1.prev[t] = Null /\ t \in m1.heap /\ m1.heap \subseteq Stacklets /\ t # Null
  BY <1>1, <1>3, <1>4, MemoryParts DEF Owned
<1>7. root[t] = t /\ depth[t] = 0
  BY <1>6, <1>4 DEF Linked
<1>8. \A s \in m1.heap : depth[s] \in Nat
  BY <1>6 DEF Ranks
<1>9. ASSUME NEW s \in m1.heap, s # t PROVE root[s] # t /\ m1.prev[s] # t /\ m1.next[s] # t
  <2>1. m1.prev[s] # t
    <3> SUFFICES ASSUME m1.prev[s] = t PROVE FALSE
      OBVIOUS
    <3>1. m1.next[t] = s
      BY <1>6, <1>4 DEF Linked
    <3> QED BY <3>1, <1>1, <1>6
  <2>2. m1.next[s] # t
    <3> SUFFICES ASSUME m1.next[s] = t PROVE FALSE
      OBVIOUS
    <3>1. m1.prev[t] = s
      BY <1>6, <1>4 DEF Linked
    <3> QED BY <3>1, <1>1, <1>6
  <2>3. root[s] # t
    <3> SUFFICES ASSUME root[s] = t PROVE FALSE
      OBVIOUS
    <3>1. PICK u \in T : root[s] = root[u] /\ depth[s] <= depth[u] + 1
      BY <1>4 DEF Owned
    <3>2. u = t
      BY <3>1, <1>7 DEF Owned
    <3>3. depth[s] = 0 \/ depth[s] = 1
      BY <3>1, <3>2, <1>7, <1>8
    <3>4. depth[s] # 0
      BY <1>9, <1>4, <1>6, <1>7 DEF Linked
    <3>5. m1.prev[s] # Null
      BY <3>4, <1>4 DEF Linked
    <3>6. PICK p \in m1.heap : p = m1.prev[s] /\ root[p] = root[s] /\ depth[s] = depth[p] + 1
      BY <3>5, <1>4 DEF Linked
    <3>7. depth[p] = 0
      BY <3>3, <3>4, <3>6, <1>8
    <3>8. p = t
      BY <3>6, <3>7, <1>4, <1>6, <1>7 DEF Linked
    <3> QED BY <3>6, <3>8, <2>1
  <2> QED BY <2>1, <2>2, <2>3
<1>10. Linked(m2, root, depth)
  <2>1. \A s \in m2.heap : s \in m1.heap /\ s # t
    BY <1>5
  <2>2. \A s \in m2.heap : root[s] \in m2.heap /\ root[root[s]] = root[s] /\ depth[root[s]] = 0
    BY <2>1, <1>4, <1>5, <1>9 DEF Linked
  <2>3. \A s \in m2.heap : m2.prev[s] # Null =>
           /\ m2.prev[s] \in m2.heap /\ m2.next[m2.prev[s]] = s
           /\ root[m2.prev[s]] = root[s] /\ depth[s] = depth[m2.prev[s]] + 1
    BY <2>1, <1>4, <1>5, <1>9 DEF Linked
  <2>4. \A s \in m2.heap : m2.next[s] # Null => m2.next[s] \in m2.heap /\ m2.prev[m2.next[s]] = s
    BY <2>1, <1>4, <1>5, <1>9 DEF Linked
  <2> QED BY <2>1, <2>2, <2>3, <2>4, <1>4, <1>5 DEF Linked
<1>11. Owned(m2, root, depth, T \ {t})
  <2>1. ASSUME NEW s \in m2.heap PROVE \E u \in T \ {t} : root[s] = root[u] /\ depth[s] <= depth[u] + 1
    <3>1. PICK u \in T : root[s] = root[u] /\ depth[s] <= depth[u] + 1
      BY <1>4, <1>5 DEF Owned
    <3>2. u # t
      BY <3>1, <1>5, <1>7, <1>9
    <3> QED BY <3>1, <3>2
  <2> QED BY <2>1, <1>4, <1>5 DEF Owned
<1>12. Aside(m1, m2, root, depth, root, depth, root[t])
  BY <1>5, <1>6, <1>7, <1>9 DEF Aside
<1>13. Aside(m, m2, root, depth, root, depth, root[t])
  BY <1>3, <1>4, <1>12, AsideTwice
<1>14. Bounded(m2, T \ {t})
  BY <1>4, <1>5 DEF Bounded
<1> QED BY <1>5, <1>10, <1>11, <1>13, <1>14

-----------------------------------------------------------------------------
(* Allocations, seen from their stack.                                     *)

(* One more allocation.                                                    *)
LEMMA AppendParts ==
    ASSUME NEW V, NEW A \in Seq(V), NEW a \in V
    PROVE  /\ Append(A, a) \in Seq(V) /\ Len(A) \in Nat /\ Len(Append(A, a)) = Len(A) + 1
           /\ Append(A, a)[Len(A) + 1] = a /\ Append(A, a) # <<>>
           /\ \A i \in 1..Len(A) : Append(A, a)[i] = A[i]
  BY AppendProperties, LenProperties

(* One allocation less.                                                    *)
LEMMA RestParts ==
    ASSUME NEW V, NEW A \in Seq(V), A # <<>>
    PROVE  /\ Rest(A) \in Seq(V) /\ Len(A) \in Nat \ {0} /\ Len(Rest(A)) = Len(A) - 1
           /\ \A i \in 1..(Len(A) - 1) : Rest(A)[i] = A[i]
           /\ Rest(A) = <<>> <=> Len(A) = 1
<1>1. Len(A) \in Nat /\ Len(A) # 0 /\ A \in [1..Len(A) -> V]
  BY LenProperties, EmptySeq
<1>2. PICK n \in Nat : n = Len(A) - 1
  <2>1. PICK l \in Nat : l = Len(A) /\ l # 0
    BY <1>1
  <2>2. l - 1 \in Nat
    BY <2>1
  <2> QED BY <2>1, <2>2
<1>3. \A i \in 1..n : A[i] \in V
  BY <1>1, <1>2
<1>4. SubSeq(A, 1, n) \in Seq(V) /\ Len(SubSeq(A, 1, n)) = n /\ \A i \in 1..n : SubSeq(A, 1, n)[i] = A[i]
  BY <1>3, SubSeqProperties
<1>5. Rest(A) = SubSeq(A, 1, n)
  BY <1>2 DEF Rest
<1>6. Rest(A) = <<>> <=> n = 0
  BY <1>4, <1>5, EmptySeq
<1> QED BY <1>1, <1>2, <1>4, <1>5, <1>6

(* The fields of the allocations of a stack.                               *)
LEMMA AllocParts ==
    ASSUME NEW A \in Seq(AllocRec)
    PROVE  /\ Len(A) \in Nat /\ (A = <<>> <=> Len(A) = 0)
           /\ \A i \in 1..Len(A) : /\ A[i] \in AllocRec /\ A[i].frag \in Stacklets
                                    /\ A[i].off \in Nat /\ A[i].size \in Nat
                                    /\ A[i].kind \in {"frame", "co_new"}
                                    /\ A[i].known \in Stacklets
<1>1. Len(A) \in Nat /\ A \in [1..Len(A) -> AllocRec] /\ (A = <<>> <=> Len(A) = 0)
  BY LenProperties, EmptySeq
<1>2. \A i \in 1..Len(A) : A[i] \in AllocRec
  BY <1>1
<1> QED BY <1>1, <1>2 DEF AllocRec

(* A step at another stack leaves the allocations where they are.          *)
LEMMA FilledAside ==
    ASSUME NEW m \in Memory, NEW root, NEW depth, Linked(m, root, depth), NEW u \in m.heap,
           NEW A, Filled(m, root, depth, u, A),
           NEW m2 \in Memory, NEW root2, NEW depth2, NEW rt, Aside(m, m2, root, depth, root2, depth2, rt), root[u] # rt
    PROVE  Filled(m2, root2, depth2, u, A) /\ u \in m2.heap
<1>1. m.heap \subseteq Stacklets /\ A \in Seq(AllocRec)
  BY MemoryParts DEF Filled
<1>2. \A s \in m.heap : root[s] = root[u] =>
        /\ s \in m2.heap /\ root2[s] = root[s] /\ depth2[s] = depth[s]
        /\ m2.sp[s] = m.sp[s] /\ m2.prev[s] = m.prev[s]
  BY <1>1 DEF Aside
<1>3. \A s \in Stacklets : s \in m2.heap /\ root2[s] = root2[u] => s \in m.heap /\ root[s] = root[u]
  BY <1>1, <1>2 DEF Aside
<1>4. \A i \in 1..Len(A) : A[i].frag \in m.heap /\ root[A[i].frag] = root[u]
  BY DEF Filled, Within
<1>5. Within(m2, root2, depth2, u, A)
  BY <1>2, <1>4 DEF Filled, Within
<1>6. Ordered(depth2, A)
  BY <1>2, <1>4 DEF Filled, Ordered
<1>7. Len(A) \in Nat /\ (A = <<>> <=> Len(A) = 0)
  BY <1>1, AllocParts
<1>8. Adjacent(m2, A)
  <2> SUFFICES ASSUME NEW i \in 1..Len(A), i # 1 PROVE Follows(m2, A[i - 1], A[i])
    BY DEF Adjacent
  <2>1. i - 1 \in 1..Len(A)
    BY <1>7
  <2>2. Follows(m, A[i - 1], A[i])
    BY DEF Filled, Adjacent
  <2> QED BY <2>1, <2>2, <1>2, <1>4 DEF Follows
<1>9. TopIs(m2, u, A)
  <2>1. CASE A = <<>>
    BY <2>1, <1>2 DEF Filled, TopIs
  <2>2. CASE A # <<>>
    <3>1. 1 \in 1..Len(A)
      BY <2>2, <1>7
    <3>2. Bottom(m, A[1]) /\ A[Len(A)].frag = u /\ m.sp[u] = A[Len(A)].off + A[Len(A)].size
      BY <2>2 DEF Filled, TopIs
    <3>3. Bottom(m2, A[1])
      <4>1. PICK f \in m.heap : f = A[1].frag /\ root[f] = root[u]
        BY <3>1, <1>4
      <4>2. m.prev[f] # Null => m.prev[f] \in m.heap /\ root[m.prev[f]] = root[u]
        BY <4>1 DEF Linked
      <4> QED BY <3>2, <4>1, <4>2, <1>2 DEF Bottom
    <3> QED BY <2>2, <3>2, <3>3, <1>2 DEF TopIs
  <2> QED BY <2>1, <2>2
<1>10. Tight(m2, root2, depth2, u, A)
  <2> SUFFICES ASSUME NEW s \in m2.heap, root2[s] = root2[u], depth2[s] <= depth2[u]
               PROVE  m2.sp[s] = 0 \/ \E i \in 1..Len(A) : A[i].frag = s
    BY DEF Tight
  <2>1. s \in m.heap /\ root[s] = root[u] /\ depth[s] <= depth[u] /\ m2.sp[s] = m.sp[s]
    <3>1. s \in Stacklets
      BY MemoryParts
    <3> QED BY <3>1, <1>2, <1>3
  <2> QED BY <2>1 DEF Filled, Tight
<1> QED BY <1>1, <1>2, <1>5, <1>6, <1>8, <1>9, <1>10 DEF Filled

(* Filled does not say what a frame knows, nor what is a frame.            *)
SameMemory(A, A2) ==
    /\ A2 \in Seq(AllocRec) /\ Len(A2) = Len(A)
    /\ \A i \in 1..Len(A) : A2[i].frag = A[i].frag /\ A2[i].off = A[i].off /\ A2[i].size = A[i].size

(* A frame may note another stacklet.                                      *)
LEMMA FilledSame ==
    ASSUME NEW m, NEW root, NEW depth, NEW t, NEW A, Filled(m, root, depth, t, A),
           NEW A2, SameMemory(A, A2)
    PROVE  Filled(m, root, depth, t, A2)
<1>1. A \in Seq(AllocRec) /\ A2 \in Seq(AllocRec) /\ Len(A2) = Len(A)
  BY DEF Filled, SameMemory
<1>2. PICK n \in Nat : n = Len(A) /\ n = Len(A2) /\ (A = <<>> <=> n = 0) /\ (A2 = <<>> <=> n = 0)
  BY <1>1, AllocParts
<1>3. \A i \in 1..n : A2[i].frag = A[i].frag /\ A2[i].off = A[i].off /\ A2[i].size = A[i].size
  BY <1>2 DEF SameMemory
<1>4. Within(m, root, depth, t, A2)
  BY <1>2, <1>3 DEF Filled, Within
<1>5. Ordered(depth, A2)
  BY <1>2, <1>3 DEF Filled, Ordered
<1>6. Adjacent(m, A2)
  <2> SUFFICES ASSUME NEW i \in 1..n, i # 1 PROVE Follows(m, A2[i - 1], A2[i])
    BY <1>2 DEF Adjacent
  <2>1. i - 1 \in 1..n
    OBVIOUS
  <2>2. Follows(m, A[i - 1], A[i])
    BY <1>2 DEF Filled, Adjacent
  <2> QED BY <2>1, <2>2, <1>3 DEF Follows
<1>7. TopIs(m, t, A2)
  <2>1. CASE n = 0
    BY <2>1, <1>2 DEF Filled, TopIs
  <2>2. CASE n # 0
    <3>1. 1 \in 1..n /\ n \in 1..n /\ A # <<>> /\ A2 # <<>>
      BY <2>2, <1>2
    <3>2. A[n].frag = t /\ m.sp[t] = A[n].off + A[n].size /\ Bottom(m, A[1])
      BY <3>1, <1>2 DEF Filled, TopIs
    <3>3. Bottom(m, A2[1])
      BY <3>1, <3>2, <1>3 DEF Bottom
    <3>4. A2[n].frag = t /\ m.sp[t] = A2[n].off + A2[n].size
      BY <3>1, <3>2, <1>3
    <3> QED BY <3>1, <3>3, <3>4, <1>2 DEF TopIs
  <2> QED BY <2>1, <2>2
<1>8. Tight(m, root, depth, t, A2)
  BY <1>2, <1>3 DEF Filled, Tight
<1> QED BY <1>1, <1>4, <1>5, <1>6, <1>7, <1>8 DEF Filled

(* allocate() at the stack with top u leaves t2 as its top.                *)
Placed(m, m2, root, depth, root2, depth2, u, t2) ==
    /\ m2.heap \subseteq m.heap \union {t2} /\ t2 \in m2.heap
    /\ \A s \in m.heap : s # t2 =>
         /\ root2[s] = root[s] /\ depth2[s] = depth[s]
         /\ m2.prev[s] = m.prev[s] /\ m2.sp[s] = m.sp[s]
    /\ \A s \in m.heap : root[s] = root[u] /\ depth[s] <= depth[u] => s \in m2.heap /\ (s = t2 => s = u)
    /\ root2[t2] = root[u]
    /\ t2 = u => depth2[u] = depth[u] /\ m2.prev[u] = m.prev[u]
    /\ t2 # u => depth2[t2] = depth[u] + 1 /\ m2.prev[t2] = u

(* a is at the end of what was allocated, and only something that takes    *)
(* room is first on a stacklet.                                            *)
AtEnd(m, m2, u, t2, A, a) ==
    /\ a \in AllocRec /\ a.frag = t2 /\ m2.sp[t2] = a.off + a.size
    /\ t2 = u => a.off = m.sp[u]
    /\ t2 # u => a.off = 0 /\ a.size # 0
    /\ A = <<>> => a.size # 0

(* One more allocation.                                                    *)
LEMMA FilledPush ==
    ASSUME NEW m \in Memory, NEW root, NEW depth, Ranks(root, depth), Linked(m, root, depth),
           NEW u \in m.heap, NEW A, Filled(m, root, depth, u, A),
           NEW m2 \in Memory, NEW root2, NEW depth2, Ranks(root2, depth2), Linked(m2, root2, depth2),
           NEW t2, Placed(m, m2, root, depth, root2, depth2, u, t2),
           NEW a, AtEnd(m, m2, u, t2, A, a)
    PROVE  Filled(m2, root2, depth2, t2, Append(A, a))
<1>1. m.heap \subseteq Stacklets /\ m2.heap \subseteq Stacklets /\ Null \notin Stacklets /\ A \in Seq(AllocRec)
  BY MemoryParts DEF Filled
<1>2. /\ m2.heap \subseteq m.heap \union {t2} /\ t2 \in m2.heap
      /\ \A s \in m.heap : s # t2 =>
           /\ root2[s] = root[s] /\ depth2[s] = depth[s]
           /\ m2.prev[s] = m.prev[s] /\ m2.sp[s] = m.sp[s]
      /\ \A s \in m.heap : root[s] = root[u] /\ depth[s] <= depth[u] => s \in m2.heap /\ (s = t2 => s = u)
      /\ root2[t2] = root[u]
      /\ t2 = u => depth2[u] = depth[u] /\ m2.prev[u] = m.prev[u]
      /\ t2 # u => depth2[t2] = depth[u] + 1 /\ m2.prev[t2] = u
  BY DEF Placed
<1>3. /\ a \in AllocRec /\ a.frag = t2 /\ m2.sp[t2] = a.off + a.size
      /\ t2 = u => a.off = m.sp[u]
      /\ t2 # u => a.off = 0 /\ a.size # 0
      /\ A = <<>> => a.size # 0
  BY DEF AtEnd
<1>4. /\ a.off \in Nat /\ a.size \in Nat /\ a.frag \in Stacklets
      /\ \A s \in Stacklets : depth[s] \in Nat /\ depth2[s] \in Nat /\ m.sp[s] \in Nat
  BY <1>3, MemoryParts DEF AllocRec, Ranks
<1>5. PICK n \in Nat : n = Len(A) /\ (A = <<>> <=> n = 0)
  BY <1>1, AllocParts
<1>6. PICK B : B = Append(A, a)
  OBVIOUS
<1>7. /\ B \in Seq(AllocRec) /\ Len(B) = n + 1 /\ B[n + 1] = a /\ B # <<>>
      /\ \A i \in 1..n : B[i] = A[i]
  <2>1. /\ Append(A, a) \in Seq(AllocRec) /\ Len(Append(A, a)) = Len(A) + 1
        /\ Append(A, a)[Len(A) + 1] = a /\ Append(A, a) # <<>>
        /\ \A i \in 1..Len(A) : Append(A, a)[i] = A[i]
    BY <1>1, <1>3, AppendParts
  <2> QED BY <2>1, <1>5, <1>6
<1>8. \A i \in 1..n :
        /\ A[i].frag \in m.heap /\ root[A[i].frag] = root[u] /\ depth[A[i].frag] <= depth[u]
        /\ A[i].off + A[i].size <= m.sp[A[i].frag]
        /\ (A[i].off = 0 /\ m.prev[A[i].frag] # Null => A[i].size # 0)
        /\ A[i].off \in Nat /\ A[i].size \in Nat
  BY <1>1, <1>5, AllocParts DEF Filled, Within
<1>9. \A s \in m.heap : root[s] = root[u] /\ depth[s] <= depth[u] =>
        /\ s \in m2.heap /\ root2[s] = root2[t2] /\ depth2[s] = depth[s] /\ depth2[s] <= depth2[t2]
        /\ m2.prev[s] = m.prev[s] /\ (s # t2 => m2.sp[s] = m.sp[s]) /\ (s = t2 => s = u)
  <2>1. CASE t2 = u
    BY <2>1, <1>2
  <2>2. CASE t2 # u
    <3> SUFFICES ASSUME NEW s \in m.heap, root[s] = root[u], depth[s] <= depth[u]
                 PROVE  /\ s \in m2.heap /\ s # t2 /\ root2[s] = root2[t2] /\ depth2[s] = depth[s]
                        /\ depth2[s] <= depth2[t2] /\ m2.prev[s] = m.prev[s] /\ m2.sp[s] = m.sp[s]
      BY <2>2
    <3>1. s \in m2.heap /\ s # t2
      BY <2>2, <1>2
    <3>2. root2[s] = root2[t2] /\ depth2[s] = depth[s] /\ m2.prev[s] = m.prev[s] /\ m2.sp[s] = m.sp[s]
      BY <3>1, <1>2
    <3>3. depth2[t2] = depth[u] + 1 /\ depth[s] \in Nat /\ depth[u] \in Nat
      BY <2>2, <1>1, <1>2, <1>4
    <3> QED BY <3>1, <3>2, <3>3
  <2> QED BY <2>1, <2>2
<1>10. t2 = u /\ n # 0 => /\ A[n].frag = u /\ m.sp[u] = A[n].off + A[n].size
                          /\ \A i \in 1..n : A[i].frag = u => A[i].off + A[i].size <= a.off
  <2> SUFFICES ASSUME t2 = u, n # 0 PROVE /\ A[n].frag = u /\ m.sp[u] = A[n].off + A[n].size
                                          /\ \A i \in 1..n : A[i].frag = u => A[i].off + A[i].size <= a.off
    OBVIOUS
  <2>1. A[n].frag = u /\ m.sp[u] = A[n].off + A[n].size
    BY <1>5 DEF Filled, TopIs
  <2>2. \A i \in 1..n : A[i].frag = u => A[i].off + A[i].size <= m.sp[u]
    BY <1>8
  <2> QED BY <2>1, <2>2, <1>3
<1>11. ASSUME NEW i \in 1..n PROVE A[i].off + A[i].size <= m2.sp[A[i].frag]
  <2>1. CASE A[i].frag = t2
    <3>1. t2 = u /\ A[i].off + A[i].size <= m.sp[u] /\ a.off = m.sp[u]
      BY <2>1, <1>3, <1>8, <1>9
    <3>2. m2.sp[t2] = a.off + a.size /\ a.off \in Nat /\ a.size \in Nat /\ A[i].off \in Nat /\ A[i].size \in Nat
      BY <1>3, <1>4, <1>8
    <3> QED BY <2>1, <3>1, <3>2
  <2>2. CASE A[i].frag # t2
    BY <2>2, <1>8, <1>9
  <2> QED BY <2>1, <2>2
<1>12. Within(m2, root2, depth2, t2, B)
  <2> SUFFICES ASSUME NEW i \in 1..(n + 1)
               PROVE  /\ B[i].frag \in m2.heap /\ root2[B[i].frag] = root2[t2] /\ depth2[B[i].frag] <= depth2[t2]
                      /\ B[i].off + B[i].size <= m2.sp[B[i].frag]
                      /\ B[i].off = 0 /\ m2.prev[B[i].frag] # Null => B[i].size # 0
    BY <1>7 DEF Within
  <2>1. CASE i = n + 1
    <3>1. B[i] = a
      BY <2>1, <1>7
    <3>2. t2 \in m2.heap /\ root2[t2] = root2[t2] /\ depth2[t2] <= depth2[t2] /\ a.off + a.size <= m2.sp[t2]
      <4>1. t2 \in Stacklets
        BY <1>1, <1>2
      <4> QED BY <4>1, <1>2, <1>3, <1>4
    <3>3. ASSUME a.off = 0, m2.prev[t2] # Null PROVE a.size # 0
      <4>1. CASE t2 # u
        BY <4>1, <1>3
      <4>2. CASE n = 0
        BY <4>2, <1>3, <1>5
      <4>3. CASE t2 = u /\ n # 0
        <5>1. m.prev[u] # Null /\ m.sp[u] = 0
          BY <4>3, <3>3, <1>2, <1>3
        <5>2. n \in 1..n /\ A[n].frag = u /\ A[n].off + A[n].size = 0
          BY <4>3, <5>1, <1>10
        <5>3. A[n].off \in Nat /\ A[n].size \in Nat /\ (A[n].off = 0 => A[n].size # 0)
          BY <5>1, <5>2, <1>8
        <5> QED BY <5>2, <5>3
      <4> QED BY <4>1, <4>2, <4>3
    <3> QED BY <3>1, <3>2, <3>3, <1>3
  <2>2. CASE i # n + 1
    <3>1. i \in 1..n /\ B[i] = A[i]
      BY <2>2, <1>7
    <3> QED BY <3>1, <1>8, <1>9, <1>11
  <2> QED BY <2>1, <2>2
<1>13. Ordered(depth2, B)
  <2> SUFFICES ASSUME NEW i \in 1..(n + 1), NEW j \in 1..(n + 1), i < j
               PROVE  /\ depth2[B[i].frag] <= depth2[B[j].frag]
                      /\ B[i].frag = B[j].frag => B[i].off + B[i].size <= B[j].off
    BY <1>7 DEF Ordered
  <2>1. i \in 1..n /\ B[i] = A[i]
    BY <1>7
  <2>2. CASE j = n + 1
    <3>1. B[j] = a /\ a.frag = t2
      BY <2>2, <1>3, <1>7
    <3>2. depth2[A[i].frag] <= depth2[t2]
      BY <2>1, <1>8, <1>9
    <3>3. A[i].frag = t2 => A[i].off + A[i].size <= a.off
      BY <2>1, <1>8, <1>9, <1>10
    <3> QED BY <2>1, <3>1, <3>2, <3>3
  <2>3. CASE j # n + 1
    <3>1. j \in 1..n /\ B[j] = A[j]
      BY <2>3, <1>7
    <3>2. /\ depth[A[i].frag] <= depth[A[j].frag]
          /\ A[i].frag = A[j].frag => A[i].off + A[i].size <= A[j].off
      BY <2>1, <3>1, <1>5 DEF Filled, Ordered
    <3> QED BY <2>1, <3>1, <3>2, <1>8, <1>9
  <2> QED BY <2>2, <2>3
<1>14. Adjacent(m2, B)
  <2> SUFFICES ASSUME NEW i \in 1..(n + 1), i # 1 PROVE Follows(m2, B[i - 1], B[i])
    BY <1>7 DEF Adjacent
  <2>1. i - 1 \in 1..n
    OBVIOUS
  <2>2. PICK b : b = A[i - 1] /\ b = B[i - 1]
    BY <2>1, <1>7
  <2>3. CASE i = n + 1
    <3>1. B[i] = a /\ n # 0 /\ b = A[n] /\ b.frag = u /\ m.sp[u] = b.off + b.size
      <4>1. n # 0
        BY <2>1, <2>3
      <4>2. A[n].frag = u /\ m.sp[u] = A[n].off + A[n].size
        BY <4>1, <1>5 DEF Filled, TopIs
      <4> QED BY <2>2, <2>3, <4>1, <4>2, <1>7
    <3>2. CASE t2 = u
      BY <2>2, <3>1, <3>2, <1>3 DEF Follows
    <3>3. CASE t2 # u
      BY <2>2, <3>1, <3>3, <1>2, <1>3 DEF Follows
    <3> QED BY <3>2, <3>3
  <2>4. CASE i # n + 1
    <3>1. i \in 1..n
      BY <2>4
    <3>2. B[i] = A[i]
      BY <3>1, <1>7
    <3>3. Follows(m, b, A[i])
      BY <2>2, <3>1, <1>5 DEF Filled, Adjacent
    <3>4. CASE A[i].frag = b.frag /\ A[i].off = b.off + b.size
      BY <2>2, <3>2, <3>4 DEF Follows
    <3>5. CASE A[i].off = 0 /\ m.prev[A[i].frag] = b.frag /\ m.sp[b.frag] = b.off + b.size
      <4>1. b.frag # t2
        <5> SUFFICES ASSUME b.frag = t2 PROVE FALSE
          OBVIOUS
        <5>1. b.frag = u
          BY <2>1, <2>2, <1>8, <1>9
        <5>2. A[i].frag \in m.heap /\ m.prev[A[i].frag] # Null /\ u # Null
          BY <3>1, <3>5, <5>1, <1>1, <1>8
        <5>3. depth[A[i].frag] = depth[u] + 1 /\ depth[A[i].frag] <= depth[u] /\ depth[u] \in Nat
          BY <3>1, <3>5, <5>1, <5>2, <1>1, <1>4, <1>8 DEF Linked
        <5> QED BY <5>3
      <4>2. m2.sp[b.frag] = m.sp[b.frag] /\ m2.prev[A[i].frag] = m.prev[A[i].frag]
        BY <2>1, <2>2, <3>1, <4>1, <1>8, <1>9
      <4> QED BY <2>2, <3>2, <3>5, <4>2 DEF Follows
    <3> QED BY <3>3, <3>4, <3>5 DEF Follows
  <2> QED BY <2>3, <2>4
<1>15. Bottom(m2, B[1])
  <2>1. CASE n = 0
    <3>1. B[1] = a /\ m.sp[u] = 0 /\ m.prev[u] = Null
      BY <2>1, <1>5, <1>7 DEF Filled, TopIs
    <3>2. a.off = 0 /\ a.size # 0
      BY <2>1, <3>1, <1>3, <1>5
    <3>3. m2.prev[t2] # Null => m2.sp[m2.prev[t2]] = 0 /\ m2.prev[m2.prev[t2]] = Null
      BY <3>1, <1>2
    <3> QED BY <3>1, <3>2, <3>3, <1>3 DEF Bottom
  <2>2. CASE n # 0
    <3>1. 1 \in 1..n
      BY <2>2
    <3>2. B[1] = A[1] /\ Bottom(m, A[1])
      BY <2>2, <3>1, <1>5, <1>7 DEF Filled, TopIs
    <3>3. PICK f : f = A[1].frag /\ f \in m.heap /\ root[f] = root[u] /\ depth[f] <= depth[u]
      BY <3>1, <1>8
    <3>4. m2.prev[f] = m.prev[f]
      BY <3>3, <1>9
    <3>5. ASSUME m.prev[f] # Null PROVE m2.sp[m.prev[f]] = 0 /\ m2.prev[m.prev[f]] = Null
      <4>1. PICK p : p = m.prev[f] /\ m.sp[p] = 0 /\ m.prev[p] = Null
        BY <3>2, <3>3, <3>5 DEF Bottom
      <4>2. p \in m.heap /\ root[p] = root[u] /\ depth[f] = depth[p] + 1
        BY <3>3, <3>5, <4>1 DEF Linked
      <4>3. depth[p] < depth[u]
        BY <3>3, <4>2, <1>1, <1>4
      <4>4. p # t2
        BY <4>2, <4>3, <1>1, <1>4, <1>9
      <4> QED BY <4>1, <4>2, <4>3, <4>4, <1>1, <1>4, <1>9
    <3> QED BY <3>2, <3>3, <3>4, <3>5 DEF Bottom
  <2> QED BY <2>1, <2>2
<1>16. TopIs(m2, t2, B)
  BY <1>3, <1>7, <1>15 DEF TopIs
<1>17. Tight(m2, root2, depth2, t2, B)
  <2> SUFFICES ASSUME NEW s \in m2.heap, root2[s] = root2[t2], depth2[s] <= depth2[t2]
               PROVE  m2.sp[s] = 0 \/ \E i \in 1..(n + 1) : B[i].frag = s
    BY <1>7 DEF Tight
  <2>1. CASE s = t2
    <3>1. B[n + 1].frag = s /\ n + 1 \in 1..(n + 1)
      BY <2>1, <1>3, <1>7
    <3> QED BY <3>1
  <2>2. CASE s # t2
    <3>1. s \in m.heap /\ root[s] = root[u] /\ m2.sp[s] = m.sp[s] /\ depth2[s] = depth[s]
      BY <2>2, <1>2
    <3>2. depth[s] <= depth[u]
      <4>1. CASE t2 = u
        BY <3>1, <4>1, <1>2
      <4>2. CASE t2 # u
        <5>1. depth2[s] # depth2[t2]
          BY <2>2, <1>2 DEF Linked
        <5> QED BY <3>1, <4>2, <5>1, <1>1, <1>2, <1>4
      <4> QED BY <4>1, <4>2
    <3>3. m.sp[s] = 0 \/ \E i \in 1..n : A[i].frag = s
      BY <3>1, <3>2, <1>5 DEF Filled, Tight
    <3>4. \A i \in 1..n : i \in 1..(n + 1) /\ B[i] = A[i]
      BY <1>7
    <3> QED BY <3>1, <3>3, <3>4
  <2> QED BY <2>1, <2>2
<1> QED BY <1>6, <1>7, <1>12, <1>13, <1>14, <1>16, <1>17 DEF Filled

(* deallocate() at the stack with top u sets its stack pointer to off and  *)
(* leaves t2 as the top.                                                   *)
Popped(m, m2, root, depth, u, t2, off) ==
    /\ m2.heap \subseteq m.heap /\ t2 \in m2.heap
    /\ \A s \in m.heap : root[s] = root[u] /\ depth[s] <= depth[t2] => s \in m2.heap
    /\ m2.prev = m.prev /\ m2.sp = [m.sp EXCEPT ![u] = off]
    /\ IF off = 0 /\ m.prev[u] # Null THEN t2 = m.prev[u] ELSE t2 = u

(* One allocation less.                                                    *)
LEMMA FilledPop ==
    ASSUME NEW m \in Memory, NEW root, NEW depth, Ranks(root, depth), Linked(m, root, depth),
           NEW u \in m.heap, NEW A, Filled(m, root, depth, u, A), A # <<>>,
           NEW m2 \in Memory, NEW t2, Popped(m, m2, root, depth, u, t2, A[Len(A)].off)
    PROVE  /\ Filled(m2, root, depth, t2, Rest(A)) /\ root[t2] = root[u]
           /\ Rest(A) # <<>> => A[Len(A) - 1].frag = t2
<1>1. m.heap \subseteq Stacklets /\ m2.heap \subseteq Stacklets /\ Null \notin Stacklets /\ A \in Seq(AllocRec)
  BY MemoryParts DEF Filled
<1>2. PICK n \in Nat \ {0} : n = Len(A)
  BY <1>1, AllocParts
<1>3. PICK a \in AllocRec : a = A[n]
  BY <1>1, <1>2, AllocParts
<1>4. /\ m2.heap \subseteq m.heap /\ t2 \in m2.heap
      /\ \A s \in m.heap : root[s] = root[u] /\ depth[s] <= depth[t2] => s \in m2.heap
      /\ m2.prev = m.prev /\ m2.sp = [m.sp EXCEPT ![u] = a.off]
      /\ IF a.off = 0 /\ m.prev[u] # Null THEN t2 = m.prev[u] ELSE t2 = u
  BY <1>2, <1>3 DEF Popped
<1>5. /\ a.off \in Nat /\ a.size \in Nat
      /\ \A s \in Stacklets : depth[s] \in Nat /\ m.sp[s] \in Nat
  BY <1>3, MemoryParts DEF AllocRec, Ranks
<1>6. m2.sp[u] = a.off /\ \A s \in Stacklets : s # u => m2.sp[s] = m.sp[s]
  BY <1>1, <1>4, MemoryParts
<1>7. /\ a.frag = u /\ m.sp[u] = a.off + a.size /\ Bottom(m, A[1])
  BY <1>2, <1>3 DEF Filled, TopIs
<1>8. \A i \in 1..n :
        /\ A[i].frag \in m.heap /\ root[A[i].frag] = root[u] /\ depth[A[i].frag] <= depth[u]
        /\ A[i].off + A[i].size <= m.sp[A[i].frag]
        /\ (A[i].off = 0 /\ m.prev[A[i].frag] # Null => A[i].size # 0)
        /\ A[i].off \in Nat /\ A[i].size \in Nat /\ A[i].frag \in Stacklets
  BY <1>1, <1>2, AllocParts DEF Filled, Within
<1>9. PICK B : B = Rest(A)
  OBVIOUS
<1>10. PICK k \in Nat : k = n - 1
  OBVIOUS
<1>11. /\ B \in Seq(AllocRec) /\ Len(B) = k /\ (B = <<>> <=> k = 0)
       /\ \A i \in 1..k : B[i] = A[i] /\ i \in 1..n /\ i < n
  <2>1. /\ Rest(A) \in Seq(AllocRec) /\ Len(Rest(A)) = Len(A) - 1
        /\ \A i \in 1..(Len(A) - 1) : Rest(A)[i] = A[i]
        /\ Rest(A) = <<>> <=> Len(A) = 1
    BY <1>1, RestParts
  <2> QED BY <2>1, <1>2, <1>9, <1>10
(* What is left on the top ends where the last allocation began.           *)
<1>12. \A i \in 1..k : A[i].frag = u => A[i].off + A[i].size <= a.off
  <2>1. n \in 1..n
    OBVIOUS
  <2> QED BY <2>1, <1>2, <1>3, <1>7, <1>11 DEF Filled, Ordered
<1>13. CASE a.off = 0 /\ m.prev[u] # Null
  <2>1. t2 = m.prev[u] /\ t2 \in m.heap /\ m.next[t2] = u /\ root[t2] = root[u] /\ depth[u] = depth[t2] + 1
    BY <1>4, <1>13 DEF Linked
  <2>2. t2 # u
    BY <2>1, <1>1, <1>5
  <2>3. \A s \in m.heap : root[s] = root[u] /\ depth[s] <= depth[u] /\ s # u => depth[s] <= depth[t2]
    <3> SUFFICES ASSUME NEW s \in m.heap, root[s] = root[u], depth[s] <= depth[u], s # u
                 PROVE  depth[s] <= depth[t2]
      OBVIOUS
    <3>1. depth[s] # depth[u]
      BY DEF Linked
    <3> QED BY <3>1, <2>1, <1>1, <1>5
  <2>4. ASSUME NEW i \in 1..k PROVE A[i].frag # u
    <3> SUFFICES ASSUME A[i].frag = u PROVE FALSE
      OBVIOUS
    <3>1. A[i].off + A[i].size <= 0 /\ i \in 1..n
      BY <1>11, <1>12, <1>13
    <3>2. A[i].off \in Nat /\ A[i].size \in Nat /\ (A[i].off = 0 => A[i].size # 0)
      BY <3>1, <1>8, <1>13
    <3> QED BY <3>1, <3>2
  <2>5. ASSUME NEW i \in 1..k
        PROVE  /\ A[i].frag \in m2.heap /\ depth[A[i].frag] <= depth[t2]
               /\ m2.sp[A[i].frag] = m.sp[A[i].frag] /\ root[A[i].frag] = root[t2]
               /\ A[i].off + A[i].size <= m2.sp[A[i].frag]
               /\ A[i].off = 0 /\ m2.prev[A[i].frag] # Null => A[i].size # 0
    <3>1. /\ A[i].frag \in m.heap /\ root[A[i].frag] = root[u] /\ depth[A[i].frag] <= depth[u]
          /\ A[i].off + A[i].size <= m.sp[A[i].frag] /\ A[i].frag \in Stacklets
          /\ A[i].off = 0 /\ m.prev[A[i].frag] # Null => A[i].size # 0
      BY <1>8, <1>11
    <3>2. A[i].frag # u
      BY <2>4
    <3>3. depth[A[i].frag] <= depth[t2] /\ A[i].frag \in m2.heap
      BY <3>1, <3>2, <2>3, <1>4
    <3>4. m2.sp[A[i].frag] = m.sp[A[i].frag]
      BY <3>1, <3>2, <1>6
    <3> QED BY <3>1, <3>3, <3>4, <2>1, <1>4
  <2>6. Within(m2, root, depth, t2, B)
    <3>1. Len(B) = k /\ \A i \in 1..k : B[i] = A[i]
      BY <1>11
    <3> QED BY <3>1, <2>5 DEF Within
  <2>7. Ordered(depth, B)
    <3>1. Len(B) = k /\ \A i \in 1..k : B[i] = A[i] /\ i \in 1..n
      BY <1>11
    <3>2. \A i, j \in 1..n : i < j =>
            /\ depth[A[i].frag] <= depth[A[j].frag]
            /\ A[i].frag = A[j].frag => A[i].off + A[i].size <= A[j].off
      BY <1>2 DEF Filled, Ordered
    <3>3. \A i, j \in 1..k : i < j =>
            /\ depth[B[i].frag] <= depth[B[j].frag]
            /\ B[i].frag = B[j].frag => B[i].off + B[i].size <= B[j].off
      BY <3>1, <3>2
    <3> QED BY <3>1, <3>3 DEF Ordered
  <2>8. Adjacent(m2, B)
    <3> SUFFICES ASSUME NEW i \in 1..k, i # 1 PROVE Follows(m2, B[i - 1], B[i])
      BY <1>11 DEF Adjacent
    <3>1. i - 1 \in 1..k
      OBVIOUS
    <3>2. i \in 1..n /\ B[i] = A[i] /\ B[i - 1] = A[i - 1]
      BY <3>1, <1>11
    <3>3. Follows(m, A[i - 1], A[i])
      BY <3>2, <1>2 DEF Filled, Adjacent
    <3> QED BY <3>1, <3>2, <3>3, <2>5, <1>4 DEF Follows
  <2>9. k # 0 => A[k].frag = t2 /\ m.sp[t2] = A[k].off + A[k].size
    <3> SUFFICES ASSUME k # 0 PROVE A[k].frag = t2 /\ m.sp[t2] = A[k].off + A[k].size
      OBVIOUS
    <3>1. n \in 1..n /\ n # 1 /\ n - 1 = k /\ k \in 1..k
      BY <1>10
    <3>2. Follows(m, A[k], a)
      BY <3>1, <1>2, <1>3 DEF Filled, Adjacent
    <3>3. A[k].frag # a.frag
      BY <3>1, <2>4, <1>7
    <3> QED BY <3>2, <3>3, <2>1, <1>7 DEF Follows
  <2>10. TopIs(m2, t2, B)
    <3>1. CASE k = 0
      <4>1. A[1] = a
        BY <3>1, <1>3, <1>10
      <4>2. m.sp[t2] = 0 /\ m.prev[t2] = Null
        BY <4>1, <1>7, <1>13, <2>1 DEF Bottom
      <4> QED BY <3>1, <4>2, <2>1, <2>2, <1>1, <1>4, <1>6, <1>11 DEF TopIs
    <3>2. CASE k # 0
      <4>1. k \in 1..k /\ 1 \in 1..k
        BY <3>2
      <4>2. B[k].frag = t2 /\ m2.sp[t2] = B[k].off + B[k].size
        BY <4>1, <3>2, <2>2, <2>1, <2>9, <1>1, <1>6, <1>11
      <4>3. Bottom(m2, A[1])
        <5>1. A[1].off = 0 /\ A[1].size # 0 /\ A[1].frag \in m.heap
          BY <4>1, <1>7, <1>8, <1>11 DEF Bottom
        <5>2. ASSUME m.prev[A[1].frag] # Null
              PROVE  m2.sp[m.prev[A[1].frag]] = 0 /\ m.prev[m.prev[A[1].frag]] = Null
          <6>1. m.sp[m.prev[A[1].frag]] = 0 /\ m.prev[m.prev[A[1].frag]] = Null /\ m.prev[A[1].frag] \in m.heap
            BY <5>1, <5>2, <1>7 DEF Bottom, Linked
          <6>2. m.prev[A[1].frag] # u
            BY <6>1, <1>13
          <6> QED BY <6>1, <6>2, <1>1, <1>6
        <5> QED BY <5>1, <5>2, <1>4 DEF Bottom
      <4>4. Bottom(m2, B[1])
        BY <4>1, <4>3, <1>11
      <4> QED BY <3>2, <4>2, <4>4, <1>11 DEF TopIs
    <3> QED BY <3>1, <3>2
  <2>11. Tight(m2, root, depth, t2, B)
    <3> SUFFICES ASSUME NEW s \in m2.heap, root[s] = root[t2], depth[s] <= depth[t2]
                 PROVE  m2.sp[s] = 0 \/ \E i \in 1..k : B[i].frag = s
      BY <1>11 DEF Tight
    <3>1. s \in m.heap /\ root[s] = root[u] /\ depth[s] <= depth[u] /\ s # u /\ m2.sp[s] = m.sp[s]
      <4>1. s \in m.heap /\ root[s] = root[u]
        BY <1>4, <2>1
      <4>2. depth[s] < depth[u]
        BY <4>1, <2>1, <1>1, <1>5
      <4> QED BY <4>1, <4>2, <1>1, <1>5, <1>6
    <3>2. m.sp[s] = 0 \/ \E i \in 1..n : A[i].frag = s
      BY <3>1, <1>2 DEF Filled, Tight
    <3>3. \A i \in 1..n : A[i].frag = s => i \in 1..k /\ B[i] = A[i]
      <4> SUFFICES ASSUME NEW i \in 1..n, A[i].frag = s PROVE i \in 1..k
        BY <1>11
      <4>1. i # n
        BY <3>1, <1>3, <1>7
      <4> QED BY <4>1, <1>10
    <3> QED BY <3>1, <3>2, <3>3
  <2> QED BY <2>1, <2>6, <2>7, <2>8, <2>9, <2>10, <2>11, <1>2, <1>9, <1>10, <1>11 DEF Filled
<1>14. CASE ~(a.off = 0 /\ m.prev[u] # Null)
  <2>1. t2 = u
    BY <1>4, <1>14
  <2>2. \A i \in 1..k : A[i].off + A[i].size <= m2.sp[A[i].frag]
    <3> SUFFICES ASSUME NEW i \in 1..k PROVE A[i].off + A[i].size <= m2.sp[A[i].frag]
      OBVIOUS
    <3>1. CASE A[i].frag = u
      BY <3>1, <1>6, <1>12
    <3>2. CASE A[i].frag # u
      BY <3>2, <1>6, <1>8, <1>11
    <3> QED BY <3>1, <3>2
  <2>3. Within(m2, root, depth, t2, B)
    <3>1. Len(B) = k /\ \A i \in 1..k : B[i] = A[i]
      BY <1>11
    <3>2. ASSUME NEW i \in 1..k
          PROVE  /\ A[i].frag \in m2.heap /\ root[A[i].frag] = root[t2] /\ depth[A[i].frag] <= depth[t2]
                 /\ A[i].off + A[i].size <= m2.sp[A[i].frag]
                 /\ A[i].off = 0 /\ m2.prev[A[i].frag] # Null => A[i].size # 0
      <4>1. /\ A[i].frag \in m.heap /\ root[A[i].frag] = root[u] /\ depth[A[i].frag] <= depth[u]
            /\ A[i].off = 0 /\ m.prev[A[i].frag] # Null => A[i].size # 0
        BY <1>8, <1>11
      <4>2. A[i].frag \in m2.heap
        BY <4>1, <2>1, <1>4
      <4> QED BY <4>1, <4>2, <2>1, <2>2, <1>4
    <3> QED BY <3>1, <3>2 DEF Within
  <2>4. Ordered(depth, B)
    <3>1. Len(B) = k /\ \A i \in 1..k : B[i] = A[i] /\ i \in 1..n
      BY <1>11
    <3>2. \A i, j \in 1..n : i < j =>
            /\ depth[A[i].frag] <= depth[A[j].frag]
            /\ A[i].frag = A[j].frag => A[i].off + A[i].size <= A[j].off
      BY <1>2 DEF Filled, Ordered
    <3>3. \A i, j \in 1..k : i < j =>
            /\ depth[B[i].frag] <= depth[B[j].frag]
            /\ B[i].frag = B[j].frag => B[i].off + B[i].size <= B[j].off
      BY <3>1, <3>2
    <3> QED BY <3>1, <3>3 DEF Ordered
  <2>5. Adjacent(m2, B)
    <3> SUFFICES ASSUME NEW i \in 1..k, i # 1 PROVE Follows(m2, B[i - 1], B[i])
      BY <1>11 DEF Adjacent
    <3>1. i - 1 \in 1..k
      OBVIOUS
    <3>2. i \in 1..n /\ B[i] = A[i] /\ B[i - 1] = A[i - 1] /\ i - 1 \in 1..n
      BY <3>1, <1>11
    <3>3. Follows(m, A[i - 1], A[i])
      BY <3>2, <1>2 DEF Filled, Adjacent
    <3>4. CASE A[i].frag = A[i - 1].frag /\ A[i].off = A[i - 1].off + A[i - 1].size
      BY <3>2, <3>4 DEF Follows
    <3>5. CASE A[i].off = 0 /\ m.prev[A[i].frag] = A[i - 1].frag /\ m.sp[A[i - 1].frag] = A[i - 1].off + A[i - 1].size
      <4>1. A[i - 1].frag # u
        <5> SUFFICES ASSUME A[i - 1].frag = u PROVE FALSE
          OBVIOUS
        <5>1. A[i].frag \in m.heap /\ m.prev[A[i].frag] = u /\ u # Null /\ depth[A[i].frag] <= depth[u]
          BY <3>2, <3>5, <1>1, <1>8
        <5>2. depth[A[i].frag] = depth[u] + 1 /\ depth[u] \in Nat
          BY <5>1, <1>1, <1>5 DEF Linked
        <5> QED BY <5>1, <5>2
      <4>2. m2.sp[A[i - 1].frag] = m.sp[A[i - 1].frag]
        BY <3>2, <4>1, <1>6, <1>8
      <4> QED BY <3>2, <3>5, <4>2, <1>4 DEF Follows
    <3> QED BY <3>3, <3>4, <3>5 DEF Follows
  <2>6. k # 0 => A[k].frag = u /\ a.off = A[k].off + A[k].size
    <3> SUFFICES ASSUME k # 0 PROVE A[k].frag = u /\ a.off = A[k].off + A[k].size
      OBVIOUS
    <3>1. n \in 1..n /\ n # 1 /\ n - 1 = k /\ k \in 1..n
      BY <1>10
    <3>2. Follows(m, A[k], a)
      BY <3>1, <1>2, <1>3 DEF Filled, Adjacent
    <3>3. A[k].frag # Null
      BY <3>1, <1>1, <1>8
    <3> QED BY <3>2, <3>3, <1>7, <1>14 DEF Follows
  <2>7. k = 0 => a.off = 0 /\ m.prev[u] = Null
    <3>1. k = 0 => A[1] = a
      BY <1>3, <1>10
    <3> QED BY <3>1, <1>7, <1>14 DEF Bottom
  <2>8. TopIs(m2, t2, B)
    <3>1. CASE k = 0
      BY <3>1, <2>1, <2>7, <1>4, <1>6, <1>11 DEF TopIs
    <3>2. CASE k # 0
      <4>1. k \in 1..k /\ 1 \in 1..k
        BY <3>2
      <4>2. B[k].frag = t2 /\ m2.sp[t2] = B[k].off + B[k].size
        BY <4>1, <3>2, <2>1, <2>6, <1>6, <1>11
      <4>3. Bottom(m2, A[1])
        <5>1. A[1].off = 0 /\ A[1].size # 0 /\ A[1].frag \in m.heap /\ depth[A[1].frag] <= depth[u]
          BY <4>1, <1>7, <1>8, <1>11 DEF Bottom
        <5>2. ASSUME m.prev[A[1].frag] # Null
              PROVE  m2.sp[m.prev[A[1].frag]] = 0 /\ m.prev[m.prev[A[1].frag]] = Null
          <6>1. /\ m.sp[m.prev[A[1].frag]] = 0 /\ m.prev[m.prev[A[1].frag]] = Null
                /\ m.prev[A[1].frag] \in m.heap /\ depth[A[1].frag] = depth[m.prev[A[1].frag]] + 1
            BY <5>1, <5>2, <1>7 DEF Bottom, Linked
          <6>2. m.prev[A[1].frag] # u
            BY <6>1, <5>1, <1>1, <1>5
          <6> QED BY <6>1, <6>2, <1>1, <1>6
        <5> QED BY <5>1, <5>2, <1>4 DEF Bottom
      <4>4. Bottom(m2, B[1])
        BY <4>1, <4>3, <1>11
      <4> QED BY <3>2, <4>2, <4>4, <1>11 DEF TopIs
    <3> QED BY <3>1, <3>2
  <2>9. Tight(m2, root, depth, t2, B)
    <3> SUFFICES ASSUME NEW s \in m2.heap, root[s] = root[u], depth[s] <= depth[u]
                 PROVE  m2.sp[s] = 0 \/ \E i \in 1..k : B[i].frag = s
      BY <2>1, <1>11 DEF Tight
    <3>1. CASE s = u
      <4>1. CASE k = 0
        BY <3>1, <4>1, <2>7, <1>6
      <4>2. CASE k # 0
        <5>1. k \in 1..k
          BY <4>2
        <5> QED BY <3>1, <4>2, <5>1, <2>6, <1>11
      <4> QED BY <4>1, <4>2
    <3>2. CASE s # u
      <4>1. s \in m.heap /\ m2.sp[s] = m.sp[s]
        BY <3>2, <1>1, <1>4, <1>6
      <4>2. m.sp[s] = 0 \/ \E i \in 1..n : A[i].frag = s
        BY <4>1, <1>2 DEF Filled, Tight
      <4>3. \A i \in 1..n : A[i].frag = s => i \in 1..k /\ B[i] = A[i]
        <5> SUFFICES ASSUME NEW i \in 1..n, A[i].frag = s PROVE i \in 1..k
          BY <1>11
        <5>1. i # n
          BY <3>2, <1>3, <1>7
        <5> QED BY <5>1, <1>10
      <4> QED BY <4>1, <4>2, <4>3
    <3> QED BY <3>1, <3>2
  <2> QED BY <2>1, <2>3, <2>4, <2>5, <2>6, <2>8, <2>9, <1>2, <1>9, <1>10, <1>11 DEF Filled
<1> QED BY <1>13, <1>14

-----------------------------------------------------------------------------
(* deallocate() and allocate().                                            *)

(* A stack pointer is moved, and the next stacklet is cut off.             *)
Moved(m, m2, s, x) ==
    /\ m2 \in Memory /\ m2.heap = m.heap /\ m2.sp = [m.sp EXCEPT ![s] = x]
    /\ m2.hi = m.hi /\ m2.prev = m.prev /\ m2.next = m.next
Cut(m, m2, s) ==
    /\ m2 \in Memory /\ m2.heap = m.heap \ {m.next[s]}
    /\ m2.sp = m.sp /\ m2.hi = m.hi /\ m2.prev = m.prev
    /\ m2.next = [m.next EXCEPT ![s] = Null]

(* Moving it does just that.                                               *)
LEMMA SpMoves ==
    ASSUME NEW m \in Memory, NEW s \in Stacklets, NEW x \in Nat,
           NEW m2, m2 = [m EXCEPT !.sp[s] = x]
    PROVE  Moved(m, m2, s, x)
<1>1. [m EXCEPT !.sp[s] = x] = [heap |-> m.heap, sp |-> [m.sp EXCEPT ![s] = x], hi |-> m.hi,
                                prev |-> m.prev, next |-> m.next]
  BY DEF Memory
<1>2. [m.sp EXCEPT ![s] = x] \in [Stacklets -> Nat]
  BY MemoryParts
<1> QED BY <1>1, <1>2, MemoryParts DEF Memory, Moved

(* Cutting it off does just that.                                          *)
LEMMA CutMoves ==
    ASSUME NEW m \in Memory, NEW s \in Stacklets, NEW m2, m2 = set_next(m, s, Null)
    PROVE  Cut(m, m2, s)
<1>1. Null \in MaybeStacklets
  BY DEF MaybeStacklets
<1> QED BY <1>1, CutParts DEF Cut

(* What a step of the stack with top t leaves: t2 is its top.              *)
Stepped(m, m2, root, depth, root2, depth2, T, t, t2) ==
    /\ m2 \in Memory /\ Ranks(root2, depth2) /\ Linked(m2, root2, depth2)
    /\ Owned(m2, root2, depth2, (T \ {t}) \union {t2}) /\ Bounded(m2, (T \ {t}) \union {t2})
    /\ Aside(m, m2, root, depth, root2, depth2, root[t])
    /\ root2[t2] = root[t] /\ t2 \in Stacklets

(* deallocate() of what begins at off.                                     *)
LEMMA DeallocateSound ==
    ASSUME NEW m \in Memory, NEW root, NEW depth, NEW T, Ranks(root, depth), Linked(m, root, depth),
           Owned(m, root, depth, T), Bounded(m, T), NEW t \in T, NEW off \in Nat, off <= m.sp[t],
           NEW d, d = deallocate(m, t, off)
    PROVE  /\ Stepped(m, d.mem, root, depth, root, depth, T, t, d.top)
           /\ Popped(m, d.mem, root, depth, t, d.top, off)
<1>1. t \in m.heap /\ t \in Stacklets /\ m.heap \subseteq Stacklets /\ Null \notin Stacklets /\ T \subseteq m.heap
  BY MemoryParts DEF Owned
<1>2. \A s \in Stacklets : m.hi[s] \in Nat /\ m.sp[s] \in Nat /\ depth[s] \in Nat
  BY MemoryParts DEF Ranks
<1>3. off <= m.hi[t]
  BY <1>1, <1>2 DEF Linked
<1>4. PICK m1 : m1 = [m EXCEPT !.sp[t] = off]
  OBVIOUS
<1>5. PICK back \in BOOLEAN : back <=> off = 0 /\ m1.prev[t] # Null
  OBVIOUS
<1>6. PICK m2 : m2 = IF back THEN set_next(m1, t, Null) ELSE m1
  OBVIOUS
<1>7. PICK t2 : t2 = IF back THEN m1.prev[t] ELSE t
  OBVIOUS
<1>8. PICK over \in BOOLEAN : over <=> off = 0 /\ m2.next[t2] # Null /\ m2.hi[m2.next[t2]] > 8 * m2.hi[t2]
  OBVIOUS
<1>9. PICK m3 : m3 = IF over THEN set_next(m2, t2, Null) ELSE m2
  OBVIOUS
<1>10. d.mem = m3 /\ d.top = t2
  <2>1. d.mem = LET x == IF off = 0 /\ m1.prev[t] # Null THEN set_next(m1, t, Null) ELSE m1
                    u == IF off = 0 /\ m1.prev[t] # Null THEN m1.prev[t] ELSE t
                IN  IF off = 0 /\ x.next[u] # Null /\ x.hi[x.next[u]] > 8 * x.hi[u]
                    THEN set_next(x, u, Null) ELSE x
    BY <1>4 DEF deallocate
  <2>2. d.top = IF off = 0 /\ m1.prev[t] # Null THEN m1.prev[t] ELSE t
    BY <1>4 DEF deallocate
  <2>3. /\ m2 = IF off = 0 /\ m1.prev[t] # Null THEN set_next(m1, t, Null) ELSE m1
        /\ t2 = IF off = 0 /\ m1.prev[t] # Null THEN m1.prev[t] ELSE t
    BY <1>5, <1>6, <1>7
  <2>4. d.mem = IF off = 0 /\ m2.next[t2] # Null /\ m2.hi[m2.next[t2]] > 8 * m2.hi[t2]
                THEN set_next(m2, t2, Null) ELSE m2
    BY <2>1, <2>3
  <2> QED BY <2>2, <2>3, <2>4, <1>8, <1>9
<1>11. /\ m1 \in Memory /\ m1.heap = m.heap /\ m1.sp = [m.sp EXCEPT ![t] = off]
       /\ m1.hi = m.hi /\ m1.prev = m.prev /\ m1.next = m.next
  <2>1. Moved(m, m1, t, off)
    BY <1>1, <1>4, SpMoves
  <2> QED BY <2>1 DEF Moved
<1>12. /\ Linked(m1, root, depth) /\ Owned(m1, root, depth, T) /\ Bounded(m1, T)
       /\ Aside(m, m1, root, depth, root, depth, root[t])
  BY <1>3, <1>4, SpSound
<1>13. PICK T2 : T2 = (T \ {t}) \union {t2}
  OBVIOUS
<1>14. /\ m2 \in Memory /\ m2.heap \subseteq m.heap /\ m2.sp = m1.sp /\ m2.prev = m.prev /\ m2.hi = m.hi
       /\ Linked(m2, root, depth) /\ Owned(m2, root, depth, T2)
       /\ \A u \in T \ {t} : m2.next[u] = m.next[u]
       /\ Aside(m, m2, root, depth, root, depth, root[t])
       /\ \A s \in m.heap : root[s] = root[t] /\ depth[s] <= depth[t2] + 1 => s \in m2.heap
       /\ root[t2] = root[t] /\ t2 \in T2
       /\ IF back THEN t2 = m.prev[t] ELSE t2 = t /\ m2 = m1
  <2>1. CASE back
    <3>1. /\ m2 \in Memory /\ m2.heap = m.heap \ {m.next[t]} /\ m2.sp = m1.sp /\ m2.hi = m.hi
          /\ m2.prev = m.prev /\ m2.next = [m.next EXCEPT ![t] = Null]
      <4>1. m2 = set_next(m1, t, Null) /\ Null \in MaybeStacklets
        BY <2>1, <1>6 DEF MaybeStacklets
      <4>2. /\ m2 \in Memory /\ m2.heap = m1.heap \ {m1.next[t]} /\ m2.sp = m1.sp /\ m2.hi = m1.hi
            /\ m2.prev = m1.prev /\ m2.next = [m1.next EXCEPT ![t] = Null]
        BY <4>1, <1>1, <1>11, CutParts
      <4> QED BY <4>2, <1>11
    <3>2. /\ Linked(m2, root, depth) /\ Owned(m2, root, depth, T)
          /\ Aside(m1, m2, root, depth, root, depth, root[t])
      BY <2>1, <1>6, <1>11, <1>12, CutSound
    <3>3. t2 = m2.prev[t] /\ t2 # Null /\ off = 0
      BY <2>1, <3>1, <1>5, <1>7, <1>11
    <3>4. m2.next[t] = Null /\ \A u \in T \ {t} : m2.next[u] = m.next[u]
      BY <3>1, <1>1, MemoryParts
    <3>5. m2.sp[t] = 0
      BY <3>1, <3>3, <1>1, <1>11, MemoryParts
    <3>6. /\ Owned(m2, root, depth, T2) /\ t2 \in m2.heap /\ root[t2] = root[t] /\ depth[t] = depth[t2] + 1
      <4>1. m2 \in Memory /\ Linked(m2, root, depth) /\ Owned(m2, root, depth, T)
        BY <3>1, <3>2
      <4>2. /\ Owned(m2, root, depth, (T \ {t}) \union {t2}) /\ t2 \in m2.heap
            /\ root[t2] = root[t] /\ depth[t] = depth[t2] + 1
        BY <4>1, <3>3, <3>4, <3>5, DownSound
      <4> QED BY <4>2, <1>13
    <3>7. Aside(m, m2, root, depth, root, depth, root[t])
      BY <3>1, <3>2, <1>11, <1>12, AsideTwice
    <3>8. ASSUME NEW s \in m.heap, root[s] = root[t], depth[s] <= depth[t2] + 1 PROVE s # m.next[t]
      <4> SUFFICES ASSUME s = m.next[t] PROVE FALSE
        OBVIOUS
      <4>1. s # Null
        BY <1>1
      <4>2. depth[s] = depth[t] + 1
        BY <4>1, CacheShape
      <4> QED BY <4>2, <3>6, <3>8, <1>1, <1>2
    <3> QED BY <2>1, <3>1, <3>2, <3>3, <3>4, <3>6, <3>7, <3>8, <1>13
  <2>2. CASE ~back
    <3>1. m2 = m1 /\ t2 = t /\ T2 = T
      BY <2>2, <1>6, <1>7, <1>13
    <3> QED BY <2>2, <3>1, <1>11, <1>12
  <2> QED BY <2>1, <2>2
<1>15. t2 \in m2.heap /\ t2 \in Stacklets
  BY <1>1, <1>14 DEF Owned
<1>16. Bounded(m2, T2 \ {t2})
  BY <1>12, <1>13, <1>14, <1>11 DEF Bounded
<1>17. /\ m3 \in Memory /\ m3.heap \subseteq m.heap /\ t2 \in m3.heap /\ m3.sp = m1.sp /\ m3.prev = m.prev
       /\ Linked(m3, root, depth) /\ Owned(m3, root, depth, T2) /\ Bounded(m3, T2)
       /\ Aside(m, m3, root, depth, root, depth, root[t])
       /\ \A s \in m.heap : root[s] = root[t] /\ depth[s] <= depth[t2] => s \in m3.heap
  <2>1. CASE over
    <3>1. m3 = set_next(m2, t2, Null) /\ Null \in MaybeStacklets
      BY <2>1, <1>9 DEF MaybeStacklets
    <3>2. /\ m3 \in Memory /\ m3.heap = m2.heap \ {m2.next[t2]} /\ m3.sp = m2.sp /\ m3.prev = m2.prev
      <4>1. m2 \in Memory /\ t2 \in Stacklets
        BY <1>14, <1>15
      <4>2. Cut(m2, m3, t2)
        BY <4>1, <3>1, CutMoves
      <4> QED BY <4>2 DEF Cut
    <3>3. /\ Linked(m3, root, depth) /\ Owned(m3, root, depth, T2) /\ Bounded(m3, T2)
          /\ Aside(m2, m3, root, depth, root, depth, root[t2])
      BY <3>1, <1>14, <1>16, CutSound
    <3>4. Aside(m, m3, root, depth, root, depth, root[t])
      BY <3>2, <3>3, <1>14, AsideTwice
    <3>5. ASSUME NEW s \in m.heap, root[s] = root[t], depth[s] <= depth[t2] PROVE s \in m3.heap
      <4>1. depth[s] \in Nat /\ depth[t2] \in Nat
        BY <1>1, <1>2, <1>15
      <4>2. s \in m2.heap
        BY <4>1, <3>5, <1>14
      <4>3. s # m2.next[t2]
        <5> SUFFICES ASSUME s = m2.next[t2] PROVE FALSE
          OBVIOUS
        <5>1. s # Null
          BY <1>1
        <5>2. depth[s] = depth[t2] + 1
          BY <5>1, <1>14, CacheShape
        <5> QED BY <5>2, <3>5, <4>1
      <4> QED BY <4>2, <4>3, <3>2
    <3>6. t2 \in m3.heap
      BY <3>3, <1>14 DEF Owned
    <3> QED BY <3>2, <3>3, <3>4, <3>5, <3>6, <1>14
  <2>2. CASE ~over
    <3>1. m3 = m2
      BY <2>2, <1>9
    <3>2. m2.next[t2] # Null => m2.hi[m2.next[t2]] <= 8 * m2.hi[t2]
      <4> SUFFICES ASSUME m2.next[t2] # Null PROVE m2.hi[m2.next[t2]] <= 8 * m2.hi[t2]
        OBVIOUS
      <4>1. CASE off = 0
        <5>1. m2.next[t2] \in Stacklets
          BY <1>1, <1>14, <1>15 DEF Linked
        <5>2. m2.hi[m2.next[t2]] \in Nat /\ m2.hi[t2] \in Nat
          BY <5>1, <1>2, <1>14, <1>15
        <5> QED BY <2>2, <4>1, <5>2, <1>8
      <4>2. CASE off # 0
        <5>1. t2 = t /\ m2 = m1
          BY <4>2, <1>5, <1>14
        <5> QED BY <5>1, <1>12 DEF Bounded
      <4> QED BY <4>1, <4>2
    <3>3. Bounded(m2, T2)
      BY <3>2, <1>13, <1>16 DEF Bounded
    <3>4. \A s \in m.heap : depth[s] <= depth[t2] => depth[s] <= depth[t2] + 1
      BY <1>1, <1>2, <1>15
    <3> QED BY <3>1, <3>3, <3>4, <1>14, <1>15
  <2> QED BY <2>1, <2>2
<1>18. Stepped(m, m3, root, depth, root, depth, T, t, t2)
  BY <1>13, <1>14, <1>15, <1>17 DEF Stepped
<1>19. Popped(m, m3, root, depth, t, t2, off)
  <2>1. IF off = 0 /\ m.prev[t] # Null THEN t2 = m.prev[t] ELSE t2 = t
    BY <1>5, <1>11, <1>14
  <2>2. m3.sp = [m.sp EXCEPT ![t] = off]
    BY <1>11, <1>17
  <2> QED BY <2>1, <2>2, <1>17 DEF Popped
<1> QED BY <1>10, <1>18, <1>19

(* Bump() moves the stack pointer.                                         *)
LEMMA BumpParts ==
    ASSUME NEW m \in Memory, NEW s \in Stacklets, NEW n \in Nat, NEW a, a = Bump(m, s, n)
    PROVE  /\ a.mem = [m EXCEPT !.sp[s] = m.sp[s] + n] /\ a.top = s /\ a.off = m.sp[s]
           /\ m.sp[s] \in Nat /\ Moved(m, a.mem, s, m.sp[s] + n)
           /\ a.mem.sp[s] = m.sp[s] + n /\ \A u \in Stacklets \ {s} : a.mem.sp[u] = m.sp[u]
<1>1. a.mem = [m EXCEPT !.sp[s] = m.sp[s] + n] /\ a.top = s /\ a.off = m.sp[s]
  BY DEF Bump
<1>2. m.sp[s] \in Nat /\ m.sp \in [Stacklets -> Nat]
  BY MemoryParts
<1>3. PICK x \in Nat : x = m.sp[s] + n
  BY <1>2
<1>4. PICK m2 : m2 = a.mem
  OBVIOUS
<1>5. Moved(m, m2, s, x)
  <2>1. m2 = [m EXCEPT !.sp[s] = x]
    BY <1>1, <1>3, <1>4
  <2> QED BY <2>1, SpMoves
<1>6. m2.sp[s] = x /\ \A u \in Stacklets \ {s} : m2.sp[u] = m.sp[u]
  BY <1>2, <1>5 DEF Moved
<1> QED BY <1>1, <1>2, <1>3, <1>4, <1>5, <1>6

(* What allocate() returns.                                                *)
Allocated(m, a, root, depth, root2, depth2, T, t, n) ==
    /\ Stepped(m, a.mem, root, depth, root2, depth2, T, t, a.top)
    /\ Placed(m, a.mem, root, depth, root2, depth2, t, a.top)
    /\ a.off \in Nat /\ a.mem.sp[a.top] = a.off + n
    /\ a.top = t => a.off = m.sp[t]
    /\ a.top # t => a.off = 0 /\ n # 0

(* On the top.                                                             *)
LEMMA AllocateOnTop ==
    ASSUME NEW m \in Memory, NEW root, NEW depth, NEW T, Ranks(root, depth), Linked(m, root, depth),
           Owned(m, root, depth, T), Bounded(m, T), NEW t \in T, NEW n \in Nat,
           m.sp[t] + n <= m.hi[t], NEW a, a = Bump(m, t, n)
    PROVE  Allocated(m, a, root, depth, root, depth, T, t, n)
<1>1. t \in m.heap /\ t \in Stacklets /\ m.heap \subseteq Stacklets
  BY MemoryParts DEF Owned
<1>2. /\ a.mem = [m EXCEPT !.sp[t] = m.sp[t] + n] /\ a.top = t /\ a.off = m.sp[t]
      /\ m.sp[t] \in Nat /\ Moved(m, a.mem, t, m.sp[t] + n)
      /\ a.mem.sp[t] = m.sp[t] + n /\ \A u \in Stacklets \ {t} : a.mem.sp[u] = m.sp[u]
  BY <1>1, BumpParts
<1>3. PICK x \in Nat : x = m.sp[t] + n /\ x <= m.hi[t]
  BY <1>2
<1>4. PICK m2 : m2 = a.mem /\ m2 = [m EXCEPT !.sp[t] = x]
  BY <1>2, <1>3
<1>5. /\ Linked(m2, root, depth) /\ Owned(m2, root, depth, T)
      /\ Aside(m, m2, root, depth, root, depth, root[t])
      /\ \A U : Bounded(m, U) => Bounded(m2, U)
  BY <1>3, <1>4, SpSound
<1>6. (T \ {t}) \union {t} = T
  OBVIOUS
<1>7. m2 \in Memory /\ m2.heap = m.heap /\ m2.prev = m.prev
  BY <1>2, <1>4 DEF Moved
<1>8. Stepped(m, m2, root, depth, root, depth, T, t, t)
  BY <1>1, <1>5, <1>6, <1>7 DEF Stepped
<1>9. Placed(m, m2, root, depth, root, depth, t, t)
  <2>1. \A u \in m.heap : u # t => m2.sp[u] = m.sp[u]
    BY <1>1, <1>2, <1>4
  <2> QED BY <1>1, <1>7, <2>1 DEF Placed
<1> QED BY <1>2, <1>4, <1>8, <1>9 DEF Allocated

(* On the cached stacklet.                                                 *)
LEMMA AllocateOnCache ==
    ASSUME NEW m \in Memory, NEW root, NEW depth, NEW T, Ranks(root, depth), Linked(m, root, depth),
           Owned(m, root, depth, T), Bounded(m, T), NEW t \in T, NEW n \in Nat, n # 0,
           NEW c, c = m.next[t], c # Null, n <= m.hi[c], NEW a, a = Bump(m, c, n)
    PROVE  Allocated(m, a, root, depth, root, depth, T, t, n)
<1>1. t \in m.heap /\ t \in Stacklets /\ m.heap \subseteq Stacklets
  BY MemoryParts DEF Owned
<1>2. /\ c \in m.heap /\ m.prev[c] = t /\ root[c] = root[t] /\ depth[c] = depth[t] + 1
      /\ m.sp[c] = 0 /\ c # t
  BY CacheShape
<1>3. c \in Stacklets /\ depth[t] \in Nat
  BY <1>1, <1>2 DEF Ranks
<1>4. /\ a.mem = [m EXCEPT !.sp[c] = m.sp[c] + n] /\ a.top = c /\ a.off = m.sp[c]
      /\ Moved(m, a.mem, c, m.sp[c] + n)
      /\ a.mem.sp[c] = m.sp[c] + n /\ \A u \in Stacklets \ {c} : a.mem.sp[u] = m.sp[u]
  BY <1>3, BumpParts, SMTT(20)
<1>5. m.sp[c] + n = n
  BY <1>2
<1>6. PICK m2 : m2 = a.mem /\ m2 = [m EXCEPT !.sp[c] = n]
  BY <1>4, <1>5
<1>7. PICK T2 : T2 = (T \ {t}) \union {c}
  OBVIOUS
<1>8. Owned(m, root, depth, T2) /\ Bounded(m, T2) /\ c \in T2
  BY <1>7, UpSound
<1>9. /\ Linked(m2, root, depth) /\ Owned(m2, root, depth, T2)
      /\ Aside(m, m2, root, depth, root, depth, root[c])
      /\ \A U : Bounded(m, U) => Bounded(m2, U)
  BY <1>6, <1>8, SpSound
<1>10. m2 \in Memory /\ m2.heap = m.heap /\ m2.prev = m.prev
  BY <1>4, <1>6 DEF Moved
<1>11. Stepped(m, m2, root, depth, root, depth, T, t, c)
  BY <1>2, <1>3, <1>7, <1>8, <1>9, <1>10 DEF Stepped
<1>12. Placed(m, m2, root, depth, root, depth, t, c)
  <2>1. \A u \in m.heap : u # c => m2.sp[u] = m.sp[u]
    BY <1>1, <1>4, <1>6
  <2>2. ~(depth[c] <= depth[t])
    BY <1>2, <1>3
  <2> QED BY <1>2, <1>10, <2>1, <2>2 DEF Placed
<1> QED BY <1>2, <1>4, <1>5, <1>6, <1>11, <1>12 DEF Allocated

(* On a new stacklet.                                                      *)
LEMMA AllocateOnNew ==
    ASSUME NEW m \in Memory, NEW root, NEW depth, NEW T, Ranks(root, depth), Linked(m, root, depth),
           Owned(m, root, depth, T), Bounded(m, T), NEW t \in T, NEW n \in Nat, n # 0,
           NEW size \in Nat, n <= size, NEW new \in Stacklets, new \notin m.heap,
           NEW m1, m1 = next_stacklet(m, new, size, t), NEW a, a = Bump(m1, new, n)
    PROVE  \E root2, depth2 : Allocated(m, a, root, depth, root2, depth2, T, t, n)
<1>1. t \in m.heap /\ t \in Stacklets /\ m.heap \subseteq Stacklets /\ t # new /\ Null \notin Stacklets
  BY MemoryParts DEF Owned
<1>2. PICK root2, depth2 : NewPlace(root, depth, root2, depth2, new, root[t], depth[t] + 1)
  BY DEF NewPlace
<1>3. PICK T2 : T2 = (T \ {t}) \union {new}
  OBVIOUS
<1>4. /\ Ranks(root2, depth2) /\ Linked(m1, root2, depth2) /\ Owned(m1, root2, depth2, T2)
      /\ Aside(m, m1, root, depth, root2, depth2, root[t]) /\ Bounded(m1, T2)
  BY <1>2, <1>3, GrowSound
<1>5. m1 \in Memory /\ Extended(m, m1, new, size, t)
  BY <1>1, FurtherParts
<1>6. /\ a.mem = [m1 EXCEPT !.sp[new] = m1.sp[new] + n] /\ a.top = new /\ a.off = m1.sp[new]
      /\ Moved(m1, a.mem, new, m1.sp[new] + n)
      /\ a.mem.sp[new] = m1.sp[new] + n /\ \A u \in Stacklets \ {new} : a.mem.sp[u] = m1.sp[u]
  BY <1>5, BumpParts
<1>7. /\ m1.sp[new] = 0 /\ m1.hi[new] = CapacityFor(size)
      /\ m1.heap = (m.heap \union {new}) \ {m.next[t]} /\ m1.prev = [m.prev EXCEPT ![new] = t]
      /\ \A u \in Stacklets \ {new} : m1.sp[u] = m.sp[u]
  BY <1>5, MemoryParts DEF Extended
<1>8. n <= m1.hi[new]
  <2>1. CapacityFor(size) \in Nat /\ CapacityFor(size) >= size
    BY CapacityCovers
  <2> QED BY <1>7, <2>1
<1>9. m1.sp[new] + n = n
  BY <1>7
<1>10. PICK m2 : m2 = a.mem /\ m2 = [m1 EXCEPT !.sp[new] = n]
  BY <1>6, <1>9
<1>11. new \in T2 /\ root2[new] = root[t] /\ depth2[new] = depth[t] + 1
       /\ \A u \in Stacklets \ {new} : root2[u] = root[u] /\ depth2[u] = depth[u]
  <2>1. new \in T2
    BY <1>3
  <2> QED BY <2>1, <1>2 DEF NewPlace, Ranks
<1>12. /\ Linked(m2, root2, depth2) /\ Owned(m2, root2, depth2, T2)
       /\ Aside(m1, m2, root2, depth2, root2, depth2, root2[new])
       /\ \A U : Bounded(m1, U) => Bounded(m2, U)
  <2>1. new \in T2
    BY <1>11
  <2> QED BY <2>1, <1>4, <1>5, <1>8, <1>10, SpSound
<1>13. m2 \in Memory /\ m2.heap = m1.heap /\ m2.prev = m1.prev
  BY <1>6, <1>10 DEF Moved
<1>14. Aside(m, m2, root, depth, root2, depth2, root[t])
  BY <1>4, <1>5, <1>11, <1>12, AsideTwice
<1>15. Stepped(m, m2, root, depth, root2, depth2, T, t, new)
  BY <1>3, <1>4, <1>11, <1>12, <1>13, <1>14 DEF Stepped
<1>16. Placed(m, m2, root, depth, root2, depth2, t, new)
  <2>1. m2.heap \subseteq m.heap \union {new}
    BY <1>7, <1>13
  <2>2. new \in m2.heap
    BY <1>11, <1>12 DEF Owned
  <2>3. ASSUME NEW s \in m.heap, s # new
        PROVE  /\ root2[s] = root[s] /\ depth2[s] = depth[s] /\ m2.prev[s] = m.prev[s] /\ m2.sp[s] = m.sp[s]
    <3>1. s \in Stacklets \ {new}
      BY <2>3, <1>1
    <3>2. m1.prev[s] = m.prev[s]
      BY <3>1, <1>7, MemoryParts
    <3>3. m2.sp[s] = m1.sp[s] /\ m1.sp[s] = m.sp[s]
      BY <3>1, <1>6, <1>7, <1>10
    <3> QED BY <3>1, <3>2, <3>3, <1>11, <1>13
  <2>4. ASSUME NEW s \in m.heap, root[s] = root[t], depth[s] <= depth[t] PROVE s \in m2.heap /\ s # new
    <3>1. s # m.next[t]
      <4> SUFFICES ASSUME s = m.next[t] PROVE FALSE
        OBVIOUS
      <4>1. s # Null
        BY <1>1
      <4>2. depth[s] = depth[t] + 1
        BY <4>1, CacheShape
      <4>3. depth[t] \in Nat
        BY <1>1 DEF Ranks
      <4> QED BY <4>2, <4>3, <2>4
    <3> QED BY <3>1, <1>7, <1>13
  <2>5. m2.prev[new] = t
    BY <1>7, <1>13, MemoryParts
  <2> QED BY <2>1, <2>2, <2>3, <2>4, <2>5, <1>1, <1>11 DEF Placed
<1>17. Allocated(m, a, root, depth, root2, depth2, T, t, n)
  <2>1. a.top = new /\ a.off = 0 /\ a.mem.sp[new] = 0 + n /\ a.top # t
    BY <1>1, <1>6, <1>7
  <2>2. a.mem.sp[a.top] = a.off + n
    BY <2>1
  <2> QED BY <2>1, <2>2, <1>10, <1>15, <1>16 DEF Allocated
<1> QED BY <1>17

(* allocate() takes one of the three ways.                                 *)
LEMMA AllocateSound ==
    ASSUME NEW m \in Memory, m = Mem,
           NEW root, NEW depth, NEW T, Ranks(root, depth), Linked(m, root, depth),
           Owned(m, root, depth, T), Bounded(m, T), NEW t \in T, NEW size \in Nat,
           NEW new, NeedsStacklet(t, size) => new \in Stacklets /\ new \notin m.heap,
           NEW a, a = allocate(t, size, new)
    PROVE  \E root2, depth2 : Allocated(m, a, root, depth, root2, depth2, T, t, ext_size(size))
<1>1. t \in m.heap /\ t \in Stacklets /\ m.heap \subseteq Stacklets /\ t # Null
  BY MemoryParts DEF Owned
<1>2. m.sp = m_sp /\ m.hi = m_hi /\ m.next = m_next
  BY DEF Mem
<1>3. PICK n \in Nat : n = ext_size(size)
  BY ExtSize
<1>4. m.sp[t] \in Nat /\ m.hi[t] \in Nat /\ m.sp[t] <= m.hi[t]
  BY <1>1, MemoryParts DEF Linked
<1>5. unused(t) = m.hi[t] - m.sp[t]
  BY <1>2 DEF unused
<1>6. PICK c : c = m.next[t]
  OBVIOUS
<1>7. CASE unused(t) >= n
  <2>1. a = Bump(m, t, n)
    BY <1>3, <1>7 DEF allocate
  <2>2. m.sp[t] + n <= m.hi[t]
    BY <1>4, <1>5, <1>7
  <2> QED BY <2>1, <2>2, <1>3, AllocateOnTop
<1>8. CASE ~(unused(t) >= n) /\ c # Null /\ m.hi[c] >= n
  <2>1. a = Bump(m, c, n)
    BY <1>2, <1>3, <1>6, <1>8 DEF allocate
  <2>2. n # 0
    BY <1>4, <1>5, <1>8
  <2>3. n <= m.hi[c]
    <3>1. c \in Stacklets
      BY <1>1, <1>6, <1>8 DEF Linked
    <3>2. m.hi[c] \in Nat
      BY <3>1, MemoryParts
    <3> QED BY <3>2, <1>8
  <2>4. Allocated(m, a, root, depth, root, depth, T, t, n)
    BY <2>1, <2>2, <2>3, <1>6, <1>8, AllocateOnCache
  <2> QED BY <2>4, <1>3
<1>9. CASE ~(unused(t) >= n) /\ ~(c # Null /\ m.hi[c] >= n)
  <2>1. PICK big \in Nat : big = Max2(2 * m.hi[t], n) /\ n <= big
    BY <1>4 DEF Max2
  <2>2. PICK m1 : m1 = next_stacklet(m, new, big, t)
    OBVIOUS
  <2>3. a = Bump(m1, new, n)
    BY <1>2, <1>3, <1>6, <1>9, <2>1, <2>2 DEF allocate
  <2>4. n # 0
    BY <1>4, <1>5, <1>9
  <2>5. new \in Stacklets /\ new \notin m.heap
    <3>1. unused(t) < n
      BY <1>4, <1>5, <1>9
    <3>2. m_next[t] = Null \/ m_hi[m_next[t]] < n
      <4>1. CASE c = Null
        BY <4>1, <1>2, <1>6
      <4>2. CASE c # Null
        <5>1. c \in Stacklets
          BY <4>2, <1>1, <1>6 DEF Linked
        <5>2. m.hi[c] \in Nat
          BY <5>1, MemoryParts
        <5>3. m.hi[c] < n
          BY <5>2, <4>2, <1>9
        <5> QED BY <5>3, <1>2, <1>6
      <4> QED BY <4>1, <4>2
    <3> QED BY <3>1, <3>2, <1>3 DEF NeedsStacklet
  <2>6. \E root2, depth2 : Allocated(m, a, root, depth, root2, depth2, T, t, n)
    BY <2>1, <2>2, <2>3, <2>4, <2>5, AllocateOnNew
  <2> QED BY <2>6, <1>3
<1> QED BY <1>7, <1>8, <1>9

-----------------------------------------------------------------------------
(* What the frames of a stack know.                                        *)

(* Two frames do not run after the same allocation.                        *)
LEMMA OneRuns ==
    ASSUME NEW A, NEW n \in Nat, NEW j \in 1..n, NEW i \in 1..n, NEW k \in 1..n,
           IsRunning(A, i, j), IsRunning(A, k, j)
    PROVE  i = k
<1>1. ~(i < k)
  BY DEF IsRunning
<1>2. ~(k < i)
  BY DEF IsRunning
<1> QED BY <1>1, <1>2

(* RunningFrame() finds the one that runs at the end.                      *)
LEMMA RunningParts ==
    ASSUME NEW A \in Seq(AllocRec), Known(A), A # <<>>
    PROVE  RunningFrame(A) \in 1..Len(A) /\ IsRunning(A, RunningFrame(A), Len(A))
<1>1. PICK n \in Nat \ {0} : n = Len(A)
  BY AllocParts
<1>2. DOMAIN A = 1..n
  BY <1>1, LenProperties
<1>3. n \in 1..n
  OBVIOUS
<1>4. PICK i \in 1..n : IsRunning(A, i, n)
  BY <1>1, <1>3 DEF Known
<1>5. PICK r : r = RunningFrame(A)
  OBVIOUS
<1>6. r = CHOOSE x \in 1..n : A[x].kind = "frame" /\ \A j \in (x + 1)..n : A[j].kind # "frame"
  BY <1>1, <1>2, <1>5 DEF RunningFrame
<1>7. \E x \in 1..n : A[x].kind = "frame" /\ \A j \in (x + 1)..n : A[j].kind # "frame"
  BY <1>4 DEF IsRunning
<1>8. r \in 1..n /\ A[r].kind = "frame" /\ \A j \in (r + 1)..n : A[j].kind # "frame"
  BY <1>6, <1>7
<1>9. r <= n
  BY <1>8
<1> QED BY <1>1, <1>5, <1>8, <1>9 DEF IsRunning

(* The running frame knows where the last allocation is.                   *)
LEMMA RunningKnows ==
    ASSUME NEW A \in Seq(AllocRec), Known(A), A # <<>>
    PROVE  A[RunningFrame(A)].known = A[Len(A)].frag
<1>1. RunningFrame(A) \in 1..Len(A) /\ IsRunning(A, RunningFrame(A), Len(A))
  BY RunningParts
<1>2. Len(A) \in 1..Len(A)
  BY AllocParts
<1> QED BY <1>1, <1>2 DEF Known

(* A frame notes a stacklet.                                               *)
Notes(A, B, i, t) == B = [A EXCEPT ![i].known = t]

(* Nothing else changes.                                                   *)
LEMMA NoteParts ==
    ASSUME NEW A \in Seq(AllocRec), NEW i \in 1..Len(A), NEW t \in Stacklets,
           NEW B, Notes(A, B, i, t)
    PROVE  /\ B \in Seq(AllocRec) /\ Len(B) = Len(A) /\ B[i].known = t
           /\ \A j \in 1..Len(A) : B[j].kind = A[j].kind /\ B[j].frag = A[j].frag /\ (j # i => B[j] = A[j])
           /\ SameMemory(A, B)
<1>1. PICK n \in Nat : n = Len(A) /\ A \in [1..n -> AllocRec]
  BY LenProperties
<1>2. PICK a \in AllocRec : a = A[i]
  BY <1>1
<1>3. PICK b : b = [a EXCEPT !.known = t]
  OBVIOUS
<1>4. /\ b \in AllocRec /\ b.kind = a.kind /\ b.frag = a.frag /\ b.off = a.off /\ b.size = a.size
      /\ b.known = t
  BY <1>3 DEF AllocRec
<1>5. B = [A EXCEPT ![i] = b]
  BY <1>2, <1>3 DEF Notes
<1>6. B \in [1..n -> AllocRec] /\ B[i] = b /\ \A j \in 1..n : j # i => B[j] = A[j]
  BY <1>1, <1>4, <1>5
<1>7. B \in Seq(AllocRec) /\ Len(B) = n
  BY <1>6, FunctionIsSeq
<1>8. \A j \in 1..n : /\ B[j].kind = A[j].kind /\ B[j].frag = A[j].frag /\ B[j].off = A[j].off
                      /\ B[j].size = A[j].size
  BY <1>1, <1>2, <1>4, <1>6
<1>9. SameMemory(A, B)
  BY <1>1, <1>7, <1>8 DEF SameMemory
<1> QED BY <1>1, <1>4, <1>6, <1>7, <1>8, <1>9

(* A new frame.                                                            *)
LEMMA KnownNewFrame ==
    ASSUME NEW A \in Seq(AllocRec), Known(A), NEW a \in AllocRec, a.kind = "frame", a.known = a.frag
    PROVE  Known(Append(A, a))
<1>1. PICK n \in Nat : n = Len(A)
  BY AllocParts
<1>2. PICK B : B = Append(A, a)
  OBVIOUS
<1>3. Len(B) = n + 1 /\ B[n + 1] = a /\ \A i \in 1..n : B[i] = A[i]
  BY <1>1, <1>2, AppendParts
<1>4. ASSUME NEW i \in 1..n, NEW j \in 1..n PROVE IsRunning(B, i, j) <=> IsRunning(A, i, j)
  <2>1. \A l \in (i + 1)..j : l \in 1..n
    OBVIOUS
  <2> QED BY <2>1, <1>3 DEF IsRunning
<1>5. IsRunning(B, n + 1, n + 1)
  BY <1>3 DEF IsRunning
<1>6. ASSUME NEW i \in 1..(n + 1), IsRunning(B, i, n + 1) PROVE i = n + 1
  <2> SUFFICES ASSUME i # n + 1 PROVE FALSE
    OBVIOUS
  <2>1. n + 1 \in (i + 1)..(n + 1)
    OBVIOUS
  <2> QED BY <2>1, <1>3, <1>6 DEF IsRunning
<1>7. ASSUME NEW j \in 1..(n + 1) PROVE \E i \in 1..(n + 1) : IsRunning(B, i, j)
  <2>1. CASE j = n + 1
    BY <2>1, <1>5
  <2>2. CASE j # n + 1
    <3>1. j \in 1..n
      BY <2>2
    <3>2. PICK i \in 1..n : IsRunning(A, i, j)
      BY <3>1, <1>1 DEF Known
    <3>3. IsRunning(B, i, j) /\ i \in 1..(n + 1)
      BY <3>1, <3>2, <1>4
    <3> QED BY <3>3
  <2> QED BY <2>1, <2>2
<1>8. ASSUME NEW j \in 1..(n + 1), j = n + 1 \/ B[j + 1].kind = "frame",
             NEW i \in 1..(n + 1), IsRunning(B, i, j)
      PROVE  B[i].known = B[j].frag
  <2>1. CASE j = n + 1
    BY <2>1, <1>3, <1>6, <1>8
  <2>2. CASE j # n + 1
    <3>1. j \in 1..n /\ i \in 1..n
      BY <2>2, <1>8 DEF IsRunning
    <3>2. IsRunning(A, i, j) /\ B[i] = A[i] /\ B[j] = A[j]
      BY <3>1, <1>3, <1>4, <1>8
    <3>3. j = n \/ A[j + 1].kind = "frame"
      <4> SUFFICES ASSUME j # n PROVE A[j + 1].kind = "frame"
        OBVIOUS
      <4>1. j + 1 \in 1..n
        BY <3>1
      <4> QED BY <4>1, <2>2, <1>3, <1>8
    <3> QED BY <3>1, <3>2, <3>3, <1>1 DEF Known
  <2> QED BY <2>1, <2>2
<1> QED BY <1>2, <1>3, <1>7, <1>8 DEF Known

(* co_new: the running frame notes where the memory is.                    *)
LEMMA KnownCoNew ==
    ASSUME NEW A \in Seq(AllocRec), Known(A), A # <<>>, NEW t \in Stacklets,
           NEW C, Notes(A, C, RunningFrame(A), t),
           NEW a \in AllocRec, a.kind = "co_new", a.frag = t
    PROVE  Known(Append(C, a))
<1>1. PICK n \in Nat \ {0} : n = Len(A)
  BY AllocParts
<1>2. PICK r \in 1..n : r = RunningFrame(A) /\ IsRunning(A, r, n)
  BY <1>1, RunningParts
<1>3. /\ C \in Seq(AllocRec) /\ Len(C) = n /\ C[r].known = t
      /\ \A j \in 1..n : C[j].kind = A[j].kind /\ C[j].frag = A[j].frag /\ (j # r => C[j] = A[j])
  BY <1>1, <1>2, NoteParts
<1>4. PICK B : B = Append(C, a)
  OBVIOUS
<1>5. Len(B) = n + 1 /\ B[n + 1] = a /\ \A i \in 1..n : B[i] = C[i]
  BY <1>3, <1>4, AppendParts
<1>6. ASSUME NEW i \in 1..n, NEW j \in 1..n PROVE IsRunning(B, i, j) <=> IsRunning(A, i, j)
  <2>1. \A l \in (i + 1)..j : l \in 1..n
    OBVIOUS
  <2> QED BY <2>1, <1>3, <1>5 DEF IsRunning
<1>7. ASSUME NEW i \in 1..(n + 1), IsRunning(B, i, n + 1) PROVE i = r
  <2>1. i # n + 1
    BY <1>5, <1>7 DEF IsRunning
  <2>2. i \in 1..n /\ \A l \in (i + 1)..n : l \in (i + 1)..(n + 1)
    BY <2>1
  <2>3. IsRunning(B, i, n)
    BY <2>2, <1>7 DEF IsRunning
  <2>4. n \in 1..n
    OBVIOUS
  <2>5. IsRunning(A, i, n)
    BY <2>2, <2>3, <2>4, <1>6
  <2> QED BY <2>2, <2>4, <2>5, <1>2, OneRuns
<1>8. IsRunning(B, r, n + 1)
  <2>1. B[r].kind = "frame" /\ r <= n + 1
    BY <1>2, <1>3, <1>5 DEF IsRunning
  <2>2. ASSUME NEW l \in (r + 1)..(n + 1) PROVE B[l].kind # "frame"
    <3>1. CASE l = n + 1
      BY <3>1, <1>5
    <3>2. CASE l # n + 1
      <4>1. l \in (r + 1)..n /\ l \in 1..n
        BY <3>2
      <4> QED BY <4>1, <1>2, <1>3, <1>5 DEF IsRunning
    <3> QED BY <3>1, <3>2
  <2> QED BY <2>1, <2>2 DEF IsRunning
<1>9. ASSUME NEW j \in 1..(n + 1) PROVE \E i \in 1..(n + 1) : IsRunning(B, i, j)
  <2>1. CASE j = n + 1
    <3>1. r \in 1..(n + 1)
      OBVIOUS
    <3> QED BY <2>1, <3>1, <1>8
  <2>2. CASE j # n + 1
    <3>1. j \in 1..n
      BY <2>2
    <3>2. PICK i \in 1..n : IsRunning(A, i, j)
      BY <3>1, <1>1 DEF Known
    <3>3. IsRunning(B, i, j) /\ i \in 1..(n + 1)
      BY <3>1, <3>2, <1>6
    <3> QED BY <3>3
  <2> QED BY <2>1, <2>2
<1>10. ASSUME NEW j \in 1..(n + 1), j = n + 1 \/ B[j + 1].kind = "frame",
              NEW i \in 1..(n + 1), IsRunning(B, i, j)
       PROVE  B[i].known = B[j].frag
  <2>1. CASE j = n + 1
    <3>1. i = r
      BY <2>1, <1>7, <1>10
    <3> QED BY <2>1, <3>1, <1>3, <1>5
  <2>2. CASE j # n + 1
    <3>1. j \in 1..n /\ i \in 1..n
      BY <2>2, <1>10 DEF IsRunning
    <3>2. IsRunning(A, i, j) /\ B[i] = C[i] /\ B[j] = C[j]
      BY <3>1, <1>5, <1>6, <1>10
    <3>3. j # n
      BY <2>2, <1>5, <1>10
    <3>4. j + 1 \in 1..n
      BY <3>1, <3>3
    <3>5. A[j + 1].kind = "frame"
      BY <2>2, <3>4, <1>3, <1>5, <1>10
    <3>6. i # r
      <4> SUFFICES ASSUME i = r PROVE FALSE
        OBVIOUS
      <4>1. j + 1 \in (r + 1)..n
        BY <3>1, <3>2, <3>4 DEF IsRunning
      <4> QED BY <4>1, <3>5, <1>2 DEF IsRunning
    <3>7. A[i].known = A[j].frag
      BY <3>1, <3>2, <3>5, <1>1 DEF Known
    <3> QED BY <3>1, <3>2, <3>6, <3>7, <1>3
  <2> QED BY <2>1, <2>2
<1> QED BY <1>4, <1>5, <1>9, <1>10 DEF Known

(* The topmost frame ends.                                                 *)
LEMMA KnownEndFrame ==
    ASSUME NEW A \in Seq(AllocRec), Known(A), A # <<>>, A[Len(A)].kind = "frame"
    PROVE  Known(Rest(A))
<1>1. PICK n \in Nat \ {0} : n = Len(A)
  BY AllocParts
<1>2. PICK k \in Nat : k = n - 1
  OBVIOUS
<1>3. PICK B : B = Rest(A)
  OBVIOUS
<1>4. Len(B) = k /\ \A i \in 1..k : B[i] = A[i]
  BY <1>1, <1>2, <1>3, RestParts
<1>5. ASSUME NEW i \in 1..k, NEW j \in 1..k PROVE IsRunning(B, i, j) <=> IsRunning(A, i, j)
  <2>1. \A l \in (i + 1)..j : l \in 1..k
    OBVIOUS
  <2> QED BY <2>1, <1>4 DEF IsRunning
<1>6. ASSUME NEW j \in 1..k PROVE \E i \in 1..k : IsRunning(B, i, j)
  <2>1. j \in 1..n
    BY <1>2
  <2>2. PICK i \in 1..n : IsRunning(A, i, j)
    BY <2>1, <1>1 DEF Known
  <2>3. i \in 1..k
    BY <2>2 DEF IsRunning
  <2> QED BY <2>2, <2>3, <1>5
<1>7. ASSUME NEW j \in 1..k, j = k \/ B[j + 1].kind = "frame", NEW i \in 1..k, IsRunning(B, i, j)
      PROVE  B[i].known = B[j].frag
  <2>1. i \in 1..n /\ j \in 1..n /\ IsRunning(A, i, j) /\ B[i] = A[i] /\ B[j] = A[j]
    BY <1>2, <1>4, <1>5, <1>7
  <2>2. A[j + 1].kind = "frame"
    <3>1. CASE j = k
      BY <3>1, <1>1, <1>2
    <3>2. CASE j # k
      <4>1. j + 1 \in 1..k
        BY <3>2
      <4> QED BY <4>1, <3>2, <1>4, <1>7
    <3> QED BY <3>1, <3>2
  <2> QED BY <2>1, <2>2, <1>1 DEF Known
<1> QED BY <1>3, <1>4, <1>6, <1>7 DEF Known

(* The memory of co_new is freed: the running frame notes what is the top  *)
(* again.                                                                  *)
LEMMA KnownCoFree ==
    ASSUME NEW A \in Seq(AllocRec), Known(A), A # <<>>, A[Len(A)].kind = "co_new", NEW t \in Stacklets,
           Rest(A) # <<>> => A[Len(A) - 1].frag = t,
           NEW B, Notes(Rest(A), B, RunningFrame(A), t)
    PROVE  Known(B) /\ SameMemory(Rest(A), B) /\ Rest(A) # <<>>
<1>1. PICK n \in Nat \ {0} : n = Len(A)
  BY AllocParts
<1>2. PICK k \in Nat : k = n - 1
  OBVIOUS
<1>3. PICK R : R = Rest(A)
  OBVIOUS
<1>4. R \in Seq(AllocRec) /\ Len(R) = k /\ (R = <<>> <=> n = 1) /\ \A i \in 1..k : R[i] = A[i]
  <2>1. /\ Rest(A) \in Seq(AllocRec) /\ Len(Rest(A)) = Len(A) - 1
        /\ \A i \in 1..(Len(A) - 1) : Rest(A)[i] = A[i]
        /\ Rest(A) = <<>> <=> Len(A) = 1
    BY RestParts
  <2> QED BY <2>1, <1>1, <1>2, <1>3
<1>5. PICK r \in 1..n : IsRunning(A, r, n)
  <2>1. n \in 1..n
    OBVIOUS
  <2> QED BY <2>1, <1>1 DEF Known
<1>6. r \in 1..k
  <2>1. r # n
    BY <1>1, <1>5 DEF IsRunning
  <2> QED BY <2>1, <1>2
<1>7. R # <<>> /\ k # 0 /\ A[k].frag = t
  BY <1>1, <1>2, <1>3, <1>4, <1>6
<1>8. ASSUME NEW i \in 1..k, NEW j \in 1..k PROVE IsRunning(R, i, j) <=> IsRunning(A, i, j)
  <2>1. \A l \in (i + 1)..j : l \in 1..k
    OBVIOUS
  <2> QED BY <2>1, <1>4 DEF IsRunning
<1>9. k \in 1..k
  BY <1>7
<1>10. IsRunning(A, r, k) /\ IsRunning(R, r, k)
  <2>1. \A l \in (r + 1)..k : l \in (r + 1)..n
    BY <1>2
  <2>2. IsRunning(A, r, k)
    BY <2>1, <1>5, <1>6 DEF IsRunning
  <2> QED BY <2>2, <1>6, <1>8, <1>9
<1>11. RunningFrame(A) = r
  <2>1. RunningFrame(A) \in 1..n /\ IsRunning(A, RunningFrame(A), n) /\ n \in 1..n
    BY <1>1, RunningParts
  <2>2. PICK x \in 1..n : x = RunningFrame(A) /\ IsRunning(A, x, n)
    BY <2>1
  <2>3. x = r
    BY <2>1, <2>2, <1>5, OneRuns
  <2> QED BY <2>2, <2>3
<1>12. Notes(R, B, r, t)
  BY <1>3, <1>11
<1>13. /\ B \in Seq(AllocRec) /\ Len(B) = k /\ B[r].known = t
       /\ \A j \in 1..k : B[j].kind = R[j].kind /\ B[j].frag = R[j].frag /\ (j # r => B[j] = R[j])
       /\ SameMemory(R, B)
  BY <1>4, <1>6, <1>12, NoteParts
<1>14. ASSUME NEW i \in 1..k, NEW j \in 1..k PROVE IsRunning(B, i, j) <=> IsRunning(A, i, j)
  <2>1. \A l \in (i + 1)..j : l \in 1..k
    OBVIOUS
  <2>2. B[i].kind = A[i].kind /\ \A l \in (i + 1)..j : B[l].kind = A[l].kind
    BY <2>1, <1>4, <1>13
  <2> QED BY <2>2 DEF IsRunning
<1>15. ASSUME NEW j \in 1..k PROVE \E i \in 1..k : IsRunning(B, i, j)
  <2>1. j \in 1..n
    BY <1>2
  <2>2. PICK i \in 1..n : IsRunning(A, i, j)
    BY <2>1, <1>1 DEF Known
  <2>3. i \in 1..k
    BY <2>2 DEF IsRunning
  <2> QED BY <2>2, <2>3, <1>14
<1>16. ASSUME NEW j \in 1..k, j = k \/ B[j + 1].kind = "frame", NEW i \in 1..k, IsRunning(B, i, j)
       PROVE  B[i].known = B[j].frag
  <2>1. i \in 1..n /\ j \in 1..n /\ IsRunning(A, i, j) /\ B[j].frag = A[j].frag
    BY <1>2, <1>4, <1>13, <1>14, <1>16
  <2>2. CASE j = k
    <3>1. i = r
      BY <2>1, <2>2, <1>6, <1>9, <1>10, OneRuns
    <3> QED BY <2>1, <2>2, <3>1, <1>7, <1>13
  <2>3. CASE j # k
    <3>1. j + 1 \in 1..k /\ j + 1 \in 1..n
      BY <2>3, <1>2
    <3>2. A[j + 1].kind = "frame"
      BY <2>3, <3>1, <1>4, <1>13, <1>16
    <3>3. i # r
      <4> SUFFICES ASSUME i = r PROVE FALSE
        OBVIOUS
      <4>1. j + 1 \in (r + 1)..n
        BY <2>1, <3>1 DEF IsRunning
      <4> QED BY <4>1, <3>2, <1>5 DEF IsRunning
    <3>4. A[i].known = A[j].frag
      BY <2>1, <3>2, <1>1 DEF Known
    <3> QED BY <2>1, <3>3, <3>4, <1>4, <1>13
  <2> QED BY <2>2, <2>3
<1> QED BY <1>3, <1>4, <1>7, <1>13, <1>15, <1>16 DEF Known

-----------------------------------------------------------------------------
(* The steps, on the set of stacks.                                        *)

(* The parts of Sound.                                                     *)
LEMMA SoundParts ==
    ASSUME NEW m \in Memory, NEW root, NEW depth, NEW K, Sound(m, root, depth, K), NEW k \in K
    PROVE  /\ Ranks(root, depth) /\ Linked(m, root, depth) /\ Owned(m, root, depth, Tops(K))
           /\ Bounded(m, Tops(K)) /\ k.top \in Tops(K) /\ k.top \in m.heap /\ k.top \in Stacklets
           /\ Filled(m, root, depth, k.top, k.allocs) /\ Known(k.allocs) /\ k.allocs \in Seq(AllocRec)
           /\ \A l \in K \ {k} : l.top # k.top /\ root[l.top] # root[k.top]
<1>1. k.top \in Tops(K) /\ \A l \in K : l.top \in Tops(K)
  BY DEF Tops
<1>2. /\ Ranks(root, depth) /\ Linked(m, root, depth) /\ Owned(m, root, depth, Tops(K))
      /\ Bounded(m, Tops(K)) /\ \A l \in K : l.top = k.top => l = k
      /\ Filled(m, root, depth, k.top, k.allocs) /\ Known(k.allocs)
  BY DEF Sound
<1>3. k.top \in m.heap /\ \A l \in K : root[l.top] = root[k.top] => l.top = k.top
  BY <1>1, <1>2 DEF Owned
<1>4. k.top \in Stacklets
  BY <1>3, MemoryParts
<1>5. k.allocs \in Seq(AllocRec)
  BY <1>2 DEF Filled
<1> QED BY <1>1, <1>2, <1>3, <1>4, <1>5

(* The other stacks do not notice a step at stack k.                       *)
LEMMA OthersSound ==
    ASSUME NEW m \in Memory, NEW root, NEW depth, NEW K, Sound(m, root, depth, K), NEW rt,
           NEW m2 \in Memory, NEW root2, NEW depth2, Aside(m, m2, root, depth, root2, depth2, rt),
           NEW l \in K, root[l.top] # rt
    PROVE  /\ Filled(m2, root2, depth2, l.top, l.allocs) /\ Known(l.allocs)
           /\ root2[l.top] = root[l.top] /\ l.top \in m2.heap
<1>1. /\ Linked(m, root, depth) /\ l.top \in m.heap /\ l.top \in Stacklets
      /\ Filled(m, root, depth, l.top, l.allocs) /\ Known(l.allocs)
  BY SoundParts
<1>2. Filled(m2, root2, depth2, l.top, l.allocs) /\ l.top \in m2.heap
  BY <1>1, FilledAside
<1>3. root2[l.top] = root[l.top]
  BY <1>1 DEF Aside
<1> QED BY <1>1, <1>2, <1>3

(* All of those with another root.                                         *)
AllFilled(m, root, depth, L) == \A l \in L : Filled(m, root, depth, l.top, l.allocs) /\ Known(l.allocs)

(* They stay as they are.                                                  *)
LEMMA AllOthersSound ==
    ASSUME NEW m \in Memory, NEW root, NEW depth, NEW K, Sound(m, root, depth, K), NEW rt,
           NEW m2 \in Memory, NEW root2, NEW depth2, Aside(m, m2, root, depth, root2, depth2, rt),
           \A l \in K : root[l.top] # rt
    PROVE  AllFilled(m2, root2, depth2, K)
<1>1. ASSUME NEW l \in K
      PROVE  /\ Filled(m2, root2, depth2, l.top, l.allocs) /\ Known(l.allocs)
             /\ root2[l.top] = root[l.top] /\ l.top \in m2.heap
  BY OthersSound
<1> QED BY <1>1 DEF AllFilled

(* A stack takes a step: k2 instead of k.                                  *)
LEMMA SwapSound ==
    ASSUME NEW m \in Memory, NEW root, NEW depth, NEW K, Sound(m, root, depth, K), NEW k \in K,
           NEW m2, NEW root2, NEW depth2, NEW k2,
           Stepped(m, m2, root, depth, root2, depth2, Tops(K), k.top, k2.top),
           Filled(m2, root2, depth2, k2.top, k2.allocs), Known(k2.allocs)
    PROVE  /\ Sound(m2, root2, depth2, (K \ {k}) \union {k2}) /\ m2 \in Memory
           /\ \A l \in K \ {k} : l.top # k2.top
<1>1. PICK t, t2, rt : t = k.top /\ t2 = k2.top /\ rt = root[t]
  OBVIOUS
<1>2. /\ m2 \in Memory /\ Ranks(root2, depth2) /\ Linked(m2, root2, depth2)
      /\ Owned(m2, root2, depth2, (Tops(K) \ {t}) \union {t2}) /\ Bounded(m2, (Tops(K) \ {t}) \union {t2})
      /\ Aside(m, m2, root, depth, root2, depth2, rt) /\ root2[t2] = rt
  BY <1>1 DEF Stepped
<1>3. \A l \in K \ {k} : l.top # t /\ root[l.top] # rt
  BY <1>1, SoundParts
<1>4. \A l \in K \ {k} : /\ Filled(m2, root2, depth2, l.top, l.allocs) /\ Known(l.allocs)
                         /\ root2[l.top] = root[l.top]
  BY <1>2, <1>3, OthersSound
<1>5. \A l \in K \ {k} : l.top # t2
  BY <1>2, <1>3, <1>4
<1>6. PICK K2 : K2 = (K \ {k}) \union {k2}
  OBVIOUS
<1>7. Tops(K2) = (Tops(K) \ {t}) \union {t2}
  <2>1. \A x \in Tops(K2) : x \in (Tops(K) \ {t}) \union {t2}
    <3> SUFFICES ASSUME NEW l \in K2 PROVE l.top \in (Tops(K) \ {t}) \union {t2}
      BY DEF Tops
    <3>1. CASE l = k2
      BY <3>1, <1>1
    <3>2. CASE l # k2
      <4>1. l \in K \ {k}
        BY <3>2, <1>6
      <4>2. l.top \in Tops(K)
        BY <4>1 DEF Tops
      <4> QED BY <4>1, <4>2, <1>3
    <3> QED BY <3>1, <3>2
  <2>2. \A x \in (Tops(K) \ {t}) \union {t2} : x \in Tops(K2)
    <3> SUFFICES ASSUME NEW x \in (Tops(K) \ {t}) \union {t2} PROVE \E l \in K2 : x = l.top
      BY DEF Tops
    <3>1. CASE x = t2
      BY <3>1, <1>1, <1>6
    <3>2. CASE x # t2
      <4>1. PICK l \in K : x = l.top
        BY <3>2 DEF Tops
      <4>2. l # k
        BY <3>2, <4>1, <1>1
      <4> QED BY <4>1, <4>2, <1>6
    <3> QED BY <3>1, <3>2
  <2> QED BY <2>1, <2>2
<1>8. \A l, x \in K2 : l.top = x.top => l = x
  <2>1. \A l, x \in K : l.top = x.top => l = x
    BY DEF Sound
  <2> QED BY <2>1, <1>1, <1>5, <1>6
<1>9. \A l \in K2 : Filled(m2, root2, depth2, l.top, l.allocs) /\ Known(l.allocs)
  BY <1>4, <1>6
<1>10. Sound(m2, root2, depth2, K2)
  BY <1>2, <1>6, <1>7, <1>8, <1>9 DEF Sound
<1> QED BY <1>1, <1>2, <1>5, <1>6, <1>10

(* A stack with nothing on it.                                             *)
LEMMA NothingFilled ==
    ASSUME NEW m, NEW root, NEW depth, NEW t, m.sp[t] = 0, m.prev[t] = Null,
           \A s \in m.heap : root[s] = root[t] /\ depth[s] <= depth[t] => s = t
    PROVE  Filled(m, root, depth, t, << >>) /\ Known(<< >>)
<1>1. Len(<< >>) = 0 /\ << >> \in Seq(AllocRec)
  OBVIOUS
<1>2. PICK e : e = << >>
  OBVIOUS
<1>3. Len(e) = 0 /\ e \in Seq(AllocRec) /\ \A i \in 1..0 : FALSE
  BY <1>1, <1>2
<1>4. Within(m, root, depth, t, e) /\ Ordered(depth, e) /\ Adjacent(m, e)
  BY <1>3 DEF Within, Ordered, Adjacent
<1>5. TopIs(m, t, e)
  BY <1>2 DEF TopIs
<1>6. Tight(m, root, depth, t, e)
  BY DEF Tight
<1>7. Known(e)
  BY <1>3 DEF Known
<1> QED BY <1>2, <1>3, <1>4, <1>5, <1>6, <1>7 DEF Filled

(* StackEmpty() is true of nothing else.                                   *)
LEMMA EmptyMeansNothing ==
    ASSUME NEW m \in Memory, NEW root, NEW depth, Ranks(root, depth), Linked(m, root, depth),
           NEW t \in m.heap, NEW A, Filled(m, root, depth, t, A), m.sp[t] = 0, m.prev[t] = Null
    PROVE  A = << >>
<1> SUFFICES ASSUME A # << >> PROVE FALSE
  OBVIOUS
<1>1. A \in Seq(AllocRec) /\ m.heap \subseteq Stacklets
  BY MemoryParts DEF Filled
<1>2. PICK n \in Nat \ {0} : n = Len(A)
  BY <1>1, AllocParts
<1>3. 1 \in 1..n
  OBVIOUS
<1>4. PICK a : a = A[1]
  OBVIOUS
<1>5. /\ a.frag \in m.heap /\ root[a.frag] = root[t] /\ depth[a.frag] <= depth[t]
      /\ a.off + a.size <= m.sp[a.frag] /\ a.off \in Nat /\ a.size \in Nat
  BY <1>1, <1>2, <1>3, <1>4, AllocParts DEF Filled, Within
<1>6. a.size # 0
  BY <1>2, <1>4 DEF Filled, TopIs, Bottom
<1>7. a.frag = t
  <2>1. depth[t] = 0 /\ depth[a.frag] \in Nat
    BY <1>1, <1>5 DEF Linked, Ranks
  <2>2. depth[a.frag] = depth[t]
    BY <2>1, <1>5
  <2> QED BY <2>2, <1>5 DEF Linked
<1> QED BY <1>5, <1>6, <1>7

(* A new stack.                                                            *)
LEMMA NewStackSound ==
    ASSUME NEW m \in Memory, NEW root, NEW depth, NEW K, Sound(m, root, depth, K),
           NEW new \in Stacklets, new \notin m.heap, NEW size \in Nat,
           NEW m2, m2 = next_stacklet(m, new, size, Null),
           NEW k2, k2.top = new, k2.allocs = << >>
    PROVE  \E root2, depth2 : Sound(m2, root2, depth2, K \union {k2}) /\ m2 \in Memory
<1>1. Ranks(root, depth) /\ Linked(m, root, depth) /\ Owned(m, root, depth, Tops(K)) /\ Bounded(m, Tops(K))
  BY DEF Sound
<1>2. PICK root2, depth2 : NewPlace(root, depth, root2, depth2, new, new, 0)
  BY DEF NewPlace
<1>3. /\ Ranks(root2, depth2) /\ Linked(m2, root2, depth2)
      /\ Owned(m2, root2, depth2, Tops(K) \union {new})
      /\ Aside(m, m2, root, depth, root2, depth2, new)
      /\ Bounded(m2, Tops(K) \union {new})
      /\ m2 \in Memory /\ m2.prev[new] = Null /\ m2.sp[new] = 0 /\ new \in m2.heap
      /\ root2[new] = new /\ \A s \in m.heap : root[s] # new
  <2>1. PICK T : T = Tops(K)
    OBVIOUS
  <2>2. Ranks(root, depth) /\ Linked(m, root, depth) /\ Owned(m, root, depth, T) /\ Bounded(m, T)
    BY <1>1, <2>1
  <2>3. Founded(m, m2, root, depth, root2, depth2, T, new)
    BY <2>2, <1>2, FoundSound
  <2> QED BY <2>1, <2>3 DEF Founded
<1>4. \A l \in K : l.top \in m.heap /\ l.top \in Tops(K)
  BY <1>1 DEF Owned, Tops
<1>5. \A l \in K : Filled(m2, root2, depth2, l.top, l.allocs) /\ Known(l.allocs)
  <2>1. m2 \in Memory /\ Aside(m, m2, root, depth, root2, depth2, new)
    BY <1>3
  <2>2. \A l \in K : root[l.top] # new
    BY <1>3, <1>4
  <2>3. AllFilled(m2, root2, depth2, K)
    BY <2>1, <2>2, AllOthersSound
  <2> QED BY <2>3 DEF AllFilled
<1>6. ASSUME NEW s \in m2.heap, root2[s] = root2[new], depth2[s] <= depth2[new] PROVE s = new
  <2>1. depth2[new] = 0 /\ depth2[s] \in Nat
    <3>1. s \in Stacklets
      BY <1>3, MemoryParts
    <3> QED BY <3>1, <1>3 DEF Linked, Ranks
  <2>2. depth2[s] = depth2[new]
    BY <2>1, <1>6
  <2> QED BY <2>2, <1>3, <1>6 DEF Linked
<1>7. Filled(m2, root2, depth2, new, << >>) /\ Known(<< >>)
  BY <1>3, <1>6, NothingFilled
<1>8. PICK K2 : K2 = K \union {k2}
  OBVIOUS
<1>9. Tops(K2) = Tops(K) \union {new}
  BY <1>8 DEF Tops
<1>10. \A l, x \in K2 : l.top = x.top => l = x
  <2>1. \A l, x \in K : l.top = x.top => l = x
    BY DEF Sound
  <2> QED BY <2>1, <1>4, <1>8
<1>11. \A l \in K2 : Filled(m2, root2, depth2, l.top, l.allocs) /\ Known(l.allocs)
  BY <1>5, <1>7, <1>8
<1>12. Sound(m2, root2, depth2, K2)
  BY <1>3, <1>9, <1>10, <1>11 DEF Sound
<1> QED BY <1>3, <1>8, <1>12

(* A stack with nothing on it is destroyed.                                *)
LEMMA DropSound ==
    ASSUME NEW m \in Memory, NEW root, NEW depth, NEW K, Sound(m, root, depth, K), NEW k \in K,
           m.prev[k.top] = Null, NEW m2, m2 = Destroy(m, k.top)
    PROVE  Sound(m2, root, depth, K \ {k}) /\ m2 \in Memory
<1>1. PICK t, rt : t = k.top /\ rt = root[t]
  OBVIOUS
<1>2. /\ Ranks(root, depth) /\ Linked(m, root, depth) /\ Owned(m, root, depth, Tops(K)) /\ Bounded(m, Tops(K))
      /\ t \in Tops(K) /\ \A l \in K \ {k} : l.top # t /\ root[l.top] # rt
  BY <1>1, SoundParts
<1>3. /\ m2 \in Memory /\ Linked(m2, root, depth) /\ Owned(m2, root, depth, Tops(K) \ {t})
      /\ Aside(m, m2, root, depth, root, depth, rt) /\ Bounded(m2, Tops(K) \ {t})
  BY <1>1, <1>2, DestroySound
<1>4. \A l \in K \ {k} : Filled(m2, root, depth, l.top, l.allocs) /\ Known(l.allocs)
  BY <1>2, <1>3, OthersSound
<1>5. Tops(K \ {k}) = Tops(K) \ {t}
  <2>1. \A x \in Tops(K) \ {t} : \E l \in K \ {k} : x = l.top
    BY <1>1 DEF Tops
  <2>2. \A l \in K \ {k} : l.top \in Tops(K) \ {t}
    BY <1>2 DEF Tops
  <2> QED BY <2>1, <2>2 DEF Tops
<1>6. \A l, x \in K : l.top = x.top => l = x
  BY DEF Sound
<1> QED BY <1>2, <1>3, <1>4, <1>5, <1>6 DEF Sound

-----------------------------------------------------------------------------
(* Who holds what.                                                         *)

(* The stacks are what somebody holds or has released.                     *)
LEMMA StacksAre ==
    /\ Stacks = StacksOf(m_fib, allocs, released)
    /\ Stacks' = StacksOf(m_fib', allocs', released')
  BY DEF Stacks, StacksOf, HeldBy

(* Which are they?                                                         *)
LEMMA StacksOfMember ==
    ASSUME NEW fib, NEW al, NEW rel, NEW k
    PROVE  k \in StacksOf(fib, al, rel) <=>
             k \in rel \/ \E w \in Workers : fib[w] # Null /\ k = HeldBy(fib, al, w)
  BY DEF StacksOf

(* Fields of what a worker holds.                                          *)
LEMMA HeldParts ==
    ASSUME NEW fib, NEW al, NEW w
    PROVE  HeldBy(fib, al, w).top = fib[w] /\ HeldBy(fib, al, w).allocs = al[w]
  BY DEF HeldBy

(* One worker's entry is replaced.                                         *)
Puts(f, g, w, x) == g = [f EXCEPT ![w] = x]

(* A worker's stack takes a step.                                          *)
LEMMA SwapHolders ==
    ASSUME NEW fib, NEW al, NEW rel, Holding(fib, al, rel), NEW w \in Workers, fib[w] # Null,
           NEW t2 \in Stacklets, NEW A2 \in Seq(AllocRec), NEW K, K = StacksOf(fib, al, rel),
           \A l \in K \ {HeldBy(fib, al, w)} : l.top # t2,
           NEW fib2, Puts(fib, fib2, w, t2), NEW al2, Puts(al, al2, w, A2)
    PROVE  /\ Holding(fib2, al2, rel)
           /\ StacksOf(fib2, al2, rel) = (K \ {HeldBy(fib, al, w)}) \union {HeldBy(fib2, al2, w)}
<1>1. Null \notin Stacklets
  BY StackAssumption
<1>2. /\ fib \in [Workers -> MaybeStacklets] /\ al \in [Workers -> Seq(AllocRec)]
      /\ rel \subseteq StackRec
      /\ \A v \in Workers : fib[v] = fib[w] => v = w
      /\ \A r \in rel : \A v \in Workers : r.top # fib[v]
  BY DEF Holding
<1>3. /\ fib2 \in [Workers -> MaybeStacklets] /\ al2 \in [Workers -> Seq(AllocRec)]
      /\ fib2[w] = t2 /\ al2[w] = A2 /\ t2 # Null
      /\ \A v \in Workers : v # w => fib2[v] = fib[v] /\ al2[v] = al[v]
  BY <1>1, <1>2 DEF MaybeStacklets, Puts
<1>4. PICK k : k = HeldBy(fib, al, w)
  OBVIOUS
<1>5. k.top = fib[w]
  BY <1>4, HeldParts
<1>6. \A v \in Workers : v # w /\ fib[v] # Null => HeldBy(fib, al, v) \in K \ {k} /\ fib[v] # t2
  <2> SUFFICES ASSUME NEW v \in Workers, v # w, fib[v] # Null
               PROVE  HeldBy(fib, al, v) \in K \ {k} /\ fib[v] # t2
    OBVIOUS
  <2>1. PICK l : l = HeldBy(fib, al, v) /\ l.top = fib[v]
    BY HeldParts
  <2>2. l \in K /\ l # k
    BY <2>1, <1>2, <1>5, StacksOfMember
  <2>3. l.top # t2
    BY <2>2, <1>4
  <2> QED BY <2>1, <2>2, <2>3
<1>7. \A r \in rel : r \in K \ {k} /\ r.top # t2
  <2> SUFFICES ASSUME NEW r \in rel PROVE r \in K \ {k} /\ r.top # t2
    OBVIOUS
  <2>1. r \in K /\ r # k
    BY <1>2, <1>5, StacksOfMember
  <2> QED BY <2>1, <1>4
<1>8. \A v, x \in Workers : fib2[v] = fib2[x] /\ fib2[v] # Null => v = x
  <2> SUFFICES ASSUME NEW v \in Workers, NEW x \in Workers, fib2[v] = fib2[x], fib2[v] # Null PROVE v = x
    OBVIOUS
  <2>1. CASE v = w \/ x = w
    BY <2>1, <1>3, <1>6
  <2>2. CASE v # w /\ x # w
    BY <2>2, <1>3 DEF Holding
  <2> QED BY <2>1, <2>2
<1>9. \A r \in rel : \A v \in Workers : r.top # fib2[v]
  BY <1>2, <1>3, <1>7
<1>10. \A v \in Workers : fib2[v] = Null => al2[v] = << >>
  BY <1>3 DEF Holding
<1>11. \A r, q \in rel : r.top = q.top => r = q
  BY DEF Holding
<1>12. Holding(fib2, al2, rel)
  BY <1>2, <1>3, <1>8, <1>9, <1>10, <1>11 DEF Holding
<1>13. PICK k2 : k2 = HeldBy(fib2, al2, w)
  OBVIOUS
<1>14. \A v \in Workers : v # w => HeldBy(fib2, al2, v) = HeldBy(fib, al, v) /\ fib2[v] = fib[v]
  BY <1>3 DEF HeldBy
<1>15. PICK K2 : K2 = StacksOf(fib2, al2, rel)
  OBVIOUS
<1>16. ASSUME NEW x \in K2 PROVE x \in (K \ {k}) \union {k2}
  <2>1. CASE x \in rel
    BY <2>1, <1>7
  <2>2. CASE x \notin rel
    <3>1. PICK v \in Workers : fib2[v] # Null /\ x = HeldBy(fib2, al2, v)
      BY <2>2, <1>15 DEF StacksOf
    <3> QED BY <3>1, <1>6, <1>13, <1>14
  <2> QED BY <2>1, <2>2
<1>17. ASSUME NEW x \in (K \ {k}) \union {k2} PROVE x \in K2
  <2>1. CASE x = k2
    BY <2>1, <1>3, <1>13, <1>15, StacksOfMember
  <2>2. CASE x # k2 /\ x \in rel
    BY <2>2, <1>15, StacksOfMember
  <2>3. CASE x # k2 /\ x \notin rel
    <3>1. PICK v \in Workers : fib[v] # Null /\ x = HeldBy(fib, al, v)
      BY <2>3, StacksOfMember
    <3>2. v # w
      BY <2>3, <3>1, <1>4
    <3> QED BY <3>1, <3>2, <1>14, <1>15, StacksOfMember
  <2> QED BY <2>1, <2>2, <2>3
<1> QED BY <1>4, <1>12, <1>13, <1>15, <1>16, <1>17

(* A worker without a stack gets a new one.                                *)
LEMMA NewHolder ==
    ASSUME NEW fib, NEW al, NEW rel, Holding(fib, al, rel), NEW w \in Workers, fib[w] = Null,
           NEW t2 \in Stacklets, NEW K, K = StacksOf(fib, al, rel), \A l \in K : l.top # t2,
           NEW fib2, Puts(fib, fib2, w, t2)
    PROVE  /\ Holding(fib2, al, rel)
           /\ StacksOf(fib2, al, rel) = K \union {HeldBy(fib2, al, w)}
           /\ al[w] = << >> /\ fib2[w] = t2
<1>1. Null \notin Stacklets
  BY StackAssumption
<1>2. /\ fib \in [Workers -> MaybeStacklets] /\ al \in [Workers -> Seq(AllocRec)]
      /\ rel \subseteq StackRec /\ al[w] = << >>
      /\ \A r \in rel : \A v \in Workers : r.top # fib[v]
  BY DEF Holding
<1>3. /\ fib2 \in [Workers -> MaybeStacklets] /\ fib2[w] = t2 /\ t2 # Null
      /\ \A v \in Workers : v # w => fib2[v] = fib[v]
  BY <1>1, <1>2 DEF MaybeStacklets, Puts
<1>4. \A v \in Workers : fib[v] # Null => HeldBy(fib, al, v) \in K /\ fib[v] # t2
  <2> SUFFICES ASSUME NEW v \in Workers, fib[v] # Null PROVE HeldBy(fib, al, v) \in K /\ fib[v] # t2
    OBVIOUS
  <2>1. PICK l : l = HeldBy(fib, al, v) /\ l.top = fib[v]
    BY HeldParts
  <2>2. l \in K
    BY <2>1, StacksOfMember
  <2> QED BY <2>1, <2>2
<1>5. \A r \in rel : r \in K /\ r.top # t2
  BY StacksOfMember
<1>6. \A v, x \in Workers : fib2[v] = fib2[x] /\ fib2[v] # Null => v = x
  <2> SUFFICES ASSUME NEW v \in Workers, NEW x \in Workers, fib2[v] = fib2[x], fib2[v] # Null PROVE v = x
    OBVIOUS
  <2>1. CASE v = w \/ x = w
    BY <2>1, <1>3, <1>4
  <2>2. CASE v # w /\ x # w
    BY <2>2, <1>3 DEF Holding
  <2> QED BY <2>1, <2>2
<1>7. \A r \in rel : \A v \in Workers : r.top # fib2[v]
  BY <1>2, <1>3, <1>5
<1>8. \A v \in Workers : fib2[v] = Null => al[v] = << >>
  BY <1>3 DEF Holding
<1>9. \A r, q \in rel : r.top = q.top => r = q
  BY DEF Holding
<1>10. Holding(fib2, al, rel)
  BY <1>2, <1>3, <1>6, <1>7, <1>8, <1>9 DEF Holding
<1>11. PICK k2 : k2 = HeldBy(fib2, al, w)
  OBVIOUS
<1>12. \A v \in Workers : v # w => HeldBy(fib2, al, v) = HeldBy(fib, al, v) /\ fib2[v] = fib[v]
  BY <1>3 DEF HeldBy
<1>13. PICK K2 : K2 = StacksOf(fib2, al, rel)
  OBVIOUS
<1>14. ASSUME NEW x \in K2 PROVE x \in K \union {k2}
  <2>1. CASE x \in rel
    BY <2>1, <1>5
  <2>2. CASE x \notin rel
    <3>1. PICK v \in Workers : fib2[v] # Null /\ x = HeldBy(fib2, al, v)
      BY <2>2, <1>13 DEF StacksOf
    <3> QED BY <3>1, <1>4, <1>11, <1>12
  <2> QED BY <2>1, <2>2
<1>15. ASSUME NEW x \in K \union {k2} PROVE x \in K2
  <2>1. CASE x = k2
    BY <2>1, <1>3, <1>11, <1>13, StacksOfMember
  <2>2. CASE x # k2 /\ x \in rel
    BY <2>2, <1>13, StacksOfMember
  <2>3. CASE x # k2 /\ x \notin rel
    <3>1. PICK v \in Workers : fib[v] # Null /\ x = HeldBy(fib, al, v)
      BY <2>3, StacksOfMember
    <3>2. v # w
      BY <3>1
    <3> QED BY <3>1, <3>2, <1>12, <1>13, StacksOfMember
  <2> QED BY <2>1, <2>2, <2>3
<1> QED BY <1>2, <1>3, <1>10, <1>11, <1>13, <1>14, <1>15

(* A worker gives its stack up.                                            *)
LEMMA NoHolder ==
    ASSUME NEW fib, NEW al, NEW rel, Holding(fib, al, rel), NEW w \in Workers, fib[w] # Null,
           al[w] = << >>, NEW K, K = StacksOf(fib, al, rel),
           NEW fib2, Puts(fib, fib2, w, Null)
    PROVE  /\ Holding(fib2, al, rel)
           /\ StacksOf(fib2, al, rel) = K \ {HeldBy(fib, al, w)}
<1>1. Null \notin Stacklets
  BY StackAssumption
<1>2. /\ fib \in [Workers -> MaybeStacklets] /\ al \in [Workers -> Seq(AllocRec)]
      /\ rel \subseteq StackRec
      /\ \A v \in Workers : fib[v] = fib[w] => v = w
      /\ \A r \in rel : r.top \in Stacklets /\ \A v \in Workers : r.top # fib[v]
  BY DEF Holding, StackRec
<1>3. /\ fib2 \in [Workers -> MaybeStacklets] /\ fib2[w] = Null
      /\ \A v \in Workers : v # w => fib2[v] = fib[v]
  BY <1>2, SMTT(20) DEF MaybeStacklets, Puts
<1>4. \A r \in rel : \A v \in Workers : r.top # fib2[v]
  BY <1>1, <1>2, <1>3
<1>5. \A v, x \in Workers : fib2[v] = fib2[x] /\ fib2[v] # Null => v = x
  BY <1>3, SMTT(20) DEF Holding
<1>6. \A v \in Workers : fib2[v] = Null => al[v] = << >>
  BY <1>3 DEF Holding
<1>7. \A r, q \in rel : r.top = q.top => r = q
  BY DEF Holding
<1>8. Holding(fib2, al, rel)
  BY <1>2, <1>3, <1>4, <1>5, <1>6, <1>7 DEF Holding
<1>9. PICK k : k = HeldBy(fib, al, w)
  OBVIOUS
<1>10. k.top = fib[w]
  BY <1>9, HeldParts
<1>11. \A v \in Workers : v # w => /\ HeldBy(fib2, al, v) = HeldBy(fib, al, v) /\ fib2[v] = fib[v]
                                   /\ HeldBy(fib, al, v) # k
  <2> SUFFICES ASSUME NEW v \in Workers, v # w
               PROVE  /\ HeldBy(fib2, al, v) = HeldBy(fib, al, v) /\ fib2[v] = fib[v]
                      /\ HeldBy(fib, al, v) # k
    OBVIOUS
  <2>1. HeldBy(fib, al, v).top = fib[v]
    BY HeldParts
  <2> QED BY <2>1, <1>2, <1>3, <1>10 DEF HeldBy
<1>12. PICK K2 : K2 = StacksOf(fib2, al, rel)
  OBVIOUS
<1>13. ASSUME NEW x \in K2 PROVE x \in K \ {k}
  <2>1. CASE x \in rel
    BY <2>1, <1>2, <1>10, StacksOfMember
  <2>2. CASE x \notin rel
    <3>1. PICK v \in Workers : fib2[v] # Null /\ x = HeldBy(fib2, al, v)
      BY <2>2, <1>12 DEF StacksOf
    <3>2. v # w
      BY <3>1, <1>3
    <3> QED BY <3>1, <3>2, <1>11, StacksOfMember
  <2> QED BY <2>1, <2>2
<1>14. ASSUME NEW x \in K \ {k} PROVE x \in K2
  <2>1. CASE x \in rel
    BY <2>1, <1>12, StacksOfMember
  <2>2. CASE x \notin rel
    <3>1. PICK v \in Workers : fib[v] # Null /\ x = HeldBy(fib, al, v)
      BY <2>2, StacksOfMember
    <3>2. v # w
      BY <3>1, <1>9
    <3> QED BY <3>1, <3>2, <1>11, <1>12, StacksOfMember
  <2> QED BY <2>1, <2>2
<1> QED BY <1>8, <1>9, <1>12, <1>13, <1>14

(* A worker releases its stack, or continues one: what is held stays.      *)
LEMMA ReleaseHolder ==
    ASSUME NEW fib, NEW al, NEW rel, Holding(fib, al, rel), NEW w \in Workers, fib[w] # Null,
           NEW fib2, Puts(fib, fib2, w, Null), NEW al2, Puts(al, al2, w, << >>),
           NEW rel2, rel2 = rel \union {HeldBy(fib, al, w)}
    PROVE  /\ Holding(fib2, al2, rel2) /\ StacksOf(fib2, al2, rel2) = StacksOf(fib, al, rel)
           /\ fib2[w] = Null
<1>1. Null \notin Stacklets
  BY StackAssumption
<1>2. /\ fib \in [Workers -> MaybeStacklets] /\ al \in [Workers -> Seq(AllocRec)]
      /\ rel \subseteq StackRec
      /\ \A v \in Workers : fib[v] = fib[w] => v = w
      /\ \A r \in rel : r.top \in Stacklets /\ \A v \in Workers : r.top # fib[v]
  BY DEF Holding, StackRec
<1>3. /\ fib2 \in [Workers -> MaybeStacklets] /\ al2 \in [Workers -> Seq(AllocRec)]
      /\ fib2[w] = Null /\ al2[w] = << >>
      /\ \A v \in Workers : v # w => fib2[v] = fib[v] /\ al2[v] = al[v]
  <2>1. << >> \in Seq(AllocRec)
    OBVIOUS
  <2> QED BY <2>1, <1>2 DEF MaybeStacklets, Puts
<1>4. PICK k : k = HeldBy(fib, al, w)
  OBVIOUS
<1>5. k.top = fib[w] /\ k \in StackRec
  <2>1. fib[w] \in Stacklets /\ al[w] \in Seq(AllocRec)
    BY <1>2 DEF MaybeStacklets
  <2> QED BY <2>1, <1>4 DEF StackRec, HeldBy
<1>6. fib[w] \in Stacklets
  BY <1>2 DEF MaybeStacklets
<1>7. \A r \in rel2 : \A v \in Workers : r.top # fib2[v]
  <2> SUFFICES ASSUME NEW r \in rel2, NEW v \in Workers PROVE r.top # fib2[v]
    OBVIOUS
  <2>1. r.top \in Stacklets /\ (v # w => r.top # fib[v])
    BY <1>2, <1>4, <1>5, <1>6
  <2> QED BY <2>1, <1>1, <1>3
<1>8. \A r, q \in rel2 : r.top = q.top => r = q
  <2>1. \A r, q \in rel : r.top = q.top => r = q
    BY DEF Holding
  <2> QED BY <2>1, <1>2, <1>4, <1>5
<1>9. \A v, x \in Workers : fib2[v] = fib2[x] /\ fib2[v] # Null => v = x
  BY <1>3 DEF Holding
<1>10. \A v \in Workers : fib2[v] = Null => al2[v] = << >>
  BY <1>3 DEF Holding
<1>11. rel2 \subseteq StackRec
  BY <1>2, <1>4, <1>5
<1>12. Holding(fib2, al2, rel2)
  BY <1>3, <1>7, <1>8, <1>9, <1>10, <1>11 DEF Holding
<1>13. \A v \in Workers : v # w => HeldBy(fib2, al2, v) = HeldBy(fib, al, v) /\ fib2[v] = fib[v]
  BY <1>3 DEF HeldBy
<1>14. PICK K, K2 : K = StacksOf(fib, al, rel) /\ K2 = StacksOf(fib2, al2, rel2)
  OBVIOUS
<1>15. ASSUME NEW x \in K2 PROVE x \in K
  <2>1. CASE x \in rel
    BY <2>1, <1>14, StacksOfMember
  <2>2. CASE x = k
    BY <2>2, <1>4, <1>14, StacksOfMember
  <2>3. CASE x \notin rel /\ x # k
    <3>1. PICK v \in Workers : fib2[v] # Null /\ x = HeldBy(fib2, al2, v)
      BY <2>3, <1>4, <1>14 DEF StacksOf
    <3>2. v # w
      BY <3>1, <1>3
    <3> QED BY <3>1, <3>2, <1>13, <1>14, StacksOfMember
  <2> QED BY <2>1, <2>2, <2>3
<1>16. ASSUME NEW x \in K PROVE x \in K2
  <2>1. CASE x \in rel2
    BY <2>1, <1>14, StacksOfMember
  <2>2. CASE x \notin rel2
    <3>1. PICK v \in Workers : fib[v] # Null /\ x = HeldBy(fib, al, v)
      BY <2>2, <1>14, StacksOfMember
    <3>2. v # w
      BY <2>2, <3>1
    <3> QED BY <3>1, <3>2, <1>13, <1>14, StacksOfMember
  <2> QED BY <2>1, <2>2
<1> QED BY <1>3, <1>12, <1>14, <1>15, <1>16

(* A worker without a stack continues a released one.                      *)
LEMMA ContinueHolder ==
    ASSUME NEW fib, NEW al, NEW rel, Holding(fib, al, rel), NEW w \in Workers, fib[w] = Null,
           NEW r \in rel, NEW fib2, Puts(fib, fib2, w, r.top),
           NEW al2, Puts(al, al2, w, r.allocs), NEW rel2, rel2 = rel \ {r}
    PROVE  Holding(fib2, al2, rel2) /\ StacksOf(fib2, al2, rel2) = StacksOf(fib, al, rel)
<1>1. Null \notin Stacklets
  BY StackAssumption
<1>2. /\ fib \in [Workers -> MaybeStacklets] /\ al \in [Workers -> Seq(AllocRec)]
      /\ rel \subseteq StackRec
      /\ \A q \in rel : \A v \in Workers : q.top # fib[v]
      /\ \A q \in rel : q.top = r.top => q = r
  BY DEF Holding
<1>3. r.top \in Stacklets /\ r.allocs \in Seq(AllocRec) /\ r = [top |-> r.top, allocs |-> r.allocs]
  <2>1. r \in StackRec
    BY <1>2
  <2> QED BY <2>1 DEF StackRec
<1>4. /\ fib2 \in [Workers -> MaybeStacklets] /\ al2 \in [Workers -> Seq(AllocRec)]
      /\ fib2[w] = r.top /\ al2[w] = r.allocs
      /\ \A v \in Workers : v # w => fib2[v] = fib[v] /\ al2[v] = al[v]
  BY <1>2, <1>3 DEF MaybeStacklets, Puts
<1>5. \A v, x \in Workers : fib2[v] = fib2[x] /\ fib2[v] # Null => v = x
  <2> SUFFICES ASSUME NEW v \in Workers, NEW x \in Workers, fib2[v] = fib2[x], fib2[v] # Null PROVE v = x
    OBVIOUS
  <2>1. CASE v = w \/ x = w
    BY <2>1, <1>2, <1>4
  <2>2. CASE v # w /\ x # w
    BY <2>2, <1>4 DEF Holding
  <2> QED BY <2>1, <2>2
<1>6. \A q \in rel2 : \A v \in Workers : q.top # fib2[v]
  BY <1>2, <1>4
<1>7. \A v \in Workers : fib2[v] = Null => al2[v] = << >>
  BY <1>1, <1>3, <1>4 DEF Holding
<1>8. \A q, x \in rel2 : q.top = x.top => q = x
  BY DEF Holding
<1>9. Holding(fib2, al2, rel2)
  BY <1>2, <1>4, <1>5, <1>6, <1>7, <1>8 DEF Holding
<1>10. HeldBy(fib2, al2, w) = r
  BY <1>3, <1>4 DEF HeldBy
<1>11. \A v \in Workers : v # w => HeldBy(fib2, al2, v) = HeldBy(fib, al, v) /\ fib2[v] = fib[v]
  BY <1>4 DEF HeldBy
<1>12. PICK K, K2 : K = StacksOf(fib, al, rel) /\ K2 = StacksOf(fib2, al2, rel2)
  OBVIOUS
<1>13. ASSUME NEW x \in K2 PROVE x \in K
  <2>1. CASE x \in rel
    BY <2>1, <1>12, StacksOfMember
  <2>2. CASE x \notin rel
    <3>1. PICK v \in Workers : fib2[v] # Null /\ x = HeldBy(fib2, al2, v)
      BY <2>2, <1>12 DEF StacksOf
    <3>2. v # w
      BY <2>2, <3>1, <1>10
    <3> QED BY <3>1, <3>2, <1>11, <1>12, StacksOfMember
  <2> QED BY <2>1, <2>2
<1>14. ASSUME NEW x \in K PROVE x \in K2
  <2>1. CASE x \in rel2
    BY <2>1, <1>12, StacksOfMember
  <2>2. CASE x = r
    <3>1. fib2[w] # Null
      BY <1>1, <1>3, <1>4
    <3> QED BY <2>2, <3>1, <1>10, <1>12, StacksOfMember
  <2>3. CASE x \notin rel2 /\ x # r
    <3>1. PICK v \in Workers : fib[v] # Null /\ x = HeldBy(fib, al, v)
      BY <2>3, <1>12, StacksOfMember
    <3>2. v # w
      BY <3>1
    <3> QED BY <3>1, <3>2, <1>11, <1>12, StacksOfMember
  <2> QED BY <2>1, <2>2, <2>3
<1> QED BY <1>9, <1>12, <1>13, <1>14

-----------------------------------------------------------------------------
(* The steps, on the state.                                                *)

(* The heap as a value becomes m.                                          *)
LEMMA BecomesIs ==
    ASSUME NEW m \in Memory, Becomes(m)
    PROVE  Mem' = m
<1>1. Mem' = [heap |-> heap', sp |-> m_sp', hi |-> m_hi', prev |-> m_prev', next |-> m_next']
  BY DEF Mem
<1>2. heap' = m.heap /\ m_sp' = m.sp /\ m_hi' = m.hi /\ m_prev' = m.prev /\ m_next' = m.next
  BY DEF Becomes
<1>3. m = [heap |-> m.heap, sp |-> m.sp, hi |-> m.hi, prev |-> m.prev, next |-> m.next]
  BY MemoryParts
<1> QED BY <1>1, <1>2, <1>3

(* What a step leaves.                                                     *)
LEMMA Leaves ==
    ASSUME NEW m \in Memory, Becomes(m), NEW fib, NEW al, NEW rel,
           fib = m_fib', al = allocs', rel = released', Holding(fib, al, rel),
           NEW K, K = StacksOf(fib, al, rel), NEW root, NEW depth, Sound(m, root, depth, K)
    PROVE  StackInv'
<1>1. Mem' = m
  BY BecomesIs
<1>2. Stacks' = K
  BY StacksAre
<1>3. HeapTypes'
  BY <1>1 DEF HeapTypes
<1>4. Holding(m_fib', allocs', released')
  OBVIOUS
<1>5. \E r, d : Sound(Mem', r, d, Stacks')
  BY <1>1, <1>2
<1> QED BY <1>3, <1>4, <1>5 DEF StackInv

(* What a step finds at a worker: its top and its allocations.             *)
Looks(m, root, depth, K, fib, al, rel, w, t, A) ==
    /\ m \in Memory /\ m = Mem /\ fib = m_fib /\ al = allocs /\ rel = released
    /\ K = StacksOf(fib, al, rel) /\ Holding(fib, al, rel)
    /\ t = fib[w] /\ A = al[w] /\ Sound(m, root, depth, K)

(* The same, in parts.                                                     *)
Found(m, root, depth, K, k, t, A) ==
    /\ m \in Memory /\ Sound(m, root, depth, K) /\ k \in K /\ k.top = t /\ k.allocs = A
    /\ Ranks(root, depth) /\ Linked(m, root, depth) /\ Owned(m, root, depth, Tops(K))
    /\ Bounded(m, Tops(K)) /\ t \in Tops(K) /\ t \in m.heap /\ t \in Stacklets
    /\ Filled(m, root, depth, t, A) /\ Known(A) /\ A \in Seq(AllocRec)

(* The state is open to inspection.                                        *)
LEMMA Look ==
    ASSUME StackInv, NEW w
    PROVE  \E m, root, depth, K, fib, al, rel, t, A : Looks(m, root, depth, K, fib, al, rel, w, t, A)
<1>1. PICK m, K, fib, al, rel : m = Mem /\ K = Stacks /\ fib = m_fib /\ al = allocs /\ rel = released
  OBVIOUS
<1>2. m \in Memory /\ Holding(fib, al, rel)
  BY <1>1 DEF StackInv, HeapTypes
<1>3. PICK root, depth : Sound(m, root, depth, K)
  BY <1>1 DEF StackInv
<1>4. K = StacksOf(fib, al, rel)
  BY <1>1, StacksAre
<1>5. PICK t, A : t = fib[w] /\ A = al[w]
  OBVIOUS
<1>6. Looks(m, root, depth, K, fib, al, rel, w, t, A)
  BY <1>1, <1>2, <1>3, <1>4, <1>5 DEF Looks
<1> QED BY <1>6

(* A worker with a stack finds it sound.                                   *)
LEMMA Finds ==
    ASSUME NEW w \in Workers, NEW m, NEW root, NEW depth, NEW K, NEW fib, NEW al, NEW rel, NEW t, NEW A,
           Looks(m, root, depth, K, fib, al, rel, w, t, A), t # Null, NEW k, k = HeldBy(fib, al, w)
    PROVE  Found(m, root, depth, K, k, t, A)
<1>1. m \in Memory /\ K = StacksOf(fib, al, rel) /\ t = fib[w] /\ A = al[w] /\ Sound(m, root, depth, K)
  BY DEF Looks
<1>2. k.top = t /\ k.allocs = A
  BY <1>1, HeldParts
<1>3. k \in K
  BY <1>1, StacksOfMember
<1>4. /\ Ranks(root, depth) /\ Linked(m, root, depth) /\ Owned(m, root, depth, Tops(K))
      /\ Bounded(m, Tops(K)) /\ k.top \in Tops(K) /\ k.top \in m.heap /\ k.top \in Stacklets
      /\ Filled(m, root, depth, k.top, k.allocs) /\ Known(k.allocs) /\ k.allocs \in Seq(AllocRec)
      /\ \A l \in K \ {k} : l.top # k.top /\ root[l.top] # root[k.top]
  BY <1>1, <1>3, SoundParts
<1> QED BY <1>1, <1>2, <1>3, <1>4 DEF Found

(* A worker's stack has taken a step.                                      *)
LEMMA SwapStep ==
    ASSUME NEW w \in Workers, NEW m, NEW root, NEW depth, NEW K, NEW fib, NEW al, NEW rel, NEW t, NEW A,
           Looks(m, root, depth, K, fib, al, rel, w, t, A), t # Null,
           NEW m2, NEW root2, NEW depth2, NEW t2, NEW A2,
           Stepped(m, m2, root, depth, root2, depth2, Tops(K), t, t2),
           Filled(m2, root2, depth2, t2, A2), Known(A2),
           Becomes(m2), m_fib' = [m_fib EXCEPT ![w] = t2], allocs' = [allocs EXCEPT ![w] = A2],
           released' = released
    PROVE  StackInv'
<1>1. PICK k : k = HeldBy(fib, al, w)
  OBVIOUS
<1>2. Found(m, root, depth, K, k, t, A)
  BY <1>1, Finds
<1>3. PICK fib2, al2 : Puts(fib, fib2, w, t2) /\ Puts(al, al2, w, A2)
  BY DEF Puts
<1>4. fib2 = m_fib' /\ al2 = allocs' /\ rel = released'
  BY <1>3 DEF Looks, Puts
<1>5. PICK k2 : k2 = HeldBy(fib2, al2, w)
  OBVIOUS
<1>6. fib \in [Workers -> MaybeStacklets] /\ al \in [Workers -> Seq(AllocRec)]
  BY DEF Looks, Holding
<1>7. k2.top = t2 /\ k2.allocs = A2
  <2>1. k2.top = fib2[w] /\ k2.allocs = al2[w]
    BY <1>5, HeldParts
  <2> QED BY <2>1, <1>3, <1>6 DEF Puts
<1>8. t2 \in Stacklets /\ A2 \in Seq(AllocRec)
  BY DEF Stepped, Filled
<1>9. /\ Sound(m2, root2, depth2, (K \ {k}) \union {k2}) /\ m2 \in Memory
      /\ \A l \in K \ {k} : l.top # k2.top
  <2>1. m \in Memory /\ Sound(m, root, depth, K) /\ k \in K /\ k.top = t
    BY <1>2 DEF Found
  <2>2. Stepped(m, m2, root, depth, root2, depth2, Tops(K), k.top, k2.top)
    BY <2>1, <1>7
  <2>3. Filled(m2, root2, depth2, k2.top, k2.allocs) /\ Known(k2.allocs)
    BY <1>7
  <2> QED BY <2>1, <2>2, <2>3, SwapSound
<1>10. /\ Holding(fib2, al2, rel)
       /\ StacksOf(fib2, al2, rel) = (K \ {k}) \union {k2}
  <2>1. Holding(fib, al, rel) /\ fib[w] # Null /\ K = StacksOf(fib, al, rel)
    BY DEF Looks
  <2>2. \A l \in K \ {HeldBy(fib, al, w)} : l.top # t2
    BY <1>1, <1>7, <1>9
  <2>3. /\ Holding(fib2, al2, rel)
        /\ StacksOf(fib2, al2, rel) = (K \ {HeldBy(fib, al, w)}) \union {HeldBy(fib2, al2, w)}
    BY <2>1, <2>2, <1>3, <1>8, SwapHolders
  <2> QED BY <2>3, <1>1, <1>5
<1> QED BY <1>4, <1>9, <1>10, Leaves

(* Two steps of a stack are one.                                           *)
LEMMA SteppedTwice ==
    ASSUME NEW m \in Memory, NEW root, NEW depth, NEW T, Owned(m, root, depth, T), NEW t \in T,
           NEW m1, NEW root1, NEW depth1, NEW t1, Stepped(m, m1, root, depth, root1, depth1, T, t, t1),
           NEW m2, NEW t2, Stepped(m1, m2, root1, depth1, root1, depth1, (T \ {t}) \union {t1}, t1, t2)
    PROVE  Stepped(m, m2, root, depth, root1, depth1, T, t, t2)
<1>1. m1 \in Memory /\ root1[t1] = root[t]
  BY DEF Stepped
<1>2. Aside(m, m1, root, depth, root1, depth1, root[t]) /\ Aside(m1, m2, root1, depth1, root1, depth1, root[t])
  BY <1>1 DEF Stepped
<1>3. Aside(m, m2, root, depth, root1, depth1, root[t])
  BY <1>1, <1>2, AsideTwice
<1>4. \A u \in T \ {t} : u # t1
  <2>1. \A u \in T \ {t} : u \in m.heap /\ root[u] # root[t]
    BY DEF Owned
  <2>2. \A u \in T \ {t} : root1[u] = root[u]
    BY <2>1, <1>2 DEF Aside
  <2> QED BY <2>1, <2>2, <1>1
<1>5. (((T \ {t}) \union {t1}) \ {t1}) \union {t2} = (T \ {t}) \union {t2}
  BY <1>4
<1> QED BY <1>1, <1>3, <1>5 DEF Stepped

-----------------------------------------------------------------------------
(* One lemma per action.                                                   *)

(* An allocation as the stack sees it.                                     *)
LEMMA PushSound ==
    ASSUME NEW m \in Memory, NEW root, NEW depth, Ranks(root, depth), Linked(m, root, depth),
           NEW t \in m.heap, NEW A, Filled(m, root, depth, t, A), NEW T, NEW size \in Nat,
           NEW a, NEW root2, NEW depth2, Allocated(m, a, root, depth, root2, depth2, T, t, ext_size(size)),
           NEW kind \in {"frame", "co_new"}, A = << >> => size # 0,
           NEW e, e = Alloc(kind, a, size)
    PROVE  /\ Filled(a.mem, root2, depth2, a.top, Append(A, e)) /\ e \in AllocRec /\ e.kind = kind
           /\ e.frag = a.top /\ e.known = a.top /\ e.off = a.off
<1>1. PICK m2, t2 : m2 = a.mem /\ t2 = a.top
  OBVIOUS
<1>2. PICK n \in Nat : n = ext_size(size) /\ (size # 0 => n # 0)
  BY ExtSize
<1>3. /\ Placed(m, m2, root, depth, root2, depth2, t, t2)
      /\ a.off \in Nat /\ m2.sp[t2] = a.off + n
      /\ t2 = t => a.off = m.sp[t]
      /\ t2 # t => a.off = 0 /\ n # 0
  BY <1>1, <1>2 DEF Allocated
<1>4. m2 \in Memory /\ Ranks(root2, depth2) /\ Linked(m2, root2, depth2) /\ t2 \in Stacklets
  BY <1>1 DEF Allocated, Stepped
<1>5. e = [kind |-> kind, frag |-> t2, off |-> a.off, size |-> n, known |-> t2]
  BY <1>1, <1>2 DEF Alloc
<1>6. /\ e \in AllocRec /\ e.kind = kind /\ e.frag = t2 /\ e.known = t2 /\ e.off = a.off /\ e.size = n
  BY <1>3, <1>4, <1>5 DEF AllocRec
<1>7. AtEnd(m, m2, t, t2, A, e)
  BY <1>2, <1>3, <1>6 DEF AtEnd
<1>8. Filled(m2, root2, depth2, t2, Append(A, e))
  BY <1>3, <1>4, <1>7, FilledPush
<1> QED BY <1>1, <1>6, <1>8

(* What allocate() does to the stack a worker finds.                       *)
LEMMA AllocateFinds ==
    ASSUME NEW m, m = Mem, NEW root, NEW depth, NEW K, NEW k, NEW t, NEW A,
           Found(m, root, depth, K, k, t, A), NEW size \in Nat,
           NEW new \in (IF NeedsStacklet(t, size) THEN Stacklets \ heap ELSE {Null}),
           NEW a, a = allocate(t, size, new)
    PROVE  \E root2, depth2 : Allocated(m, a, root, depth, root2, depth2, Tops(K), t, ext_size(size))
<1>1. PICK T : T = Tops(K)
  OBVIOUS
<1>2. /\ m \in Memory /\ Ranks(root, depth) /\ Linked(m, root, depth) /\ Owned(m, root, depth, T)
      /\ Bounded(m, T) /\ t \in T
  BY <1>1 DEF Found
<1>3. m.heap = heap
  BY DEF Mem
<1>4. NeedsStacklet(t, size) => new \in Stacklets /\ new \notin m.heap
  BY <1>3
<1>5. \E root2, depth2 : Allocated(m, a, root, depth, root2, depth2, T, t, ext_size(size))
  BY <1>2, <1>4, AllocateSound
<1> QED BY <1>1, <1>5

(* promise_base::operator new.                                             *)
LEMMA NewFrameSound ==
    ASSUME StackInv, NEW w \in Workers, NEW size \in Sizes, NewFrame(w, size)
    PROVE  StackInv'
<1>1. PICK m, root, depth, K, fib, al, rel, t, A : Looks(m, root, depth, K, fib, al, rel, w, t, A)
  BY Look
<1>2. m = Mem /\ t = m_fib[w] /\ A = allocs[w] /\ fib = m_fib /\ al = allocs /\ al \in [Workers -> Seq(AllocRec)]
  BY <1>1 DEF Looks, Holding
<1>3. size \in Nat /\ size # 0
  BY StackAssumption DEF NewFrame
<1>4. PICK new, a :
        /\ new \in (IF NeedsStacklet(t, size) THEN Stacklets \ heap ELSE {Null})
        /\ a = allocate(t, size, new) /\ Becomes(a.mem) /\ m_fib' = [m_fib EXCEPT ![w] = a.top]
        /\ allocs' = [allocs EXCEPT ![w] = Append(@, Alloc("frame", a, size))]
        /\ released' = released /\ t # Null
  BY <1>2 DEF NewFrame, Allocate
<1>5. PICK k : k = HeldBy(fib, al, w)
  OBVIOUS
<1>6. Found(m, root, depth, K, k, t, A)
  BY <1>1, <1>4, <1>5, Finds
<1>7. PICK root2, depth2 : Allocated(m, a, root, depth, root2, depth2, Tops(K), t, ext_size(size))
  BY <1>2, <1>3, <1>4, <1>6, AllocateFinds
<1>8. PICK e : e = Alloc("frame", a, size)
  OBVIOUS
<1>9. /\ m \in Memory /\ Ranks(root, depth) /\ Linked(m, root, depth) /\ t \in m.heap
      /\ Filled(m, root, depth, t, A) /\ Known(A) /\ A \in Seq(AllocRec)
  BY <1>6 DEF Found
<1>10. /\ Filled(a.mem, root2, depth2, a.top, Append(A, e)) /\ e \in AllocRec /\ e.kind = "frame"
       /\ e.frag = a.top /\ e.known = a.top /\ e.off = a.off
  BY <1>3, <1>7, <1>8, <1>9, PushSound
<1>11. Known(Append(A, e))
  BY <1>9, <1>10, KnownNewFrame
<1>12. Stepped(m, a.mem, root, depth, root2, depth2, Tops(K), t, a.top)
  BY <1>7 DEF Allocated
<1>13. PICK B : B = Append(A, e)
  OBVIOUS
<1>14. allocs' = [allocs EXCEPT ![w] = B]
  BY <1>2, <1>4, <1>8, <1>13
<1> QED BY <1>1, <1>4, <1>10, <1>11, <1>12, <1>13, <1>14, SwapStep

(* co_new.                                                                 *)
LEMMA CoNewSound ==
    ASSUME StackInv, NEW w \in Workers, NEW size \in Sizes, CoNew(w, size)
    PROVE  StackInv'
<1>1. PICK m, root, depth, K, fib, al, rel, t, A : Looks(m, root, depth, K, fib, al, rel, w, t, A)
  BY Look
<1>2. m = Mem /\ t = m_fib[w] /\ A = allocs[w] /\ fib = m_fib /\ al = allocs /\ al \in [Workers -> Seq(AllocRec)]
  BY <1>1 DEF Looks, Holding
<1>3. size \in Nat /\ A # << >>
  BY <1>2, StackAssumption DEF CoNew
<1>4. PICK new, a :
        /\ new \in (IF NeedsStacklet(t, size) THEN Stacklets \ heap ELSE {Null})
        /\ a = allocate(t, size, new) /\ Becomes(a.mem) /\ m_fib' = [m_fib EXCEPT ![w] = a.top]
        /\ allocs' = [allocs EXCEPT ![w] = Append([@ EXCEPT ![RunningFrame(@)].known = a.top],
                                                  Alloc("co_new", a, size))]
        /\ released' = released /\ t # Null
  BY <1>2 DEF CoNew, Allocate
<1>5. PICK k : k = HeldBy(fib, al, w)
  OBVIOUS
<1>6. Found(m, root, depth, K, k, t, A)
  BY <1>1, <1>4, <1>5, Finds
<1>7. PICK root2, depth2 : Allocated(m, a, root, depth, root2, depth2, Tops(K), t, ext_size(size))
  BY <1>2, <1>3, <1>4, <1>6, AllocateFinds
<1>8. PICK e : e = Alloc("co_new", a, size)
  OBVIOUS
<1>9. /\ m \in Memory /\ Ranks(root, depth) /\ Linked(m, root, depth) /\ t \in m.heap
      /\ Filled(m, root, depth, t, A) /\ Known(A) /\ A \in Seq(AllocRec)
  BY <1>6 DEF Found
<1>10. a.top \in Stacklets /\ Stepped(m, a.mem, root, depth, root2, depth2, Tops(K), t, a.top)
  BY <1>7 DEF Allocated, Stepped
<1>11. PICK C : Notes(A, C, RunningFrame(A), a.top)
  BY DEF Notes
<1>12. SameMemory(A, C) /\ C # << >>
  <2>1. RunningFrame(A) \in 1..Len(A) /\ IsRunning(A, RunningFrame(A), Len(A))
    BY <1>3, <1>9, RunningParts
  <2>2. PICK r \in 1..Len(A) : r = RunningFrame(A)
    BY <2>1
  <2>3. /\ C \in Seq(AllocRec) /\ Len(C) = Len(A) /\ C[r].known = a.top
        /\ \A j \in 1..Len(A) : C[j].kind = A[j].kind /\ C[j].frag = A[j].frag /\ (j # r => C[j] = A[j])
        /\ SameMemory(A, C)
    BY <2>2, <1>9, <1>10, <1>11, NoteParts
  <2>4. (A = << >> <=> Len(A) = 0) /\ (C = << >> <=> Len(C) = 0)
    BY <2>3, <1>9, AllocParts
  <2> QED BY <2>3, <2>4, <1>3
<1>13. Filled(m, root, depth, t, C)
  BY <1>9, <1>12, FilledSame
<1>14. /\ Filled(a.mem, root2, depth2, a.top, Append(C, e)) /\ e \in AllocRec /\ e.kind = "co_new"
       /\ e.frag = a.top /\ e.known = a.top /\ e.off = a.off
  BY <1>3, <1>7, <1>8, <1>9, <1>12, <1>13, PushSound
<1>15. Known(Append(C, e))
  BY <1>3, <1>9, <1>10, <1>11, <1>14, KnownCoNew
<1>16. PICK B : B = Append(C, e)
  OBVIOUS
<1>17. allocs' = [allocs EXCEPT ![w] = B]
  BY <1>2, <1>4, <1>8, <1>11, <1>16 DEF Notes
<1> QED BY <1>1, <1>4, <1>10, <1>14, <1>15, <1>16, <1>17, SwapStep

(* deallocate() of the last allocation, as the stack sees it.              *)
LEMMA PopSound ==
    ASSUME NEW m \in Memory, NEW root, NEW depth, NEW T, Ranks(root, depth), Linked(m, root, depth),
           Owned(m, root, depth, T), Bounded(m, T), NEW t \in T, t \in m.heap,
           NEW A, Filled(m, root, depth, t, A), A # << >>,
           NEW d, d = deallocate(m, t, A[Len(A)].off)
    PROVE  /\ Stepped(m, d.mem, root, depth, root, depth, T, t, d.top)
           /\ Filled(d.mem, root, depth, d.top, Rest(A))
           /\ Rest(A) # << >> => A[Len(A) - 1].frag = d.top
<1>1. A \in Seq(AllocRec) /\ A[Len(A)].frag = t /\ m.sp[t] = A[Len(A)].off + A[Len(A)].size
  BY DEF Filled, TopIs
<1>2. PICK a : a = A[Len(A)]
  OBVIOUS
<1>3. a.off \in Nat /\ a.size \in Nat
  BY <1>1, <1>2, AllocParts
<1>4. a.off <= m.sp[t]
  BY <1>1, <1>2, <1>3
<1>5. PICK off \in Nat : off = a.off /\ off = A[Len(A)].off
  BY <1>2, <1>3
<1>6. PICK m2, t2 : m2 = d.mem /\ t2 = d.top
  OBVIOUS
<1>7. /\ Stepped(m, d.mem, root, depth, root, depth, T, t, d.top)
      /\ Popped(m, d.mem, root, depth, t, d.top, off)
  BY <1>4, <1>5, DeallocateSound
<1>8. m2 \in Memory /\ Popped(m, m2, root, depth, t, t2, A[Len(A)].off)
  BY <1>5, <1>6, <1>7 DEF Stepped
<1>9. /\ Filled(m2, root, depth, t2, Rest(A)) /\ root[t2] = root[t]
      /\ Rest(A) # << >> => A[Len(A) - 1].frag = t2
  BY <1>8, FilledPop
<1> QED BY <1>6, <1>7, <1>9

(* co_new that throws: everything is as before, but for what is cached.    *)
LEMMA CoNewThrowsSound ==
    ASSUME StackInv, NEW w \in Workers, NEW size \in Sizes, CoNewThrows(w, size)
    PROVE  StackInv'
<1>1. PICK m, root, depth, K, fib, al, rel, t, A : Looks(m, root, depth, K, fib, al, rel, w, t, A)
  BY Look
<1>2. m = Mem /\ t = m_fib[w] /\ A = allocs[w] /\ fib = m_fib /\ al = allocs /\ al \in [Workers -> Seq(AllocRec)]
  BY <1>1 DEF Looks, Holding
<1>3. size \in Nat /\ A # << >>
  BY <1>2, StackAssumption DEF CoNewThrows
<1>4. PICK new, a, d :
        /\ new \in (IF NeedsStacklet(t, size) THEN Stacklets \ heap ELSE {Null})
        /\ a = allocate(t, size, new) /\ d = deallocate(a.mem, a.top, a.off)
        /\ Becomes(d.mem) /\ m_fib' = [m_fib EXCEPT ![w] = d.top]
        /\ allocs' = allocs /\ released' = released /\ t # Null
  BY <1>2 DEF CoNewThrows, Allocate
<1>5. PICK k : k = HeldBy(fib, al, w)
  OBVIOUS
<1>6. Found(m, root, depth, K, k, t, A)
  BY <1>1, <1>4, <1>5, Finds
<1>7. PICK root2, depth2 : Allocated(m, a, root, depth, root2, depth2, Tops(K), t, ext_size(size))
  BY <1>2, <1>3, <1>4, <1>6, AllocateFinds
<1>8. PICK e : e = Alloc("co_new", a, size)
  OBVIOUS
<1>9. /\ m \in Memory /\ Ranks(root, depth) /\ Linked(m, root, depth) /\ t \in m.heap
      /\ Filled(m, root, depth, t, A) /\ Known(A) /\ A \in Seq(AllocRec)
      /\ Owned(m, root, depth, Tops(K)) /\ t \in Tops(K)
  BY <1>6 DEF Found
<1>10. /\ Filled(a.mem, root2, depth2, a.top, Append(A, e)) /\ e \in AllocRec /\ e.kind = "co_new"
       /\ e.frag = a.top /\ e.known = a.top /\ e.off = a.off
  BY <1>3, <1>7, <1>8, <1>9, PushSound
<1>11. PICK m1, t1, T, T1 : m1 = a.mem /\ t1 = a.top /\ T = Tops(K) /\ T1 = (T \ {t}) \union {t1}
  OBVIOUS
<1>12. Stepped(m, m1, root, depth, root2, depth2, T, t, t1)
  BY <1>7, <1>11 DEF Allocated
<1>13. /\ m1 \in Memory /\ Ranks(root2, depth2) /\ Linked(m1, root2, depth2)
       /\ Owned(m1, root2, depth2, T1) /\ Bounded(m1, T1) /\ t1 \in T1 /\ t1 \in m1.heap
  BY <1>11, <1>12 DEF Stepped, Owned
<1>14. PICK B : B = Append(A, e)
  OBVIOUS
<1>15. B # << >> /\ B[Len(B)] = e /\ Rest(B) = A
  <2>1. /\ Append(A, e) \in Seq(AllocRec) /\ Len(A) \in Nat /\ Len(Append(A, e)) = Len(A) + 1
        /\ Append(A, e)[Len(A) + 1] = e /\ Append(A, e) # << >>
        /\ \A i \in 1..Len(A) : Append(A, e)[i] = A[i]
    BY <1>9, <1>10, AppendParts
  <2>2. PICK n \in Nat : n = Len(A)
    BY <2>1
  <2>3. B \in Seq(AllocRec) /\ Len(B) = n + 1 /\ B[n + 1] = e /\ B # << >> /\ \A i \in 1..n : B[i] = A[i]
    BY <2>1, <2>2, <1>14
  <2>4. /\ Rest(B) \in Seq(AllocRec) /\ Len(B) \in Nat \ {0} /\ Len(Rest(B)) = Len(B) - 1
        /\ \A i \in 1..(Len(B) - 1) : Rest(B)[i] = B[i]
        /\ Rest(B) = << >> <=> Len(B) = 1
    BY <2>3, RestParts
  <2>5. PICK R : R = Rest(B)
    OBVIOUS
  <2>6. R \in Seq(AllocRec) /\ Len(R) = n /\ \A i \in 1..n : R[i] = A[i]
    BY <2>3, <2>4, <2>5
  <2>7. R = A
    BY <2>2, <2>6, <1>9, SeqEqual
  <2> QED BY <2>3, <2>5, <2>7
<1>16. /\ Stepped(m1, d.mem, root2, depth2, root2, depth2, T1, t1, d.top)
       /\ Filled(d.mem, root2, depth2, d.top, Rest(B))
       /\ Rest(B) # << >> => B[Len(B) - 1].frag = d.top
  <2>1. Filled(m1, root2, depth2, t1, B)
    BY <1>10, <1>11, <1>14
  <2>2. d = deallocate(m1, t1, B[Len(B)].off)
    BY <1>4, <1>10, <1>11, <1>15
  <2> QED BY <2>1, <2>2, <1>13, <1>15, PopSound
<1>17. Stepped(m, d.mem, root, depth, root2, depth2, T, t, d.top)
  <2>1. Stepped(m1, d.mem, root2, depth2, root2, depth2, (T \ {t}) \union {t1}, t1, d.top)
    BY <1>11, <1>16
  <2>2. m \in Memory /\ Owned(m, root, depth, T) /\ t \in T
    BY <1>9, <1>11
  <2> QED BY <2>1, <2>2, <1>12, SteppedTwice
<1>18. Filled(d.mem, root2, depth2, d.top, A)
  BY <1>15, <1>16
<1>19. allocs' = [allocs EXCEPT ![w] = A]
  <2>1. allocs' = allocs /\ allocs \in [Workers -> Seq(AllocRec)] /\ A = allocs[w]
    BY <1>2, <1>4
  <2> QED BY <2>1, SMTT(20)
<1>20. Stepped(m, d.mem, root, depth, root2, depth2, Tops(K), t, d.top) /\ Known(A)
  BY <1>9, <1>11, <1>17
<1>21. t # Null /\ Becomes(d.mem) /\ m_fib' = [m_fib EXCEPT ![w] = d.top] /\ released' = released
  BY <1>4
<1> QED BY <1>1, <1>18, <1>19, <1>20, <1>21, SwapStep

(* A worker with allocations has a stack.                                  *)
LEMMA HasStack ==
    ASSUME NEW w \in Workers, NEW m, NEW root, NEW depth, NEW K, NEW fib, NEW al, NEW rel, NEW t, NEW A,
           Looks(m, root, depth, K, fib, al, rel, w, t, A), A # << >>
    PROVE  t # Null
  BY DEF Looks, Holding

(* operator delete of the topmost frame.                                   *)
LEMMA EndFrameSound ==
    ASSUME StackInv, NEW w \in Workers, EndFrame(w)
    PROVE  StackInv'
<1>1. PICK m, root, depth, K, fib, al, rel, t, A : Looks(m, root, depth, K, fib, al, rel, w, t, A)
  BY Look
<1>2. m = Mem /\ t = m_fib[w] /\ A = allocs[w] /\ fib = m_fib /\ al = allocs /\ al \in [Workers -> Seq(AllocRec)]
  BY <1>1 DEF Looks, Holding
<1>3. A # << >> /\ A[Len(A)].kind = "frame"
  BY <1>2 DEF EndFrame, Pop
<1>4. PICK d : /\ d = deallocate(m, t, A[Len(A)].off)
               /\ Becomes(d.mem) /\ m_fib' = [m_fib EXCEPT ![w] = d.top]
               /\ allocs' = [allocs EXCEPT ![w] = Rest(@)] /\ released' = released
  BY <1>2 DEF EndFrame
<1>5. t # Null
  BY <1>1, <1>3, HasStack
<1>6. PICK k : k = HeldBy(fib, al, w)
  OBVIOUS
<1>7. Found(m, root, depth, K, k, t, A)
  BY <1>1, <1>5, <1>6, Finds
<1>8. PICK T : T = Tops(K)
  OBVIOUS
<1>9. /\ m \in Memory /\ Ranks(root, depth) /\ Linked(m, root, depth) /\ t \in m.heap
      /\ Filled(m, root, depth, t, A) /\ Known(A) /\ A \in Seq(AllocRec)
      /\ Owned(m, root, depth, T) /\ Bounded(m, T) /\ t \in T
  BY <1>7, <1>8 DEF Found
<1>10. /\ Stepped(m, d.mem, root, depth, root, depth, T, t, d.top)
       /\ Filled(d.mem, root, depth, d.top, Rest(A))
       /\ Rest(A) # << >> => A[Len(A) - 1].frag = d.top
  BY <1>3, <1>4, <1>9, PopSound
<1>11. Known(Rest(A))
  BY <1>3, <1>9, KnownEndFrame
<1>12. PICK B : B = Rest(A)
  OBVIOUS
<1>13. allocs' = [allocs EXCEPT ![w] = B]
  <2>1. allocs' = [allocs EXCEPT ![w] = Rest(allocs[w])]
    BY <1>4
  <2>2. Rest(allocs[w]) = B
    BY <1>2, <1>12
  <2> QED BY <2>1, <2>2
<1>14. /\ Stepped(m, d.mem, root, depth, root, depth, Tops(K), t, d.top)
       /\ Filled(d.mem, root, depth, d.top, B) /\ Known(B)
  BY <1>8, <1>10, <1>11, <1>12
<1>15. Becomes(d.mem) /\ m_fib' = [m_fib EXCEPT ![w] = d.top] /\ released' = released
  BY <1>4
<1> QED BY <1>1, <1>5, <1>13, <1>14, <1>15, SwapStep

(* ~stack_allocated().                                                     *)
LEMMA CoFreeSound ==
    ASSUME StackInv, NEW w \in Workers, CoFree(w)
    PROVE  StackInv'
<1>1. PICK m, root, depth, K, fib, al, rel, t, A : Looks(m, root, depth, K, fib, al, rel, w, t, A)
  BY Look
<1>2. m = Mem /\ t = m_fib[w] /\ A = allocs[w] /\ fib = m_fib /\ al = allocs /\ al \in [Workers -> Seq(AllocRec)]
  BY <1>1 DEF Looks, Holding
<1>3. A # << >> /\ A[Len(A)].kind = "co_new"
  BY <1>2 DEF CoFree, Pop
<1>4. PICK d : /\ d = deallocate(m, t, A[Len(A)].off)
               /\ Becomes(d.mem) /\ m_fib' = [m_fib EXCEPT ![w] = d.top]
               /\ allocs' = [allocs EXCEPT ![w] = [Rest(@) EXCEPT ![RunningFrame(@)].known = d.top]]
               /\ released' = released
  BY <1>2 DEF CoFree
<1>5. t # Null
  BY <1>1, <1>3, HasStack
<1>6. PICK k : k = HeldBy(fib, al, w)
  OBVIOUS
<1>7. Found(m, root, depth, K, k, t, A)
  BY <1>1, <1>5, <1>6, Finds
<1>8. PICK T : T = Tops(K)
  OBVIOUS
<1>9. /\ m \in Memory /\ Ranks(root, depth) /\ Linked(m, root, depth) /\ t \in m.heap
      /\ Filled(m, root, depth, t, A) /\ Known(A) /\ A \in Seq(AllocRec)
      /\ Owned(m, root, depth, T) /\ Bounded(m, T) /\ t \in T
  BY <1>7, <1>8 DEF Found
<1>10. /\ Stepped(m, d.mem, root, depth, root, depth, T, t, d.top)
       /\ Filled(d.mem, root, depth, d.top, Rest(A))
       /\ Rest(A) # << >> => A[Len(A) - 1].frag = d.top
  BY <1>3, <1>4, <1>9, PopSound
<1>11. d.top \in Stacklets
  BY <1>10 DEF Stepped
<1>12. PICK B : Notes(Rest(A), B, RunningFrame(A), d.top)
  BY DEF Notes
<1>13. Known(B) /\ SameMemory(Rest(A), B) /\ Rest(A) # << >>
  BY <1>3, <1>9, <1>10, <1>11, <1>12, KnownCoFree
<1>14. Filled(d.mem, root, depth, d.top, B)
  BY <1>10, <1>13, FilledSame
<1>15. allocs' = [allocs EXCEPT ![w] = B]
  BY <1>2, <1>4, <1>12 DEF Notes
<1>16. Stepped(m, d.mem, root, depth, root, depth, Tops(K), t, d.top) /\ Known(B)
  BY <1>8, <1>10, <1>13
<1>17. Becomes(d.mem) /\ m_fib' = [m_fib EXCEPT ![w] = d.top] /\ released' = released
  BY <1>4
<1> QED BY <1>1, <1>5, <1>14, <1>15, <1>16, <1>17, SwapStep

(* A worker without a stack starts a new one.                              *)
LEMMA StartSound ==
    ASSUME NEW w \in Workers, NEW m \in Memory, NEW root, NEW depth, NEW K, Sound(m, root, depth, K),
           NEW fib, NEW al, NEW rel, Holding(fib, al, rel), K = StacksOf(fib, al, rel), fib[w] = Null,
           NEW new \in Stacklets, new \notin m.heap,
           NEW m2, m2 = next_stacklet(m, new, InitSize, Null), Becomes(m2),
           NEW fib2, Puts(fib, fib2, w, new),
           m_fib' = fib2, allocs' = al, released' = rel
    PROVE  StackInv'
<1>1. \A l \in K : l.top # new
  <2>1. \A l \in K : l.top \in m.heap
    BY SoundParts
  <2> QED BY <2>1
<1>2. /\ Holding(fib2, al, rel) /\ StacksOf(fib2, al, rel) = K \union {HeldBy(fib2, al, w)}
      /\ al[w] = << >> /\ fib2[w] = new
  BY <1>1, NewHolder
<1>3. PICK k2 : k2 = HeldBy(fib2, al, w) /\ k2.top = fib2[w] /\ k2.allocs = al[w]
  BY HeldParts
<1>4. k2.top = new /\ k2.allocs = << >> /\ InitSize \in Nat
  BY <1>2, <1>3, StackAssumption
<1>5. PICK root2, depth2 : Sound(m2, root2, depth2, K \union {k2}) /\ m2 \in Memory
  BY <1>4, NewStackSound
<1> QED BY <1>2, <1>3, <1>5, Leaves

(* stack().                                                                *)
LEMMA ConstructSound ==
    ASSUME StackInv, NEW w \in Workers, Construct(w)
    PROVE  StackInv'
<1>1. PICK m, root, depth, K, fib, al, rel, t, A : Looks(m, root, depth, K, fib, al, rel, w, t, A)
  BY Look
<1>2. /\ m \in Memory /\ Sound(m, root, depth, K) /\ Holding(fib, al, rel) /\ K = StacksOf(fib, al, rel)
      /\ m = Mem /\ fib = m_fib /\ al = allocs /\ rel = released
  BY <1>1 DEF Looks
<1>3. PICK new \in Stacklets \ heap :
        Becomes(next_stacklet(m, new, InitSize, Null)) /\ m_fib' = [m_fib EXCEPT ![w] = new]
  BY <1>2 DEF Construct
<1>4. m_fib[w] = Null /\ allocs' = allocs /\ released' = released
  BY DEF Construct
<1>5. PICK m2 : m2 = next_stacklet(m, new, InitSize, Null)
  OBVIOUS
<1>6. PICK fib2 : Puts(fib, fib2, w, new) /\ m_fib' = fib2
  BY <1>2, <1>3 DEF Puts
<1>7. new \notin m.heap
  BY <1>2, <1>3 DEF Mem
<1> QED BY <1>2, <1>3, <1>4, <1>5, <1>6, <1>7, StartSound

(* ~stack() of a stack with nothing on it.                                 *)
LEMMA EndSound ==
    ASSUME NEW w \in Workers, NEW m, NEW root, NEW depth, NEW K, NEW fib, NEW al, NEW rel, NEW t, NEW A,
           Looks(m, root, depth, K, fib, al, rel, w, t, A), t # Null, StackEmpty(w),
           NEW m2, m2 = Destroy(m, t), NEW fib2, Puts(fib, fib2, w, Null)
    PROVE  /\ m2 \in Memory /\ Holding(fib2, al, rel) /\ Sound(m2, root, depth, StacksOf(fib2, al, rel))
           /\ A = << >> /\ fib2[w] = Null
<1>1. PICK k : k = HeldBy(fib, al, w)
  OBVIOUS
<1>2. Found(m, root, depth, K, k, t, A)
  BY <1>1, Finds
<1>3. /\ m \in Memory /\ Ranks(root, depth) /\ Linked(m, root, depth) /\ t \in m.heap
      /\ Filled(m, root, depth, t, A) /\ Sound(m, root, depth, K) /\ k \in K /\ k.top = t
  BY <1>2 DEF Found
<1>4. m = Mem /\ fib = m_fib /\ t = fib[w] /\ A = al[w] /\ Holding(fib, al, rel) /\ K = StacksOf(fib, al, rel)
  BY DEF Looks
<1>5. m.sp[t] = 0 /\ m.prev[t] = Null
  BY <1>4 DEF StackEmpty, is_empty, Mem
<1>6. A = << >>
  BY <1>3, <1>5, EmptyMeansNothing
<1>7. Sound(m2, root, depth, K \ {k}) /\ m2 \in Memory
  BY <1>3, <1>5, DropSound
<1>8. fib[w] # Null /\ al[w] = << >>
  BY <1>4, <1>6
<1>9. /\ Holding(fib2, al, rel)
      /\ StacksOf(fib2, al, rel) = K \ {HeldBy(fib, al, w)}
  BY <1>4, <1>8, NoHolder
<1>10. fib2[w] = Null
  BY <1>4 DEF Puts, Holding
<1> QED BY <1>1, <1>6, <1>7, <1>9, <1>10

(* ~stack().                                                               *)
LEMMA DestructSound ==
    ASSUME StackInv, NEW w \in Workers, Destruct(w)
    PROVE  StackInv'
<1>1. PICK m, root, depth, K, fib, al, rel, t, A : Looks(m, root, depth, K, fib, al, rel, w, t, A)
  BY Look
<1>2. m = Mem /\ fib = m_fib /\ t = fib[w] /\ al = allocs /\ rel = released
  BY <1>1 DEF Looks
<1>3. /\ t # Null /\ StackEmpty(w) /\ Becomes(Destroy(m, t)) /\ m_fib' = [m_fib EXCEPT ![w] = Null]
      /\ allocs' = allocs /\ released' = released
  BY <1>2 DEF Destruct
<1>4. PICK m2, fib2 : m2 = Destroy(m, t) /\ Puts(fib, fib2, w, Null) /\ fib2 = m_fib'
  BY <1>2, <1>3 DEF Puts
<1>5. /\ m2 \in Memory /\ Holding(fib2, al, rel) /\ Sound(m2, root, depth, StacksOf(fib2, al, rel))
      /\ A = << >> /\ fib2[w] = Null
  <2>1. t # Null /\ StackEmpty(w) /\ m2 = Destroy(m, t) /\ Puts(fib, fib2, w, Null)
    BY <1>3, <1>4
  <2> QED BY <2>1, <1>1, EndSound
<1>6. PICK K2 : K2 = StacksOf(fib2, al, rel)
  OBVIOUS
<1> QED BY <1>2, <1>3, <1>4, <1>5, <1>6, Leaves

(* release(): what the topmost frame knows is the top.                     *)
LEMMA ReleaseSound ==
    ASSUME StackInv, NEW w \in Workers, Release(w)
    PROVE  StackInv'
<1>1. PICK m, root, depth, K, fib, al, rel, t, A : Looks(m, root, depth, K, fib, al, rel, w, t, A)
  BY Look
<1>2. /\ m \in Memory /\ Sound(m, root, depth, K) /\ Holding(fib, al, rel) /\ K = StacksOf(fib, al, rel)
      /\ m = Mem /\ fib = m_fib /\ al = allocs /\ rel = released /\ t = fib[w] /\ A = al[w]
  BY <1>1 DEF Looks
<1>3. PICK new \in Stacklets \ heap :
        Becomes(next_stacklet(m, new, InitSize, Null)) /\ m_fib' = [m_fib EXCEPT ![w] = new]
  BY <1>2 DEF Release
<1>4. /\ A # << >> /\ released' = released \union {[top |-> A[RunningFrame(A)].known, allocs |-> A]}
      /\ allocs' = [allocs EXCEPT ![w] = << >>]
  BY <1>2 DEF Release
<1>5. t # Null
  BY <1>1, <1>4, HasStack
<1>6. PICK k : k = HeldBy(fib, al, w)
  OBVIOUS
<1>7. Found(m, root, depth, K, k, t, A)
  BY <1>1, <1>5, <1>6, Finds
<1>8. A[RunningFrame(A)].known = t
  <2>1. A \in Seq(AllocRec) /\ Known(A) /\ Filled(m, root, depth, t, A)
    BY <1>7 DEF Found
  <2>2. A[RunningFrame(A)].known = A[Len(A)].frag
    BY <2>1, <1>4, RunningKnows
  <2>3. A[Len(A)].frag = t
    BY <2>1, <1>4 DEF Filled, TopIs
  <2> QED BY <2>2, <2>3
<1>9. PICK rel2 : rel2 = rel \union {HeldBy(fib, al, w)} /\ rel2 = released'
  BY <1>2, <1>4, <1>8 DEF HeldBy
<1>10. PICK fib1, al2 : Puts(fib, fib1, w, Null) /\ Puts(al, al2, w, << >>) /\ al2 = allocs'
  BY <1>2, <1>4 DEF Puts
<1>11. Holding(fib1, al2, rel2) /\ StacksOf(fib1, al2, rel2) = K /\ fib1[w] = Null
  <2>1. fib[w] # Null
    BY <1>2, <1>5
  <2>2. /\ Holding(fib1, al2, rel2) /\ StacksOf(fib1, al2, rel2) = StacksOf(fib, al, rel)
        /\ fib1[w] = Null
    BY <2>1, <1>2, <1>9, <1>10, ReleaseHolder
  <2> QED BY <2>2, <1>2
<1>12. PICK fib2 : Puts(fib1, fib2, w, new) /\ m_fib' = fib2
  <2>1. PICK fib2 : fib2 = [fib1 EXCEPT ![w] = new]
    OBVIOUS
  <2>2. fib \in [Workers -> MaybeStacklets]
    BY <1>2 DEF Holding
  <2>3. fib1 \in [Workers -> MaybeStacklets] /\ \A v \in Workers : v # w => fib1[v] = fib[v]
    BY <2>2, <1>10 DEF Puts, MaybeStacklets
  <2>4. fib2 = [fib EXCEPT ![w] = new]
    BY <2>1, <2>2, <2>3
  <2> QED BY <2>1, <2>4, <1>2, <1>3 DEF Puts
<1>13. PICK m2 : m2 = next_stacklet(m, new, InitSize, Null)
  OBVIOUS
<1>14. new \notin m.heap
  BY <1>2, <1>3 DEF Mem
<1> QED BY <1>2, <1>3, <1>9, <1>10, <1>11, <1>12, <1>13, <1>14, StartSound

(* *stack = stack{frame->stacklet()}.                                      *)
LEMMA ContinueSound ==
    ASSUME StackInv, NEW w \in Workers, NEW r \in released, Continue(w, r)
    PROVE  StackInv'
<1>1. PICK m, root, depth, K, fib, al, rel, t, A : Looks(m, root, depth, K, fib, al, rel, w, t, A)
  BY Look
<1>2. m = Mem /\ fib = m_fib /\ t = fib[w] /\ al = allocs /\ rel = released /\ fib \in [Workers -> MaybeStacklets]
  BY <1>1 DEF Looks, Holding
<1>3. /\ t # Null /\ StackEmpty(w) /\ Becomes(Destroy(m, t)) /\ m_fib' = [m_fib EXCEPT ![w] = r.top]
      /\ allocs' = [allocs EXCEPT ![w] = r.allocs] /\ released' = released \ {r}
  BY <1>2 DEF Continue
<1>4. PICK m2, fib1 : m2 = Destroy(m, t) /\ Puts(fib, fib1, w, Null)
  BY DEF Puts
<1>5. /\ m2 \in Memory /\ Holding(fib1, al, rel) /\ Sound(m2, root, depth, StacksOf(fib1, al, rel))
      /\ A = << >> /\ fib1[w] = Null
  BY <1>1, <1>3, <1>4, EndSound
<1>6. PICK fib2 : Puts(fib1, fib2, w, r.top) /\ m_fib' = fib2
  <2>1. PICK fib2 : fib2 = [fib1 EXCEPT ![w] = r.top]
    OBVIOUS
  <2>2. fib1 \in [Workers -> MaybeStacklets] /\ \A v \in Workers : v # w => fib1[v] = fib[v]
    BY <1>2, <1>4 DEF Puts, MaybeStacklets
  <2>3. fib2 = [fib EXCEPT ![w] = r.top]
    BY <2>1, <2>2, <1>2
  <2> QED BY <2>1, <2>3, <1>2, <1>3 DEF Puts
<1>7. PICK al2, rel2 : Puts(al, al2, w, r.allocs) /\ al2 = allocs' /\ rel2 = rel \ {r} /\ rel2 = released'
  BY <1>2, <1>3 DEF Puts
<1>8. Holding(fib2, al2, rel2) /\ StacksOf(fib2, al2, rel2) = StacksOf(fib1, al, rel)
  BY <1>2, <1>5, <1>6, <1>7, ContinueHolder
<1>9. PICK K2 : K2 = StacksOf(fib2, al2, rel2)
  OBVIOUS
<1> QED BY <1>3, <1>4, <1>5, <1>6, <1>7, <1>8, <1>9, Leaves

-----------------------------------------------------------------------------
(* The invariant.                                                          *)

(* In the beginning there is no stack.                                     *)
LEMMA StackInvInit == Init => StackInv
<1> SUFFICES ASSUME Init PROVE StackInv
  OBVIOUS
<1>1. HeapTypes
  <2>1. /\ heap \in SUBSET Stacklets /\ m_sp \in [Stacklets -> Nat] /\ m_hi \in [Stacklets -> Nat]
        /\ m_prev \in [Stacklets -> MaybeStacklets] /\ m_next \in [Stacklets -> MaybeStacklets]
    BY DEF Init, MaybeStacklets
  <2> QED BY <2>1 DEF HeapTypes, Mem, Memory
<1>2. Holding(m_fib, allocs, released)
  <2>1. << >> \in Seq(AllocRec)
    OBVIOUS
  <2>2. m_fib \in [Workers -> MaybeStacklets] /\ allocs \in [Workers -> Seq(AllocRec)] /\ released = {}
    BY <2>1 DEF Init, MaybeStacklets
  <2>3. \A w \in Workers : m_fib[w] = Null /\ allocs[w] = << >>
    BY DEF Init
  <2> QED BY <2>2, <2>3 DEF Holding
<1>3. Stacks = {}
  <2>1. \A w \in Workers : m_fib[w] = Null
    BY DEF Init
  <2>2. {v \in Workers : m_fib[v] # Null} = {}
    BY <2>1
  <2> QED BY <2>2 DEF Stacks, Init
<1>4. PICK m : m = Mem /\ m.heap = {}
  <2>1. Mem.heap = {}
    BY DEF Mem, Init
  <2> QED BY <2>1
<1>5. PICK root, depth : Ranks(root, depth)
  <2>1. PICK root : root = [s \in Stacklets |-> s]
    OBVIOUS
  <2>2. PICK depth : depth = [s \in Stacklets |-> 0]
    OBVIOUS
  <2>3. root \in [Stacklets -> Stacklets] /\ depth \in [Stacklets -> Nat]
    BY <2>1, <2>2
  <2> QED BY <2>3 DEF Ranks
<1>6. Linked(m, root, depth) /\ Tops({}) = {} /\ Owned(m, root, depth, {}) /\ Bounded(m, {})
  BY <1>4 DEF Linked, Tops, Owned, Bounded
<1>7. Sound(m, root, depth, {})
  BY <1>5, <1>6 DEF Sound
<1> QED BY <1>1, <1>2, <1>3, <1>4, <1>7 DEF StackInv

(* Every step keeps the invariant.                                         *)
LEMMA StackInvStep == StackInv /\ [Next]_vars => StackInv'
<1> SUFFICES ASSUME StackInv, [Next]_vars PROVE StackInv'
  OBVIOUS
<1>1. CASE UNCHANGED vars
  <2>1. /\ heap' = heap /\ m_sp' = m_sp /\ m_hi' = m_hi /\ m_prev' = m_prev /\ m_next' = m_next
        /\ m_fib' = m_fib /\ allocs' = allocs /\ released' = released
    BY <1>1, Zenon DEF vars, links
  <2>2. Mem' = Mem /\ Stacks' = Stacks
    <3>1. Mem' = Mem
      BY <2>1 DEF Mem
    <3>2. Stacks' = Stacks
      BY <2>1, StacksAre
    <3> QED BY <3>1, <3>2
  <2>3. HeapTypes' /\ Holding(m_fib', allocs', released')
    BY <2>1, <2>2 DEF StackInv, HeapTypes
  <2>4. \E r, d : Sound(Mem', r, d, Stacks')
    BY <2>2 DEF StackInv
  <2> QED BY <2>3, <2>4 DEF StackInv
<1>2. CASE Next
  <2>1. PICK w \in Workers :
          \/ Construct(w) \/ Destruct(w)
          \/ \E size \in Sizes : NewFrame(w, size) \/ CoNew(w, size) \/ CoNewThrows(w, size)
          \/ EndFrame(w) \/ CoFree(w)
          \/ Release(w)
          \/ \E r \in released : Continue(w, r)
    BY <1>2, Zenon DEF Next
  <2>2. CASE Construct(w)
    BY <2>2, ConstructSound
  <2>3. CASE Destruct(w)
    BY <2>3, DestructSound
  <2>4. ASSUME NEW size \in Sizes, NewFrame(w, size) PROVE StackInv'
    BY <2>4, NewFrameSound
  <2>5. ASSUME NEW size \in Sizes, CoNew(w, size) PROVE StackInv'
    BY <2>5, CoNewSound
  <2>6. ASSUME NEW size \in Sizes, CoNewThrows(w, size) PROVE StackInv'
    BY <2>6, CoNewThrowsSound
  <2>7. CASE EndFrame(w)
    BY <2>7, EndFrameSound
  <2>8. CASE CoFree(w)
    BY <2>8, CoFreeSound
  <2>9. CASE Release(w)
    BY <2>9, ReleaseSound
  <2>10. ASSUME NEW r \in released, Continue(w, r) PROVE StackInv'
    BY <2>10, ContinueSound
  <2> QED BY <2>1, <2>2, <2>3, <2>4, <2>5, <2>6, <2>7, <2>8, <2>9, <2>10, Zenon
<1> QED BY <1>1, <1>2

(* The segmented stacks stay sound, whatever the workers do.               *)
THEOREM StacksStaySound == Spec => []StackInv
  BY StackInvInit, StackInvStep, PTL DEF Spec

-----------------------------------------------------------------------------
(* Chain() gives the stacklets of a stack, without the cached one.         *)

(* The stacklets from the root up to t.                                    *)
Lower(m, root, depth, t) == {s \in m.heap : root[s] = root[t] /\ depth[s] <= depth[t]}

(* There is one at each depth.                                             *)
LEMMA AtEachDepth ==
    ASSUME NEW m \in Memory, NEW root, NEW depth, Ranks(root, depth), Linked(m, root, depth),
           NEW t \in m.heap, NEW d \in 0..depth[t]
    PROVE  \E s \in m.heap : root[s] = root[t] /\ depth[s] = d
<1>1. m.heap \subseteq Stacklets /\ \A s \in m.heap : depth[s] \in Nat
  <2>1. m.heap \subseteq Stacklets
    BY MemoryParts
  <2> QED BY <2>1 DEF Ranks
<1> DEFINE Has(k) == k <= depth[t] => \E s \in m.heap : root[s] = root[t] /\ depth[s] = depth[t] - k
           S == {k \in Nat : Has(k)}
<1>2. 0 \in S
  BY <1>1
<1>3. ASSUME NEW k \in Nat, k \in S PROVE k + 1 \in S
  <2> SUFFICES ASSUME k + 1 <= depth[t]
               PROVE  \E s \in m.heap : root[s] = root[t] /\ depth[s] = depth[t] - (k + 1)
    OBVIOUS
  <2>1. PICK s \in m.heap : root[s] = root[t] /\ depth[s] = depth[t] - k
    BY <1>1, <1>3
  <2>2. m.prev[s] # Null
    BY <2>1, <1>1 DEF Linked
  <2>3. m.prev[s] \in m.heap /\ root[m.prev[s]] = root[s] /\ depth[s] = depth[m.prev[s]] + 1
    BY <2>2 DEF Linked
  <2>4. PICK p \in m.heap : p = m.prev[s]
    BY <2>3
  <2>5. root[p] = root[t] /\ depth[p] = depth[t] - (k + 1)
    BY <2>1, <2>3, <2>4, <1>1
  <2> QED BY <2>5
<1>4. \A k \in Nat : k \in S
  <2> HIDE DEF S
  <2> QED BY <1>2, <1>3, SetInduction
<1>5. depth[t] - d \in Nat /\ depth[t] - d <= depth[t] /\ depth[t] - (depth[t] - d) = d
  BY <1>1
<1>6. Has(depth[t] - d)
  BY <1>4, <1>5
<1> QED BY <1>5, <1>6

(* So a stack is not higher than there are stacklets.                      *)
LEMMA DepthIsBounded ==
    ASSUME NEW m \in Memory, NEW root, NEW depth, Ranks(root, depth), Linked(m, root, depth),
           NEW t \in m.heap
    PROVE  Cardinality(Stacklets) \in Nat /\ depth[t] \in Nat /\ depth[t] <= Cardinality(Stacklets)
<1>1. m.heap \subseteq Stacklets
  BY MemoryParts
<1>2. PICK n \in Nat : n = depth[t]
  BY <1>1 DEF Ranks
<1>3. IsFiniteSet(Stacklets)
  BY StackAssumption
<1>4. Cardinality(Stacklets) \in Nat
  BY <1>3, FS_CardinalityType
<1> DEFINE at(d) == CHOOSE s \in m.heap : root[s] = root[t] /\ depth[s] = d
<1>5. \A d \in 0..n : at(d) \in m.heap /\ depth[at(d)] = d
  BY <1>2, AtEachDepth
<1> HIDE DEF at
<1>6. PICK F : F = [d \in 0..n |-> at(d)]
  OBVIOUS
<1>7. F \in [0..n -> Stacklets] /\ \A d \in 0..n : depth[F[d]] = d
  BY <1>1, <1>5, <1>6
<1>8. \A a, b \in 0..n : F[a] = F[b] => a = b
  BY <1>7
<1>9. F \in Injection(0..n, Stacklets)
  BY <1>7, <1>8, Fun_IsInj
<1>10. Cardinality(0..n) <= Cardinality(Stacklets)
  BY <1>3, <1>9, FS_Injection
<1>11. Cardinality(0..n) = n + 1
  BY FS_Interval
<1> QED BY <1>2, <1>4, <1>10, <1>11

(* One step of Chain(), and all of them.                                   *)
Below(prev, X) == X \union {prev[c] : c \in X \ {Null}}
Unfolds(f, C, prev, s) == f = [n \in 0..C |-> IF n = 0 THEN {s} ELSE Below(prev, f[n - 1])]

(* The recursive function of Chain() exists.                               *)
LEMMA ChainUnfolds ==
    ASSUME NEW s \in Stacklets, m_prev \in [Stacklets -> MaybeStacklets], Cardinality(Stacklets) \in Nat
    PROVE  \E f : Unfolds(f, Cardinality(Stacklets), m_prev, s) /\ Chain(s) = f[Cardinality(Stacklets)] \ {Null}
<1>1. PICK C \in Nat : C = Cardinality(Stacklets)
  OBVIOUS
<1> DEFINE D == SUBSET MaybeStacklets
           G == [X \in D |-> Below(m_prev, X)]
<1>2. MapsInto(G, D)
  <2>1. \A X \in D : Below(m_prev, X) \in D
    BY DEF Below, MaybeStacklets
  <2> QED BY <2>1 DEF MapsInto
<1>3. {s} \in D
  BY DEF MaybeStacklets
<1>4. PICK it : IsIteration(it, D, {s}, G)
  <2> HIDE DEF D, G
  <2> QED BY <1>2, <1>3, Iterates
<1>5. PICK g : g = [n \in 0..C |-> it[n]]
  OBVIOUS
<1>6. ASSUME NEW n \in 0..C PROVE g[n] = IF n = 0 THEN {s} ELSE Below(m_prev, g[n - 1])
  <2>1. CASE n = 0
    <3>1. it[0] = {s}
      BY <1>4 DEF IsIteration
    <3> QED BY <2>1, <3>1, <1>5
  <2>2. CASE n # 0
    <3>1. n - 1 \in Nat /\ n - 1 \in 0..C /\ (n - 1) + 1 = n
      BY <2>2
    <3>2. g[n] = it[n] /\ g[n - 1] = it[n - 1]
      BY <1>5, <3>1
    <3>3. it[n] = G[it[n - 1]] /\ it[n - 1] \in D
      <4> HIDE DEF D, G
      <4> QED BY <1>4, <3>1 DEF IsIteration
    <3>4. g[n] = Below(m_prev, g[n - 1])
      <4> HIDE DEF D
      <4> QED BY <3>2, <3>3
    <3> QED BY <2>2, <3>4
  <2> QED BY <2>1, <2>2
<1>7. Unfolds(g, C, m_prev, s)
  BY <1>5, <1>6 DEF Unfolds
<1>8. PICK f : f = CHOOSE h : Unfolds(h, C, m_prev, s)
  OBVIOUS
<1>9. Unfolds(f, C, m_prev, s)
  BY <1>7, <1>8
<1>10. Chain(s) = f[C] \ {Null}
  BY <1>1, <1>8 DEF Chain, Unfolds, Below
<1> QED BY <1>1, <1>9, <1>10

(* What it gives.                                                          *)
LEMMA UnfoldsLower ==
    ASSUME NEW m \in Memory, NEW root, NEW depth, Ranks(root, depth), Linked(m, root, depth),
           NEW t \in m.heap, NEW C \in Nat, depth[t] <= C, NEW f, Unfolds(f, C, m.prev, t)
    PROVE  f[C] \ {Null} = Lower(m, root, depth, t)
<1>1. m.heap \subseteq Stacklets /\ t # Null /\ Null \notin m.heap
  BY MemoryParts, StackAssumption
<1>2. \A s \in m.heap : depth[s] \in Nat
  BY <1>1 DEF Ranks
<1>3. f[0] = {t} /\ \A n \in Nat : n + 1 <= C => f[n + 1] = Below(m.prev, f[n])
  <2>1. f = [n \in 0..C |-> IF n = 0 THEN {t} ELSE Below(m.prev, f[n - 1])]
    BY DEF Unfolds
  <2>2. \A n \in 0..C : f[n] = IF n = 0 THEN {t} ELSE Below(m.prev, f[n - 1])
    BY <2>1, Zenon
  <2>3. f[0] = {t}
    BY <2>2
  <2>4. ASSUME NEW n \in Nat, n + 1 <= C PROVE f[n + 1] = Below(m.prev, f[n])
    <3>1. n + 1 \in 0..C /\ n + 1 # 0 /\ (n + 1) - 1 = n
      BY <2>4
    <3> QED BY <2>2, <3>1
  <2> QED BY <2>3, <2>4
<1> DEFINE L(n) == {s \in Lower(m, root, depth, t) : depth[t] <= depth[s] + n}
           S == {n \in Nat : n <= C => f[n] \ {Null} = L(n)}
<1>4. 0 \in S
  <2>1. \A s \in L(0) : s = t
    <3> SUFFICES ASSUME NEW s \in L(0) PROVE s = t
      OBVIOUS
    <3>1. s \in m.heap /\ root[s] = root[t] /\ depth[s] = depth[t]
      BY <1>2 DEF Lower
    <3> QED BY <3>1 DEF Linked
  <2>2. t \in L(0)
    BY <1>2 DEF Lower
  <2>3. L(0) = {t}
    BY <2>1, <2>2
  <2> QED BY <2>3, <1>1, <1>3
<1>5. ASSUME NEW n \in Nat, n \in S PROVE n + 1 \in S
  <2> SUFFICES ASSUME n + 1 <= C PROVE f[n + 1] \ {Null} = L(n + 1)
    OBVIOUS
  <2>1. f[n] \ {Null} = L(n)
    BY <1>5
  <2>2. f[n + 1] = f[n] \union {m.prev[c] : c \in L(n)}
    BY <2>1, <1>3 DEF Below
  <2> HIDE DEF S
  <2>3. ASSUME NEW x \in f[n + 1] \ {Null} PROVE x \in L(n + 1)
    <3>1. CASE x \in f[n]
      BY <3>1, <2>1, <2>3, <1>2 DEF Lower
    <3>2. CASE x \notin f[n]
      <4>1. PICK c \in L(n) : x = m.prev[c]
        BY <3>2, <2>2, <2>3
      <4>2. c \in m.heap /\ root[c] = root[t] /\ depth[c] <= depth[t] /\ depth[t] <= depth[c] + n
        BY <4>1 DEF Lower
      <4>3. x \in m.heap /\ root[x] = root[c] /\ depth[c] = depth[x] + 1
        BY <4>1, <4>2, <2>3 DEF Linked
      <4> QED BY <4>2, <4>3, <1>2 DEF Lower
    <3> QED BY <3>1, <3>2
  <2>4. ASSUME NEW x \in L(n + 1) PROVE x \in f[n + 1] \ {Null}
    <3>1. x \in m.heap /\ root[x] = root[t] /\ depth[x] <= depth[t] /\ depth[t] <= depth[x] + (n + 1)
      BY DEF Lower
    <3>2. CASE x \in L(n)
      BY <3>2, <2>1, <2>2
    <3>3. CASE x \notin L(n)
      <4>1. depth[t] = depth[x] + (n + 1) /\ depth[x] + 1 \in 0..depth[t]
        BY <3>1, <3>3, <1>2 DEF Lower
      <4>2. PICK c \in m.heap : root[c] = root[t] /\ depth[c] = depth[x] + 1
        BY <4>1, AtEachDepth
      <4>3. c \in L(n)
        BY <4>1, <4>2, <3>1, <1>2 DEF Lower
      <4>4. m.prev[c] # Null
        BY <4>2, <3>1, <1>2 DEF Linked
      <4>5. m.prev[c] \in m.heap /\ root[m.prev[c]] = root[c] /\ depth[c] = depth[m.prev[c]] + 1
        BY <4>4 DEF Linked
      <4>6. root[m.prev[c]] = root[x] /\ depth[m.prev[c]] = depth[x]
        BY <4>2, <4>5, <3>1, <1>2
      <4>7. x = m.prev[c]
        BY <4>5, <4>6, <3>1 DEF Linked
      <4> QED BY <4>3, <4>7, <2>2, <3>1, <1>1
    <3> QED BY <3>2, <3>3
  <2> QED BY <2>3, <2>4
<1>6. C \in S
  <2>1. \A n \in Nat : n \in S
    <3> HIDE DEF S
    <3> QED BY <1>4, <1>5, SetInduction
  <2> QED BY <2>1
<1>7. \A s \in Lower(m, root, depth, t) : depth[t] <= depth[s] + C
  BY <1>2 DEF Lower
<1> QED BY <1>6, <1>7

(* The chain of a stack.                                                   *)
LEMMA ChainIs ==
    ASSUME NEW m \in Memory, m = Mem, NEW root, NEW depth, Ranks(root, depth), Linked(m, root, depth),
           NEW t \in m.heap
    PROVE  Chain(t) = Lower(m, root, depth, t)
<1>1. m.prev = m_prev
  BY DEF Mem
<1>2. t \in Stacklets /\ m_prev \in [Stacklets -> MaybeStacklets]
  BY <1>1, MemoryParts
<1>3. PICK C : C = Cardinality(Stacklets) /\ C \in Nat /\ depth[t] <= C
  BY DepthIsBounded
<1>4. PICK f : Unfolds(f, C, m_prev, t) /\ Chain(t) = f[C] \ {Null}
  BY <1>2, <1>3, ChainUnfolds
<1>5. f[C] \ {Null} = Lower(m, root, depth, t)
  BY <1>1, <1>3, <1>4, UnfoldsLower
<1> QED BY <1>4, <1>5

-----------------------------------------------------------------------------
(* What the invariant says of the properties that are checked.             *)

(* Every stack is sound, in the same view.                                 *)
LEMMA SeesAll ==
    ASSUME StackInv, NEW m, m = Mem, NEW K, K = Stacks
    PROVE  \E root, depth : Sound(m, root, depth, K) /\ m \in Memory
                            /\ \A k \in K : Found(m, root, depth, K, k, k.top, k.allocs)
<1>1. m \in Memory
  BY DEF StackInv, HeapTypes
<1>2. PICK root, depth : Sound(m, root, depth, K)
  BY DEF StackInv
<1>3. ASSUME NEW k \in K PROVE Found(m, root, depth, K, k, k.top, k.allocs)
  <2>1. /\ Ranks(root, depth) /\ Linked(m, root, depth) /\ Owned(m, root, depth, Tops(K))
        /\ Bounded(m, Tops(K)) /\ k.top \in Tops(K) /\ k.top \in m.heap /\ k.top \in Stacklets
        /\ Filled(m, root, depth, k.top, k.allocs) /\ Known(k.allocs) /\ k.allocs \in Seq(AllocRec)
        /\ \A l \in K \ {k} : l.top # k.top /\ root[l.top] # root[k.top]
    BY <1>1, <1>2, SoundParts
  <2> QED BY <2>1, <1>1, <1>2 DEF Found
<1> QED BY <1>1, <1>2, <1>3

(* What the running frame of a stack notes is the last entry's stacklet,   *)
(* and that is the top.                                                    *)
LEMMA ImpliesFrameKnowsTop ==
    ASSUME StackInv
    PROVE  FrameKnowsTop
<1>1. PICK m, K : m = Mem /\ K = Stacks
  OBVIOUS
<1>2. PICK root, depth : Sound(m, root, depth, K) /\ m \in Memory
                         /\ \A k \in K : Found(m, root, depth, K, k, k.top, k.allocs)
  BY <1>1, SeesAll
<1>3. ASSUME NEW k \in K, k.allocs # << >> PROVE k.allocs[RunningFrame(k.allocs)].known = k.top
  <2>1. PICK A, t : A = k.allocs /\ t = k.top
    OBVIOUS
  <2>2. A \in Seq(AllocRec) /\ Known(A) /\ A # << >> /\ Filled(m, root, depth, t, A)
    BY <2>1, <1>2, <1>3 DEF Found
  <2>3. A[RunningFrame(A)].known = A[Len(A)].frag
    BY <2>2, RunningKnows
  <2>4. A[Len(A)].frag = t
    BY <2>2 DEF Filled, TopIs
  <2> QED BY <2>1, <2>3, <2>4
<1> QED BY <1>1, <1>3 DEF FrameKnowsTop

(* The bound on the cached stacklet is part of the invariant.              *)
LEMMA ImpliesCacheIsBounded ==
    ASSUME StackInv
    PROVE  CacheIsBounded
<1>1. PICK m, K : m = Mem /\ K = Stacks
  OBVIOUS
<1>2. PICK root, depth : Sound(m, root, depth, K) /\ m \in Memory
                         /\ \A k \in K : Found(m, root, depth, K, k, k.top, k.allocs)
  BY <1>1, SeesAll
<1>3. ASSUME NEW k \in K, NEW s \in Cache(k.top) PROVE m_hi[s] <= 8 * m_hi[k.top]
  <2>1. PICK t : t = k.top /\ t \in Tops(K) /\ Bounded(m, Tops(K))
    BY <1>2 DEF Found
  <2>2. m.next[t] # Null /\ s = m.next[t]
    BY <2>1, <1>1, <1>3 DEF Cache, Mem
  <2>3. m.hi[s] <= 8 * m.hi[t]
    BY <2>1, <2>2 DEF Bounded
  <2> QED BY <2>1, <2>3, <1>1 DEF Mem
<1> QED BY <1>1, <1>3 DEF CacheIsBounded

(* A stack has every stacklet with its root.                               *)
LEMMA StackHasAll ==
    ASSUME NEW m, m = Mem, NEW root, NEW depth, NEW K, NEW k, NEW t, NEW A,
           Found(m, root, depth, K, k, t, A)
    PROVE  Chain(t) \union Cache(t) = {s \in m.heap : root[s] = root[t]}
<1>1. /\ m \in Memory /\ Ranks(root, depth) /\ Linked(m, root, depth) /\ Owned(m, root, depth, Tops(K))
      /\ t \in Tops(K) /\ t \in m.heap
  BY DEF Found
<1>2. Chain(t) = Lower(m, root, depth, t)
  BY <1>1, ChainIs
<1>3. Cache(t) = {m.next[t]} \ {Null}
  BY DEF Cache, Mem
<1>4. m.heap \subseteq Stacklets /\ \A s \in m.heap : depth[s] \in Nat
  <2>1. m.heap \subseteq Stacklets
    BY <1>1, MemoryParts
  <2> QED BY <2>1, <1>1 DEF Ranks
<1>5. ASSUME NEW s \in Chain(t) \union Cache(t) PROVE s \in m.heap /\ root[s] = root[t]
  <2>1. CASE s \in Chain(t)
    BY <2>1, <1>2 DEF Lower
  <2>2. CASE s \in Cache(t)
    <3>1. s = m.next[t] /\ s # Null
      BY <2>2, <1>3
    <3>2. s \in m.heap /\ m.prev[s] = t
      BY <3>1, <1>1 DEF Linked
    <3>3. t # Null
      BY <1>1, <1>4, StackAssumption
    <3>4. root[m.prev[s]] = root[s]
      BY <3>2, <3>3, <1>1 DEF Linked
    <3> QED BY <3>2, <3>4
  <2> QED BY <2>1, <2>2
<1>6. ASSUME NEW s \in m.heap, root[s] = root[t] PROVE s \in Chain(t) \union Cache(t)
  <2>1. PICK u \in Tops(K) : root[s] = root[u] /\ depth[s] <= depth[u] + 1
    BY <1>1 DEF Owned
  <2>2. u = t
    BY <2>1, <1>1, <1>6 DEF Owned
  <2>3. CASE depth[s] <= depth[t]
    BY <2>3, <1>2, <1>6 DEF Lower
  <2>4. CASE ~(depth[s] <= depth[t])
    <3>1. depth[s] = depth[t] + 1
      BY <2>1, <2>2, <2>4, <1>1, <1>4
    <3>2. m.prev[s] # Null
      BY <3>1, <1>1, <1>4 DEF Linked
    <3>3. /\ m.prev[s] \in m.heap /\ m.next[m.prev[s]] = s /\ root[m.prev[s]] = root[s]
          /\ depth[s] = depth[m.prev[s]] + 1
      BY <3>2, <1>1 DEF Linked
    <3>4. depth[m.prev[s]] = depth[t] /\ root[m.prev[s]] = root[t]
      BY <3>1, <3>3, <1>1, <1>4, <1>6
    <3>5. m.prev[s] = t
      BY <3>3, <3>4, <1>1 DEF Linked
    <3>6. s # Null
      BY <1>4, StackAssumption
    <3> QED BY <3>3, <3>5, <3>6, <1>3
  <2> QED BY <2>3, <2>4
<1> QED BY <1>5, <1>6

(* So no two stacks share one, and there are no others.                    *)
LEMMA ImpliesStackletsHaveOneOwner ==
    ASSUME StackInv
    PROVE  StackletsHaveOneOwner
<1>1. PICK m, K : m = Mem /\ K = Stacks
  OBVIOUS
<1>2. PICK root, depth : Sound(m, root, depth, K) /\ m \in Memory
                         /\ \A k \in K : Found(m, root, depth, K, k, k.top, k.allocs)
  BY <1>1, SeesAll
<1>3. m.heap = heap /\ m.prev = m_prev /\ m.next = m_next /\ m.sp = m_sp
  BY <1>1 DEF Mem
<1>4. Linked(m, root, depth) /\ Owned(m, root, depth, Tops(K)) /\ \A k \in K : k.top \in Tops(K) /\ k.top \in m.heap
  BY <1>2 DEF Sound, Found
<1>5. \A k \in K : Chain(k.top) \union Cache(k.top) = {s \in m.heap : root[s] = root[k.top]}
  <2> SUFFICES ASSUME NEW k \in K PROVE Chain(k.top) \union Cache(k.top) = {s \in m.heap : root[s] = root[k.top]}
    OBVIOUS
  <2>1. Found(m, root, depth, K, k, k.top, k.allocs)
    BY <1>2
  <2> QED BY <2>1, <1>1, StackHasAll
<1>6. heap = UNION {Chain(k.top) \union Cache(k.top) : k \in K}
  <2>1. ASSUME NEW s \in heap PROVE \E k \in K : s \in Chain(k.top) \union Cache(k.top)
    <3>1. PICK u \in Tops(K) : root[s] = root[u]
      BY <1>3, <1>4 DEF Owned
    <3>2. PICK k \in K : u = k.top
      BY <3>1 DEF Tops
    <3> QED BY <3>1, <3>2, <1>3, <1>5
  <2>2. ASSUME NEW k \in K, NEW s \in Chain(k.top) \union Cache(k.top) PROVE s \in heap
    BY <2>2, <1>3, <1>5
  <2> QED BY <2>1, <2>2
<1>7. ASSUME NEW k \in K, NEW l \in K, k # l
      PROVE  (Chain(k.top) \union Cache(k.top)) \intersect (Chain(l.top) \union Cache(l.top)) = {}
  <2>1. root[k.top] # root[l.top]
    <3>1. k.top # l.top
      BY <1>2, <1>7 DEF Sound
    <3> QED BY <3>1, <1>4 DEF Owned
  <2> QED BY <2>1, <1>5
<1>8. ASSUME NEW k \in K
      PROVE  /\ is_top(k.top)
             /\ \A s \in Chain(k.top) : m_prev[s] # Null => m_next[m_prev[s]] = s
             /\ \A s \in Cache(k.top) : m_prev[s] = k.top
  <2>1. is_top(k.top)
    BY <1>3, <1>4 DEF is_top, is_empty, Owned
  <2>2. ASSUME NEW s \in Chain(k.top), m_prev[s] # Null PROVE m_next[m_prev[s]] = s
    <3>1. s \in m.heap
      BY <1>5
    <3> QED BY <3>1, <2>2, <1>3, <1>4 DEF Linked
  <2>3. ASSUME NEW s \in Cache(k.top) PROVE m_prev[s] = k.top
    <3>1. s = m.next[k.top] /\ m.next[k.top] # Null
      BY <1>3 DEF Cache
    <3> QED BY <3>1, <1>3, <1>4 DEF Linked
  <2> QED BY <2>1, <2>2, <2>3
<1> QED BY <1>1, <1>6, <1>7, <1>8 DEF StackletsHaveOneOwner

(* LastAllocationIsOnTop of one stack, in parts.                           *)
Inside(A, s) == {i \in DOMAIN A : A[i].frag = s}
Later(A, s, i) == {j \in Inside(A, s) : j > i}
Least(T) == CHOOSE j \in T : \A l \in T : j <= l
EndsBelow(A, s, i) ==
    A[i].off + A[i].size <= IF Later(A, s, i) = {} THEN m_sp[s] ELSE A[Least(Later(A, s, i))].off
OnTop(t, A) ==
    /\ A = <<>> => m_sp[t] = 0 /\ m_prev[t] = Null
    /\ A # <<>> => A[Len(A)].frag = t
    /\ \A i \in DOMAIN A : A[i].frag \in Chain(t)
    /\ \A s \in Chain(t) :
         /\ m_sp[s] <= m_hi[s]
         /\ Inside(A, s) = {} => m_sp[s] = 0
         /\ \A i \in Inside(A, s) : EndsBelow(A, s, i)

(* These are the parts.                                                    *)
LEMMA OnTopIs ==
    ASSUME \A k \in Stacks : OnTop(k.top, k.allocs)
    PROVE  LastAllocationIsOnTop
  BY Zenon DEF LastAllocationIsOnTop, OnTop, EndsBelow, Least, Later, Inside

(* CHOOSE finds the least of some numbers.                                 *)
LEMMA LeastIs ==
    ASSUME NEW T, T \subseteq Nat, T # {}
    PROVE  Least(T) \in T
<1>1. \E j \in T : \A l \in T : j <= l
  BY NatMin
<1> QED BY <1>1 DEF Least

(* What lies in a stacklet is in order and below its stack pointer.        *)
LEMMA ImpliesLastAllocationIsOnTop ==
    ASSUME StackInv
    PROVE  LastAllocationIsOnTop
<1>1. PICK m, K : m = Mem /\ K = Stacks
  OBVIOUS
<1>2. PICK root, depth : Sound(m, root, depth, K) /\ m \in Memory
                         /\ \A k \in K : Found(m, root, depth, K, k, k.top, k.allocs)
  BY <1>1, SeesAll
<1>3. m.prev = m_prev /\ m.sp = m_sp /\ m.hi = m_hi
  BY <1>1 DEF Mem
<1>4. ASSUME NEW k \in K, NEW t, t = k.top, NEW A, A = k.allocs
      PROVE  OnTop(t, A)
  <2>1. /\ Ranks(root, depth) /\ Linked(m, root, depth) /\ t \in m.heap
        /\ Filled(m, root, depth, t, A) /\ A \in Seq(AllocRec)
    BY <1>2, <1>4 DEF Found
  <2>2. PICK n \in Nat : n = Len(A) /\ DOMAIN A = 1..n
    BY <2>1, LenProperties
  <2>3. Chain(t) = Lower(m, root, depth, t)
    BY <2>1, <1>1, <1>2, ChainIs
  <2>4. A = <<>> => m_sp[t] = 0 /\ m_prev[t] = Null
    BY <2>1, <1>3 DEF Filled, TopIs
  <2>5. A # <<>> => A[Len(A)].frag = t
    BY <2>1 DEF Filled, TopIs
  <2>6. \A i \in 1..n : A[i].frag \in Chain(t) /\ A[i].off + A[i].size <= m_sp[A[i].frag]
    BY <2>1, <2>2, <2>3, <1>3 DEF Filled, Within, Lower
  <2>7. ASSUME NEW s \in Chain(t) PROVE m_sp[s] <= m_hi[s]
    <3>1. s \in m.heap
      BY <2>3 DEF Lower
    <3> QED BY <3>1, <2>1, <1>3 DEF Linked
  <2>8. ASSUME NEW s \in Chain(t), Inside(A, s) = {} PROVE m_sp[s] = 0
    <3>1. s \in m.heap /\ root[s] = root[t] /\ depth[s] <= depth[t]
      BY <2>3 DEF Lower
    <3> QED BY <3>1, <2>1, <2>2, <2>8, <1>3 DEF Filled, Tight, Inside
  <2>9. ASSUME NEW s \in Chain(t), NEW i \in Inside(A, s) PROVE EndsBelow(A, s, i)
    <3>1. i \in 1..n /\ A[i].frag = s
      BY <2>2 DEF Inside
    <3>2. CASE Later(A, s, i) = {}
      BY <3>1, <3>2, <2>6 DEF EndsBelow
    <3>3. CASE Later(A, s, i) # {}
      <4>1. Later(A, s, i) \subseteq Nat
        BY <2>2 DEF Later, Inside
      <4>2. PICK j : j = Least(Later(A, s, i)) /\ j \in Later(A, s, i)
        BY <4>1, <3>3, LeastIs
      <4>3. j \in 1..n /\ i < j /\ A[i].frag = A[j].frag
        BY <4>2, <3>1, <2>2 DEF Later, Inside
      <4>4. A[i].off + A[i].size <= A[j].off
        BY <4>3, <3>1, <2>1, <2>2 DEF Filled, Ordered
      <4> QED BY <4>2, <4>4, <3>3 DEF EndsBelow
    <3> QED BY <3>2, <3>3
  <2> QED BY <2>2, <2>4, <2>5, <2>6, <2>7, <2>8, <2>9 DEF OnTop
<1> QED BY <1>1, <1>4, OnTopIs

-----------------------------------------------------------------------------
(* The theorems.                                                           *)

(* Nothing leaks and nothing is used after free: at any time every         *)
(* stacklet that is malloc'ed belongs to exactly one stack.                *)
THEOREM StackletsAreOwned == Spec => []StackletsHaveOneOwner
  BY StacksStaySound, ImpliesStackletsHaveOneOwner, PTL

(* deallocate() may set the top's stack pointer: the last allocation is    *)
(* there. Live allocations fit and do not overlap.                         *)
THEOREM LastIsOnTop == Spec => []LastAllocationIsOnTop
  BY StacksStaySound, ImpliesLastAllocationIsOnTop, PTL

(* A suspended frame finds its whole stack through its m_stacklet.         *)
THEOREM FramesKnowTheirTop == Spec => []FrameKnowsTop
  BY StacksStaySound, ImpliesFrameKnowsTop, PTL

(* The guard against over-caching works.                                   *)
THEOREM CachesAreBounded == Spec => []CacheIsBounded
  BY StacksStaySound, ImpliesCacheIsBounded, PTL
=============================================================================

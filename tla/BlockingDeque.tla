---------------------------- MODULE BlockingDeque ----------------------------
(***************************************************************************)
(* The lock based deque blocking_deque of core/ext/deque_blocking.hpp.     *)
(*                                                                         *)
(* One spin lock, m_flag, guards the ring buffer and its two indices.  The *)
(* owner waits for the lock, a thief only tries it.  Both first look at    *)
(* the indices without the lock, with relaxed loads.  What runs under the  *)
(* lock is one step, the release of the lock is the next one: between them *)
(* the unlocked looks of the others already see the new indices.           *)
(***************************************************************************)
EXTENDS Integers, FiniteSets

CONSTANTS
    Thieves,      \* the threads that call steal()
    Owner,        \* the thread that calls push() and pop()
    Free,         \* m_flag = 0
    Capacity,     \* the initial capacity
    MaxPush,      \* bound: the number of push() calls of a behaviour
    MaxStale,     \* bound: how many looks without the lock see old values
    AllocFails    \* the allocation in resize() may throw

ASSUME BlockingAssumption ==
    /\ Owner \notin Thieves
    /\ Free \notin Thieves \union {Owner}
    /\ Capacity \in Nat \ {0} /\ MaxPush \in Nat /\ MaxStale \in Nat
    /\ AllocFails \in BOOLEAN

VARIABLES
    flag,        \* m_flag: who holds the lock
    top,         \* m_top
    bottom,      \* m_bottom
    buf,         \* m_buf, a sequence of slots numbered from 0
    opc,         \* what the owner does next
    tpc,         \* what each thief does next
    stale,       \* number of looks so far that saw old values
    pushed,      \* number of items pushed; the n-th push carries n
    delivered,   \* how often each item was returned
    popped       \* what the last pop() returned

indices == <<top, bottom, buf>>
ghosts == <<pushed, delivered, popped>>
vars == <<flag, indices, opc, tpc, stale, ghosts>>

Empty == 0
Garbage == -1
Items == 1..MaxPush
Values == Items \union {Garbage}

(* atomic_ring_buf: capacity(), load(), store(), resize()                  *)
Cap == Cardinality(DOMAIN buf)
Load(i) == buf[i % Cap]
Store(b, i, v) == [b EXCEPT ![i % Cardinality(DOMAIN b)] = v]

(* MUTANT of Resize: copies slot by slot instead of index by index.        *)
BugResizeBySlot == [s \in 0..(2 * Cap - 1) |-> IF s < Cap THEN buf[s] ELSE Garbage]

Resize ==
    [s \in 0..(2 * Cap - 1) |->
        IF \E i \in top..(bottom - 1) : i % (2 * Cap) = s
        THEN Load(CHOOSE i \in top..(bottom - 1) : i % (2 * Cap) = s)
        ELSE Garbage]

Full == Cap < (bottom - top) + 1

(* empty_relaxed() returns false: there is something, or one of the two    *)
(* loads returned an old value                                             *)
LooksFilled ==
    \/ top < bottom /\ UNCHANGED stale
    \/ top >= bottom /\ stale < MaxStale /\ stale' = stale + 1

Deliver(v) == delivered' = [delivered EXCEPT ![v] = @ + 1]

-----------------------------------------------------------------------------
(* push() goes for the lock; pop() does if it believes there is something  *)
PushCall ==
    /\ opc = "idle"
    /\ pushed < MaxPush
    /\ opc' = "push_lock"
    /\ UNCHANGED <<stale, flag, indices, tpc, ghosts>>

PopCall ==
    /\ opc = "idle"
    /\ LooksFilled
    /\ opc' = "pop_lock"
    /\ UNCHANGED <<flag, indices, tpc, ghosts>>

(* The owner knows m_bottom and no m_top it reads is ahead of the real     *)
(* one: it believes the deque empty only if it is.                         *)
PopLooksEmpty ==
    /\ opc = "idle"
    /\ top >= bottom
    /\ popped' = Empty
    /\ UNCHANGED <<stale, flag, indices, opc, tpc, pushed, delivered>>

(* lock(); while the flag is taken the loop changes nothing                *)
Lock ==
    /\ opc \in {"push_lock", "pop_lock"}
    /\ flag = Free
    /\ flag' = Owner
    /\ opc' = IF opc = "push_lock" THEN "push" ELSE "pop"
    /\ UNCHANGED <<stale, indices, tpc, ghosts>>

Push ==
    /\ opc = "push"
    /\ buf' = Store(IF Full THEN Resize ELSE buf, bottom, pushed + 1)
    /\ bottom' = bottom + 1
    /\ pushed' = pushed + 1
    /\ opc' = "unlock"
    /\ UNCHANGED <<stale, flag, top, tpc, delivered, popped>>

(* resize() or emplace_back() throws: the exception leaves push()          *)
PushThrows ==
    /\ opc = "push"
    /\ Full /\ AllocFails
    /\ opc' = "idle"
    /\ UNCHANGED <<stale, flag, indices, tpc, ghosts>>

Pop ==
    /\ opc = "pop"
    /\ \/ /\ top <= bottom - 1
          /\ bottom' = bottom - 1
          /\ popped' = Load(bottom - 1)
          /\ Deliver(Load(bottom - 1))
       \/ /\ top > bottom - 1
          /\ popped' = Empty
          /\ UNCHANGED <<bottom, delivered>>
    /\ opc' = "unlock"
    /\ UNCHANGED <<stale, flag, top, buf, tpc, pushed>>

Unlock ==
    /\ opc = "unlock"
    /\ flag' = Free
    /\ opc' = "idle"
    /\ UNCHANGED <<stale, indices, tpc, ghosts>>

-----------------------------------------------------------------------------
(* MUTANT of StealCheck: goes for the lock without looking.                *)
BugStealUnchecked(t) ==
    /\ tpc[t] = "idle"
    /\ tpc' = [tpc EXCEPT ![t] = "try_lock"]
    /\ UNCHANGED <<stale, flag, indices, opc, ghosts>>

(* steal(): otherwise err::empty at once                                   *)
StealCheck(t) ==
    /\ tpc[t] = "idle"
    /\ LooksFilled
    /\ tpc' = [tpc EXCEPT ![t] = "try_lock"]
    /\ UNCHANGED <<flag, indices, opc, ghosts>>

(* MUTANT of TryLock: a load and a store instead of a compare-exchange.    *)
BugTryLockUnchecked(t) ==
    /\ tpc[t] = "try_lock"
    /\ flag' = t
    /\ tpc' = [tpc EXCEPT ![t] = "steal"]
    /\ UNCHANGED <<stale, indices, opc, ghosts>>

TryLock(t) ==
    /\ tpc[t] = "try_lock"
    /\ \/ /\ flag = Free
          /\ flag' = t
          /\ tpc' = [tpc EXCEPT ![t] = "steal"]
       \/ /\ flag # Free                                         \* err::lost
          /\ tpc' = [tpc EXCEPT ![t] = "idle"]
          /\ UNCHANGED flag
    /\ UNCHANGED <<stale, indices, opc, ghosts>>

(* the oldest item, or err::empty                                          *)
Steal(t) ==
    /\ tpc[t] = "steal"
    /\ \/ /\ top < bottom
          /\ Deliver(Load(top))
          /\ top' = top + 1
       \/ /\ top >= bottom
          /\ UNCHANGED <<top, delivered>>
    /\ tpc' = [tpc EXCEPT ![t] = "unlock"]
    /\ UNCHANGED <<stale, flag, bottom, buf, opc, pushed, popped>>

StealUnlock(t) ==
    /\ tpc[t] = "unlock"
    /\ flag' = Free
    /\ tpc' = [tpc EXCEPT ![t] = "idle"]
    /\ UNCHANGED <<stale, indices, opc, ghosts>>

-----------------------------------------------------------------------------
Init ==
    /\ flag = Free
    /\ top = 0 /\ bottom = 0
    /\ buf = [s \in 0..(Capacity - 1) |-> Garbage]
    /\ opc = "idle"
    /\ tpc = [t \in Thieves |-> "idle"]
    /\ stale = 0
    /\ pushed = 0
    /\ delivered = [v \in Values |-> 0]
    /\ popped = Empty

(* the steps that end a call of the owner, or of a thief                   *)
OwnerStep == Lock \/ Push \/ PushThrows \/ Pop \/ Unlock
ThiefStep(t) == TryLock(t) \/ Steal(t) \/ StealUnlock(t)

Next ==
    \/ PushCall \/ PopCall \/ PopLooksEmpty \/ OwnerStep
    \/ \E t \in Thieves : StealCheck(t) \/ ThiefStep(t)

Spec == Init /\ [][Next]_vars

(* Every thread is scheduled again and again until its call returns; lock  *)
(* and try_lock promise nothing about who gets the flag.                   *)
Fairness ==
    /\ WF_vars(OwnerStep)
    /\ \A t \in Thieves : WF_vars(ThiefStep(t))

FairSpec == Spec /\ Fairness

-----------------------------------------------------------------------------
Content == [k \in 1..(bottom - top) |-> Load(top + k - 1)]

OwnerInside == {"push", "pop", "unlock"}
ThiefInside == {"steal", "unlock"}

(* the threads between their lock() or try_lock() and their unlock()       *)
Inside == {x \in {Owner} : opc \in OwnerInside} \union {t \in Thieves : tpc[t] \in ThiefInside}

(* push, pop and steal never run their locked part at the same time, also  *)
(* after a push() that left with an exception.                             *)
LockExcludes == \A x, y \in Inside : x = y

(* The owner's push or pop returns although it spins on a lock that        *)
(* thieves keep taking (they look first and soon find nothing to steal),   *)
(* unless an earlier push() threw and left the lock taken.                 *)
OwnerWaitsOnlyAfterThrow ==
    (opc # "idle") ~> (opc = "idle" \/ (flag = Owner /\ Owner \notin Inside))

(* The lock based deque implements the abstract one.                       *)
WD == INSTANCE WorkDeque WITH
        items <- Content,
        taken <- [v \in {u \in Values : delivered[u] > 0} |-> delivered[v]]

ImplementsWorkDeque == WD!Spec
=============================================================================

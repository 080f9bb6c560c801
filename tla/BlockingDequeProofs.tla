------------------------- MODULE BlockingDequeProofs -------------------------
(***************************************************************************)
(* Proofs about BlockingDeque, for every number of thieves, every initial  *)
(* capacity and every number of pushes: the spin lock keeps the locked     *)
(* parts of push, pop and steal apart, and the deque implements WorkDeque, *)
(* through every growth of the ring buffer.                                *)
(***************************************************************************)
EXTENDS BlockingDeque, Lemmas, FiniteSetTheorems, TLAPS

(* m_flag names the thread that is inside.  It may name the owner when     *)
(* nobody is, after a push() that threw, so this is not an equivalence.    *)
LockInv ==
    /\ flag \in Thieves \union {Owner, Free}
    /\ opc \in {"idle", "push_lock", "pop_lock"} \union OwnerInside
    /\ tpc \in [Thieves -> {"idle", "try_lock"} \union ThiefInside]
    /\ \A x \in Inside : flag = x

(* A new deque's lock is free and nobody is inside a call.                 *)
LEMMA LockInit == Init => LockInv
BY BlockingAssumption DEF Init, LockInv, Inside, OwnerInside, ThiefInside

(* No step of push, pop or steal disturbs the lock of another thread.      *)
LEMMA LockStep == LockInv /\ [Next]_vars => LockInv'
<1> SUFFICES ASSUME LockInv, [Next]_vars PROVE LockInv'
  OBVIOUS
<1> USE BlockingAssumption DEF LockInv, Inside, OwnerInside, ThiefInside
<1>1. CASE PushCall
  BY <1>1 DEF PushCall
<1>2. CASE PopCall
  BY <1>2 DEF PopCall
<1>3. CASE PopLooksEmpty
  BY <1>3 DEF PopLooksEmpty
<1>4. CASE Lock
  BY <1>4 DEF Lock
<1>5. CASE Push
  BY <1>5 DEF Push
<1>6. CASE PushThrows
  BY <1>6 DEF PushThrows
<1>7. CASE Pop
  BY <1>7 DEF Pop
<1>8. CASE Unlock
  BY <1>8 DEF Unlock
<1>9. ASSUME NEW t \in Thieves, StealCheck(t) PROVE LockInv'
  BY <1>9 DEF StealCheck
<1>10. ASSUME NEW t \in Thieves, TryLock(t) PROVE LockInv'
  BY <1>10 DEF TryLock
<1>11. ASSUME NEW t \in Thieves, Steal(t) PROVE LockInv'
  BY <1>11 DEF Steal
<1>12. ASSUME NEW t \in Thieves, StealUnlock(t) PROVE LockInv'
  BY <1>12 DEF StealUnlock
<1>13. CASE UNCHANGED vars
  BY <1>13 DEF vars
<1> QED
  BY <1>1, <1>2, <1>3, <1>4, <1>5, <1>6, <1>7, <1>8, <1>9, <1>10, <1>11, <1>12, <1>13
     DEF Next, OwnerStep, ThiefStep

(* At most one thread is between its lock and its unlock, whoever competes *)
(* for m_flag and whatever push() throws.                                  *)
THEOREM MutualExclusion == Spec => []LockExcludes
<1>1. LockInv => LockExcludes
  BY DEF LockInv, LockExcludes
<1> QED
  BY LockInit, LockStep, <1>1, PTL DEF Spec
-----------------------------------------------------------------------------
(* The ring buffer holds the items from top to bottom - 1, at most as many *)
(* as it has slots; a push() that has started has an item to push.         *)
RingInv ==
    /\ top \in Nat /\ bottom \in Nat /\ top <= bottom
    /\ Cap \in Nat \ {0} /\ buf \in [0..(Cap - 1) -> Values]
    /\ bottom - top <= Cap
    /\ pushed \in Nat
    /\ opc \in {"push_lock", "push"} => pushed < MaxPush
    /\ delivered \in [Values -> Nat]

(* The capacity is the number of slots.                                    *)
LEMMA CapacityOf ==
    ASSUME NEW c \in Nat \ {0}, NEW b, DOMAIN b = 0..(c - 1)
    PROVE  Cardinality(DOMAIN b) = c
BY FS_Interval

(* A new ring satisfies the invariant.                                     *)
LEMMA RingInit == Init => RingInv
<1> SUFFICES ASSUME Init PROVE RingInv
  OBVIOUS
<1>1. Cap = Capacity
  BY CapacityOf, BlockingAssumption DEF Init, Cap
<1> QED BY <1>1, BlockingAssumption DEF Init, RingInv, Values

(* Every slot holds an item or the garbage of a fresh ring.                *)
LEMMA LoadValue ==
    ASSUME RingInv, NEW i \in Nat
    PROVE  Load(i) \in Values
<1>1. i % Cap \in 0..(Cap - 1)
  BY DivMod DEF RingInv
<1> QED BY <1>1 DEF RingInv, Load

(* resize() keeps every item at its index, though not in its slot.         *)
LEMMA ResizeKeepsItems ==
    ASSUME RingInv
    PROVE  /\ Resize \in [0..(2 * Cap - 1) -> Values]
           /\ \A i \in top..(bottom - 1) : Resize[i % (2 * Cap)] = Load(i)
<1> DEFINE c == 2 * Cap
           In(s) == {i \in top..(bottom - 1) : i % c = s}
<1>1. c \in Nat \ {0} /\ Cap \in Nat \ {0} /\ top \in Nat /\ bottom \in Nat /\ bottom - top <= Cap
  BY DEF RingInv
<1>2. ASSUME NEW s \in 0..(c - 1), \E i \in top..(bottom - 1) : i % c = s
      PROVE  Load(CHOOSE i \in top..(bottom - 1) : i % c = s) \in Values
  <2> DEFINE j == CHOOSE i \in top..(bottom - 1) : i % c = s
  <2>1. j \in top..(bottom - 1)
    BY <1>2
  <2> HIDE DEF j
  <2>2. Load(j) \in Values
    BY <1>1, <2>1, LoadValue
  <2> QED BY <2>2 DEF j
<1>3. Resize \in [0..(c - 1) -> Values]
  BY <1>2 DEF Resize, Values
<1>4. ASSUME NEW i \in top..(bottom - 1)
      PROVE  Resize[i % c] = Load(i)
  <2> DEFINE j == CHOOSE k \in top..(bottom - 1) : k % c = i % c
  <2>1. j \in top..(bottom - 1) /\ j % c = i % c
    OBVIOUS
  <2> HIDE DEF j
  <2>2. /\ i \in Int /\ j \in Int
        /\ i < j => j < i + c
        /\ j < i => i < j + c
        /\ ~(i < j) /\ ~(j < i) => i = j
    BY <1>1, <2>1
  <2> HIDE DEF c
  <2>3. ~(i < j) /\ ~(j < i)
    BY <1>1, <2>1, <2>2, SlotsDiffer, Zenon
  <2>4. j = i
    BY <2>2, <2>3
  <2> USE DEF c
  <2>5. i % c \in 0..(c - 1)
    BY <1>1, DivMod
  <2>6. Resize[i % c] = Load(j)
    BY <2>5 DEF Resize, j
  <2> QED BY <2>4, <2>6
<1> QED BY <1>3, <1>4

(* What push() does to the ring: every item stays, the new one is added    *)
(* behind the last, and the ring is not overfull.                          *)
LEMMA PushExtends ==
    ASSUME RingInv, Push
    PROVE  /\ pushed + 1 \in Values
           /\ Cap' \in Nat \ {0} /\ buf' \in [0..(Cap' - 1) -> Values]
           /\ bottom + 1 - top <= Cap'
           /\ \A i \in top..(bottom - 1) : buf'[i % Cap'] = Load(i)
           /\ buf'[bottom % Cap'] = pushed + 1
<1> DEFINE c == IF Full THEN 2 * Cap ELSE Cap
           b == IF Full THEN Resize ELSE buf
<1>1. Cap \in Nat \ {0} /\ top \in Nat /\ bottom \in Nat /\ top <= bottom /\ bottom - top <= Cap
  BY DEF RingInv
<1>2. c \in Nat \ {0} /\ bottom + 1 - top <= c
  BY <1>1 DEF Full
<1>3. b \in [0..(c - 1) -> Values] /\ \A i \in top..(bottom - 1) : b[i % c] = Load(i)
  <2>1. CASE Full
    BY <2>1, ResizeKeepsItems
  <2>2. CASE ~Full
    BY <2>2 DEF RingInv, Load
  <2> QED BY <2>1, <2>2
<1>4. pushed + 1 \in Values
  BY BlockingAssumption DEF Push, RingInv, Values, Items
<1>5. buf' = Store(b, bottom, pushed + 1)
  BY DEF Push
<1> HIDE DEF b, c
<1>6. Cardinality(DOMAIN b) = c
  BY <1>2, <1>3, CapacityOf
<1>7. buf' = [b EXCEPT ![bottom % c] = pushed + 1]
  BY <1>5, <1>6 DEF Store
<1>8. bottom % c \in 0..(c - 1)
  BY <1>1, <1>2, DivMod
<1>9. buf' \in [0..(c - 1) -> Values] /\ buf'[bottom % c] = pushed + 1
  BY <1>3, <1>4, <1>7, <1>8
<1>10. Cap' = c
  <2>1. DOMAIN buf' = 0..(c - 1)
    BY <1>9
  <2>2. Cardinality(DOMAIN buf') = c
    BY <1>2, <2>1, CapacityOf
  <2> QED BY <2>2 DEF Cap
<1>11. ASSUME NEW i \in top..(bottom - 1)
       PROVE  buf'[i % c] = Load(i)
  <2>1. i % c # bottom % c
    <3>1. i \in Int /\ bottom \in Int /\ i < bottom /\ bottom < i + c
      BY <1>1, <1>2
    <3> QED BY <1>2, <3>1, SlotsDiffer, Zenon
  <2>2. i % c \in 0..(c - 1)
    BY <1>1, <1>2, DivMod
  <2> QED BY <1>3, <1>7, <2>1, <2>2
<1> QED BY <1>2, <1>4, <1>9, <1>10, <1>11

(* push(), pop() and steal() keep the ring.                                *)
LEMMA RingStep == RingInv /\ [Next]_vars => RingInv'
<1> SUFFICES ASSUME RingInv, [Next]_vars PROVE RingInv'
  OBVIOUS
<1>1. CASE Push
  BY <1>1, PushExtends DEF Push, RingInv
<1>2. CASE Pop
  <2>1. top <= bottom - 1 => bottom - 1 \in Nat /\ Load(bottom - 1) \in Values
    BY LoadValue DEF RingInv
  <2> QED BY <1>2, <2>1 DEF Pop, Deliver, RingInv, Cap
<1>3. ASSUME NEW t \in Thieves, Steal(t) PROVE RingInv'
  <2>1. Load(top) \in Values
    BY LoadValue DEF RingInv
  <2> QED BY <1>3, <2>1 DEF Steal, Deliver, RingInv, Cap
<1>4. CASE PushCall \/ PopCall \/ PopLooksEmpty \/ Lock \/ PushThrows \/ Unlock
  BY <1>4 DEF PushCall, PopCall, PopLooksEmpty, Lock, PushThrows, Unlock, RingInv, Cap,
     indices, ghosts
<1>5. ASSUME NEW t \in Thieves, StealCheck(t) \/ TryLock(t) \/ StealUnlock(t) PROVE RingInv'
  BY <1>5 DEF StealCheck, TryLock, StealUnlock, RingInv, Cap, indices, ghosts
<1>6. CASE UNCHANGED vars
  BY <1>6 DEF vars, RingInv, Cap, indices, ghosts
<1> QED BY <1>1, <1>2, <1>3, <1>4, <1>5, <1>6 DEF Next, OwnerStep, ThiefStep

-----------------------------------------------------------------------------
(* The refinement mapping, step by step.                                   *)
Taken == [v \in {u \in Values : delivered[u] > 0} |-> delivered[v]]

ContentOK == Content \in [1..(bottom - top) -> Values] /\ bottom - top \in Nat

(* The content is a sequence as long as bottom is ahead of top.            *)
LEMMA ContentType == RingInv => ContentOK
<1> SUFFICES ASSUME RingInv PROVE ContentOK
  OBVIOUS
<1>1. bottom - top \in Nat /\ top \in Nat
  BY DEF RingInv
<1>2. \A k \in 1..(bottom - top) : top + k - 1 \in Nat
  BY <1>1
<1>3. \A k \in 1..(bottom - top) : Load(top + k - 1) \in Values
  BY <1>2, LoadValue
<1> QED BY <1>1, <1>3 DEF ContentOK, Content

(* The same after a step.                                                  *)
LEMMA ContentTypeNext == RingInv' => ContentOK'
BY ContentType, PTL

(* Deliver() puts one more copy of the item in the bag of taken ones.      *)
LEMMA DeliverAddsToBag ==
    ASSUME RingInv, NEW v \in Values, Deliver(v)
    PROVE  Taken' = WD!(+)(Taken, WD!SetToBag({v}))
<1> DEFINE S == {u \in Values : delivered[u] > 0}
<1>1. /\ delivered \in [Values -> Nat]
      /\ delivered' = [delivered EXCEPT ![v] = @ + 1]
  BY DEF RingInv, Deliver
<1>2. {u \in Values : delivered'[u] > 0} = S \cup {v}
  BY <1>1
<1>3. WD!SetToBag({v}) = [e \in {v} |-> 1]
  BY DEF WD!SetToBag
<1>4. WD!(+)(Taken, WD!SetToBag({v})) =
        [e \in S \cup {v} |-> (IF e \in S THEN delivered[e] ELSE 0)
                              + (IF e \in {v} THEN 1 ELSE 0)]
  BY <1>3 DEF WD!(+), Taken
<1>5. \A e \in S \cup {v} : delivered'[e] = (IF e \in S THEN delivered[e] ELSE 0)
                                           + (IF e \in {v} THEN 1 ELSE 0)
  BY <1>1
<1>6. Taken' = [e \in S \cup {v} |-> delivered'[e]]
  BY <1>2 DEF Taken
<1> HIDE DEF S
<1> QED BY <1>4, <1>5, <1>6

(* push() is the abstract push.                                            *)
LEMMA PushRefines ==
    ASSUME RingInv, RingInv', Push
    PROVE  WD!Push
<1> DEFINE n == bottom - top
<1>1. n \in Nat /\ Content \in [1..n -> Values] /\ bottom' - top' = n + 1
      /\ Content' \in [1..(n + 1) -> Values]
  <2>1. Content' \in [1..(bottom' - top') -> Values]
    BY ContentTypeNext DEF ContentOK
  <2>2. bottom' - top' = n + 1
    BY DEF Push, RingInv
  <2> QED BY <2>1, <2>2, ContentType DEF ContentOK
<1>2. \A k \in 1..(n + 1) : Content'[k] = buf'[(top + k - 1) % Cap']
  BY <1>1 DEF Content, Load, Push
<1>3. \A k \in 1..n : top + k - 1 \in top..(bottom - 1)
  BY DEF RingInv
<1>4. \A k \in 1..n : Content'[k] = Content[k]
  <2> TAKE k \in 1..n
  <2>1. Content[k] = Load(top + k - 1)
    BY DEF Content
  <2>2. k \in 1..(n + 1)
    BY <1>1
  <2> QED BY <1>2, <1>3, <2>1, <2>2, PushExtends
<1>5. Content'[n + 1] = pushed + 1
  <2>1. top + (n + 1) - 1 = bottom
    BY DEF RingInv
  <2>2. Content'[n + 1] = buf'[bottom % Cap']
    BY <1>1, <1>2, <2>1
  <2> QED BY <2>2, PushExtends
<1>6. Content' = Append(Content, pushed + 1)
  BY <1>1, <1>4, <1>5, AppendShape, PushExtends
<1> QED BY <1>6 DEF WD!Push, Push

(* pop() is the abstract pop.                                              *)
LEMMA PopRefines ==
    ASSUME RingInv, RingInv', Pop
    PROVE  WD!Pop \/ WD!PopEmpty
<1> DEFINE n == bottom - top
<1>1. n \in Nat /\ Content \in [1..n -> Values]
  BY ContentType DEF ContentOK
<1>2. CASE top <= bottom - 1
  <2>1. n \in Nat \ {0} /\ bottom' - top' = n - 1
    <3>1. top \in Nat /\ bottom \in Nat
      BY DEF RingInv
    <3>2. bottom' = bottom - 1 /\ top' = top
      BY <1>2, <3>1 DEF Pop
    <3> QED BY <1>2, <3>1, <3>2
  <2>2. Content' \in [1..(n - 1) -> Values]
    BY <2>1, ContentTypeNext DEF ContentOK
  <2>3. \A k \in 1..(n - 1) : Content'[k] = Content[k]
    BY <1>1, <2>1, <1>2 DEF Content, Load, Cap, Pop
  <2>4. Content' = SubSeq(Content, 1, n - 1) /\ Len(Content) = n /\ Content # <<>>
    BY <1>1, <2>1, <2>2, <2>3, FrontShape
  <2>5. Content[n] = Load(bottom - 1)
    <3>1. top + n - 1 = bottom - 1 /\ n \in 1..n
      BY <2>1 DEF RingInv
    <3> QED BY <3>1 DEF Content
  <2>6. WD!Last(Content) = Load(bottom - 1) /\ WD!Front(Content) = Content'
    BY <2>4, <2>5 DEF WD!Last, WD!Front
  <2>7. bottom - 1 \in Nat
    BY <1>2 DEF RingInv
  <2>8. Taken' = WD!(+)(Taken, WD!SetToBag({Load(bottom - 1)}))
    <3>1. Load(bottom - 1) \in Values
      BY <2>7, LoadValue
    <3>2. ~(top > bottom - 1)
      BY <1>2 DEF RingInv
    <3>3. Deliver(Load(bottom - 1))
      BY <3>2 DEF Pop
    <3> QED BY <3>1, <3>3, DeliverAddsToBag
  <2> QED BY <1>2, <2>4, <2>6, <2>8 DEF WD!Pop, Pop, Taken, RingInv
<1>3. CASE ~(top <= bottom - 1)
  <2>1. n = 0
    BY <1>3 DEF RingInv
  <2>2. Content = <<>>
    BY <1>1, <2>1, EmptyShape
  <2>3. UNCHANGED <<top, bottom, buf, delivered, pushed>> /\ popped' = Empty
    BY <1>3 DEF Pop, RingInv
  <2>4. Content' = Content
    BY <2>3 DEF Content, Load, Cap
  <2> QED BY <2>2, <2>3, <2>4 DEF WD!PopEmpty, WD!Empty, Empty
<1> QED BY <1>2, <1>3

(* steal() is the abstract steal.                                          *)
LEMMA StealRefines ==
    ASSUME RingInv, RingInv', NEW t \in Thieves, Steal(t)
    PROVE  WD!Steal \/ UNCHANGED WD!vars
<1> DEFINE n == bottom - top
<1>1. n \in Nat /\ Content \in [1..n -> Values]
  BY ContentType DEF ContentOK
<1>2. CASE top < bottom
  <2>1. n \in Nat \ {0} /\ bottom' - top' = n - 1
    <3>1. top \in Nat /\ bottom \in Nat
      BY DEF RingInv
    <3>2. bottom' = bottom /\ top' = top + 1
      BY <1>2, <3>1 DEF Steal
    <3> QED BY <1>2, <3>1, <3>2
  <2>2. Content' \in [1..(n - 1) -> Values]
    BY <2>1, ContentTypeNext DEF ContentOK
  <2>3. \A k \in 1..(n - 1) : Content'[k] = Content[k + 1]
    <3> TAKE k \in 1..(n - 1)
    <3>1. Content'[k] = Load((top + 1) + k - 1)
      BY <1>2, <2>1 DEF Content, Load, Cap, Steal
    <3>2. k + 1 \in 1..n /\ (top + 1) + k - 1 = top + (k + 1) - 1
      BY <2>1 DEF RingInv
    <3>3. Content[k + 1] = Load(top + (k + 1) - 1)
      BY <3>2 DEF Content
    <3> QED BY <3>1, <3>2, <3>3
  <2>4. Content' = Tail(Content) /\ Head(Content) = Content[1] /\ Content # <<>>
    BY <1>1, <2>1, <2>2, <2>3, TailShape
  <2>5. Content[1] = Load(top)
    <3>1. top + 1 - 1 = top /\ 1 \in 1..n
      BY <2>1 DEF RingInv
    <3> QED BY <3>1 DEF Content
  <2>6. Taken' = WD!(+)(Taken, WD!SetToBag({Load(top)}))
    BY <1>2, LoadValue, DeliverAddsToBag DEF Steal, RingInv
  <2> QED BY <2>4, <2>5, <2>6 DEF WD!Steal, Steal, Taken
<1>3. CASE ~(top < bottom)
  BY <1>3 DEF Steal, RingInv, WD!vars, Content, Load, Cap
<1> QED BY <1>2, <1>3

(* Every step is a step of the abstract deque or none.                     *)
LEMMA StepRefines == RingInv /\ RingInv' /\ [Next]_vars => [WD!Next]_(WD!vars)
<1> SUFFICES ASSUME RingInv, RingInv', [Next]_vars PROVE [WD!Next]_(WD!vars)
  OBVIOUS
<1>1. CASE Push
  BY <1>1, PushRefines DEF WD!Next
<1>2. CASE Pop
  BY <1>2, PopRefines DEF WD!Next
<1>3. ASSUME NEW t \in Thieves, Steal(t) PROVE [WD!Next]_(WD!vars)
  BY <1>3, StealRefines DEF WD!Next
<1>4. CASE PopLooksEmpty
  <2>1. bottom - top = 0
    BY <1>4 DEF PopLooksEmpty, RingInv
  <2>2. Content = <<>>
    BY <2>1, ContentType, EmptyShape DEF ContentOK
  <2>3. WD!PopEmpty
    BY <1>4, <2>2 DEF PopLooksEmpty, WD!PopEmpty, WD!Empty, Empty, indices, Content, Load, Cap
  <2> QED BY <2>3 DEF WD!Next
<1>5. CASE PushCall \/ PopCall \/ Lock \/ PushThrows \/ Unlock
  BY <1>5 DEF PushCall, PopCall, Lock, PushThrows, Unlock, indices, ghosts,
     WD!vars, Content, Load, Cap
<1>6. ASSUME NEW t \in Thieves, StealCheck(t) \/ TryLock(t) \/ StealUnlock(t)
      PROVE  [WD!Next]_(WD!vars)
  BY <1>6 DEF StealCheck, TryLock, StealUnlock, indices, ghosts, WD!vars, Content, Load, Cap
<1>7. CASE UNCHANGED vars
  BY <1>7 DEF vars, indices, ghosts, WD!vars, Content, Load, Cap
<1> QED BY <1>1, <1>2, <1>3, <1>4, <1>5, <1>6, <1>7 DEF Next, OwnerStep, ThiefStep

(* A new ring is an empty abstract deque.                                  *)
LEMMA InitRefines == Init => WD!Init
<1> SUFFICES ASSUME Init PROVE WD!Init
  OBVIOUS
<1>1. Content = <<>>
  <2>1. bottom - top = 0
    BY DEF Init
  <2>2. RingInv
    BY RingInit
  <2> QED BY <2>1, <2>2, ContentType, EmptyShape DEF ContentOK
<1>2. Taken = WD!EmptyBag
  <2>1. {u \in Values : delivered[u] > 0} = {}
    BY DEF Init
  <2> QED BY <2>1 DEF Taken, WD!EmptyBag, WD!SetToBag
<1> QED BY <1>1, <1>2 DEF Init, WD!Init, WD!Empty, Empty, Taken

(* The lock based deque implements WorkDeque: whatever thieves there are,  *)
(* however often the ring grows or wraps around, and even if a growing     *)
(* push() throws, every item is handed out once, pop() takes the newest    *)
(* and steal() the oldest, and pop() says empty only when it is.           *)
THEOREM Refinement == Spec => ImplementsWorkDeque
<1>1. RingInv /\ [Next]_vars => RingInv'
  BY RingStep
<1>2. RingInv /\ RingInv' /\ [Next]_vars => [WD!Next]_(WD!vars)
  BY StepRefines
<1> QED BY RingInit, InitRefines, <1>1, <1>2, PTL DEF Spec, ImplementsWorkDeque, WD!Spec
=============================================================================

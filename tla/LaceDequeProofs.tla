--------------------------- MODULE LaceDequeProofs ---------------------------
(***************************************************************************)
(* Proofs about LaceDeque, for every set of thieves, every capacity and    *)
(* every number of pushes: who may take which index, and that the deque    *)
(* implements WorkDeque as long as no index has passed the capacity.       *)
(***************************************************************************)
EXTENDS LaceDeque, Lemmas, FiniteSetTheorems, TLAPS

ThiefLocals == [pc : {"idle", "load", "cas", "request", "read"},
                top : Nat, split : Nat, want : Values]

LaceTypes ==
    /\ top \in Nat /\ split \in Nat /\ bottom \in Nat /\ osplit \in Nat
    /\ opc \in {"idle", "reopen", "unsteal", "reopened", "push", "count", "push_grown",
                "popped", "pop_grown", "shrink", "fresh", "correct", "shrunk", "all_stolen"}
    /\ reg \in [top : Nat, old : Nat, new : Nat]
    /\ pushed \in Nat
    /\ slot \in [0..(Capacity - 1) -> Values]
    /\ thief \in [Thieves -> ThiefLocals]
    /\ delivered \in [Values -> Nat]

FlagTypes == allstolen \in BOOLEAN /\ splitreq \in BOOLEAN /\ o_allstolen \in BOOLEAN

(* Between its operations, and while it only touches the private part, the *)
(* owner knows the split; or it knows that there is nothing.               *)
SplitKnown == ~o_allstolen /\ ~allstolen /\ osplit = split /\ top <= split /\ split <= bottom
NothingLeft == top = bottom /\ split <= top /\ bottom <= osplit

(* shrink_shared() runs when nothing is private; reg is the word it saw.   *)
ShrinkStarted ==
    /\ ~o_allstolen /\ ~allstolen
    /\ bottom = osplit /\ reg.old = bottom
    /\ reg.new < reg.old

(* Where the indices are, by what the owner does next.                     *)
SplitProtocol ==
    /\ opc = "idle" => \/ SplitKnown
                       \/ o_allstolen /\ allstolen /\ NothingLeft
    /\ opc = "reopen" => o_allstolen /\ allstolen /\ NothingLeft
    /\ opc \in {"unsteal", "reopened"} => split = bottom + 1 /\ top \in {bottom, bottom + 1}
    /\ opc = "unsteal" => o_allstolen /\ allstolen
    /\ opc = "reopened" => o_allstolen /\ ~allstolen
    /\ opc \in {"push", "count", "push_grown", "popped", "pop_grown"} => SplitKnown
    /\ opc = "shrink" => ShrinkStarted /\ split = bottom /\ reg.top <= reg.new /\ top <= split
    /\ opc = "fresh" => ShrinkStarted /\ split = reg.new /\ top <= bottom
    /\ opc = "correct" => ShrinkStarted /\ split = reg.new /\ reg.top = top
                          /\ split < top /\ top < bottom
    /\ opc = "shrunk" => ShrinkStarted /\ split = reg.new /\ top <= split
    /\ opc = "all_stolen" => ~o_allstolen /\ ~allstolen /\ NothingLeft

(* A thief that goes for the CAS has seen a word with something shared.    *)
ThiefSawItem == \A t \in Thieves : thief[t].pc = "cas" => thief[t].top < thief[t].split

LaceInv == LaceTypes /\ FlagTypes /\ SplitProtocol /\ ThiefSawItem

-----------------------------------------------------------------------------

(* A masked index is the index of a slot.                                  *)
LEMMA MaskRange ==
    ASSUME NEW i \in Int
    PROVE  MaskIndex(i) \in 0..(Capacity - 1)
  BY LaceAssumption DEF MaskIndex

(* A slot holds a value, with and without the mask.                        *)
LEMMA SlotValue ==
    ASSUME LaceTypes, NEW i \in Nat
    PROVE  slot[MaskIndex(i)] \in Values /\ Raw(i) \in Values
<1>1. MaskIndex(i) \in 0..(Capacity - 1)
  BY MaskRange
<1>2. slot[MaskIndex(i)] \in Values
  BY <1>1 DEF LaceTypes
<1>3. Raw(i) \in Values
  BY LaceAssumption DEF LaceTypes, Raw, Values
<1> QED BY <1>2, <1>3

(* A new deque satisfies the invariant.                                    *)
LEMMA LaceInit == Init => LaceInv
<1> SUFFICES ASSUME Init PROVE LaceInv
  OBVIOUS
<1>1. LaceTypes
  BY LaceAssumption DEF Init, LaceTypes, ThiefLocals, Idle, Values, Items, Garbage
<1>2. FlagTypes
  BY Zenon DEF Init, FlagTypes
<1>3. SplitProtocol
  BY DEF Init, SplitProtocol, NothingLeft
<1>4. ThiefSawItem
  BY DEF Init, ThiefSawItem, Idle
<1> QED BY <1>1, <1>2, <1>3, <1>4 DEF LaceInv

(* Each step of the owner keeps the index protocol.                        *)
LEMMA OwnerProtocol ==
    ASSUME LaceInv, OwnerNext
    PROVE  SplitProtocol'
<1> USE DEF LaceInv, LaceTypes, SplitProtocol, SplitKnown, NothingLeft, ShrinkStarted,
            word, owner
<1>1. CASE PushWrite
  BY <1>1 DEF PushWrite
<1>2. CASE PushReopen
  BY <1>2 DEF PushReopen
<1>3. CASE PushUnsteal
  BY <1>3 DEF PushUnsteal
<1>4. CASE PushReopened
  BY <1>4 DEF PushReopened
<1>5. CASE PushAnswer
  BY <1>5 DEF PushAnswer, GrowShared, Half
<1>6. CASE PushCount
  BY <1>6 DEF PushCount
<1>7. CASE Grown
  BY <1>7 DEF Grown
<1>8. CASE PopPrivate
  BY <1>8 DEF PopPrivate, TakeNewest
<1>9. CASE PopAnswer
  BY <1>9 DEF PopAnswer, GrowShared, Half
<1>10. CASE PopKnownEmpty
  BY <1>10 DEF PopKnownEmpty
<1>11. CASE ShrinkLoad
  BY <1>11 DEF ShrinkLoad
<1>12. CASE ShrinkSub
  BY <1>12 DEF ShrinkSub
<1>13. CASE ShrinkFresh
  BY <1>13 DEF ShrinkFresh
<1>14. CASE ShrinkCorrect
  BY <1>14 DEF ShrinkCorrect, Corrected
<1>15. CASE PopShrunk
  BY <1>15 DEF PopShrunk, TakeNewest
<1>16. CASE PopAllStolen
  BY <1>16 DEF PopAllStolen
<1> QED BY <1>1, <1>2, <1>3, <1>4, <1>5, <1>6, <1>7, <1>8, <1>9, <1>10, <1>11, <1>12,
           <1>13, <1>14, <1>15, <1>16 DEF OwnerNext

(* The owner's steps keep the types.                                       *)
LEMMA OwnerTypes ==
    ASSUME LaceInv, OwnerNext
    PROVE  LaceTypes' /\ FlagTypes'
<1> USE LaceAssumption DEF LaceInv, word, owner
<1>1. FlagTypes'
  BY Zenon DEF FlagTypes, OwnerNext, PushWrite, PushReopen, PushUnsteal, PushReopened, PushAnswer,
     PushCount, Grown, PopPrivate, PopAnswer, PopKnownEmpty, ShrinkLoad, ShrinkSub,
     ShrinkFresh, ShrinkCorrect, PopShrunk, PopAllStolen
<1>2. CASE PushWrite
  <2>1. MaskIndex(bottom) \in 0..(Capacity - 1)
    <3>1. bottom \in Int
      BY DEF LaceTypes
    <3> QED BY <3>1, MaskRange
  <2>2. pushed + 1 \in Values
    BY <1>2 DEF PushWrite, Values, Items, LaceTypes
  <2> QED BY <1>1, <1>2, <2>1, <2>2 DEF PushWrite, LaceTypes
<1>3. CASE PushReopen
  BY <1>1, <1>3 DEF PushReopen, LaceTypes
<1>4. CASE PushUnsteal \/ PushReopened
  BY <1>1, <1>4 DEF PushUnsteal, PushReopened, LaceTypes
<1>5. CASE PushAnswer \/ PopAnswer
  BY <1>1, <1>5, SMTT(30) DEF PushAnswer, PopAnswer, GrowShared, Half, LaceTypes
<1>6. CASE PushCount \/ Grown
  BY <1>1, <1>6, SMTT(30) DEF PushCount, Grown, LaceTypes
<1>7. CASE PopPrivate
  <2>1. bottom - 1 \in Nat
    BY <1>7 DEF PopPrivate, LaceTypes
  <2>2. Raw(bottom - 1) \in Values
    BY <2>1, SlotValue
  <2> QED BY <1>1, <1>7, <2>1, <2>2 DEF PopPrivate, TakeNewest, Deliver, LaceTypes
<1>8. CASE PopKnownEmpty \/ PopAllStolen
  BY <1>1, <1>8 DEF PopKnownEmpty, PopAllStolen, LaceTypes
<1>9. CASE ShrinkLoad
  <2>1. top + (split - top) \div 2 \in Nat
    BY <1>9 DEF ShrinkLoad, LaceTypes, SplitProtocol, SplitKnown
  <2> QED BY <1>1, <1>9, <2>1 DEF ShrinkLoad, LaceTypes
<1>10. CASE ShrinkSub \/ ShrinkFresh
  <2>1. [reg EXCEPT !.top = top] \in [top : Nat, old : Nat, new : Nat]
    BY DEF LaceTypes
  <2>2. split' \in Nat
    BY <1>10 DEF ShrinkSub, ShrinkFresh, LaceTypes, SplitProtocol, ShrinkStarted
  <2> QED BY <1>1, <1>10, <2>1, <2>2 DEF ShrinkSub, ShrinkFresh, LaceTypes
<1>11. CASE ShrinkCorrect
  <2>1. Corrected \in Nat /\ split = reg.new
    BY <1>11 DEF ShrinkCorrect, Corrected, LaceTypes, SplitProtocol
  <2>2. [reg EXCEPT !.new = Corrected] \in [top : Nat, old : Nat, new : Nat]
    BY <2>1 DEF LaceTypes
  <2>3. split' \in Nat
    BY <1>11, <2>1 DEF ShrinkCorrect, LaceTypes
  <2> QED BY <1>1, <1>11, <2>2, <2>3 DEF ShrinkCorrect, LaceTypes
<1>12. CASE PopShrunk
  <2>1. bottom - 1 \in Nat
    BY <1>12 DEF PopShrunk, LaceTypes, SplitProtocol, ShrinkStarted
  <2>2. slot[MaskIndex(bottom - 1)] \in Values
    BY <2>1, SlotValue
  <2> QED BY <1>1, <1>12, <2>1, <2>2 DEF PopShrunk, TakeNewest, Deliver, LaceTypes
<1> QED BY <1>2, <1>3, <1>4, <1>5, <1>6, <1>7, <1>8, <1>9, <1>10, <1>11, <1>12 DEF OwnerNext

(* The owner does not touch what a thief has seen.                         *)
LEMMA OwnerLeavesThieves ==
    ASSUME OwnerNext
    PROVE  UNCHANGED thief
BY DEF OwnerNext, PushWrite, PushReopen, PushUnsteal, PushReopened, PushAnswer, PushCount, Grown,
   PopPrivate, PopAnswer, PopKnownEmpty, ShrinkLoad, ShrinkSub, ShrinkFresh, ShrinkCorrect,
   PopShrunk, PopAllStolen

(* A thief changes its own locals only.                                    *)
LEMMA ThiefLocalsKept ==
    ASSUME LaceInv, NEW t \in Thieves, NEW l \in ThiefLocals,
           l.pc = "cas" => l.top < l.split,
           thief' = [thief EXCEPT ![t] = l]
    PROVE  thief' \in [Thieves -> ThiefLocals] /\ ThiefSawItem'
BY DEF LaceInv, LaceTypes, ThiefSawItem

(* A thief between two steals.                                             *)
LEMMA IdleLocals == Idle \in ThiefLocals
BY DEF Idle, ThiefLocals, Values

(* A thief only moves top, by one, over an item that is shared.            *)
LEMMA ThiefInv ==
    ASSUME LaceInv, NEW t \in Thieves, ThiefNext(t)
    PROVE  LaceInv'
<1> USE LaceAssumption DEF LaceInv, word, owner
<1>1. FlagTypes'
  BY Zenon DEF FlagTypes, ThiefNext, StealCheck, StealLoad, StealCas, StealRead, StealRequest
<1>2. CASE StealCas(t)
  <2>1. slot[MaskIndex(top)] \in Values
    BY SlotValue DEF LaceTypes
  <2>2. thief' \in [Thieves -> ThiefLocals] /\ ThiefSawItem'
    <3>1. CASE WordUnchanged(t)
      <4> DEFINE l == [thief[t] EXCEPT !.pc = "read", !.want = slot[MaskIndex(top)]]
      <4>1. l \in ThiefLocals /\ l.pc = "read"
        BY <2>1 DEF LaceTypes, ThiefLocals
      <4>2. thief' = [thief EXCEPT ![t] = l]
        BY <1>2, <3>1 DEF StealCas, LaceTypes
      <4> QED BY <4>1, <4>2, ThiefLocalsKept
    <3>2. CASE ~WordUnchanged(t)
      BY <1>2, <3>2, IdleLocals, ThiefLocalsKept DEF StealCas, Idle
    <3> QED BY <3>1, <3>2
  <2>3. top' = top \/ (top' = top + 1 /\ top < split)
    BY <1>2 DEF StealCas, WordUnchanged, ThiefSawItem
  <2>4. SplitProtocol'
    BY <1>2, <2>3 DEF StealCas, LaceTypes, SplitProtocol, SplitKnown, NothingLeft, ShrinkStarted
  <2>5. LaceTypes'
    BY <1>2, <2>2, <2>3 DEF StealCas, LaceTypes
  <2> QED BY <1>1, <2>2, <2>4, <2>5
<1>3. CASE StealRead(t)
  <2>1. slot[MaskIndex(thief[t].top)] \in Values
    BY SlotValue DEF LaceTypes, ThiefLocals
  <2>2. LaceTypes' /\ ThiefSawItem'
    BY <1>3, <2>1 DEF StealRead, Deliver, LaceTypes, ThiefLocals, Idle, ThiefSawItem, Values
  <2>3. SplitProtocol'
    BY <1>3 DEF StealRead, SplitProtocol, SplitKnown, NothingLeft, ShrinkStarted
  <2> QED BY <1>1, <2>2, <2>3
<1>4. CASE StealCheck(t) \/ StealLoad(t) \/ StealRequest(t)
  <2>1. PICK l \in ThiefLocals : /\ l.pc = "cas" => l.top < l.split
                                 /\ thief' = [thief EXCEPT ![t] = l]
    <3>1. CASE StealCheck(t)
      <4> DEFINE l == [thief[t] EXCEPT !.pc = "load"]
      <4>1. l \in ThiefLocals /\ l.pc = "load"
        BY DEF LaceTypes, ThiefLocals
      <4>2. thief' = [thief EXCEPT ![t] = l]
        BY <3>1 DEF StealCheck, LaceTypes
      <4> QED BY <4>1, <4>2
    <3>2. CASE StealLoad(t)
      <4> DEFINE l == [pc |-> IF split - top > 0 THEN "cas" ELSE "request",
                       top |-> top, split |-> split, want |-> Garbage]
      <4>1. l \in ThiefLocals
        BY DEF LaceTypes, ThiefLocals, Values
      <4>3. l.pc = "cas" => l.top < l.split
        BY DEF LaceTypes
      <4>2. thief' = [thief EXCEPT ![t] = l]
        BY <3>2 DEF StealLoad
      <4> HIDE DEF l
      <4> QED BY <4>1, <4>2, <4>3
    <3>3. CASE StealRequest(t)
      BY <3>3, IdleLocals DEF StealRequest, Idle
    <3> QED BY <1>4, <3>1, <3>2, <3>3
  <2>2. thief' \in [Thieves -> ThiefLocals] /\ ThiefSawItem'
    BY <2>1, ThiefLocalsKept
  <2>3. LaceTypes'
    BY <1>4, <2>2 DEF StealCheck, StealLoad, StealRequest, LaceTypes
  <2>4. SplitProtocol'
    BY <1>4 DEF StealCheck, StealLoad, StealRequest, SplitProtocol, SplitKnown, NothingLeft,
       ShrinkStarted
  <2> QED BY <1>1, <2>2, <2>3, <2>4
<1> QED BY <1>2, <1>3, <1>4 DEF ThiefNext

(* Every step keeps the split protocol.                                    *)
LEMMA LaceStep == LaceInv /\ [Next]_vars => LaceInv'
<1> SUFFICES ASSUME LaceInv, [Next]_vars PROVE LaceInv'
  OBVIOUS
<1>1. CASE OwnerNext
  <2>1. ThiefSawItem'
    BY <1>1, OwnerLeavesThieves DEF LaceInv, ThiefSawItem
  <2> QED BY <1>1, <2>1, OwnerTypes, OwnerProtocol DEF LaceInv
<1>2. CASE \E t \in Thieves : ThiefNext(t)
  BY <1>2, ThiefInv
<1>3. CASE UNCHANGED vars
  BY <1>3 DEF vars, word, owner, LaceInv, LaceTypes, FlagTypes, SplitProtocol, SplitKnown,
     NothingLeft, ShrinkStarted, ThiefSawItem
<1> QED BY <1>1, <1>2, <1>3 DEF Next

(* push, pop and steal keep the protocol of the split: at every step of    *)
(* grow_shared and shrink_shared the indices are where the next step       *)
(* expects them, however far the thieves have moved top meanwhile.         *)
THEOREM SplitIsSafe == Spec => []LaceInv
BY LaceInit, LaceStep, PTL DEF Spec

(* Whatever the thieves do while the owner grows or shrinks the shared     *)
(* part, a CAS that succeeds takes an item that is in the deque and not    *)
(* one the owner goes on to take as private.                               *)
THEOREM PrivatePartIsPrivate == Spec => []ClaimsAreShared
<1>1. LaceInv => ClaimsAreShared
  BY DEF LaceInv, LaceTypes, SplitProtocol, SplitKnown, NothingLeft, ShrinkStarted,
     ThiefSawItem, ClaimsAreShared, WordUnchanged, LogicalBottom
<1> QED BY <1>1, SplitIsSafe, PTL

(* The owner's cached split and allstolen are never stale between two of   *)
(* its operations.                                                         *)
THEOREM OwnersCopiesAgree == Spec => []OwnerKnowsSplit
<1>1. ASSUME LaceInv, opc = "idle"
      PROVE  /\ o_allstolen => top = bottom
             /\ ~o_allstolen => osplit = split /\ top <= split /\ split <= bottom
  BY <1>1 DEF LaceInv, SplitProtocol, SplitKnown, NothingLeft
<1>2. ASSUME LaceInv, opc = "idle"
      PROVE  o_allstolen = allstolen
  BY <1>2, Zenon DEF LaceInv, FlagTypes, SplitProtocol, SplitKnown
<1>3. LaceInv => OwnerKnowsSplit
  BY <1>1, <1>2, Zenon DEF OwnerKnowsSplit
<1> QED BY <1>3, SplitIsSafe, PTL

-----------------------------------------------------------------------------
(* What is in the slots while no index has passed the capacity: the item   *)
(* of an unfinished push() is behind the newest one, and the item a thief  *)
(* has claimed stays in its slot until the thief has read it.              *)
SlotInv ==
    /\ LogicalBottom <= pushed /\ pushed <= MaxPush
    /\ opc \in {"reopen", "push", "count", "push_grown"} =>
            pushed < MaxPush /\ slot[bottom] = pushed + 1
    /\ \A t \in Thieves : thief[t].pc = "read" =>
            thief[t].top < top /\ slot[thief[t].top] = thief[t].want

Unwrapped == MaxPush <= Capacity

(* An index that is less than the capacity is its own slot.                *)
LEMMA MaskSmall ==
    ASSUME NEW i \in Nat, i < Capacity
    PROVE  MaskIndex(i) = i
BY LaceAssumption DEF MaskIndex

(* bottom is never behind top: the deque has a length.                     *)
LEMMA LengthIsNat ==
    ASSUME LaceInv
    PROVE  /\ top \in Nat /\ LogicalBottom \in Nat /\ top <= LogicalBottom
           /\ bottom \in Nat /\ bottom <= LogicalBottom /\ pushed \in Nat
           /\ opc \notin {"unsteal", "reopened"} => LogicalBottom = bottom
BY DEF LaceInv, LaceTypes, SplitProtocol, SplitKnown, NothingLeft, ShrinkStarted, LogicalBottom

(* The slots of a new deque satisfy the invariant.                         *)
LEMMA SlotInit == Init => SlotInv
BY LaceAssumption DEF Init, SlotInv, LogicalBottom, Idle

(* push() writes behind the newest item, where nobody reads.               *)
LEMMA WriteKeepsSlots ==
    ASSUME LaceInv, SlotInv, Unwrapped, PushWrite
    PROVE  /\ slot' = [slot EXCEPT ![bottom] = pushed + 1]
           /\ bottom \in 0..(Capacity - 1)
           /\ \A i \in 0..(bottom - 1) : slot'[i] = slot[i]
           /\ slot'[bottom] = pushed + 1
<1>1. bottom \in Nat /\ bottom < Capacity /\ pushed \in Nat
  BY LengthIsNat, LaceAssumption DEF SlotInv, Unwrapped, PushWrite
<1>2. MaskIndex(bottom) = bottom
  BY <1>1, MaskSmall
<1>3. slot' = [slot EXCEPT ![bottom] = pushed + 1]
  BY <1>2 DEF PushWrite
<1> QED BY <1>1, <1>3, LaceAssumption DEF LaceInv, LaceTypes

(* The owner's steps keep the items of the deque in their slots.           *)
LEMMA OwnerSlots ==
    ASSUME LaceInv, SlotInv, Unwrapped, OwnerNext
    PROVE  SlotInv'
<1>1. CASE PushWrite
  <2>1. LogicalBottom = bottom /\ LogicalBottom' = bottom /\ bottom' = bottom
    BY <1>1 DEF PushWrite, LogicalBottom
  <2>2. ASSUME NEW t \in Thieves, thief'[t].pc = "read"
        PROVE  thief'[t].top < top' /\ slot'[thief'[t].top] = thief'[t].want
    <3>1. thief' = thief /\ top' = top
      BY <1>1 DEF PushWrite, word
    <3>2. thief[t].top < top /\ slot[thief[t].top] = thief[t].want /\ thief[t].top \in Nat
      BY <2>2, <3>1 DEF SlotInv, LaceInv, LaceTypes, ThiefLocals
    <3>3. thief[t].top \in 0..(bottom - 1)
      BY <2>1, <3>2, LengthIsNat
    <3> QED BY <1>1, <3>1, <3>2, <3>3, WriteKeepsSlots
  <2>3. pushed' = pushed /\ pushed < MaxPush
    BY <1>1 DEF PushWrite
  <2> QED BY <1>1, <2>1, <2>2, <2>3, WriteKeepsSlots, LengthIsNat DEF SlotInv
<1>2. ASSUME UNCHANGED slot, top' = top, thief' = thief
      PROVE  \A t \in Thieves : thief'[t].pc = "read" =>
                 thief'[t].top < top' /\ slot'[thief'[t].top] = thief'[t].want
  BY <1>2 DEF SlotInv
<1>3. CASE PushReopen
  <2>1. top' = top /\ pushed < MaxPush /\ pushed' = pushed + 1
    BY <1>3 DEF PushReopen, LaceInv, SplitProtocol, NothingLeft, SlotInv
  <2> QED BY <1>2, <1>3, <2>1, LengthIsNat, LaceAssumption DEF PushReopen, SlotInv, LogicalBottom
<1>4. CASE PushUnsteal \/ PushReopened
  BY <1>2, <1>4, LengthIsNat DEF PushUnsteal, PushReopened, SlotInv, LogicalBottom, word
<1>5. CASE PushAnswer \/ PopAnswer
  BY <1>2, <1>5, LengthIsNat DEF PushAnswer, PopAnswer, GrowShared, SlotInv, LogicalBottom, word
<1>6. CASE PushCount
  BY <1>2, <1>6, LengthIsNat, LaceAssumption DEF PushCount, SlotInv, LogicalBottom, word
<1>7. CASE Grown
  BY <1>2, <1>7, LengthIsNat DEF Grown, SlotInv, LogicalBottom, word
<1>8. CASE PopPrivate \/ PopShrunk
  BY <1>2, <1>8, LengthIsNat DEF PopPrivate, PopShrunk, TakeNewest, SlotInv, LogicalBottom, word
<1>9. CASE PopKnownEmpty \/ ShrinkLoad \/ ShrinkSub \/ ShrinkFresh
  BY <1>2, <1>9, LengthIsNat DEF PopKnownEmpty, ShrinkLoad, ShrinkSub, ShrinkFresh, SlotInv,
     LogicalBottom, word
<1>10. CASE ShrinkCorrect \/ PopAllStolen
  BY <1>2, <1>10, LengthIsNat DEF ShrinkCorrect, PopAllStolen, SlotInv, LogicalBottom, word
<1> QED BY <1>1, <1>3, <1>4, <1>5, <1>6, <1>7, <1>8, <1>9, <1>10 DEF OwnerNext

(* A thief claims the item at top, and the slot keeps it.                  *)
LEMMA ThiefSlots ==
    ASSUME LaceInv, SlotInv, Unwrapped, NEW t \in Thieves, ThiefNext(t)
    PROVE  SlotInv'
<1>1. /\ UNCHANGED <<slot, bottom, opc, pushed>> /\ LogicalBottom' = LogicalBottom
      /\ top \in Nat /\ thief \in [Thieves -> ThiefLocals]
  BY DEF ThiefNext, StealCheck, StealLoad, StealCas, StealRead, StealRequest, owner, word,
     LogicalBottom, LaceInv, LaceTypes
<1>2. CASE StealCas(t) /\ WordUnchanged(t)
  <2>1. top < LogicalBottom
    BY <1>2 DEF LaceInv, LaceTypes, SplitProtocol, SplitKnown, NothingLeft, ShrinkStarted,
       ThiefSawItem, WordUnchanged, LogicalBottom, StealCas
  <2>2. MaskIndex(top) = top
    BY <1>1, <2>1, MaskSmall, LengthIsNat, LaceAssumption DEF SlotInv, Unwrapped
  <2>3. top' = top + 1
    BY <1>2 DEF StealCas
  <2>4. thief' = [thief EXCEPT ![t].pc = "read", ![t].want = slot[top]]
    BY <1>2, <2>2 DEF StealCas
  <2>5. ASSUME NEW u \in Thieves, thief'[u].pc = "read"
        PROVE  thief'[u].top < top' /\ slot'[thief'[u].top] = thief'[u].want
    <3>1. CASE u = t
      <4>1. thief'[u].top = top /\ thief'[u].want = slot[top]
        BY <1>1, <1>2, <2>4, <3>1 DEF WordUnchanged, ThiefLocals
      <4> QED BY <1>1, <2>3, <4>1
    <3>2. CASE u # t
      <4>1. thief'[u] = thief[u] /\ thief[u].top \in Nat
        BY <1>1, <2>4, <3>2 DEF ThiefLocals
      <4> QED BY <1>1, <2>3, <2>5, <4>1 DEF SlotInv
    <3> QED BY <3>1, <3>2
  <2> QED BY <1>1, <2>5 DEF SlotInv
<1>3. CASE ~(StealCas(t) /\ WordUnchanged(t))
  <2>1. top' = top
    BY <1>3 DEF ThiefNext, StealCheck, StealLoad, StealCas, StealRead, StealRequest, word
  <2>2. ASSUME NEW u \in Thieves, thief'[u].pc = "read"
        PROVE  thief'[u] = thief[u]
    BY <1>1, <1>3, <2>2 DEF ThiefNext, StealCheck, StealLoad, StealCas, StealRead, StealRequest,
       Idle, ThiefLocals
  <2> QED BY <1>1, <2>1, <2>2 DEF SlotInv
<1> QED BY <1>2, <1>3

(* Every step keeps the items of the deque in their slots.                 *)
LEMMA SlotStep == Unwrapped /\ LaceInv /\ SlotInv /\ [Next]_vars => SlotInv'
<1> SUFFICES ASSUME Unwrapped, LaceInv, SlotInv, [Next]_vars PROVE SlotInv'
  OBVIOUS
<1>1. CASE UNCHANGED vars
  BY <1>1 DEF vars, word, owner, SlotInv, LogicalBottom
<1> QED BY <1>1, OwnerSlots, ThiefSlots DEF Next

-----------------------------------------------------------------------------
(* The refinement mapping: the items in the deque and the bag of items     *)
(* that were returned or claimed.                                          *)
Bag == [v \in {u \in Values : Taken(u) > 0} |-> Taken(v)]

Readers(v) == {t \in Thieves : thief[t].pc = "read" /\ thief[t].want = v}

ContentOK ==
    /\ LogicalBottom - top \in Nat
    /\ Content \in [1..(LogicalBottom - top) -> Values]
    /\ \A k \in 1..(LogicalBottom - top) : Content[k] = slot[top + k - 1]

(* Without wraparound the items are in the slots from top on.              *)
LEMMA ContentType == Unwrapped /\ LaceInv /\ SlotInv => ContentOK
<1> SUFFICES ASSUME Unwrapped, LaceInv, SlotInv PROVE ContentOK
  OBVIOUS
<1> DEFINE n == LogicalBottom - top
<1>1. n \in Nat /\ top \in Nat /\ LogicalBottom <= Capacity
  BY LengthIsNat, LaceAssumption DEF SlotInv, Unwrapped
<1>2. ASSUME NEW k \in 1..n
      PROVE  MaskIndex(top + k - 1) = top + k - 1 /\ slot[top + k - 1] \in Values
  <2>1. top + k - 1 \in Nat /\ top + k - 1 < Capacity
    BY <1>1, LengthIsNat, LaceAssumption
  <2>2. top + k - 1 \in 0..(Capacity - 1)
    BY <2>1, LaceAssumption
  <2> QED BY <2>1, <2>2, MaskSmall DEF LaceInv, LaceTypes
<1> HIDE DEF n
<1>3. Content = [k \in 1..n |-> slot[MaskIndex(top + k - 1)]]
  BY DEF Content, n
<1>4. Content \in [1..n -> Values] /\ \A k \in 1..n : Content[k] = slot[top + k - 1]
  BY <1>2, <1>3
<1> QED BY <1>1, <1>4 DEF ContentOK, n

(* The same after a step.                                                  *)
LEMMA ContentTypeNext == Unwrapped /\ LaceInv' /\ SlotInv' => ContentOK'
<1>1. Unwrapped => (Unwrapped)'
  BY DEF Unwrapped
<1> QED BY <1>1, ContentType, PTL

(* The items do not move when top, bottom and the slots between do not.    *)
LEMMA SameContent ==
    ASSUME ContentOK, ContentOK', top' = top, LogicalBottom' = LogicalBottom, slot' = slot
    PROVE  Content' = Content
BY DEF Content

(* Moving bottom over a written slot appends its item.                     *)
LEMMA PushesContent ==
    ASSUME ContentOK, ContentOK', LaceInv, top' = top, LogicalBottom' = LogicalBottom + 1,
           slot' = slot, slot[LogicalBottom] = pushed + 1, pushed + 1 \in Values
    PROVE  Content' = Append(Content, pushed + 1)
<1> DEFINE n == LogicalBottom - top
<1>1. /\ n \in Nat /\ Content \in [1..n -> Values]
      /\ \A k \in 1..n : Content[k] = slot[top + k - 1]
  BY DEF ContentOK
<1>2. LogicalBottom' - top' = n + 1 /\ top + (n + 1) - 1 = LogicalBottom /\ top \in Nat
  BY LengthIsNat
<1>3. /\ Content' \in [1..(n + 1) -> Values]
      /\ \A k \in 1..(n + 1) : Content'[k] = slot[top + k - 1]
  BY <1>2 DEF ContentOK
<1> HIDE DEF n
<1>4. \A k \in 1..n : Content'[k] = Content[k]
  <2> TAKE k \in 1..n
  <2>1. k \in 1..(n + 1)
    BY <1>1
  <2> QED BY <1>1, <1>3, <2>1
<1>5. Content'[n + 1] = pushed + 1
  <2>1. n + 1 \in 1..(n + 1)
    BY <1>1
  <2> QED BY <1>2, <1>3, <2>1
<1> QED BY <1>1, <1>3, <1>4, <1>5, AppendShape

(* Moving bottom back removes the newest item.                             *)
LEMMA PopsContent ==
    ASSUME ContentOK, ContentOK', LaceInv, top' = top, LogicalBottom' = LogicalBottom - 1,
           slot' = slot, top < LogicalBottom
    PROVE  /\ Content # <<>>
           /\ Content' = WD!Front(Content)
           /\ WD!Last(Content) = slot[LogicalBottom - 1]
<1> DEFINE n == LogicalBottom - top
<1>1. /\ n \in Nat \ {0} /\ Content \in [1..n -> Values]
      /\ \A k \in 1..n : Content[k] = slot[top + k - 1]
  BY LengthIsNat DEF ContentOK
<1>2. LogicalBottom' - top' = n - 1 /\ top + n - 1 = LogicalBottom - 1 /\ top \in Nat
  BY LengthIsNat
<1>3. /\ Content' \in [1..(n - 1) -> Values]
      /\ \A k \in 1..(n - 1) : Content'[k] = slot[top + k - 1]
  BY <1>2 DEF ContentOK
<1> HIDE DEF n
<1>4. \A k \in 1..(n - 1) : Content'[k] = Content[k]
  <2> TAKE k \in 1..(n - 1)
  <2>1. k \in 1..n
    BY <1>1
  <2> QED BY <1>1, <1>3, <2>1
<1>5. Content[n] = slot[LogicalBottom - 1]
  <2>1. n \in 1..n
    BY <1>1
  <2> QED BY <1>1, <1>2, <2>1
<1>6. Content' = SubSeq(Content, 1, n - 1) /\ Len(Content) = n /\ Content # <<>>
  BY <1>1, <1>3, <1>4, FrontShape
<1> QED BY <1>5, <1>6 DEF WD!Front, WD!Last

(* Moving top removes the oldest item.                                     *)
LEMMA StealsContent ==
    ASSUME ContentOK, ContentOK', LaceInv, top' = top + 1, LogicalBottom' = LogicalBottom,
           slot' = slot, top < LogicalBottom
    PROVE  Content # <<>> /\ Content' = Tail(Content) /\ Head(Content) = slot[top]
<1> DEFINE n == LogicalBottom - top
<1>1. /\ n \in Nat \ {0} /\ Content \in [1..n -> Values]
      /\ \A k \in 1..n : Content[k] = slot[top + k - 1]
  BY LengthIsNat DEF ContentOK
<1>2. LogicalBottom' - top' = n - 1 /\ top + 1 - 1 = top /\ top \in Nat
  BY LengthIsNat
<1>3. /\ Content' \in [1..(n - 1) -> Values]
      /\ \A k \in 1..(n - 1) : Content'[k] = slot[(top + 1) + k - 1]
  BY <1>2 DEF ContentOK
<1> HIDE DEF n
<1>4. \A k \in 1..(n - 1) : Content'[k] = Content[k + 1]
  <2> TAKE k \in 1..(n - 1)
  <2>1. k + 1 \in 1..n /\ (top + 1) + k - 1 = top + (k + 1) - 1
    BY <1>1, <1>2
  <2> QED BY <1>1, <1>3, <2>1
<1>5. Content[1] = slot[top]
  <2>1. 1 \in 1..n
    BY <1>1
  <2> QED BY <1>1, <1>2, <2>1
<1> QED BY <1>1, <1>3, <1>4, <1>5, TailShape

(* When top meets bottom the deque is empty.                               *)
LEMMA NoContent ==
    ASSUME ContentOK, LaceInv, top = LogicalBottom
    PROVE  Content = <<>>
<1>1. LogicalBottom - top = 0
  BY LengthIsNat
<1> QED BY <1>1, EmptyShape DEF ContentOK

(* How often an item is taken: delivered, or claimed by a thief.           *)
LEMMA TakenNat ==
    ASSUME LaceInv, NEW v \in Values
    PROVE  /\ IsFiniteSet(Readers(v)) /\ Cardinality(Readers(v)) \in Nat
           /\ delivered[v] \in Nat
           /\ Taken(v) = delivered[v] + Cardinality(Readers(v))
           /\ Taken(v) \in Nat
<1>1. IsFiniteSet(Readers(v))
  <2>1. Readers(v) \subseteq Thieves
    BY DEF Readers
  <2> QED BY <2>1, FS_Subset, LaceAssumption
<1>2. Cardinality(Readers(v)) \in Nat
  BY <1>1, FS_CardinalityType
<1>3. Taken(v) = delivered[v] + Cardinality(Readers(v))
  BY DEF Taken, Readers
<1>4. delivered[v] \in Nat
  BY DEF LaceInv, LaceTypes
<1> QED BY <1>1, <1>2, <1>3, <1>4

(* The bag of what was taken depends on those numbers only.                *)
LEMMA BagSame ==
    ASSUME \A u \in Values : Taken(u)' = Taken(u)
    PROVE  Bag' = Bag
<1>1. {u \in Values : Taken(u)' > 0} = {u \in Values : Taken(u) > 0}
  OBVIOUS
<1> QED BY <1>1 DEF Bag

(* One more copy of v was taken.                                           *)
LEMMA BagAdds ==
    ASSUME LaceInv, NEW v \in Values,
           \A u \in Values : Taken(u)' = IF u = v THEN Taken(u) + 1 ELSE Taken(u)
    PROVE  Bag' = WD!(+)(Bag, WD!SetToBag({v}))
<1> DEFINE S == {u \in Values : Taken(u) > 0}
<1>1. \A u \in Values : Taken(u) \in Nat
  BY TakenNat
<1>2. {u \in Values : Taken(u)' > 0} = S \cup {v}
  BY <1>1
<1>3. WD!SetToBag({v}) = [e \in {v} |-> 1]
  BY DEF WD!SetToBag
<1>4. WD!(+)(Bag, WD!SetToBag({v})) =
        [e \in S \cup {v} |-> (IF e \in S THEN Taken(e) ELSE 0)
                              + (IF e \in {v} THEN 1 ELSE 0)]
  BY <1>3 DEF WD!(+), Bag
<1>5. \A e \in S \cup {v} : Taken(e)' = (IF e \in S THEN Taken(e) ELSE 0)
                                       + (IF e \in {v} THEN 1 ELSE 0)
  BY <1>1
<1>6. Bag' = [e \in S \cup {v} |-> Taken(e)']
  BY <1>2 DEF Bag
<1> HIDE DEF S
<1> QED BY <1>4, <1>5, <1>6

(* pop() takes an item, no thief is involved.                              *)
LEMMA PopTakes ==
    ASSUME LaceInv, NEW v \in Values, Deliver(v), thief' = thief
    PROVE  Bag' = WD!(+)(Bag, WD!SetToBag({v}))
<1>1. ASSUME NEW u \in Values
      PROVE  Taken(u)' = IF u = v THEN Taken(u) + 1 ELSE Taken(u)
  <2>1. Taken(u)' = delivered'[u] + Cardinality(Readers(u))
    BY DEF Taken, Readers
  <2>2. delivered'[u] = IF u = v THEN delivered[u] + 1 ELSE delivered[u]
    BY DEF Deliver, LaceInv, LaceTypes
  <2> QED BY <2>1, <2>2, TakenNat
<1> QED BY <1>1, BagAdds

(* The CAS of a thief claims the item: from here on it counts as taken.    *)
LEMMA CasTakes ==
    ASSUME LaceInv, NEW t \in Thieves, NEW v \in Values, thief[t].pc = "cas",
           thief' = [thief EXCEPT ![t].pc = "read", ![t].want = v], delivered' = delivered
    PROVE  Bag' = WD!(+)(Bag, WD!SetToBag({v}))
<1>1. thief \in [Thieves -> ThiefLocals]
  BY DEF LaceInv, LaceTypes
<1>2. /\ thief'[t].pc = "read" /\ thief'[t].want = v
      /\ \A r \in Thieves \ {t} : thief'[r] = thief[r]
  BY <1>1 DEF ThiefLocals
<1>3. ASSUME NEW u \in Values
      PROVE  Taken(u)' = IF u = v THEN Taken(u) + 1 ELSE Taken(u)
  <2>1. Taken(u)' = delivered[u] + Cardinality(Readers(u)')
    BY DEF Taken, Readers
  <2>2. t \notin Readers(u)
    BY DEF Readers
  <2>3. Readers(u)' = IF u = v THEN Readers(u) \cup {t} ELSE Readers(u)
    BY <1>2, <2>2 DEF Readers
  <2>4. Cardinality(Readers(u) \cup {t}) = Cardinality(Readers(u)) + 1
    BY <2>2, FS_AddElement, TakenNat
  <2> QED BY <2>1, <2>3, <2>4, TakenNat
<1> QED BY <1>3, BagAdds

(* The read that follows returns the item that was claimed.                *)
LEMMA ReadTakesNothingMore ==
    ASSUME LaceInv, NEW t \in Thieves, thief[t].pc = "read",
           Deliver(thief[t].want), thief' = [thief EXCEPT ![t] = Idle]
    PROVE  Bag' = Bag
<1> DEFINE v == thief[t].want
<1>1. thief \in [Thieves -> ThiefLocals] /\ v \in Values
  BY DEF LaceInv, LaceTypes, ThiefLocals
<1>2. thief'[t].pc = "idle" /\ \A r \in Thieves \ {t} : thief'[r] = thief[r]
  BY <1>1 DEF Idle
<1>3. ASSUME NEW u \in Values
      PROVE  Taken(u)' = Taken(u)
  <2>1. Taken(u)' = delivered'[u] + Cardinality(Readers(u)')
    BY DEF Taken, Readers
  <2>2. delivered'[u] = IF u = v THEN delivered[u] + 1 ELSE delivered[u]
    BY DEF Deliver, LaceInv, LaceTypes
  <2>3. t \in Readers(u) <=> u = v
    BY DEF Readers
  <2>4. Readers(u)' = Readers(u) \ {t}
    BY <1>2 DEF Readers
  <2>5. CASE u = v
    <3>1. Cardinality(Readers(u) \ {t}) = Cardinality(Readers(u)) - 1
      BY <2>3, <2>5, FS_RemoveElement, TakenNat
    <3> QED BY <2>1, <2>2, <2>4, <2>5, <3>1, TakenNat
  <2>6. CASE u # v
    <3>1. Readers(u) \ {t} = Readers(u)
      BY <2>3, <2>6
    <3> QED BY <2>1, <2>2, <2>4, <2>6, <3>1, TakenNat
  <2> QED BY <2>5, <2>6
<1> QED BY <1>3, BagSame

(* A step that delivers nothing and claims nothing takes nothing.          *)
LEMMA NothingTaken ==
    ASSUME LaceInv, delivered' = delivered,
           \A t \in Thieves : \/ thief'[t] = thief[t]
                              \/ thief[t].pc # "read" /\ thief'[t].pc # "read"
    PROVE  Bag' = Bag
<1>1. ASSUME NEW u \in Values
      PROVE  Taken(u)' = Taken(u)
  <2>1. Readers(u)' = Readers(u)
    BY DEF Readers
  <2> QED BY <2>1 DEF Taken, Readers
<1> QED BY <1>1, BagSame

-----------------------------------------------------------------------------
(* A step that leaves the items where they are and takes none.             *)
LEMMA OwnerStutters ==
    ASSUME LaceInv, ContentOK, ContentOK', top' = top, LogicalBottom' = LogicalBottom,
           slot' = slot, pushed' = pushed, thief' = thief, delivered' = delivered
    PROVE  /\ Content' = Content /\ Bag' = Bag
           /\ popped' = popped => UNCHANGED WD!vars
           /\ popped' = Empty /\ top = bottom /\ LogicalBottom = bottom => WD!PopEmpty
<1>1. Content' = Content
  BY SameContent
<1>2. Bag' = Bag
  BY NothingTaken
<1>3. popped' = popped => UNCHANGED WD!vars
  BY <1>1, <1>2 DEF WD!vars, Bag
<1>4. ASSUME popped' = Empty, top = bottom, LogicalBottom = bottom PROVE WD!PopEmpty
  <2>1. Content = <<>>
    BY <1>4, NoContent
  <2> QED BY <1>1, <1>2, <1>4, <2>1 DEF WD!PopEmpty, WD!Empty, Empty, Bag
<1> QED BY <1>1, <1>2, <1>3, <1>4

(* push(): the write of the slot is no step of the abstract deque, the     *)
(* item is in it when the word is stored or bottom is increased.           *)
LEMMA PushRefines ==
    ASSUME LaceInv, SlotInv, ContentOK, ContentOK', Unwrapped,
           PushWrite \/ PushReopen \/ PushCount
    PROVE  [WD!Next]_(WD!vars)
<1>1. CASE PushWrite
  <2>1. top' = top /\ LogicalBottom' = LogicalBottom /\ LogicalBottom = bottom
    BY <1>1 DEF PushWrite, word, LogicalBottom
  <2> DEFINE n == LogicalBottom - top
  <2>2. /\ n \in Nat /\ Content \in [1..n -> Values] /\ Content' \in [1..n -> Values]
        /\ \A k \in 1..n : Content[k] = slot[top + k - 1]
        /\ \A k \in 1..n : Content'[k] = slot'[top + k - 1]
    BY <2>1 DEF ContentOK
  <2>3. \A k \in 1..n : top + k - 1 \in 0..(bottom - 1)
    BY <2>1, LengthIsNat
  <2> HIDE DEF n
  <2>4. \A k \in 1..n : Content'[k] = Content[k]
    BY <1>1, <2>2, <2>3, WriteKeepsSlots
  <2>5. Content' = Content
    BY <2>2, <2>4
  <2>6. Bag' = Bag
    BY <1>1, NothingTaken DEF PushWrite
  <2> QED BY <1>1, <2>5, <2>6 DEF PushWrite, WD!vars, Bag
<1>2. CASE PushReopen \/ PushCount
  <2>1. /\ top' = top /\ slot' = slot /\ pushed' = pushed + 1 /\ popped' = popped
        /\ thief' = thief /\ delivered' = delivered
        /\ LogicalBottom = bottom /\ LogicalBottom' = bottom + 1
    BY <1>2 DEF PushReopen, PushCount, word, LogicalBottom, LaceInv, SplitProtocol, NothingLeft
  <2>2. pushed + 1 \in Values /\ slot[bottom] = pushed + 1
    BY <1>2, LengthIsNat, LaceAssumption DEF PushReopen, PushCount, SlotInv, Values, Items
  <2>3. Content' = Append(Content, pushed + 1)
    BY <2>1, <2>2, PushesContent
  <2>4. Bag' = Bag
    BY <2>1, NothingTaken
  <2> QED BY <2>1, <2>3, <2>4 DEF WD!Next, WD!Push, Bag
<1> QED BY <1>1, <1>2

(* pop() takes the newest item, private or won back from the shared part.  *)
LEMMA PopRefines ==
    ASSUME LaceInv, SlotInv, ContentOK, ContentOK', Unwrapped, PopPrivate \/ PopShrunk
    PROVE  WD!Pop
<1>1. /\ top' = top /\ slot' = slot /\ pushed' = pushed /\ thief' = thief
      /\ LogicalBottom = bottom /\ LogicalBottom' = bottom - 1
  BY DEF PopPrivate, PopShrunk, TakeNewest, word, LogicalBottom
<1>2. top < bottom
  BY DEF PopPrivate, PopShrunk, LaceInv, LaceTypes, SplitProtocol, SplitKnown, NothingLeft,
     ShrinkStarted
<1> DEFINE v == slot[bottom - 1]
<1>3. bottom - 1 \in Nat /\ bottom - 1 < Capacity
  BY <1>1, <1>2, LengthIsNat, LaceAssumption DEF SlotInv, Unwrapped
<1>4. Raw(bottom - 1) = v /\ slot[MaskIndex(bottom - 1)] = v /\ v \in Values
  BY <1>3, MaskSmall, SlotValue DEF Raw, LaceInv
<1>5. popped' = v /\ Deliver(v)
  BY <1>4 DEF PopPrivate, PopShrunk, TakeNewest
<1>6. Content # <<>> /\ Content' = WD!Front(Content) /\ WD!Last(Content) = v
  BY <1>1, <1>2, PopsContent
<1>7. Bag' = WD!(+)(Bag, WD!SetToBag({v}))
  BY <1>1, <1>4, <1>5, PopTakes
<1> HIDE DEF v
<1> QED BY <1>1, <1>5, <1>6, <1>7 DEF WD!Pop, Bag

(* pop() reports empty when it knows so, or when it sees, before or after  *)
(* the fetch_sub, that the thieves have come to the end.                   *)
LEMMA EmptyRefines ==
    ASSUME LaceInv, ContentOK, ContentOK', PopKnownEmpty \/ ShrinkLoad \/ ShrinkFresh
    PROVE  [WD!Next]_(WD!vars)
<1>1. /\ top' = top /\ LogicalBottom' = LogicalBottom /\ LogicalBottom = bottom /\ slot' = slot
      /\ pushed' = pushed /\ thief' = thief /\ delivered' = delivered
  BY DEF PopKnownEmpty, ShrinkLoad, ShrinkFresh, word, LogicalBottom
<1>2. popped' = popped \/ (popped' = Empty /\ top = bottom)
  BY DEF PopKnownEmpty, ShrinkLoad, ShrinkFresh, LaceInv, LaceTypes, SplitProtocol, SplitKnown,
     NothingLeft, ShrinkStarted
<1> QED BY <1>1, <1>2, OwnerStutters DEF WD!Next

(* The other steps of the owner move the split and the flags only.         *)
LEMMA SplitMovesRefine ==
    ASSUME LaceInv, ContentOK, ContentOK',
           PushUnsteal \/ PushReopened \/ PushAnswer \/ Grown \/ PopAnswer \/ ShrinkSub
           \/ ShrinkCorrect \/ PopAllStolen
    PROVE  UNCHANGED WD!vars
<1>1. /\ top' = top /\ LogicalBottom' = LogicalBottom /\ slot' = slot /\ popped' = popped
      /\ pushed' = pushed /\ thief' = thief /\ delivered' = delivered
  BY DEF PushUnsteal, PushReopened, PushAnswer, GrowShared, Grown, PopAnswer, ShrinkSub,
     ShrinkCorrect, PopAllStolen, word, LogicalBottom
<1> QED BY <1>1, OwnerStutters

(* steal(): the CAS takes the oldest item, nothing else does.              *)
LEMMA StealRefines ==
    ASSUME LaceInv, SlotInv, ContentOK, ContentOK', Unwrapped, NEW t \in Thieves, ThiefNext(t)
    PROVE  [WD!Next]_(WD!vars)
<1>1. /\ slot' = slot /\ LogicalBottom' = LogicalBottom /\ pushed' = pushed /\ popped' = popped
      /\ top \in Nat /\ thief \in [Thieves -> ThiefLocals]
  BY DEF ThiefNext, StealCheck, StealLoad, StealCas, StealRead, StealRequest, owner, word,
     LogicalBottom, LaceInv, LaceTypes
<1>2. CASE StealCas(t) /\ WordUnchanged(t)
  <2>1. top < LogicalBottom
    BY <1>2 DEF LaceInv, LaceTypes, SplitProtocol, SplitKnown, NothingLeft, ShrinkStarted,
       ThiefSawItem, WordUnchanged, LogicalBottom, StealCas
  <2>2. MaskIndex(top) = top /\ slot[top] \in Values
    <3>1. top < Capacity
      BY <1>1, <2>1, LengthIsNat, LaceAssumption DEF SlotInv, Unwrapped
    <3> QED BY <1>1, <3>1, MaskSmall, SlotValue DEF LaceInv
  <2>3. Content # <<>> /\ Content' = Tail(Content) /\ Head(Content) = slot[top]
    <3>1. top' = top + 1
      BY <1>2 DEF StealCas
    <3> QED BY <1>1, <2>1, <3>1, StealsContent
  <2>4. Bag' = WD!(+)(Bag, WD!SetToBag({slot[top]}))
    <3>1. /\ thief' = [thief EXCEPT ![t].pc = "read", ![t].want = slot[top]]
          /\ delivered' = delivered /\ thief[t].pc = "cas"
      BY <1>2, <2>2 DEF StealCas
    <3> QED BY <2>2, <3>1, CasTakes
  <2> QED BY <1>1, <2>3, <2>4 DEF WD!Next, WD!Steal, Bag
<1>3. CASE ~(StealCas(t) /\ WordUnchanged(t))
  <2>1. top' = top
    BY <1>3 DEF ThiefNext, StealCheck, StealLoad, StealCas, StealRead, StealRequest, word
  <2>2. Content' = Content
    BY <1>1, <2>1, SameContent
  <2>3. Bag' = Bag
    <3>1. CASE StealRead(t)
      <4>1. thief[t].top \in Nat /\ thief[t].top < top /\ slot[thief[t].top] = thief[t].want
        BY <1>1, <3>1 DEF StealRead, SlotInv, ThiefLocals
      <4>2. thief[t].top < Capacity
        BY <4>1, LengthIsNat, LaceAssumption DEF SlotInv, Unwrapped
      <4>3. MaskIndex(thief[t].top) = thief[t].top
        BY <4>1, <4>2, MaskSmall
      <4> QED BY <3>1, <4>1, <4>3, ReadTakesNothingMore DEF StealRead
    <3>2. CASE ~StealRead(t)
      <4>1. /\ delivered' = delivered
            /\ thief[t].pc # "read" /\ thief'[t].pc # "read"
            /\ \A r \in Thieves \ {t} : thief'[r] = thief[r]
        BY <1>1, <1>3, <3>2 DEF ThiefNext, StealCheck, StealLoad, StealCas, StealRequest, Idle,
           ThiefLocals
      <4> QED BY <4>1, NothingTaken
    <3> QED BY <3>1, <3>2
  <2> QED BY <1>1, <2>2, <2>3 DEF WD!vars, Bag
<1> QED BY <1>2, <1>3

(* Every step is a step of the abstract deque or none.                     *)
LEMMA StepRefines ==
    Unwrapped /\ LaceInv /\ SlotInv /\ LaceInv' /\ SlotInv' /\ [Next]_vars
        => [WD!Next]_(WD!vars)
<1> SUFFICES ASSUME Unwrapped, LaceInv, SlotInv, LaceInv', SlotInv', [Next]_vars
             PROVE  [WD!Next]_(WD!vars)
  OBVIOUS
<1>1. ContentOK /\ ContentOK'
  BY ContentType, ContentTypeNext
<1>2. CASE OwnerNext
  BY <1>1, <1>2, PushRefines, PopRefines, EmptyRefines, SplitMovesRefine DEF OwnerNext, WD!Next
<1>3. CASE UNCHANGED vars
  <2>1. /\ top' = top /\ LogicalBottom' = LogicalBottom /\ slot' = slot /\ popped' = popped
        /\ pushed' = pushed /\ thief' = thief /\ delivered' = delivered
    BY <1>3 DEF vars, word, owner, LogicalBottom
  <2> QED BY <1>1, <2>1, OwnerStutters
<1> QED BY <1>1, <1>2, <1>3, StealRefines DEF Next

(* A new deque is an empty abstract deque.                                 *)
LEMMA InitRefines == Unwrapped /\ Init => WD!Init
<1> SUFFICES ASSUME Unwrapped, Init PROVE WD!Init
  OBVIOUS
<1>1. LaceInv /\ ContentOK
  BY LaceInit, SlotInit, ContentType
<1>2. Content = <<>>
  BY <1>1, NoContent DEF Init, LogicalBottom
<1>3. ASSUME NEW v \in Values PROVE Taken(v) = 0
  <2>1. Readers(v) = {}
    BY DEF Init, Readers, Idle
  <2>2. delivered[v] = 0
    BY DEF Init
  <2> QED BY <1>1, <2>1, <2>2, FS_EmptySet, TakenNat
<1>4. Bag = WD!EmptyBag
  <2>1. {u \in Values : Taken(u) > 0} = {}
    BY <1>3
  <2> QED BY <2>1 DEF Bag, WD!EmptyBag, WD!SetToBag
<1> QED BY <1>2, <1>4 DEF Init, WD!Init, WD!Empty, Empty, Bag

(* As long as no more items were pushed than the array has slots, the      *)
(* split deque implements WorkDeque for any number of thieves: every item  *)
(* is handed out once, pop() takes the newest and steal() the oldest, and  *)
(* pop() says empty only when nothing is left.                             *)
THEOREM RefinementUntilWraparound == Unwrapped => (Spec => ImplementsWorkDeque)
<1>1. LaceInv /\ [Next]_vars => LaceInv'
  BY LaceStep
<1>2. Unwrapped /\ LaceInv /\ SlotInv /\ [Next]_vars => SlotInv'
  BY SlotStep
<1>3. Unwrapped /\ LaceInv /\ SlotInv /\ LaceInv' /\ SlotInv' /\ [Next]_vars
        => [WD!Next]_(WD!vars)
  BY StepRefines
<1>4. Unwrapped /\ Init => LaceInv /\ SlotInv /\ WD!Init
  BY LaceInit, SlotInit, InitRefines
<1> SUFFICES ASSUME Unwrapped PROVE Spec => ImplementsWorkDeque
  OBVIOUS
<1> QED BY <1>1, <1>2, <1>3, <1>4, PTL DEF Spec, ImplementsWorkDeque, WD!Spec
=============================================================================

------------------------------ MODULE LaceDeque ------------------------------
(***************************************************************************)
(* The split deque lace_deque of core/ext/deque_lace.hpp.                  *)
(*                                                                         *)
(* The items top..split-1 are shared, split..bottom-1 are private to the   *)
(* owner, which pushes and pops there without synchronisation.  top and    *)
(* split are the halves of one 64 bit word: thieves advance top by a CAS   *)
(* on the word and then read the slot, the owner moves split with          *)
(* fetch_add and fetch_sub.  A thief that finds nothing shared sets        *)
(* m_splitreq, and the owner answers by sharing half of what is private.   *)
(* The owner takes the shared part back when it runs out of private items. *)
(*                                                                         *)
(* Every access to a shared variable is a step; memory is sequentially     *)
(* consistent.  m_bottom is only read by size() and empty() and left out;  *)
(* indices stay far below 2^32.                                            *)
(***************************************************************************)
EXTENDS Integers, FiniteSets, Sequences, SequencesExt

CONSTANTS
    Thieves,    \* the threads that call steal()
    Capacity,   \* m_capacity, the number of slots
    MaxPush,    \* bound: the number of push() calls of a behaviour
    MaxSize     \* bound: the number of items in the deque at a time

ASSUME LaceAssumption ==
    /\ IsFiniteSet(Thieves)
    /\ Capacity \in Nat \ {0} /\ MaxPush \in Nat /\ MaxSize \in Nat

VARIABLES
    top, split,         \* m_top_split
    allstolen,          \* m_allstolen
    splitreq,           \* m_splitreq
    slot,               \* m_array
    bottom, osplit,     \* m_worker: the owner's bottom, split and allstolen
    o_allstolen,
    opc,                \* what the owner does next
    reg,                \* the owner's locals in shrink_shared
    thief,              \* what each thief does next, and its locals
    pushed,             \* number of items pushed; the n-th push carries n
    delivered,          \* how often each item was returned
    popped              \* what the last pop() returned

word == <<top, split>>
owner == <<bottom, osplit, o_allstolen, opc, reg, pushed, popped>>
vars == <<word, allstolen, splitreq, slot, owner, thief, delivered>>

Empty == 0       \* pop() invoked when_empty
Garbage == -1    \* memory that holds no item
Items == 1..MaxPush
Values == Items \union {Garbage}

Idle == [pc |-> "idle", top |-> 0, split |-> 0, want |-> Garbage]

(* mask_index                                                              *)
MaskIndex(i) == i % Capacity

(* m_array[i] without the mask: behind the array there are no items        *)
Raw(i) == IF i < Capacity THEN slot[i] ELSE Garbage

Deliver(v) == delivered' = [delivered EXCEPT ![v] = @ + 1]

-----------------------------------------------------------------------------
(* push(): write the slot, then open the deque again if all was stolen, or *)
(* answer a split request, and make the item the owner's newest.           *)
PushWrite ==
    /\ opc = "idle"
    /\ pushed < MaxPush /\ bottom - top < MaxSize
    /\ slot' = [slot EXCEPT ![MaskIndex(bottom)] = pushed + 1]
    /\ opc' = IF o_allstolen THEN "reopen" ELSE "push"
    /\ UNCHANGED <<word, allstolen, splitreq, bottom, osplit, o_allstolen, reg, pushed,
                   popped, thief, delivered>>

(* m_top_split.store(pack(bot, bot + 1)): the item is shared from here on  *)
PushReopen ==
    /\ opc = "reopen"
    /\ top' = bottom /\ split' = bottom + 1
    /\ pushed' = pushed + 1
    /\ opc' = "unsteal"
    /\ UNCHANGED <<allstolen, splitreq, slot, bottom, osplit, o_allstolen, reg,
                   popped, thief, delivered>>

PushUnsteal ==
    /\ opc = "unsteal"
    /\ allstolen' = FALSE
    /\ opc' = "reopened"
    /\ UNCHANGED <<word, splitreq, slot, bottom, osplit, o_allstolen, reg, pushed,
                   popped, thief, delivered>>

PushReopened ==
    /\ opc = "reopened"
    /\ splitreq' = FALSE
    /\ osplit' = bottom + 1
    /\ o_allstolen' = FALSE
    /\ bottom' = bottom + 1
    /\ opc' = "idle"
    /\ UNCHANGED <<word, allstolen, slot, reg, pushed, popped, thief, delivered>>

(***************************************************************************)
(* grow_shared(): moves the split half way to bottom, then withdraws the   *)
(* request.  push() calls it before it counts the new item.                *)
(***************************************************************************)
Half == (bottom - osplit + 1) \div 2

(* MUTANT of GrowShared: the owner keeps its old idea of the split.        *)
BugGrowForgetsSplit(next) ==
    /\ IF bottom <= osplit
       THEN opc' = IF next = "push" THEN "count" ELSE "idle"
       ELSE opc' = IF next = "push" THEN "push_grown" ELSE "pop_grown"
    /\ split' = IF bottom <= osplit THEN split ELSE split + Half
    /\ UNCHANGED <<top, osplit>>

(* (returns to push(), which counts its item, or ends pop())               *)
GrowShared(next) ==
    /\ IF bottom <= osplit
       THEN /\ opc' = IF next = "push" THEN "count" ELSE "idle"
            /\ UNCHANGED <<word, osplit>>
       ELSE /\ split' = split + Half
            /\ osplit' = osplit + Half
            /\ opc' = IF next = "push" THEN "push_grown" ELSE "pop_grown"
            /\ UNCHANGED top

Grown ==
    /\ opc \in {"push_grown", "pop_grown"}
    /\ o_allstolen' = FALSE
    /\ allstolen' = FALSE
    /\ splitreq' = FALSE
    /\ opc' = IF opc = "push_grown" THEN "count" ELSE "idle"
    /\ UNCHANGED <<word, slot, bottom, osplit, reg, pushed, popped, thief, delivered>>

PushAnswer ==
    /\ opc = "push"
    /\ IF splitreq THEN GrowShared("push") ELSE opc' = "count" /\ UNCHANGED <<word, osplit>>
    /\ UNCHANGED <<allstolen, splitreq, slot, bottom, o_allstolen, reg, pushed,
                   popped, thief, delivered>>

(* ++m_worker.bottom                                                       *)
PushCount ==
    /\ opc = "count"
    /\ bottom' = bottom + 1
    /\ pushed' = pushed + 1
    /\ opc' = "idle"
    /\ UNCHANGED <<word, allstolen, splitreq, slot, osplit, o_allstolen, reg,
                   popped, thief, delivered>>

-----------------------------------------------------------------------------
(* The newest item leaves the private part.                                *)
TakeNewest(val) ==
    /\ bottom' = bottom - 1
    /\ popped' = val
    /\ Deliver(val)
    /\ opc' = "popped"

(* pop(), fast path: m_array is read at m_worker.bottom, not masked        *)
PopPrivate ==
    /\ opc = "idle"
    /\ bottom > osplit
    /\ TakeNewest(Raw(bottom - 1))
    /\ UNCHANGED <<word, allstolen, splitreq, slot, osplit, o_allstolen, reg, pushed, thief>>

PopAnswer ==
    /\ opc = "popped"
    /\ IF splitreq THEN GrowShared("pop") ELSE opc' = "idle" /\ UNCHANGED <<word, osplit>>
    /\ UNCHANGED <<allstolen, splitreq, slot, bottom, o_allstolen, reg, pushed,
                   popped, thief, delivered>>

(* pop_cold_path() when the owner knows that everything is gone            *)
PopKnownEmpty ==
    /\ opc = "idle"
    /\ bottom <= osplit /\ o_allstolen
    /\ popped' = Empty
    /\ UNCHANGED <<word, allstolen, splitreq, slot, bottom, osplit, o_allstolen, opc, reg,
                   pushed, thief, delivered>>

(***************************************************************************)
(* shrink_shared(): take half of the shared part back with fetch_sub, look *)
(* how far the thieves have come meanwhile, and correct the split if they  *)
(* were already past it.                                                   *)
(***************************************************************************)
ShrinkLoad ==
    /\ opc = "idle"
    /\ bottom <= osplit /\ ~o_allstolen
    /\ reg' = [top |-> top, old |-> split, new |-> top + (split - top) \div 2]
    /\ opc' = IF top # split THEN "shrink" ELSE "all_stolen"
    /\ popped' = IF top # split THEN popped ELSE Empty
    /\ UNCHANGED <<word, allstolen, splitreq, slot, bottom, osplit, o_allstolen, pushed,
                   thief, delivered>>

ShrinkSub ==
    /\ opc = "shrink"
    /\ split' = split - (reg.old - reg.new)
    /\ opc' = "fresh"
    /\ UNCHANGED <<top, allstolen, splitreq, slot, bottom, osplit, o_allstolen, reg, pushed,
                   popped, thief, delivered>>

(* MUTANT of ShrinkFresh: does not look whether the thieves took it all.   *)
BugShrinkAssumesSome ==
    /\ opc = "fresh"
    /\ opc' = IF top > reg.new THEN "correct" ELSE "shrunk"
    /\ reg' = [reg EXCEPT !.top = top]
    /\ UNCHANGED <<word, allstolen, splitreq, slot, bottom, osplit, o_allstolen, pushed,
                   popped, thief, delivered>>

ShrinkFresh ==
    /\ opc = "fresh"
    /\ \/ /\ top = reg.old
          /\ opc' = "all_stolen"
          /\ popped' = Empty
          /\ UNCHANGED reg
       \/ /\ top # reg.old
          /\ opc' = IF top > reg.new THEN "correct" ELSE "shrunk"
          /\ reg' = [reg EXCEPT !.top = top]
          /\ UNCHANGED popped
    /\ UNCHANGED <<word, allstolen, splitreq, slot, bottom, osplit, o_allstolen, pushed,
                   thief, delivered>>

(* half of what the thieves had left when they were looked at              *)
Corrected == (reg.top + reg.old) \div 2

ShrinkCorrect ==
    /\ opc = "correct"
    /\ split' = split + (Corrected - reg.new)
    /\ reg' = [reg EXCEPT !.new = Corrected]
    /\ opc' = "shrunk"
    /\ UNCHANGED <<top, allstolen, splitreq, slot, bottom, osplit, o_allstolen, pushed,
                   popped, thief, delivered>>

PopShrunk ==
    /\ opc = "shrunk"
    /\ osplit' = reg.new
    /\ TakeNewest(slot[MaskIndex(bottom - 1)])
    /\ UNCHANGED <<word, allstolen, splitreq, slot, o_allstolen, reg, pushed, thief>>

(* m_allstolen is set and pop() invokes when_empty                         *)
PopAllStolen ==
    /\ opc = "all_stolen"
    /\ allstolen' = TRUE
    /\ o_allstolen' = TRUE
    /\ opc' = "idle"
    /\ UNCHANGED <<word, splitreq, slot, bottom, osplit, reg, pushed, popped, thief, delivered>>

-----------------------------------------------------------------------------
(* steal()                                                                 *)
StealCheck(t) ==
    /\ thief[t].pc = "idle"
    /\ ~allstolen                                 \* otherwise err::empty at once
    /\ thief' = [thief EXCEPT ![t].pc = "load"]
    /\ UNCHANGED <<word, allstolen, splitreq, slot, owner, delivered>>

StealLoad(t) ==
    /\ thief[t].pc = "load"
    /\ thief' = [thief EXCEPT ![t] = [pc |-> IF split - top > 0 THEN "cas" ELSE "request",
                                      top |-> top, split |-> split, want |-> Garbage]]
    /\ UNCHANGED <<word, allstolen, splitreq, slot, owner, delivered>>

WordUnchanged(t) == top = thief[t].top /\ split = thief[t].split

(* MUTANT of StealCas: compares top only.                                  *)
BugCasOnTop(t) ==
    /\ thief[t].pc = "cas"
    /\ \/ /\ top = thief[t].top
          /\ top' = top + 1
          /\ thief' = [thief EXCEPT ![t].pc = "read", ![t].want = slot[MaskIndex(top)]]
       \/ /\ top # thief[t].top
          /\ thief' = [thief EXCEPT ![t] = Idle]
          /\ UNCHANGED top
    /\ UNCHANGED <<split, allstolen, splitreq, slot, owner, delivered>>

(* the CAS claims the item; what it should be is kept in want              *)
StealCas(t) ==
    /\ thief[t].pc = "cas"
    /\ \/ /\ WordUnchanged(t)
          /\ top' = top + 1
          /\ thief' = [thief EXCEPT ![t].pc = "read", ![t].want = slot[MaskIndex(top)]]
       \/ /\ ~WordUnchanged(t)                                      \* err::lost
          /\ thief' = [thief EXCEPT ![t] = Idle]
          /\ UNCHANGED top
    /\ UNCHANGED <<split, allstolen, splitreq, slot, owner, delivered>>

StealRead(t) ==
    /\ thief[t].pc = "read"
    /\ Deliver(slot[MaskIndex(thief[t].top)])
    /\ thief' = [thief EXCEPT ![t] = Idle]
    /\ UNCHANGED <<word, allstolen, splitreq, slot, owner>>

StealRequest(t) ==
    /\ thief[t].pc = "request"
    /\ splitreq' = TRUE
    /\ thief' = [thief EXCEPT ![t] = Idle]
    /\ UNCHANGED <<word, allstolen, slot, owner, delivered>>

-----------------------------------------------------------------------------
Init ==
    /\ top = 0 /\ split = 0
    /\ allstolen = TRUE /\ splitreq = FALSE
    /\ slot = [i \in 0..(Capacity - 1) |-> Garbage]
    /\ bottom = 0 /\ osplit = 0 /\ o_allstolen = TRUE
    /\ opc = "idle" /\ reg = [top |-> 0, old |-> 0, new |-> 0]
    /\ thief = [t \in Thieves |-> Idle]
    /\ pushed = 0
    /\ delivered = [v \in Values |-> 0]
    /\ popped = Empty

OwnerNext ==
    \/ PushWrite \/ PushReopen \/ PushUnsteal \/ PushReopened \/ PushAnswer \/ PushCount
    \/ Grown \/ PopPrivate \/ PopAnswer \/ PopKnownEmpty
    \/ ShrinkLoad \/ ShrinkSub \/ ShrinkFresh \/ ShrinkCorrect \/ PopShrunk \/ PopAllStolen

ThiefNext(t) == StealCheck(t) \/ StealLoad(t) \/ StealCas(t) \/ StealRead(t) \/ StealRequest(t)

Next == OwnerNext \/ \E t \in Thieves : ThiefNext(t)

Spec == Init /\ [][Next]_vars

-----------------------------------------------------------------------------
(* The item of a reopening push is shared before bottom counts it.         *)
LogicalBottom == IF opc \in {"unsteal", "reopened"} THEN bottom + 1 ELSE bottom

Content == [k \in 1..(LogicalBottom - top) |-> slot[MaskIndex(top + k - 1)]]

(* How often an item was returned or claimed by a thief that has yet to    *)
(* read it.                                                                *)
Taken(v) == delivered[v] + Cardinality({t \in Thieves : thief[t].pc = "read" /\ thief[t].want = v})

(* The private part is the owner's alone: a CAS that would succeed claims  *)
(* an item that is in the deque and below the split the owner goes by,     *)
(* even while the owner is moving it.                                      *)
ClaimsAreShared ==
    \A t \in Thieves :
        (thief[t].pc = "cas" /\ WordUnchanged(t)) =>
            /\ top < LogicalBottom
            /\ opc \in {"idle", "push", "popped", "count"} => top < osplit
            /\ opc = "shrunk" => top < reg.new

(* The owner's copies agree with the shared words between its operations:  *)
(* a stale osplit would let pop() take what thieves may take.              *)
OwnerKnowsSplit ==
    opc = "idle" =>
        /\ o_allstolen = allstolen
        /\ o_allstolen => top = bottom
        /\ ~o_allstolen => osplit = split /\ top <= split /\ split <= bottom

(* The split deque implements the abstract one: pop reports empty only     *)
(* when nothing is left, and takes the newest item otherwise.              *)
WD == INSTANCE WorkDeque WITH
        items <- Content,
        taken <- [v \in {u \in Values : Taken(u) > 0} |-> Taken(v)]

ImplementsWorkDeque == WD!Spec
=============================================================================

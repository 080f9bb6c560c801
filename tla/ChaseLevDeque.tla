---------------------------- MODULE ChaseLevDeque ----------------------------
(***************************************************************************)
(* The default work-stealing deque of libfork, chase_lev_deque in          *)
(* core/ext/deque_chase_lev.hpp, with its growing ring buffers and the     *)
(* memory orders the code asks for.                                        *)
(*                                                                         *)
(* The owner is the only thread that writes m_bottom, m_buf and the slots. *)
(* Its stores enter the store buffer `sb' and become visible to thieves    *)
(* one at a time (Flush).  The owner reads its own latest stores (m_bottom,*)
(* m_buf, slot); thieves read what is visible (g_bottom, g_buf, g_slot).   *)
(* m_top is only written by compare_exchange, which acts on shared memory  *)
(* at once.  Because other threads can only see an owner store at its      *)
(* Flush, consecutive owner stores with no shared load between them are    *)
(* issued by one action without losing an interleaving.                    *)
(*                                                                         *)
(* StoreOrder says which reorderings of relaxed stores the machine makes:  *)
(*   "program"  stores become visible in program order (x86, TSO);         *)
(*   "relaxed"  stores to different locations may become visible in any    *)
(*              order unless a release fence separates them (ARM, POWER).  *)
(* The loads of a thief stay in order on both: m_top is loaded with        *)
(* acquire and followed by a seq_cst fence, m_bottom with acquire, m_buf   *)
(* with consume and the slot through that pointer, before a seq_cst CAS.   *)
(***************************************************************************)
EXTENDS Integers, FiniteSets, Sequences, SequencesExt

CONSTANTS
    Thieves,      \* the threads that call steal()
    Capacities,   \* the ring buffer capacities that may exist (bounds growth)
    InitialCap,   \* the capacity the constructor is given
    MaxPush,      \* bound: the number of push() calls of a behaviour
    StoreOrder    \* "program" or "relaxed"

ASSUME CapacityAssumption ==
    /\ Capacities \subseteq Nat \ {0}
    /\ InitialCap \in Capacities

ASSUME PushAssumption == MaxPush \in Nat

ASSUME OrderAssumption == StoreOrder \in {"program", "relaxed"}

VARIABLES
    m_top,      \* index of the oldest item
    m_bottom,   \* the owner's latest m_bottom
    m_buf,      \* capacity of the owner's latest ring buffer
    slot,       \* the owner's view of the slots of every ring buffer
    g_bottom,   \* m_bottom, m_buf and the slots as thieves can see them
    g_buf,
    g_slot,
    sb,         \* the owner's stores that are not visible yet, oldest first
    epoch,      \* number of release fences the owner has executed
    opc,        \* what the owner does next: "idle", "fence" or "cas"
    thief,      \* what each thief does next, and its locals
    pushed,     \* number of items pushed; the n-th push carries item n
    delivered,  \* how often each item was returned by a pop() or a steal()
    popped      \* what the last pop() decided to return

owner == <<m_bottom, m_buf, slot, epoch, opc, pushed, popped>>
visible == <<g_bottom, g_buf, g_slot>>
vars == <<m_top, owner, visible, sb, thief, delivered>>

Empty == 0      \* pop() invoked when_empty
Garbage == 0    \* the content of a slot that was never written

Items == 1..MaxPush
Values == Items \union {Garbage}

(***************************************************************************)
(* atomic_ring_buf: an index is masked with m_cap - 1, m_cap a power of 2. *)
(***************************************************************************)
Mask(cap, index) == index % cap

Load(bufs, cap, index) == bufs[cap][Mask(cap, index)]

Store(bufs, cap, index, val) == [bufs EXCEPT ![cap][Mask(cap, index)] = val]

EmptyBufs == [c \in Capacities |-> [k \in 0..(c - 1) |-> Garbage]]

(* resize: a buffer of twice the capacity with the items top..bot-1 copied *)
Resize(bufs, cap, bot, top) ==
    [bufs EXCEPT ![2 * cap] =
        [k \in 0..(2 * cap - 1) |->
            IF \E i \in top..(bot - 1) : Mask(2 * cap, i) = k
            THEN Load(bufs, cap, CHOOSE i \in top..(bot - 1) : Mask(2 * cap, i) = k)
            ELSE Garbage]]

(***************************************************************************)
(* The store buffer.                                                       *)
(***************************************************************************)
(* (A pending store has the same fields whatever it stores to.)            *)
SlotStore(cap, index, val, e) ==
    [loc |-> "slot", cap |-> cap, index |-> index, val |-> val, epoch |-> e]
BufStore(cap, e) ==
    [loc |-> "buf", cap |-> cap, index |-> 0, val |-> 0, epoch |-> e]
BottomStore(index, e) ==
    [loc |-> "bottom", cap |-> InitialCap, index |-> index, val |-> 0, epoch |-> e]

SameLocation(s, r) ==
    /\ s.loc = r.loc
    /\ s.loc = "slot" =>
         s.cap = r.cap /\ Mask(s.cap, s.index) = Mask(r.cap, r.index)

(* May the i-th pending store become visible before the older ones?        *)
MayFlush(i) ==
    \A j \in 1..(i - 1) :
        /\ StoreOrder = "relaxed"
        /\ sb[j].epoch = sb[i].epoch
        /\ ~SameLocation(sb[j], sb[i])

Flush(i) ==
    /\ MayFlush(i)
    /\ LET s == sb[i] IN
         /\ g_bottom' = IF s.loc = "bottom" THEN s.index ELSE g_bottom
         /\ g_buf'    = IF s.loc = "buf" THEN s.cap ELSE g_buf
         /\ g_slot'   = IF s.loc = "slot" THEN Store(g_slot, s.cap, s.index, s.val)
                                          ELSE g_slot
    /\ sb' = RemoveAt(sb, i)
    /\ UNCHANGED <<m_top, owner, thief, delivered>>

(***************************************************************************)
(* push(): load m_top, grow when full, store the item, release fence,      *)
(* store m_bottom.                                                         *)
(***************************************************************************)
(* MUTANT of Full: lets in one item more than there are slots.             *)
BugFullOffByOne == m_buf < m_bottom - m_top

Full == m_buf < (m_bottom - m_top) + 1

(* The stores of resize() into the new buffer, and of m_buf.               *)
GrowStores ==
    [i \in 1..(m_bottom - m_top) |->
        SlotStore(2 * m_buf, m_top + i - 1, Load(slot, m_buf, m_top + i - 1), epoch)]
    \o <<BufStore(2 * m_buf, epoch)>>

(* MUTANT of ReleaseFence: the fence is missing.                           *)
BugNoReleaseFence == UNCHANGED epoch

(* std::atomic_thread_fence(release): no earlier store may become visible  *)
(* after a later one.                                                      *)
ReleaseFence == epoch' = epoch + 1

Push ==
    /\ opc = "idle"
    /\ pushed < MaxPush
    /\ Full => 2 * m_buf \in Capacities
    /\ ReleaseFence
    /\ LET cap  == IF Full THEN 2 * m_buf ELSE m_buf
           bufs == IF Full THEN Resize(slot, m_buf, m_bottom, m_top) ELSE slot
           item == pushed + 1
       IN  /\ m_buf' = cap
           /\ slot' = Store(bufs, cap, m_bottom, item)
           /\ sb' = sb \o (IF Full THEN GrowStores ELSE <<>>)
                       \o <<SlotStore(cap, m_bottom, item, epoch),
                            BottomStore(m_bottom + 1, epoch')>>
           /\ pushed' = item
    /\ m_bottom' = m_bottom + 1
    /\ UNCHANGED <<m_top, visible, opc, thief, delivered, popped>>

(***************************************************************************)
(* pop(): reserve the newest slot by decrementing m_bottom, fence, load    *)
(* m_top, and race for the slot only if it is the last one.                *)
(***************************************************************************)
Deliver(v) == delivered' = [delivered EXCEPT ![v] = @ + 1]

PopReserve ==
    /\ opc = "idle"
    /\ m_bottom' = m_bottom - 1
    /\ sb' = Append(sb, BottomStore(m_bottom - 1, epoch))
    /\ opc' = "fence"
    /\ UNCHANGED <<m_top, m_buf, slot, visible, epoch, thief, pushed, delivered, popped>>

(* MUTANT of SeqCstFence: the fence is missing.                            *)
BugNoSeqCstFence == TRUE

(* thread_fence_seq_cst: the owner's stores are visible before it reads on *)
SeqCstFence == sb = <<>>

(* m_bottom.store(bottom + 1)                                              *)
RestoreBottom ==
    /\ m_bottom' = m_bottom + 1
    /\ sb' = Append(sb, BottomStore(m_bottom + 1, epoch))

PopMany ==
    /\ opc = "fence"
    /\ SeqCstFence
    /\ m_top < m_bottom
    /\ popped' = Load(slot, m_buf, m_bottom)
    /\ Deliver(popped')
    /\ opc' = "idle"
    /\ UNCHANGED <<m_top, m_bottom, m_buf, slot, visible, sb, epoch, thief, pushed>>

PopLast ==
    /\ opc = "fence"
    /\ SeqCstFence
    /\ m_top = m_bottom
    /\ opc' = "cas"
    /\ UNCHANGED <<m_top, m_bottom, m_buf, slot, visible, sb, epoch, thief, pushed,
                   delivered, popped>>

(* MUTANT of PopEmpty: m_bottom is not put back.                           *)
BugPopEmptyNoRestore ==
    /\ opc = "fence" /\ SeqCstFence /\ m_top > m_bottom
    /\ popped' = Empty /\ opc' = "idle"
    /\ UNCHANGED <<m_top, m_bottom, sb, m_buf, slot, visible, epoch, thief, pushed, delivered>>

(* MUTANT of PopEmpty: the last item counts as none.                       *)
BugPopEmptyTooEarly ==
    /\ opc = "fence" /\ SeqCstFence /\ m_top >= m_bottom
    /\ popped' = Empty /\ RestoreBottom /\ opc' = "idle"
    /\ UNCHANGED <<m_top, m_buf, slot, visible, epoch, thief, pushed, delivered>>

PopEmpty ==
    /\ opc = "fence"
    /\ SeqCstFence
    /\ m_top > m_bottom
    /\ popped' = Empty
    /\ RestoreBottom
    /\ opc' = "idle"
    /\ UNCHANGED <<m_top, m_buf, slot, visible, epoch, thief, pushed, delivered>>

(* MUTANT of PopCas: takes the item whoever won.                           *)
BugPopCasUnchecked ==
    /\ opc = "cas"
    /\ m_top' = m_bottom + 1
    /\ popped' = Load(slot, m_buf, m_bottom)
    /\ Deliver(popped')
    /\ RestoreBottom /\ opc' = "idle"
    /\ UNCHANGED <<m_buf, slot, visible, epoch, thief, pushed>>

(* MUTANT of PopCas: m_bottom is not put back after a loss.                *)
BugPopCasLostNoRestore ==
    /\ opc = "cas"
    /\ \/ /\ m_top = m_bottom
          /\ m_top' = m_top + 1
          /\ popped' = Load(slot, m_buf, m_bottom)
          /\ Deliver(popped')
          /\ RestoreBottom
       \/ /\ m_top # m_bottom
          /\ popped' = Empty
          /\ UNCHANGED <<m_top, delivered, m_bottom, sb>>
    /\ opc' = "idle"
    /\ UNCHANGED <<m_buf, slot, visible, epoch, thief, pushed>>

PopCas ==
    /\ opc = "cas"
    /\ \/ /\ m_top = m_bottom
          /\ m_top' = m_top + 1
          /\ popped' = Load(slot, m_buf, m_bottom)
          /\ Deliver(popped')
       \/ /\ m_top # m_bottom
          /\ popped' = Empty
          /\ UNCHANGED <<m_top, delivered>>
    /\ RestoreBottom
    /\ opc' = "idle"
    /\ UNCHANGED <<m_buf, slot, visible, epoch, thief, pushed>>

(***************************************************************************)
(* steal(): load m_top, m_bottom, m_buf and the slot, in this order, then  *)
(* claim the slot with a CAS on m_top.                                     *)
(***************************************************************************)
Idle == [pc |-> "idle", top |-> 0, buf |-> InitialCap, tmp |-> Garbage]

StealTop(t) ==
    /\ thief[t].pc = "idle"
    /\ thief' = [thief EXCEPT ![t].pc = "bottom", ![t].top = m_top]
    /\ UNCHANGED <<m_top, owner, visible, sb, delivered>>

StealBottom(t) ==
    /\ thief[t].pc = "bottom"
    /\ thief' = [thief EXCEPT ![t] =
                    IF thief[t].top < g_bottom THEN [@ EXCEPT !.pc = "buf"]
                                               ELSE Idle]        \* err::empty
    /\ UNCHANGED <<m_top, owner, visible, sb, delivered>>

StealBuf(t) ==
    /\ thief[t].pc = "buf"
    /\ thief' = [thief EXCEPT ![t].pc = "slot", ![t].buf = g_buf]
    /\ UNCHANGED <<m_top, owner, visible, sb, delivered>>

StealSlot(t) ==
    /\ thief[t].pc = "slot"
    /\ thief' = [thief EXCEPT ![t].pc = "cas",
                              ![t].tmp = Load(g_slot, thief[t].buf, thief[t].top)]
    /\ UNCHANGED <<m_top, owner, visible, sb, delivered>>

StealCas(t) ==
    /\ thief[t].pc = "cas"
    /\ \/ /\ m_top = thief[t].top
          /\ m_top' = m_top + 1
          /\ Deliver(thief[t].tmp)
       \/ /\ m_top # thief[t].top                                \* err::lost
          /\ UNCHANGED <<m_top, delivered>>
    /\ thief' = [thief EXCEPT ![t] = Idle]
    /\ UNCHANGED <<owner, visible, sb>>

-----------------------------------------------------------------------------
Init ==
    /\ m_top = 0
    /\ m_bottom = 0 /\ g_bottom = 0
    /\ m_buf = InitialCap /\ g_buf = InitialCap
    /\ slot = EmptyBufs /\ g_slot = EmptyBufs
    /\ sb = <<>>
    /\ epoch = 0
    /\ opc = "idle"
    /\ thief = [t \in Thieves |-> Idle]
    /\ pushed = 0
    /\ delivered = [v \in Values |-> 0]
    /\ popped = Empty

OwnerNext == Push \/ PopReserve \/ PopMany \/ PopLast \/ PopEmpty \/ PopCas

ThiefNext(t) == \/ StealTop(t) \/ StealBottom(t) \/ StealBuf(t)
                \/ StealSlot(t) \/ StealCas(t)

Next ==
    \/ OwnerNext
    \/ \E i \in DOMAIN sb : Flush(i)
    \/ \E t \in Thieves : ThiefNext(t)

Spec == Init /\ [][Next]_vars

(* Stores become visible eventually; an operation that was begun is        *)
(* finished, and thieves keep stealing (the pools' workers loop on it).    *)
Fairness ==
    /\ WF_vars(\E i \in DOMAIN sb : Flush(i))
    /\ WF_vars(PopMany \/ PopLast \/ PopEmpty \/ PopCas)
    /\ \A t \in Thieves : WF_vars(ThiefNext(t))

FairSpec == Spec /\ Fairness
-----------------------------------------------------------------------------
(* The end of the logical deque: an item that pop() has only reserved is   *)
(* still there until pop() has read m_top.                                 *)
LogicalBottom == IF opc = "idle" THEN m_bottom ELSE m_bottom + 1

ItemAt(i) == Load(slot, m_buf, i)

Content == [k \in 1..(LogicalBottom - m_top) |-> ItemAt(m_top + k - 1)]

(* A thief that has seen an item and will win its CAS if nobody moves      *)
(* m_top first.                                                            *)
MayWin(t) == thief[t].pc \in {"buf", "slot", "cas"} /\ thief[t].top = m_top

Stores == [loc : {"slot", "buf", "bottom"}, cap : Capacities,
           index : -1..MaxPush, val : Values, epoch : Nat]

Locals == [pc : {"idle", "bottom", "buf", "slot", "cas"},
           top : Nat, buf : Capacities, tmp : Values]

(* Types of the deque's fields, the store buffer and the thieves' locals.  *)
TypeOK ==
    /\ m_top \in 0..MaxPush
    /\ m_bottom \in -1..MaxPush /\ g_bottom \in -1..MaxPush
    /\ m_buf \in Capacities /\ g_buf \in Capacities
    /\ \A bufs \in {slot, g_slot} :
         /\ DOMAIN bufs = Capacities
         /\ \A c \in Capacities : bufs[c] \in [0..(c - 1) -> Values]
    /\ sb \in Seq(Stores)
    /\ epoch \in Nat
    /\ opc \in {"idle", "fence", "cas"}
    /\ thief \in [Thieves -> Locals]
    /\ pushed \in 0..MaxPush
    /\ delivered \in [Values -> Nat]
    /\ popped \in Values

(* Thieves and the owner never pass each other: m_top stays at or below    *)
(* the logical bottom, and a steal() whose CAS on m_top would succeed      *)
(* claims an index that is in the deque and that pop() has not taken, even *)
(* though it read m_top and m_bottom many steps ago.  This is what the     *)
(* seq_cst fences in pop() and the CAS on the last item are for.           *)
ClaimsAreLive ==
    /\ m_top <= LogicalBottom
    /\ \A t \in Thieves : MayWin(t) => m_top < LogicalBottom

(* The inductive invariant behind ClaimsAreLive.  An m_bottom that is or   *)
(* becomes visible never exceeds the logical bottom, because pop() takes   *)
(* an item without a CAS only after its own smaller m_bottom is visible;   *)
(* the youngest pending m_bottom is the owner's; and a thief's m_top may   *)
(* be old but is never from the future.                                    *)
IsBottom(k) == sb[k].loc = "bottom"

BottomIsLastStore ==
    /\ (\A k \in 1..Len(sb) : ~IsBottom(k)) => g_bottom = m_bottom
    /\ \A k \in 1..Len(sb) :
         (IsBottom(k) /\ \A j \in (k + 1)..Len(sb) : ~IsBottom(j))
            => sb[k].index = m_bottom

VisibleBottomIsBounded ==
    /\ g_bottom <= LogicalBottom
    /\ \A k \in 1..Len(sb) : IsBottom(k) => sb[k].index <= LogicalBottom

TopsAreOld == \A t \in Thieves : thief[t].pc # "idle" => thief[t].top <= m_top

IndexInv ==
    /\ TypeOK
    /\ BottomIsLastStore
    /\ VisibleBottomIsBounded
    /\ TopsAreOld
    /\ ClaimsAreLive
    /\ LogicalBottom <= pushed

(* "we only return the value if we win the race below guaranteeing we had  *)
(* no race during our read": a thief whose CAS would succeed holds the     *)
(* item that was pushed at that index, not the content of a slot that was  *)
(* overwritten, not yet written, or not yet copied by resize().            *)
WinnerReadIsClean ==
    \A t \in Thieves :
        (thief[t].pc = "cas" /\ MayWin(t)) => thief[t].tmp = ItemAt(m_top)

(* push() publishes its item before its index, and growing publishes the   *)
(* copies before the buffer: whatever index a thief can see below m_bottom *)
(* holds that index' item in the buffer the thief can see.                 *)
VisibleItemsAreReadable ==
    \A i \in m_top..(LogicalBottom - 1) :
        i < g_bottom => Load(g_slot, g_buf, i) = ItemAt(i)

(* The deque implements the abstract one: push takes effect when m_bottom  *)
(* is stored, pop when m_top is loaded (or by its CAS on the last item),   *)
(* steal by its CAS.  In particular pop reports empty only when it is.     *)
WD == INSTANCE WorkDeque WITH
        items <- Content,
        taken <- [v \in {u \in Values : delivered[u] > 0} |-> delivered[v]]

ImplementsWorkDeque == WD!Spec

(* With thieves that keep trying and an owner that finishes the pop() it   *)
(* has begun, no pushed item stays in the deque for ever: a failed CAS     *)
(* means that someone else succeeded.                                      *)
EveryItemIsTaken ==
    \A n \in Items : (pushed >= n) ~> (delivered[n] = 1)
=============================================================================

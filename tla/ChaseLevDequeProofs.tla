------------------------- MODULE ChaseLevDequeProofs -------------------------
(***************************************************************************)
(* Proofs about ChaseLevDeque, for every set of thieves, every set of      *)
(* capacities, every number of pushes and both store orders: first the     *)
(* indices, then the items and the refinement of WorkDeque.                *)
(***************************************************************************)
EXTENDS ChaseLevDeque, Lemmas

-----------------------------------------------------------------------------
(* Helpers: the masked index, and sequences that lose or gain an element.  *)

(* A masked index is the index of a slot.                                  *)
LEMMA ModRange ==
    ASSUME NEW c \in Nat \ {0}, NEW i \in Int
    PROVE  i % c \in 0..(c - 1)
  OBVIOUS

(* Removing the i-th element of a sequence shifts the later ones down.     *)
LEMMA RemoveAtProperties ==
    ASSUME NEW S, NEW s \in Seq(S), NEW i \in 1..Len(s)
    PROVE  /\ RemoveAt(s, i) \in Seq(S)
           /\ Len(RemoveAt(s, i)) = Len(s) - 1
           /\ \A j \in 1..(Len(s) - 1) :
                RemoveAt(s, i)[j] = IF j < i THEN s[j] ELSE s[j + 1]
<1> DEFINE a == SubSeq(s, 1, i - 1)
           b == SubSeq(s, i + 1, Len(s))
<1>1. /\ a \in Seq(S)
      /\ Len(a) = i - 1
      /\ \A j \in 1..(i - 1) : a[j] = s[j]
  <2>1. \A j \in 1..(i - 1) : s[j] \in S
    BY ElementOfSeq
  <2> QED BY <2>1, SubSeqProperties
<1>2. /\ b \in Seq(S)
      /\ Len(b) = Len(s) - i
      /\ \A j \in 1..(Len(s) - i) : b[j] = s[i + j]
  <2>1. \A j \in (i + 1)..Len(s) : s[j] \in S
    BY ElementOfSeq
  <2> HIDE DEF b
  <2>2. /\ b \in Seq(S)
        /\ Len(b) = IF i + 1 <= Len(s) THEN Len(s) - (i + 1) + 1 ELSE 0
        /\ \A j \in 1..(Len(s) - (i + 1) + 1) : b[j] = s[(i + 1) + j - 1]
    BY <2>1, SubSeqProperties DEF b
  <2> QED BY <2>2
<1>3. RemoveAt(s, i) = a \o b
  BY DEF RemoveAt
<1> HIDE DEF a, b
<1>4. /\ a \o b \in Seq(S)
      /\ Len(a \o b) = Len(a) + Len(b)
      /\ \A j \in 1..(Len(a) + Len(b)) :
           (a \o b)[j] = IF j <= Len(a) THEN a[j] ELSE b[j - Len(a)]
  BY <1>1, <1>2, ConcatProperties
<1> QED BY <1>1, <1>2, <1>3, <1>4

(* A store joins the buffer behind the others.                             *)
LEMMA AppendedStore ==
    ASSUME NEW S, NEW s \in Seq(S), NEW e \in S
    PROVE  /\ Append(s, e) \in Seq(S)
           /\ Len(Append(s, e)) = Len(s) + 1
           /\ \A j \in 1..Len(s) : Append(s, e)[j] = s[j]
           /\ Append(s, e)[Len(s) + 1] = e
  OBVIOUS

(* The stores of a grow join the buffer behind the others, in order.       *)
LEMMA ConcatShape ==
    ASSUME NEW S, NEW s \in Seq(S), NEW g \in Seq(S)
    PROVE  /\ s \o g \in Seq(S)
           /\ Len(s \o g) = Len(s) + Len(g)
           /\ Len(s) \in Nat /\ Len(g) \in Nat
           /\ \A j \in 1..Len(s) : (s \o g)[j] = s[j]
           /\ \A j \in (Len(s) + 1)..(Len(s) + Len(g)) :
                j - Len(s) \in 1..Len(g) /\ (s \o g)[j] = g[j - Len(s)]
<1>1. /\ s \o g \in Seq(S)
      /\ Len(s \o g) = Len(s) + Len(g)
      /\ \A j \in 1..(Len(s) + Len(g)) :
           (s \o g)[j] = IF j <= Len(s) THEN s[j] ELSE g[j - Len(s)]
  BY ConcatProperties
<1> QED BY <1>1

(* get() of a ring returns an item or the garbage of a fresh ring.         *)
LEMMA LoadValue ==
    ASSUME NEW bufs, DOMAIN bufs = Capacities,
           \A c \in Capacities : bufs[c] \in [0..(c - 1) -> Values],
           NEW cap \in Capacities, NEW i \in Int
    PROVE  Load(bufs, cap, i) \in Values
  BY ModRange, CapacityAssumption DEF Load, Mask

(* set() of a ring leaves the rings well formed.                           *)
LEMMA StoreType ==
    ASSUME NEW bufs, DOMAIN bufs = Capacities,
           \A c \in Capacities : bufs[c] \in [0..(c - 1) -> Values],
           NEW cap \in Capacities, NEW i \in Int, NEW v \in Values
    PROVE  /\ DOMAIN Store(bufs, cap, i, v) = Capacities
           /\ \A c \in Capacities : Store(bufs, cap, i, v)[c] \in [0..(c - 1) -> Values]
  BY DEF Store

(* The conjuncts of TypeOK, one by one.                                    *)
LEMMA TypeParts ==
    ASSUME TypeOK
    PROVE  /\ m_top \in 0..MaxPush /\ m_top \in Nat
           /\ m_bottom \in -1..MaxPush /\ m_bottom \in Int
           /\ g_bottom \in -1..MaxPush /\ g_bottom \in Int
           /\ m_buf \in Capacities /\ g_buf \in Capacities
           /\ sb \in Seq(Stores) /\ epoch \in Nat /\ opc \in {"idle", "fence", "cas"}
           /\ thief \in [Thieves -> Locals] /\ pushed \in 0..MaxPush
<1>1. /\ m_top \in 0..MaxPush /\ m_bottom \in -1..MaxPush /\ g_bottom \in -1..MaxPush
  BY Zenon DEF TypeOK
<1>2. /\ m_buf \in Capacities /\ g_buf \in Capacities
      /\ sb \in Seq(Stores) /\ epoch \in Nat /\ opc \in {"idle", "fence", "cas"}
      /\ thief \in [Thieves -> Locals] /\ pushed \in 0..MaxPush
  BY Zenon DEF TypeOK
<1>3. m_top \in Nat /\ m_bottom \in Int /\ g_bottom \in Int
  BY <1>1, PushAssumption
<1> QED BY <1>1, <1>2, <1>3

(* The slots of every ring buffer, as the owner and as the thieves see     *)
(* them, hold values.                                                      *)
LEMMA SlotParts ==
    ASSUME TypeOK
    PROVE  /\ DOMAIN slot = Capacities /\ DOMAIN g_slot = Capacities
           /\ \A c \in Capacities : slot[c] \in [0..(c - 1) -> Values]
           /\ \A c \in Capacities : g_slot[c] \in [0..(c - 1) -> Values]
  BY Zenon DEF TypeOK

-----------------------------------------------------------------------------
(* The invariant holds initially.                                          *)
LEMMA InitIndexInv == Init => IndexInv
<1> SUFFICES ASSUME Init PROVE IndexInv
  OBVIOUS
<1> USE CapacityAssumption, PushAssumption
<1>1. TypeOK
  <2>1. /\ DOMAIN EmptyBufs = Capacities
        /\ \A c \in Capacities : EmptyBufs[c] \in [0..(c - 1) -> Values]
    BY DEF EmptyBufs, Values
  <2>2. sb \in Seq(Stores)
    BY EmptySeq DEF Init
  <2>3. thief \in [Thieves -> Locals]
    BY DEF Init, Idle, Values, Locals
  <2>4. delivered \in [Values -> Nat] /\ popped \in Values
    BY DEF Init, Values, Empty, Garbage
  <2> QED BY <2>1, <2>2, <2>3, <2>4 DEF Init, TypeOK
<1>2. Len(sb) = 0
  BY EmptySeq DEF Init
<1>3. BottomIsLastStore /\ VisibleBottomIsBounded
  BY <1>2 DEF Init, BottomIsLastStore, VisibleBottomIsBounded, LogicalBottom
<1>4. TopsAreOld /\ ClaimsAreLive
  BY DEF Init, Idle, TopsAreOld, ClaimsAreLive, MayWin, LogicalBottom
<1> QED BY <1>1, <1>3, <1>4 DEF Init, IndexInv, LogicalBottom

(* A store that becomes visible.                                           *)
LEMMA FlushIndexInv ==
    ASSUME IndexInv, NEW i \in DOMAIN sb, Flush(i)
    PROVE  IndexInv'
<1> USE CapacityAssumption, PushAssumption
<1>0. TypeOK /\ sb \in Seq(Stores)
  BY DEF IndexInv, TypeOK
<1>1. i \in 1..Len(sb)
  BY <1>0
<1>2. /\ sb' \in Seq(Stores)
      /\ Len(sb') = Len(sb) - 1
      /\ \A j \in 1..(Len(sb) - 1) : sb'[j] = IF j < i THEN sb[j] ELSE sb[j + 1]
  <2>1. sb' = RemoveAt(sb, i)
    BY DEF Flush
  <2> QED BY <1>0, <1>1, <2>1, RemoveAtProperties
<1>3. sb[i] \in Stores
  BY <1>0, <1>1, ElementOfSeq
<1>4. TypeOK'
  <2>1. g_bottom' \in -1..MaxPush
    BY <1>0, <1>3 DEF Flush, TypeOK, Stores
  <2>2. g_buf' \in Capacities
    BY <1>0, <1>3 DEF Flush, TypeOK, Stores
  <2>3. /\ DOMAIN g_slot' = Capacities
        /\ \A c \in Capacities : g_slot'[c] \in [0..(c - 1) -> Values]
    <3>1. /\ DOMAIN g_slot = Capacities
          /\ \A c \in Capacities : g_slot[c] \in [0..(c - 1) -> Values]
      BY <1>0 DEF TypeOK
    <3>2. sb[i].cap \in Capacities /\ sb[i].index \in Int /\ sb[i].val \in Values
      BY <1>3 DEF Stores
    <3>3. \/ g_slot' = Store(g_slot, sb[i].cap, sb[i].index, sb[i].val)
          \/ g_slot' = g_slot
      BY DEF Flush
    <3>4. LET upd == Store(g_slot, sb[i].cap, sb[i].index, sb[i].val)
          IN  /\ DOMAIN upd = Capacities
              /\ \A c \in Capacities : upd[c] \in [0..(c - 1) -> Values]
      BY <3>1, <3>2, StoreType
    <3> QED BY <3>1, <3>3, <3>4
  <2> QED BY <1>0, <1>2, <2>1, <2>2, <2>3 DEF Flush, TypeOK, owner
<1>5. BottomIsLastStore'
  <2> USE DEF IsBottom
  <2>1. CASE sb[i].loc = "bottom"
    <3>1. \A j \in 1..(i - 1) : ~IsBottom(j)
      BY <1>1, <2>1 DEF Flush, MayFlush, SameLocation
    <3>2. g_bottom' = sb[i].index /\ m_bottom' = m_bottom
      BY <2>1 DEF Flush, owner
    <3>3. ASSUME \A k \in 1..Len(sb') : ~IsBottom(k)'
          PROVE  g_bottom' = m_bottom'
      <4>1. \A j \in (i + 1)..Len(sb) : ~IsBottom(j)
        <5> SUFFICES ASSUME NEW j \in (i + 1)..Len(sb) PROVE ~IsBottom(j)
          OBVIOUS
        <5>1. j - 1 \in 1..Len(sb') /\ sb'[j - 1] = sb[j]
          BY <1>1, <1>2
        <5> QED BY <3>3, <5>1
      <4> QED BY <1>1, <2>1, <3>2, <4>1 DEF IndexInv, BottomIsLastStore
    <3>4. ASSUME NEW k \in 1..Len(sb'), IsBottom(k)',
                 \A j \in (k + 1)..Len(sb') : ~IsBottom(j)'
          PROVE  (sb[k].index)' = m_bottom'
      <4>1. k >= i
        BY <1>1, <1>2, <3>1, <3>4
      <4>2. k + 1 \in 1..Len(sb) /\ sb'[k] = sb[k + 1]
        BY <1>1, <1>2, <4>1
      <4>3. \A j \in (k + 2)..Len(sb) : ~IsBottom(j)
        <5> SUFFICES ASSUME NEW j \in (k + 2)..Len(sb) PROVE ~IsBottom(j)
          OBVIOUS
        <5>1. j - 1 \in (k + 1)..Len(sb') /\ sb'[j - 1] = sb[j]
          BY <1>1, <1>2, <4>1
        <5> QED BY <3>4, <5>1
      <4> QED BY <3>2, <3>4, <4>2, <4>3 DEF IndexInv, BottomIsLastStore
    <3> QED BY <3>3, <3>4 DEF BottomIsLastStore
  <2>2. CASE sb[i].loc # "bottom"
    <3>1. g_bottom' = g_bottom /\ m_bottom' = m_bottom
      BY <2>2 DEF Flush, owner
    <3>2. ASSUME \A k \in 1..Len(sb') : ~IsBottom(k)'
          PROVE  g_bottom' = m_bottom'
      <4>1. \A j \in 1..Len(sb) : ~IsBottom(j)
        <5> SUFFICES ASSUME NEW j \in 1..Len(sb), j # i PROVE ~IsBottom(j)
          BY <2>2
        <5>1. CASE j < i
          BY <1>1, <1>2, <3>2, <5>1
        <5>2. CASE j > i
          <6>1. j - 1 \in 1..Len(sb') /\ sb'[j - 1] = sb[j]
            BY <1>1, <1>2, <5>2
          <6> QED BY <3>2, <6>1
        <5> QED BY <1>1, <5>1, <5>2
      <4> QED BY <3>1, <4>1 DEF IndexInv, BottomIsLastStore
    <3>3. ASSUME NEW k \in 1..Len(sb'), IsBottom(k)',
                 \A j \in (k + 1)..Len(sb') : ~IsBottom(j)'
          PROVE  (sb[k].index)' = m_bottom'
      <4> DEFINE p == IF k < i THEN k ELSE k + 1
      <4>1. p \in 1..Len(sb) /\ sb'[k] = sb[p]
        BY <1>1, <1>2
      <4>2. \A j \in (p + 1)..Len(sb) : ~IsBottom(j)
        <5> SUFFICES ASSUME NEW j \in (p + 1)..Len(sb), j # i PROVE ~IsBottom(j)
          BY <2>2
        <5>1. CASE j < i
          <6>1. k < i
            BY <1>1, <5>1
          <6>2. j \in (k + 1)..Len(sb') /\ sb'[j] = sb[j]
            BY <1>1, <1>2, <5>1, <6>1
          <6> QED BY <3>3, <6>2
        <5>2. CASE j > i
          <6>1. j - 1 \in (k + 1)..Len(sb') /\ sb'[j - 1] = sb[j]
            BY <1>1, <1>2, <5>2
          <6> QED BY <3>3, <6>1
        <5> QED BY <1>1, <5>1, <5>2
      <4> HIDE DEF p
      <4> QED BY <3>1, <3>3, <4>1, <4>2 DEF IndexInv, BottomIsLastStore
    <3> QED BY <3>2, <3>3 DEF BottomIsLastStore
  <2> QED BY <2>1, <2>2
<1>6. LogicalBottom' = LogicalBottom
  BY DEF Flush, owner, LogicalBottom
<1>7. VisibleBottomIsBounded'
  <2>1. g_bottom' <= LogicalBottom'
    BY <1>1, <1>6 DEF Flush, IndexInv, VisibleBottomIsBounded, IsBottom
  <2>2. ASSUME NEW k \in 1..Len(sb'), IsBottom(k)'
        PROVE  (sb[k].index)' <= LogicalBottom'
    BY <1>1, <1>2, <1>6, <2>2 DEF IndexInv, VisibleBottomIsBounded, IsBottom
  <2> QED BY <2>1, <2>2 DEF VisibleBottomIsBounded
<1>8. TopsAreOld' /\ ClaimsAreLive'
  BY <1>6 DEF Flush, IndexInv, TopsAreOld, ClaimsAreLive, MayWin
<1> QED BY <1>4, <1>5, <1>6, <1>7, <1>8 DEF Flush, owner, IndexInv

(* push(): the new stores end with the new m_bottom and contain no other.  *)
LEMMA PushIndexInv == ASSUME IndexInv, Push PROVE IndexInv'
<1> USE CapacityAssumption, PushAssumption
<1> DEFINE cap  == IF Full THEN 2 * m_buf ELSE m_buf
           bufs == IF Full THEN Resize(slot, m_buf, m_bottom, m_top) ELSE slot
           item == pushed + 1
           grow == IF Full THEN GrowStores ELSE <<>>
           new  == <<SlotStore(cap, m_bottom, item, epoch),
                     BottomStore(m_bottom + 1, epoch + 1)>>
<1>0. /\ sb \in Seq(Stores) /\ epoch \in Nat
      /\ opc = "idle" /\ pushed \in 0..MaxPush /\ pushed < MaxPush
      /\ m_top \in Nat /\ m_bottom \in Nat /\ m_top <= m_bottom /\ m_bottom <= pushed
      /\ m_buf \in Capacities /\ LogicalBottom = m_bottom
  <2>1. TypeOK /\ m_top <= LogicalBottom /\ LogicalBottom <= pushed
    BY DEF IndexInv, ClaimsAreLive
  <2>2. opc = "idle" /\ pushed < MaxPush
    BY DEF Push
  <2>3. LogicalBottom = m_bottom
    BY <2>2 DEF LogicalBottom
  <2> QED BY <2>1, <2>2, <2>3, TypeParts
<1>a. cap \in Capacities /\ item \in Items /\ item \in Values
  BY <1>0 DEF Push, Items, Values
<1>b. sb' = (sb \o grow) \o new
  BY DEF Push, ReleaseFence
<1>1. /\ DOMAIN slot = Capacities
      /\ \A c \in Capacities : slot[c] \in [0..(c - 1) -> Values]
  BY SlotParts DEF IndexInv
<1>2. \A j \in Int : Load(slot, m_buf, j) \in Values
  BY <1>0, <1>1, LoadValue
<1>3. /\ grow \in Seq(Stores)
      /\ \A j \in 1..Len(grow) : grow[j].loc # "bottom"
  <2>1. CASE ~Full
    BY <2>1
  <2>2. CASE Full
    <3> DEFINE copies == [j \in 1..(m_bottom - m_top) |->
                 SlotStore(2 * m_buf, m_top + j - 1, Load(slot, m_buf, m_top + j - 1), epoch)]
               last == <<BufStore(2 * m_buf, epoch)>>
    <3>1. 2 * m_buf \in Capacities
      BY <2>2 DEF Push
    <3>2. \A j \in 1..(m_bottom - m_top) :
             copies[j] \in Stores /\ copies[j].loc # "bottom"
      <4> SUFFICES ASSUME NEW j \in 1..(m_bottom - m_top)
                   PROVE  copies[j] \in Stores /\ copies[j].loc # "bottom"
        OBVIOUS
      <4>1. m_top + j - 1 \in 0..MaxPush
        BY <1>0
      <4> QED BY <1>0, <1>2, <3>1, <4>1 DEF SlotStore, Stores
    <3>3. copies \in Seq(Stores) /\ Len(copies) = m_bottom - m_top
      <4>1. m_bottom - m_top \in Nat
        BY <1>0
      <4>2. copies \in [1..(m_bottom - m_top) -> Stores]
        BY <3>2
      <4> QED BY <4>1, <4>2
    <3>4. BufStore(2 * m_buf, epoch) \in Stores
      BY <1>0, <3>1 DEF BufStore, Stores, Values, Garbage
    <3>5. last \in Seq(Stores) /\ Len(last) = 1 /\ last[1].loc # "bottom"
      BY <3>4 DEF BufStore
    <3>6. grow = copies \o last
      BY <2>2 DEF GrowStores
    <3> HIDE DEF copies, last, grow
    <3> QED BY <3>2, <3>3, <3>5, <3>6, ConcatProperties
  <2> QED BY <2>1, <2>2
<1>4. /\ new \in Seq(Stores) /\ Len(new) = 2
      /\ new[1].loc # "bottom"
      /\ new[2].loc = "bottom" /\ new[2].index = m_bottom + 1
  <2>1. SlotStore(cap, m_bottom, item, epoch) \in Stores
    <3> HIDE DEF cap, item
    <3> QED BY <1>0, <1>a DEF SlotStore, Stores
  <2>2. BottomStore(m_bottom + 1, epoch + 1) \in Stores
    BY <1>0 DEF BottomStore, Stores, Values, Garbage
  <2> QED BY <2>1, <2>2 DEF SlotStore, BottomStore
<1> HIDE DEF cap, bufs, item, grow, new
<1>5. /\ sb' \in Seq(Stores) /\ Len(sb') = Len(sb) + Len(grow) + 2
      /\ \A j \in 1..Len(sb) : sb'[j] = sb[j]
      /\ \A j \in (Len(sb) + 1)..(Len(sb') - 1) : sb'[j].loc # "bottom"
      /\ sb'[Len(sb')].loc = "bottom" /\ sb'[Len(sb')].index = m_bottom + 1
  <2> DEFINE l == Len(sb)
             g == Len(grow)
             q == sb \o grow
  <2>1. /\ q \in Seq(Stores) /\ l \in Nat /\ g \in Nat /\ Len(q) = l + g
        /\ \A j \in 1..l : q[j] = sb[j]
        /\ \A j \in (l + 1)..(l + g) : j - l \in 1..g /\ q[j] = grow[j - l]
    BY <1>0, <1>3, ConcatShape
  <2> HIDE DEF l, g, q
  <2>a. sb' = q \o new
    BY <1>b DEF q
  <2>b. /\ q \o new \in Seq(Stores) /\ Len(q \o new) = Len(q) + Len(new)
        /\ \A j \in 1..Len(q) : (q \o new)[j] = q[j]
        /\ \A j \in (Len(q) + 1)..(Len(q) + Len(new)) : (q \o new)[j] = new[j - Len(q)]
    <3>1. q \in Seq(Stores) /\ new \in Seq(Stores)
      BY <1>4, <2>1
    <3> QED BY ONLY <3>1, ConcatShape
  <2>2. /\ sb' \in Seq(Stores) /\ Len(sb') = l + g + 2
        /\ \A j \in 1..l : sb'[j] = sb[j]
        /\ \A j \in (l + 1)..(l + g) : j - l \in 1..g /\ sb'[j] = grow[j - l]
        /\ sb'[l + g + 1] = new[1] /\ sb'[l + g + 2] = new[2]
    <3>1. Len(new) = 2
      BY <1>4
    <3>2. sb' \in Seq(Stores) /\ Len(sb') = l + g + 2
      BY <2>1, <2>a, <2>b, <3>1
    <3>3. \A j \in 1..(l + g) : sb'[j] = q[j]
      BY <2>1, <2>a, <2>b
    <3>4. sb'[l + g + 1] = new[1] /\ sb'[l + g + 2] = new[2]
      <4>1. \A j \in (l + g + 1)..(l + g + 2) : sb'[j] = new[j - (l + g)]
        BY <2>1, <2>a, <2>b, <3>1
      <4> QED BY <2>1, <4>1
    <3> QED BY <2>1, <3>2, <3>3, <3>4
  <2>3. \A j \in (l + 1)..(l + g) : sb'[j].loc # "bottom"
    BY <1>3, <2>2 DEF g
  <2>4. \A j \in (l + 1)..(l + g + 1) : sb'[j].loc # "bottom"
    BY <1>4, <2>1, <2>2, <2>3
  <2>5. Len(sb') - 1 = l + g + 1
    BY <2>1, <2>2
  <2>6. sb'[Len(sb')] = new[2]
    BY <2>2
  <2> QED BY <1>4, <2>2, <2>4, <2>5, <2>6 DEF l, g
<1>6. /\ DOMAIN slot' = Capacities
      /\ \A c \in Capacities : slot'[c] \in [0..(c - 1) -> Values]
  <2>1. /\ DOMAIN bufs = Capacities
        /\ \A c \in Capacities : bufs[c] \in [0..(c - 1) -> Values]
    <3>1. \A k : (\E j \in m_top..(m_bottom - 1) : Mask(2 * m_buf, j) = k) =>
             (CHOOSE j \in m_top..(m_bottom - 1) : Mask(2 * m_buf, j) = k) \in Int
      BY <1>0
    <3>2. Garbage \in Values
      BY DEF Values
    <3> QED BY <1>0, <1>1, <1>2, <3>1, <3>2 DEF Resize, bufs
  <2>2. slot' = Store(bufs, cap, m_bottom, item)
    BY DEF Push, bufs, cap, item
  <2>3. LET upd == Store(bufs, cap, m_bottom, item)
        IN  /\ DOMAIN upd = Capacities
            /\ \A c \in Capacities : upd[c] \in [0..(c - 1) -> Values]
    BY <1>0, <1>a, <2>1, StoreType
  <2> QED BY <2>2, <2>3
<1>7. TypeOK'
  <2>1. /\ m_buf' = cap /\ pushed' = item /\ m_bottom' = m_bottom + 1
        /\ epoch' = epoch + 1
        /\ UNCHANGED <<m_top, g_bottom, g_buf, g_slot, opc, thief, delivered, popped>>
    BY DEF Push, ReleaseFence, visible, cap, item
  <2>2. m_bottom + 1 \in -1..MaxPush
    BY <1>0
  <2>3. item \in 0..MaxPush
    BY <1>a DEF Items
  <2>4. TypeOK
    BY DEF IndexInv
  <2>5. epoch + 1 \in Nat
    BY <1>0
  <2> QED BY <1>a, <1>5, <1>6, <2>1, <2>2, <2>3, <2>4, <2>5 DEF TypeOK
<1>8. LogicalBottom = m_bottom /\ LogicalBottom' = m_bottom + 1 /\ m_bottom' = m_bottom + 1
  BY <1>0 DEF Push, LogicalBottom
<1>9. BottomIsLastStore'
  <2>1. Len(sb') \in Nat \ {0}
    BY <1>5
  <2>2. ASSUME NEW k \in 1..Len(sb'), k # Len(sb')
        PROVE  Len(sb') \in (k + 1)..Len(sb')
    BY <2>1, <2>2
  <2> QED BY <1>5, <1>8, <2>1, <2>2 DEF BottomIsLastStore, IsBottom
<1>10. VisibleBottomIsBounded'
  <2>1. g_bottom' = g_bottom /\ g_bottom \in Int
    BY DEF Push, visible, IndexInv, TypeOK
  <2>2. ASSUME NEW k \in 1..Len(sb'), IsBottom(k)'
        PROVE  (sb[k].index)' <= m_bottom + 1
    <3>1. CASE k \in 1..Len(sb)
      <4>1. sb[k].index \in Int
        <5>1. sb[k] \in Stores
          BY <1>0, <3>1, ElementOfSeq
        <5> QED BY <5>1 DEF Stores
      <4> QED BY <1>0, <1>5, <1>8, <2>2, <3>1, <4>1
              DEF IndexInv, VisibleBottomIsBounded, IsBottom
    <3>2. CASE k \notin 1..Len(sb)
      <4>1. Len(sb) \in Nat /\ Len(sb') \in Nat
        BY <1>0, <1>5
      <4>2. k = Len(sb')
        BY <1>5, <2>2, <3>2, <4>1 DEF IsBottom
      <4> QED BY <1>0, <1>5, <4>2
    <3> QED BY <3>1, <3>2
  <2> QED BY <1>0, <1>8, <2>1, <2>2 DEF IndexInv, VisibleBottomIsBounded
<1>11. TopsAreOld' /\ ClaimsAreLive'
  BY <1>0, <1>8 DEF Push, IndexInv, TopsAreOld, ClaimsAreLive, MayWin
<1>12. LogicalBottom' <= pushed'
  BY <1>0, <1>8 DEF Push
<1> QED BY <1>7, <1>9, <1>10, <1>11, <1>12 DEF IndexInv

(* A store of m_bottom that leaves the logical bottom where it is.         *)
LEMMA AppendBottom ==
    ASSUME IndexInv, NEW b \in -1..MaxPush,
           sb' = Append(sb, BottomStore(b, epoch)), m_bottom' = b,
           g_bottom' = g_bottom, LogicalBottom' = LogicalBottom, b <= LogicalBottom
    PROVE  sb' \in Seq(Stores) /\ BottomIsLastStore' /\ VisibleBottomIsBounded'
<1> USE CapacityAssumption, PushAssumption
<1>1. sb \in Seq(Stores) /\ epoch \in Nat
  BY DEF IndexInv, TypeOK
<1>2. /\ BottomStore(b, epoch) \in Stores
      /\ BottomStore(b, epoch).loc = "bottom" /\ BottomStore(b, epoch).index = b
  BY <1>1 DEF BottomStore, Stores, Values, Garbage
<1>3. /\ sb' \in Seq(Stores) /\ Len(sb') = Len(sb) + 1 /\ Len(sb) \in Nat
      /\ \A j \in 1..Len(sb) : sb'[j] = sb[j]
      /\ sb'[Len(sb')] = BottomStore(b, epoch)
  BY <1>1, <1>2, AppendedStore
<1>4. BottomIsLastStore'
  <2>1. Len(sb') \in 1..Len(sb')
    BY <1>3
  <2>2. \A k \in 1..Len(sb') : k # Len(sb') => Len(sb') \in (k + 1)..Len(sb')
    BY <1>3
  <2> QED BY <1>2, <1>3, <2>1, <2>2 DEF BottomIsLastStore, IsBottom
<1>5. VisibleBottomIsBounded'
  <2>1. ASSUME NEW k \in 1..Len(sb'), IsBottom(k)'
        PROVE  (sb[k].index)' <= LogicalBottom'
    <3>1. CASE k \in 1..Len(sb)
      BY <1>3, <2>1, <3>1 DEF IndexInv, VisibleBottomIsBounded, IsBottom
    <3>2. CASE k = Len(sb')
      BY <1>2, <1>3, <3>2
    <3> QED BY <1>3, <3>1, <3>2
  <2> QED BY <2>1 DEF IndexInv, VisibleBottomIsBounded
<1> QED BY <1>3, <1>4, <1>5

(* The indices that the arithmetic of pop() and steal() works on.          *)
LEMMA TopTypes ==
    ASSUME IndexInv
    PROVE  /\ m_top \in 0..MaxPush /\ m_bottom \in -1..MaxPush
           /\ \A t \in Thieves : thief[t].top \in Nat
  BY DEF IndexInv, TypeOK, Locals

(* pop(), before it decides.                                               *)
LEMMA PopReserveIndexInv == ASSUME IndexInv, PopReserve PROVE IndexInv'
<1> USE CapacityAssumption, PushAssumption
<1>1. /\ m_bottom - 1 \in -1..MaxPush /\ m_bottom \in Int
      /\ LogicalBottom = m_bottom /\ LogicalBottom' = m_bottom
      /\ m_bottom' = m_bottom - 1
  BY DEF IndexInv, TypeOK, ClaimsAreLive, PopReserve, LogicalBottom
<1>2. sb' \in Seq(Stores) /\ BottomIsLastStore' /\ VisibleBottomIsBounded'
  BY <1>1, AppendBottom DEF PopReserve, visible
<1>3. TypeOK'
  BY <1>1, <1>2 DEF IndexInv, TypeOK, PopReserve, visible
<1> QED BY <1>1, <1>2, <1>3
        DEF IndexInv, PopReserve, TopsAreOld, ClaimsAreLive, MayWin

(* pop() of an item that is not the last one: the fence has made the       *)
(* smaller m_bottom visible, so no thief can still win that index.         *)
LEMMA PopManyIndexInv == ASSUME IndexInv, PopMany PROVE IndexInv'
<1> USE CapacityAssumption, PushAssumption
<1>1. /\ m_bottom \in Int /\ m_top \in Nat /\ m_buf \in Capacities
      /\ LogicalBottom = m_bottom + 1 /\ LogicalBottom' = m_bottom
      /\ m_top < m_bottom
  BY DEF IndexInv, TypeOK, PopMany, LogicalBottom
<1>2. Len(sb) = 0 /\ sb' = sb
  BY EmptySeq DEF PopMany, SeqCstFence
<1>3. g_bottom = m_bottom
  BY <1>2 DEF IndexInv, BottomIsLastStore
<1>4. BottomIsLastStore' /\ VisibleBottomIsBounded'
  BY <1>1, <1>2, <1>3 DEF BottomIsLastStore, VisibleBottomIsBounded, PopMany, visible
<1>5. popped' \in Values
  <2>1. /\ DOMAIN slot = Capacities
        /\ \A c \in Capacities : slot[c] \in [0..(c - 1) -> Values]
    BY SlotParts DEF IndexInv
  <2> QED BY <1>1, <2>1, LoadValue DEF PopMany
<1>6. delivered' \in [Values -> Nat]
  <2>1. delivered \in [Values -> Nat]
    BY Zenon DEF IndexInv, TypeOK
  <2>2. delivered' = [delivered EXCEPT ![popped'] = @ + 1]
    BY Zenon DEF PopMany, Deliver
  <2> QED BY <1>5, <2>1, <2>2
<1>7. TypeOK'
  BY <1>5, <1>6 DEF IndexInv, TypeOK, PopMany, visible
<1>8. /\ m_top' = m_top /\ thief' = thief /\ pushed' = pushed
      /\ pushed \in Nat /\ LogicalBottom <= pushed
  BY DEF PopMany, IndexInv, TypeOK
<1>9. TopsAreOld' /\ ClaimsAreLive'
  BY <1>1, <1>8 DEF IndexInv, TopsAreOld, ClaimsAreLive, MayWin
<1> QED BY <1>1, <1>4, <1>7, <1>8, <1>9 DEF IndexInv

(* pop() of the last item, where it races the thieves for top.             *)
LEMMA PopLastIndexInv == ASSUME IndexInv, PopLast PROVE IndexInv'
<1>1. LogicalBottom' = LogicalBottom
  BY DEF PopLast, LogicalBottom
<1> QED BY <1>1 DEF PopLast, visible, IndexInv, TypeOK, BottomIsLastStore, IsBottom,
                    VisibleBottomIsBounded, TopsAreOld, ClaimsAreLive, MayWin

(* pop() that finds nothing puts bottom back.                              *)
LEMMA PopEmptyIndexInv == ASSUME IndexInv, PopEmpty PROVE IndexInv'
<1> USE CapacityAssumption, PushAssumption
<1>1. /\ m_bottom + 1 \in -1..MaxPush /\ m_bottom \in Int
      /\ LogicalBottom = m_bottom + 1 /\ LogicalBottom' = m_bottom + 1
      /\ m_bottom' = m_bottom + 1
  <2>1. LogicalBottom = m_bottom + 1 /\ LogicalBottom' = m_bottom' /\ m_bottom' = m_bottom + 1
    BY DEF PopEmpty, RestoreBottom, LogicalBottom
  <2>2. m_bottom \in -1..MaxPush /\ pushed \in 0..MaxPush /\ LogicalBottom <= pushed
    BY DEF IndexInv, TypeOK
  <2> QED BY <2>1, <2>2
<1>2. sb' \in Seq(Stores) /\ BottomIsLastStore' /\ VisibleBottomIsBounded'
  BY <1>1, AppendBottom DEF PopEmpty, RestoreBottom, visible
<1>3. TypeOK'
  BY <1>1, <1>2 DEF IndexInv, TypeOK, PopEmpty, visible, Values, Empty, Garbage
<1> QED BY <1>1, <1>2, <1>3
        DEF IndexInv, PopEmpty, TopsAreOld, ClaimsAreLive, MayWin

(* pop() races for the last item.                                          *)
LEMMA PopCasIndexInv == ASSUME IndexInv, PopCas PROVE IndexInv'
<1> USE CapacityAssumption, PushAssumption
<1>1. /\ m_bottom + 1 \in -1..MaxPush /\ m_bottom \in Int /\ m_top \in Nat
      /\ LogicalBottom = m_bottom + 1 /\ LogicalBottom' = m_bottom + 1
      /\ m_bottom' = m_bottom + 1 /\ m_buf \in Capacities
  <2>1. LogicalBottom = m_bottom + 1 /\ LogicalBottom' = m_bottom' /\ m_bottom' = m_bottom + 1
    BY DEF PopCas, RestoreBottom, LogicalBottom
  <2>2. /\ m_bottom \in -1..MaxPush /\ m_top \in Nat /\ m_buf \in Capacities
        /\ pushed \in 0..MaxPush /\ LogicalBottom <= pushed
    BY DEF IndexInv, TypeOK
  <2> QED BY <2>1, <2>2
<1>a. /\ sb' = Append(sb, BottomStore(m_bottom + 1, epoch))
      /\ g_bottom' = g_bottom /\ thief' = thief /\ pushed' = pushed
  BY DEF PopCas, RestoreBottom, visible
<1>b. \/ /\ m_top = m_bottom
         /\ m_top' = m_top + 1
         /\ popped' = Load(slot, m_buf, m_bottom)
         /\ delivered' = [delivered EXCEPT ![popped'] = @ + 1]
      \/ /\ m_top # m_bottom
         /\ popped' = Empty
         /\ m_top' = m_top /\ delivered' = delivered
  BY DEF PopCas, Deliver
<1>2. sb' \in Seq(Stores) /\ BottomIsLastStore' /\ VisibleBottomIsBounded'
  BY <1>1, <1>a, AppendBottom
<1>3. Load(slot, m_buf, m_bottom) \in Values
  <2>1. /\ DOMAIN slot = Capacities
        /\ \A c \in Capacities : slot[c] \in [0..(c - 1) -> Values]
    BY SlotParts DEF IndexInv
  <2> QED BY <1>1, <2>1, LoadValue
<1>4. popped' \in Values
  BY <1>3, <1>b DEF Values, Empty, Garbage
<1>5. delivered' \in [Values -> Nat]
  <2>1. delivered \in [Values -> Nat]
    BY DEF IndexInv, TypeOK
  <2> QED BY <1>4, <1>b, <2>1
<1>6. /\ m_top' \in 0..MaxPush /\ m_top <= m_top' /\ m_top' <= LogicalBottom'
      /\ m_top' # m_top => m_top' = LogicalBottom'
  <2>1. m_top <= LogicalBottom /\ m_top \in 0..MaxPush
    BY DEF IndexInv, TypeOK, ClaimsAreLive
  <2> QED BY <1>1, <1>b, <2>1
<1>7. TypeOK'
  BY <1>1, <1>2, <1>4, <1>5, <1>6 DEF IndexInv, TypeOK, PopCas, visible
<1>9. TopsAreOld'
  <2>1. ASSUME NEW t \in Thieves, thief[t].pc # "idle" PROVE thief[t].top <= m_top'
    <3>1. thief[t].top <= m_top /\ thief[t].top \in Nat
      BY <2>1, TopTypes DEF IndexInv, TopsAreOld
    <3> QED BY <1>1, <1>6, <3>1
  <2> QED BY <1>a, <2>1 DEF TopsAreOld
<1>10. ClaimsAreLive'
  <2>1. ASSUME NEW t \in Thieves, MayWin(t)' PROVE m_top' < LogicalBottom'
    <3>1. thief[t].top <= m_top /\ thief[t].top \in Nat
      BY <1>a, <2>1, TopTypes DEF IndexInv, TopsAreOld, MayWin
    <3>2. m_top' = m_top
      BY <1>1, <1>6, <1>a, <2>1, <3>1 DEF MayWin
    <3> QED BY <1>1, <1>a, <2>1, <3>2 DEF IndexInv, ClaimsAreLive, MayWin
  <2> QED BY <1>6, <2>1 DEF ClaimsAreLive
<1> QED BY <1>1, <1>2, <1>7, <1>a, <1>9, <1>10 DEF IndexInv

(* steal(), every step.                                                    *)
LEMMA ThiefIndexInv ==
    ASSUME IndexInv, NEW u \in Thieves, ThiefNext(u)
    PROVE  IndexInv'
<1> USE CapacityAssumption, PushAssumption
<1>1. /\ TypeOK /\ thief \in [Thieves -> Locals] /\ thief[u] \in Locals
      /\ m_top \in 0..MaxPush /\ g_bottom \in Int /\ g_buf \in Capacities
      /\ LogicalBottom \in Int
  <2>1. /\ TypeOK /\ m_top \in 0..MaxPush /\ g_bottom \in Int /\ g_buf \in Capacities
        /\ m_bottom \in Int /\ thief \in [Thieves -> Locals]
    BY TypeParts DEF IndexInv
  <2>2. LogicalBottom \in Int
    BY <2>1 DEF LogicalBottom
  <2>3. thief[u] \in Locals
    BY <2>1
  <2> QED BY <2>1, <2>2, <2>3
<1>2. Idle \in Locals /\ Idle.pc = "idle"
  BY DEF Idle, Values, Locals
<1>3. /\ owner' = owner /\ visible' = visible /\ sb' = sb
      /\ LogicalBottom' = LogicalBottom /\ pushed' = pushed
  BY DEF ThiefNext, StealTop, StealBottom, StealBuf, StealSlot, StealCas,
         owner, LogicalBottom
<1>4. BottomIsLastStore' /\ VisibleBottomIsBounded' /\ LogicalBottom' <= pushed'
  BY <1>3 DEF IndexInv, owner, visible, BottomIsLastStore, VisibleBottomIsBounded, IsBottom
<1>5. /\ thief' \in [Thieves -> Locals]
      /\ \A t \in Thieves : t # u => thief'[t] = thief[t]
  <2>1. CASE StealTop(u)
    <3>1. m_top \in Nat
      BY <1>1
    <3> QED BY <1>1, <2>1, <3>1 DEF StealTop, Locals
  <2>2. CASE StealBottom(u)
    BY <1>1, <1>2, <2>2 DEF StealBottom, Locals
  <2>3. CASE StealBuf(u)
    BY <1>1, <2>3 DEF StealBuf, Locals
  <2>4. CASE StealSlot(u)
    <3>1. /\ DOMAIN g_slot = Capacities
          /\ \A c \in Capacities : g_slot[c] \in [0..(c - 1) -> Values]
      BY <1>1, SlotParts
    <3>a. thief[u].buf \in Capacities /\ thief[u].top \in Int
      BY <1>1 DEF Locals
    <3>2. Load(g_slot, thief[u].buf, thief[u].top) \in Values
      BY <3>1, <3>a, LoadValue
    <3> QED BY <1>1, <2>4, <3>2 DEF StealSlot, Locals
  <2>5. CASE StealCas(u)
    BY <1>1, <1>2, <2>5 DEF StealCas
  <2> QED BY <2>1, <2>2, <2>3, <2>4, <2>5 DEF ThiefNext
<1>6. CASE ~StealCas(u)
  <2>1. m_top' = m_top /\ delivered' = delivered
    BY <1>6 DEF ThiefNext, StealTop, StealBottom, StealBuf, StealSlot
  <2>2. TypeOK'
    BY <1>1, <1>3, <1>5, <2>1 DEF TypeOK, owner, visible
  <2>3. TopsAreOld'
    <3>1. thief'[u].pc # "idle" => thief'[u].top <= m_top
      <4>1. m_top <= m_top
        BY <1>1
      <4>2. thief[u].pc # "idle" => thief[u].top <= m_top
        BY DEF IndexInv, TopsAreOld
      <4>3. \/ thief'[u].top = m_top
            \/ thief[u].pc # "idle" /\ thief'[u].top = thief[u].top
            \/ thief'[u] = Idle
        <5>1. CASE StealTop(u)
          BY <1>1, <5>1 DEF StealTop, Locals
        <5>2. CASE StealBottom(u)
          BY <1>1, <5>2 DEF StealBottom, Locals
        <5>3. CASE StealBuf(u)
          BY <1>1, <5>3 DEF StealBuf, Locals
        <5>4. CASE StealSlot(u)
          BY <1>1, <5>4 DEF StealSlot, Locals
        <5> QED BY <1>6, <5>1, <5>2, <5>3, <5>4 DEF ThiefNext
      <4> QED BY <1>2, <4>1, <4>2, <4>3
    <3> QED BY <1>5, <2>1, <3>1 DEF IndexInv, TopsAreOld
  <2>4. ClaimsAreLive'
    <3>1. ASSUME MayWin(u)' PROVE m_top < LogicalBottom
      <4>1. CASE StealTop(u)
        BY <1>1, <3>1, <4>1 DEF StealTop, MayWin
      <4>2. CASE StealBottom(u)
        <5>1. thief[u].top = m_top /\ thief[u].top < g_bottom
          BY <1>1, <1>2, <2>1, <3>1, <4>2 DEF StealBottom, MayWin
        <5>2. g_bottom <= LogicalBottom
          BY DEF IndexInv, VisibleBottomIsBounded
        <5> QED BY <1>1, <5>1, <5>2
      <4>3. CASE StealBuf(u) \/ StealSlot(u)
        <5>1. MayWin(u)
          BY <1>1, <2>1, <3>1, <4>3 DEF StealBuf, StealSlot, MayWin, Locals
        <5> QED BY <5>1 DEF IndexInv, ClaimsAreLive
      <4> QED BY <1>6, <4>1, <4>2, <4>3 DEF ThiefNext
    <3> QED BY <1>3, <1>5, <2>1, <3>1 DEF IndexInv, ClaimsAreLive, MayWin
  <2> QED BY <1>4, <2>2, <2>3, <2>4 DEF IndexInv
<1>7. CASE StealCas(u)
  <2>1. thief'[u].pc = "idle"
    BY <1>1, <1>2, <1>7 DEF StealCas
  <2>2. m_top <= LogicalBottom /\ LogicalBottom <= pushed /\ pushed \in 0..MaxPush
    BY <1>1 DEF IndexInv, ClaimsAreLive, TypeOK
  <2>3. \/ /\ m_top' = m_top + 1 /\ MayWin(u)
           /\ delivered' = [delivered EXCEPT ![thief[u].tmp] = @ + 1]
        \/ m_top' = m_top /\ delivered' = delivered
    BY <1>7 DEF StealCas, Deliver, MayWin
  <2>4. /\ m_top' \in 0..MaxPush /\ m_top <= m_top' /\ m_top' <= LogicalBottom
    <3>1. MayWin(u) => m_top < LogicalBottom
      BY DEF IndexInv, ClaimsAreLive
    <3> QED BY <1>1, <2>2, <2>3, <3>1
  <2>5. delivered' \in [Values -> Nat]
    <3>1. delivered \in [Values -> Nat] /\ thief[u].tmp \in Values
      BY <1>1 DEF TypeOK, Locals
    <3> QED BY <2>3, <3>1
  <2>6. TypeOK'
    BY <1>1, <1>3, <1>5, <2>4, <2>5 DEF TypeOK, owner, visible
  <2>7. TopsAreOld'
    <3>1. ASSUME NEW t \in Thieves, thief'[t].pc # "idle" PROVE thief'[t].top <= m_top'
      <4>1. t # u /\ thief'[t] = thief[t]
        BY <1>5, <2>1, <3>1
      <4>2. thief[t].top <= m_top /\ thief[t].top \in Nat
        BY <3>1, <4>1, TopTypes DEF IndexInv, TopsAreOld
      <4> QED BY <1>1, <2>4, <4>1, <4>2
    <3> QED BY <3>1 DEF TopsAreOld
  <2>8. ClaimsAreLive'
    <3>1. ASSUME NEW t \in Thieves, MayWin(t)' PROVE m_top' < LogicalBottom'
      <4>1. t # u /\ thief'[t] = thief[t]
        BY <1>5, <2>1, <3>1 DEF MayWin
      <4>2. thief[t].top <= m_top /\ thief[t].top \in Nat /\ thief[t].top = m_top'
        BY <3>1, <4>1, TopTypes DEF IndexInv, TopsAreOld, MayWin
      <4>3. m_top' = m_top /\ MayWin(t)
        BY <1>1, <2>4, <3>1, <4>1, <4>2 DEF MayWin
      <4> QED BY <1>3, <4>3 DEF IndexInv, ClaimsAreLive
    <3> QED BY <1>3, <2>4, <3>1 DEF ClaimsAreLive
  <2> QED BY <1>4, <2>6, <2>7, <2>8 DEF IndexInv
<1> QED BY <1>6, <1>7

-----------------------------------------------------------------------------

(* Every step of the owner, of a thief and of the memory keeps the indices. *)
LEMMA NextIndexInv == IndexInv /\ [Next]_vars => IndexInv'
<1> SUFFICES ASSUME IndexInv, [Next]_vars PROVE IndexInv'
  OBVIOUS
<1>1. CASE OwnerNext
  BY <1>1, PushIndexInv, PopReserveIndexInv, PopManyIndexInv, PopLastIndexInv,
     PopEmptyIndexInv, PopCasIndexInv DEF OwnerNext
<1>2. CASE \E i \in DOMAIN sb : Flush(i)
  BY <1>2, FlushIndexInv
<1>3. CASE \E t \in Thieves : ThiefNext(t)
  BY <1>3, ThiefIndexInv
<1>4. CASE UNCHANGED vars
  BY <1>4 DEF vars, owner, visible, IndexInv, TypeOK, BottomIsLastStore, IsBottom,
     VisibleBottomIsBounded, TopsAreOld, ClaimsAreLive, MayWin, LogicalBottom
<1> QED BY <1>1, <1>2, <1>3, <1>4 DEF Next

(* The index protocol of the deque is an invariant of the specification,   *)
(* whatever the number of thieves and pushes, the growth of the buffer and *)
(* the order in which relaxed stores become visible.                       *)
THEOREM IndexSafety == Spec => []IndexInv
<1>1. Init => IndexInv
  BY InitIndexInv
<1>2. IndexInv /\ [Next]_vars => IndexInv'
  BY NextIndexInv
<1> QED BY <1>1, <1>2, PTL DEF Spec

(* Every field of the deque keeps its type; in particular m_top and        *)
(* m_bottom stay within -1..MaxPush through every interleaving.            *)
THEOREM TypeCorrect == Spec => []TypeOK
<1>1. IndexInv => TypeOK
  BY DEF IndexInv
<1> QED BY <1>1, IndexSafety, PTL

(* A steal() whose CAS succeeds claims an index that is in the deque and   *)
(* that no pop() has taken: the owner and the thieves never take the same  *)
(* index, even with stores out of order and while the buffer grows.        *)
THEOREM NoIndexTakenTwice == Spec => []ClaimsAreLive
<1>1. IndexInv => ClaimsAreLive
  BY DEF IndexInv
<1> QED BY <1>1, IndexSafety, PTL

-----------------------------------------------------------------------------
(***************************************************************************)
(* What thieves read from the Chase-Lev deque, and that it implements      *)
(* WorkDeque, for every number of thieves and pushes: with stores in       *)
(* program order (x86) also while the ring buffers grow, with relaxed      *)
(* stores as long as they do not. The remaining case, relaxed stores       *)
(* while a buffer grows, is the one TLC refutes: m_buf is stored relaxed,  *)
(* so the new buffer can be seen before the copies in it.                  *)
(***************************************************************************)
InOrder == StoreOrder = "program" \/ \A c \in Capacities : 2 * c \notin Capacities

-----------------------------------------------------------------------------
(* The j-th pending store is one to the slot of index i in buffer c.       *)
Match(j, c, i) ==
    sb[j].loc = "slot" /\ sb[j].cap = c /\ Mask(c, sb[j].index) = Mask(c, i)

(* The p-th pending store becomes visible before the k-th one does; 0      *)
(* stands for what is visible already.                                     *)
Before(p, k) == p < k /\ (StoreOrder = "program" \/ sb[p].epoch < sb[k].epoch)

Repairs(p, K, L, c, i) ==
    Match(p, c, i) /\ sb[p].val = ItemAt(i) /\ (Before(p, K) \/ Before(p, L))

(* Whoever reads index i in buffer c after the K-th and the L-th store     *)
(* have become visible gets the item that the owner has at that index: if  *)
(* the slot has, or will get, another content, then the right one comes    *)
(* later and still in time.                                                *)
Readable(K, L, c, i) ==
    /\ Load(g_slot, c, i) # ItemAt(i) => \E p \in 1..Len(sb) : Repairs(p, K, L, c, i)
    /\ \A j \in 1..Len(sb) :
         Match(j, c, i) /\ sb[j].val # ItemAt(i)
            => \E p \in 1..Len(sb) : j < p /\ Repairs(p, K, L, c, i)

(* The K-th store tells thieves that there is an item at index i.          *)
Published(i, K) ==
    IF K = 0
    THEN i < g_bottom \/ (i = m_top /\ \E t \in Thieves : MayWin(t) /\ thief[t].pc = "buf")
    ELSE IsBottom(K) /\ i < sb[K].index

(* The L-th store gives thieves the buffer View(L).                        *)
IsView(L) == L = 0 \/ sb[L].loc = "buf"
View(L) == IF L = 0 THEN g_buf ELSE sb[L].cap
NoBuf(L, K) == \A l \in 1..Len(sb) : L < l /\ l < K => sb[l].loc # "buf"

(* Once an index is published, its item can be read in every buffer that a *)
(* thief can get hold of from then on.                                     *)
PublishedIsReadable ==
    \A i \in m_top..(LogicalBottom - 1) : \A K, L \in 0..Len(sb) :
        Published(i, K) /\ IsView(L) /\ NoBuf(L, K) => Readable(K, L, View(L), i)

ThiefReads ==
    \A t \in Thieves : MayWin(t) =>
        /\ thief[t].pc = "slot" => Readable(0, 0, thief[t].buf, m_top)
        /\ thief[t].pc = "cas" => thief[t].tmp = ItemAt(m_top)

(* The items fit the owner's buffer, the largest one; the youngest buffer  *)
(* in sight is the owner's; and buffers change only with stores in order.  *)
BufBounds ==
    /\ LogicalBottom - m_top <= m_buf
    /\ InitialCap <= m_buf /\ g_buf <= m_buf
    /\ \A t \in Thieves : thief[t].buf <= m_buf
    /\ \A k \in 1..Len(sb) : sb[k].cap <= m_buf /\ sb[k].epoch <= epoch
    /\ \A k \in 1..Len(sb) : sb[k].loc = "buf" => StoreOrder = "program"
    /\ \A L \in 0..Len(sb) : IsView(L) /\ NoBuf(L, Len(sb) + 1) => View(L) = m_buf
    /\ opc = "cas" => m_bottom <= m_top

(* The youngest m_bottom in sight is the owner's.                          *)
IsLastBottom(K) ==
    /\ IF K = 0 THEN g_bottom = m_bottom ELSE IsBottom(K) /\ sb[K].index = m_bottom
    /\ \A j \in 1..Len(sb) : K < j => ~IsBottom(j)

ReadInv ==
    /\ PublishedIsReadable /\ ThiefReads /\ BufBounds
    /\ \E K \in 0..Len(sb) : IsLastBottom(K)

-----------------------------------------------------------------------------
(* What the index invariant says of the pending stores and of the numbers. *)
LEMMA Shapes ==
    ASSUME IndexInv
    PROVE  /\ sb \in Seq(Stores) /\ Len(sb) \in Nat /\ DOMAIN sb = 1..Len(sb)
           /\ \A k \in 1..Len(sb) :
                /\ sb[k] \in Stores
                /\ sb[k].cap \in Capacities /\ sb[k].cap \in Nat \ {0}
                /\ sb[k].index \in Int /\ sb[k].epoch \in Nat /\ sb[k].val \in Values
           /\ m_top \in Nat /\ m_bottom \in Int /\ LogicalBottom \in Int /\ m_top <= LogicalBottom
           /\ g_bottom \in Int /\ epoch \in Nat
           /\ m_buf \in Capacities /\ m_buf \in Nat \ {0}
           /\ g_buf \in Capacities /\ g_buf \in Nat \ {0}
           /\ thief \in [Thieves -> Locals]
<1>1. /\ sb \in Seq(Stores) /\ m_top \in Nat /\ m_bottom \in Int /\ g_bottom \in Int
      /\ epoch \in Nat /\ m_buf \in Capacities /\ g_buf \in Capacities
      /\ thief \in [Thieves -> Locals]
  BY TypeParts DEF IndexInv
<1>2. m_buf \in Nat \ {0} /\ g_buf \in Nat \ {0}
  BY <1>1, CapacityAssumption
<1>3. LogicalBottom \in Int /\ m_top <= LogicalBottom
  BY <1>1 DEF LogicalBottom, IndexInv, ClaimsAreLive
<1>4. ASSUME NEW k \in 1..Len(sb)
      PROVE  /\ sb[k] \in Stores
             /\ sb[k].cap \in Capacities /\ sb[k].cap \in Nat \ {0}
             /\ sb[k].index \in Int /\ sb[k].epoch \in Nat /\ sb[k].val \in Values
  <2>1. sb[k] \in Stores
    BY <1>1, ElementOfSeq
  <2> QED BY <2>1, CapacityAssumption, PushAssumption DEF Stores
<1> QED BY <1>1, <1>2, <1>3, <1>4

(* Two stores that match the same slot are to the same location.           *)
LEMMA MatchIsLocation ==
    ASSUME NEW j, NEW q, NEW c, NEW i, Match(j, c, i), Match(q, c, i)
    PROVE  SameLocation(sb[j], sb[q])
  BY DEF Match, SameLocation

(* What a load finds after a store.                                        *)
LEMMA LoadAfterStore ==
    ASSUME NEW bufs, DOMAIN bufs = Capacities,
           \A c \in Capacities : bufs[c] \in [0..(c - 1) -> Values],
           NEW cap \in Capacities, NEW x \in Int, NEW v,
           NEW c \in Capacities, NEW i \in Int
    PROVE  Load(Store(bufs, cap, x, v), c, i) =
             IF cap = c /\ Mask(c, x) = Mask(c, i) THEN v ELSE Load(bufs, c, i)
<1>1. cap \in Nat \ {0} /\ c \in Nat \ {0}
  BY CapacityAssumption
<1>2. Mask(cap, x) \in 0..(cap - 1) /\ Mask(c, i) \in 0..(c - 1)
  BY <1>1, ModRange DEF Mask
<1> DEFINE mx == Mask(cap, x)
           mi == Mask(c, i)
<1>3. mx \in 0..(cap - 1) /\ mi \in 0..(c - 1)
  BY <1>2
<1>4. bufs[cap] \in [0..(cap - 1) -> Values] /\ bufs[c] \in [0..(c - 1) -> Values]
  OBVIOUS
<1>5. Store(bufs, cap, x, v) = [bufs EXCEPT ![cap][mx] = v]
  BY DEF Store
<1>6. Load(Store(bufs, cap, x, v), c, i) = [bufs EXCEPT ![cap][mx] = v][c][mi]
  BY <1>5 DEF Load
<1>7. Load(bufs, c, i) = bufs[c][mi]
  BY DEF Load
<1>8. cap = c => (Mask(c, x) = Mask(c, i) <=> mx = mi)
  OBVIOUS
<1> HIDE DEF mx, mi
<1> QED BY <1>3, <1>4, <1>6, <1>7, <1>8

-----------------------------------------------------------------------------
(* A store becomes visible. The positions of the others before it.         *)
OldPos(q, j) == IF j < q THEN j ELSE j + 1
NewPos(q, p) == IF p < q THEN p ELSE p - 1

(* A store that becomes visible leaves; the others keep their order.       *)
LEMMA FlushShape ==
    ASSUME IndexInv, NEW q \in DOMAIN sb, Flush(q)
    PROVE  /\ q \in 1..Len(sb) /\ Len(sb') = Len(sb) - 1 /\ Len(sb) \in Nat
           /\ \A j \in 1..Len(sb') :
                OldPos(q, j) \in 1..Len(sb) /\ OldPos(q, j) # q /\ sb'[j] = sb[OldPos(q, j)]
           /\ \A p \in 1..Len(sb) : p # q =>
                /\ NewPos(q, p) \in 1..Len(sb') /\ OldPos(q, NewPos(q, p)) = p
                /\ sb'[NewPos(q, p)] = sb[p]
           /\ \A p \in 1..Len(sb) : p < q =>
                /\ ~Before(p, q) /\ ~SameLocation(sb[p], sb[q]) /\ StoreOrder # "program"
           /\ owner' = owner /\ m_top' = m_top /\ thief' = thief
           /\ LogicalBottom' = LogicalBottom /\ \A i : ItemAt(i)' = ItemAt(i)
<1>1. /\ sb \in Seq(Stores) /\ Len(sb) \in Nat /\ q \in 1..Len(sb)
      /\ \A k \in 1..Len(sb) : sb[k].epoch \in Nat
  BY Shapes
<1>2. sb' = RemoveAt(sb, q)
  BY DEF Flush
<1>3. /\ Len(sb') = Len(sb) - 1
      /\ \A j \in 1..(Len(sb) - 1) : sb'[j] = IF j < q THEN sb[j] ELSE sb[j + 1]
  BY <1>1, <1>2, RemoveAtProperties
<1>4. \A j \in 1..Len(sb') :
        OldPos(q, j) \in 1..Len(sb) /\ OldPos(q, j) # q /\ sb'[j] = sb[OldPos(q, j)]
  BY <1>1, <1>3 DEF OldPos
<1>5. \A p \in 1..Len(sb) : p # q =>
         NewPos(q, p) \in 1..Len(sb') /\ OldPos(q, NewPos(q, p)) = p
  BY <1>1, <1>3 DEF OldPos, NewPos
<1>6. ASSUME NEW p \in 1..Len(sb), p < q
      PROVE  ~Before(p, q) /\ ~SameLocation(sb[p], sb[q]) /\ StoreOrder # "program"
  <2>1. p \in 1..(q - 1)
    BY <1>1, <1>6
  <2>2. StoreOrder = "relaxed" /\ sb[p].epoch = sb[q].epoch /\ ~SameLocation(sb[p], sb[q])
    BY <2>1 DEF Flush, MayFlush
  <2> QED BY <1>1, <2>2 DEF Before
<1>7. /\ owner' = owner /\ m_top' = m_top /\ thief' = thief
      /\ LogicalBottom' = LogicalBottom /\ \A i : ItemAt(i)' = ItemAt(i)
  BY DEF Flush, owner, LogicalBottom, ItemAt
<1> QED BY <1>1, <1>3, <1>4, <1>5, <1>6, <1>7

(* A slot that is read in time stays so when a store becomes visible: the  *)
(* store may be the one the reader waited for (K = q or L = q).            *)
LEMMA FlushReadable ==
    ASSUME IndexInv, NEW q \in DOMAIN sb, Flush(q),
           NEW c \in Capacities, NEW i \in Int,
           NEW K \in 0..Len(sb), NEW L \in 0..Len(sb), Readable(K, L, c, i),
           NEW K1 \in 0..Len(sb'), NEW L1 \in 0..Len(sb'),
           K = 0 \/ K = q \/ (K1 > 0 /\ K = OldPos(q, K1)),
           L = 0 \/ L = q \/ (L1 > 0 /\ L = OldPos(q, L1))
    PROVE  Readable(K1, L1, c, i)'
<1> DEFINE n == Len(sb)
<1>f. /\ q \in 1..n /\ Len(sb') = n - 1 /\ n \in Nat
      /\ \A j \in 1..Len(sb') :
           OldPos(q, j) \in 1..n /\ OldPos(q, j) # q /\ sb'[j] = sb[OldPos(q, j)]
      /\ \A p \in 1..n : p # q =>
           /\ NewPos(q, p) \in 1..Len(sb') /\ OldPos(q, NewPos(q, p)) = p
           /\ sb'[NewPos(q, p)] = sb[p]
      /\ \A p \in 1..n : p < q => ~Before(p, q) /\ ~SameLocation(sb[p], sb[q])
      /\ ItemAt(i)' = ItemAt(i)
  BY FlushShape
<1>e. \A k \in 1..n : sb[k].epoch \in Nat
  BY Shapes
<1>m. /\ \A j \in 1..Len(sb') : Match(j, c, i)' <=> Match(OldPos(q, j), c, i)
      /\ \A p \in 1..n : p # q => (Match(NewPos(q, p), c, i)' <=> Match(p, c, i))
  BY <1>f DEF Match
<1>1. ASSUME NEW p \in 1..n, p # q, NEW k \in 0..n, NEW k1 \in 0..Len(sb'),
             k = 0 \/ k = q \/ (k1 > 0 /\ k = OldPos(q, k1)), Before(p, k)
      PROVE  Before(NewPos(q, p), k1)'
  <2>1. k # 0 /\ k # q
    BY <1>1, <1>f DEF Before
  <2>2. k1 \in 1..Len(sb') /\ k = OldPos(q, k1) /\ sb'[k1] = sb[k]
    <3>1. k1 > 0 /\ k = OldPos(q, k1)
      BY <1>1, <2>1
    <3>2. k1 \in 1..Len(sb')
      BY <1>f, <3>1
    <3> QED BY <1>f, <3>1, <3>2
  <2>3. NewPos(q, p) < k1
    BY <1>1, <1>f, <2>2 DEF OldPos, NewPos, Before
  <2> QED BY <1>1, <1>f, <2>2, <2>3 DEF Before
<1>2. ASSUME NEW p \in 1..n, p # q, Repairs(p, K, L, c, i)
      PROVE  NewPos(q, p) \in 1..Len(sb') /\ Repairs(NewPos(q, p), K1, L1, c, i)'
  <2>1. Match(p, c, i) /\ sb[p].val = ItemAt(i) /\ (Before(p, K) \/ Before(p, L))
    BY <1>2 DEF Repairs
  <2>2. (Before(NewPos(q, p), K1) \/ Before(NewPos(q, p), L1))'
    BY <1>1, <1>2, <2>1
  <2>3. Match(NewPos(q, p), c, i)' /\ sb'[NewPos(q, p)].val = ItemAt(i)'
    BY <1>2, <1>f, <1>m, <2>1
  <2> QED BY <1>2, <1>f, <2>2, <2>3 DEF Repairs
<1>3. ASSUME Load(g_slot, c, i)' # ItemAt(i)'
      PROVE  \E p \in 1..Len(sb') : Repairs(p, K1, L1, c, i)'
  <2>s. /\ DOMAIN g_slot = Capacities
        /\ \A d \in Capacities : g_slot[d] \in [0..(d - 1) -> Values]
    BY SlotParts DEF IndexInv
  <2>v. sb[q].cap \in Capacities /\ sb[q].index \in Int
    BY <1>f, Shapes
  <2>1. CASE Match(q, c, i)
    <3>1. g_slot' = Store(g_slot, sb[q].cap, sb[q].index, sb[q].val)
      BY <2>1 DEF Match, Flush
    <3>2. Load(g_slot', c, i) = sb[q].val
      BY <2>1, <2>s, <2>v, <3>1, LoadAfterStore DEF Match
    <3>3. Load(g_slot, c, i)' = Load(g_slot', c, i)
      BY DEF Load
    <3>4. PICK p \in 1..n : q < p /\ Repairs(p, K, L, c, i)
      BY <1>3, <1>f, <2>1, <3>2, <3>3 DEF Readable
    <3>5. p # q
      BY <1>f, <3>4
    <3> QED BY <1>2, <3>4, <3>5
  <2>2. CASE ~Match(q, c, i)
    <3>1. Load(g_slot', c, i) = Load(g_slot, c, i)
      <4>1. CASE sb[q].loc = "slot"
        <5>1. g_slot' = Store(g_slot, sb[q].cap, sb[q].index, sb[q].val)
          BY <4>1 DEF Flush
        <5> QED BY <2>2, <2>s, <2>v, <4>1, <5>1, LoadAfterStore DEF Match
      <4>2. CASE sb[q].loc # "slot"
        BY <4>2 DEF Flush
      <4> QED BY <4>1, <4>2
    <3>2. Load(g_slot, c, i)' = Load(g_slot', c, i)
      BY DEF Load
    <3>3. PICK p \in 1..n : Repairs(p, K, L, c, i)
      BY <1>3, <1>f, <3>1, <3>2 DEF Readable
    <3>4. p # q
      BY <2>2, <3>3 DEF Repairs
    <3> QED BY <1>2, <3>3, <3>4
  <2> QED BY <2>1, <2>2
<1>4. ASSUME NEW j \in 1..Len(sb'), Match(j, c, i)', sb'[j].val # ItemAt(i)'
      PROVE  \E p \in 1..Len(sb') : j < p /\ Repairs(p, K1, L1, c, i)'
  <2> DEFINE o == OldPos(q, j)
  <2>1. o \in 1..n /\ o # q /\ Match(o, c, i) /\ sb[o].val # ItemAt(i)
    BY <1>4, <1>f, <1>m
  <2>2. PICK p \in 1..n : o < p /\ Repairs(p, K, L, c, i)
    BY <2>1 DEF Readable
  <2>3. p # q
    <3>1. Match(p, c, i)
      BY <2>2 DEF Repairs
    <3> HIDE DEF o
    <3> QED BY <1>f, <2>1, <2>2, <3>1, MatchIsLocation
  <2>4. j < NewPos(q, p)
    BY <1>4, <1>f, <2>2, <2>3 DEF OldPos, NewPos
  <2> QED BY <1>2, <2>2, <2>3, <2>4
<1>5. \A j \in 1..Len(sb') : (Match(j, c, i) /\ sb[j].val # ItemAt(i))' =>
         \E p \in 1..Len(sb') : j < p /\ Repairs(p, K1, L1, c, i)'
  BY <1>4
<1> QED BY <1>3, <1>5 DEF Readable

(* A store that becomes visible leaves every item readable in time.        *)
LEMMA FlushReads ==
    ASSUME IndexInv, ReadInv, NEW q \in DOMAIN sb, Flush(q)
    PROVE  ReadInv'
<1> DEFINE n == Len(sb)
<1>f. /\ q \in 1..n /\ Len(sb') = n - 1 /\ n \in Nat
      /\ \A j \in 1..Len(sb') :
           OldPos(q, j) \in 1..n /\ OldPos(q, j) # q /\ sb'[j] = sb[OldPos(q, j)]
      /\ \A p \in 1..n : p # q =>
           /\ NewPos(q, p) \in 1..Len(sb') /\ OldPos(q, NewPos(q, p)) = p
           /\ sb'[NewPos(q, p)] = sb[p]
      /\ \A p \in 1..n : p < q => ~SameLocation(sb[p], sb[q]) /\ StoreOrder # "program"
      /\ m_top' = m_top /\ thief' = thief
      /\ LogicalBottom' = LogicalBottom /\ \A i : ItemAt(i)' = ItemAt(i)
  BY FlushShape
<1>o. UNCHANGED <<m_bottom, m_buf, epoch, opc>>
  BY DEF Flush, owner
<1>s. /\ \A k \in 1..n : sb[k].cap \in Capacities /\ sb[k].cap \in Nat /\ sb[k].index \in Int
      /\ m_top \in Nat /\ LogicalBottom \in Int /\ g_buf \in Capacities
      /\ thief \in [Thieves -> Locals]
  BY Shapes
<1>b. \A k \in 1..n : sb[k].loc = "buf" => (StoreOrder = "program" /\ q = 1)
  BY <1>f DEF ReadInv, BufBounds
<1>v. /\ g_bottom' = IF sb[q].loc = "bottom" THEN sb[q].index ELSE g_bottom
      /\ g_buf' = IF sb[q].loc = "buf" THEN sb[q].cap ELSE g_buf
  BY DEF Flush
(* the store that gave thieves the buffer of L1, or will give it to them   *)
<1> DEFINE Src(L1) == IF L1 = 0 THEN (IF sb[q].loc = "buf" THEN q ELSE 0) ELSE OldPos(q, L1)
<1>1. ASSUME NEW L1 \in 0..Len(sb'), IsView(L1)'
      PROVE  /\ Src(L1) \in 0..n /\ IsView(Src(L1)) /\ View(Src(L1)) = View(L1)'
             /\ Src(L1) = 0 \/ Src(L1) = q \/ (L1 > 0 /\ Src(L1) = OldPos(q, L1))
             /\ View(Src(L1)) \in Capacities
  <2>1. CASE L1 = 0
    BY <2>1, <1>f, <1>s, <1>v DEF IsView, View
  <2>2. CASE L1 # 0
    <3>1. L1 \in 1..Len(sb') /\ sb'[L1].loc = "buf"
      BY <1>1, <1>f, <2>2 DEF IsView
    <3> QED BY <2>2, <3>1, <1>f, <1>s DEF IsView, View
  <2> QED BY <2>1, <2>2
<1>2. ASSUME NEW L1 \in 0..Len(sb'), NEW l \in 1..n, Src(L1) < l, sb[l].loc = "buf"
      PROVE  l # q /\ L1 < NewPos(q, l)
  <2>1. q = 1
    BY <1>2, <1>b
  <2>2. CASE L1 = 0
    <3>1. l # q
      BY <1>2, <2>2
    <3> QED BY <3>1, <2>1, <2>2, <1>f DEF NewPos
  <2>3. CASE L1 # 0
    <3>1. Src(L1) = L1 + 1
      BY <2>1, <2>3, <1>f DEF OldPos
    <3> QED BY <1>2, <3>1, <2>1, <1>f DEF NewPos
  <2> QED BY <2>2, <2>3
<1> HIDE DEF Src
<1>3. PublishedIsReadable'
  <2> SUFFICES ASSUME NEW i \in m_top..(LogicalBottom - 1),
                      NEW K1 \in 0..Len(sb'), NEW L1 \in 0..Len(sb'),
                      Published(i, K1)', IsView(L1)', NoBuf(L1, K1)'
               PROVE  Readable(K1, L1, View(L1), i)'
    BY <1>f DEF PublishedIsReadable
  <2> DEFINE K == IF K1 = 0 THEN (IF Published(i, 0) THEN 0 ELSE q) ELSE OldPos(q, K1)
  <2>1. K \in 0..n /\ (K = 0 \/ K = q \/ (K1 > 0 /\ K = OldPos(q, K1)))
    BY <1>f
  <2>2. Published(i, K)
    <3>1. CASE K1 = 0
      BY <3>1, <1>f, <1>v DEF Published, IsBottom, MayWin
    <3>2. CASE K1 # 0
      <4>1. K1 \in 1..Len(sb')
        BY <3>2, <1>f
      <4> QED BY <3>2, <4>1, <1>f DEF Published, IsBottom
    <3> QED BY <3>1, <3>2
  <2>3. NoBuf(Src(L1), K)
    <3> SUFFICES ASSUME NEW l \in 1..n, Src(L1) < l, l < K, sb[l].loc = "buf" PROVE FALSE
      BY DEF NoBuf
    <3>1. q = 1 /\ l # q /\ L1 < NewPos(q, l)
      BY <1>b, <1>2
    <3>2. NewPos(q, l) \in 1..Len(sb') /\ sb'[NewPos(q, l)].loc = "buf"
      BY <1>f, <3>1
    <3>3. K1 # 0
      BY <2>1, <3>1, <1>f
    <3>4. NewPos(q, l) < K1
      BY <3>1, <3>3, <1>f DEF NewPos, OldPos
    <3> QED BY <3>1, <3>2, <3>4 DEF NoBuf
  <2> HIDE DEF K
  <2>4. Readable(K, Src(L1), View(Src(L1)), i)
    BY <1>1, <2>1, <2>2, <2>3 DEF ReadInv, PublishedIsReadable
  <2>5. i \in Int
    BY <1>s
  <2>6. PICK c \in Capacities : c = View(Src(L1)) /\ c = View(L1)'
    BY <1>1
  <2>a. PICK k \in 0..n, l \in 0..n : k = K /\ l = Src(L1)
    BY <1>1, <2>1
  <2>7. Readable(K1, L1, c, i)'
    <3>1. Readable(k, l, c, i)
      BY <2>4, <2>6, <2>a
    <3>2. /\ k = 0 \/ k = q \/ (K1 > 0 /\ k = OldPos(q, K1))
          /\ l = 0 \/ l = q \/ (L1 > 0 /\ l = OldPos(q, L1))
      BY <1>1, <2>1, <2>a
    <3> QED BY <2>5, <3>1, <3>2, FlushReadable
  <2> QED BY <2>6, <2>7 DEF Readable, Repairs, Match
<1>4. ThiefReads'
  <2> SUFFICES ASSUME NEW t \in Thieves, MayWin(t)'
               PROVE  /\ (thief[t].pc = "slot")' => Readable(0, 0, thief[t].buf, m_top)'
                      /\ (thief[t].pc = "cas")' => (thief[t].tmp = ItemAt(m_top))'
    BY DEF ThiefReads
  <2>1. MayWin(t)
    BY <1>f DEF MayWin
  <2>2. ASSUME thief[t].pc = "slot" PROVE Readable(0, 0, thief[t].buf, m_top)'
    <3>1. Readable(0, 0, thief[t].buf, m_top) /\ thief[t].buf \in Capacities /\ m_top \in Int
      BY <1>s, <2>1, <2>2 DEF ReadInv, ThiefReads, Locals
    <3>2. 0 \in 0..n /\ 0 \in 0..Len(sb')
      BY <1>f
    <3>3. PICK c \in Capacities, i \in Int : c = thief[t].buf /\ i = m_top
      BY <3>1
    <3>4. c = thief'[t].buf /\ i = m_top' /\ Readable(0, 0, c, i)
      BY <1>f, <3>1, <3>3
    <3>5. Readable(0, 0, c, i)'
      BY <3>2, <3>4, FlushReadable
    <3> QED BY <3>4, <3>5 DEF Readable, Repairs, Match
  <2>3. ASSUME thief[t].pc = "cas" PROVE (thief[t].tmp = ItemAt(m_top))'
    <3>1. thief[t].tmp = ItemAt(m_top)
      BY <2>1, <2>3 DEF ReadInv, ThiefReads
    <3>2. ItemAt(m_top)' = ItemAt(m_top)
      BY <1>o, <1>f DEF ItemAt, Flush, owner
    <3> QED BY <1>f, <3>1, <3>2
  <2> QED BY <1>f, <2>2, <2>3
<1>5. BufBounds'
  <2> USE DEF ReadInv, BufBounds
  <2>1. /\ LogicalBottom' - m_top' <= m_buf' /\ InitialCap <= m_buf' /\ g_buf' <= m_buf'
        /\ \A t \in Thieves : thief'[t].buf <= m_buf'
        /\ opc' = "cas" => m_bottom' <= m_top'
    BY <1>f, <1>o, <1>v
  <2>2. \A k \in 1..Len(sb') :
          /\ sb'[k].cap <= m_buf' /\ sb'[k].epoch <= epoch'
          /\ sb'[k].loc = "buf" => StoreOrder = "program"
    BY <1>f, <1>o
  <2>3. ASSUME NEW L1 \in 0..Len(sb'), IsView(L1)', NoBuf(L1, Len(sb) + 1)'
        PROVE  View(L1)' = m_buf'
    <3>1. NoBuf(Src(L1), n + 1)
      <4> SUFFICES ASSUME NEW l \in 1..n, Src(L1) < l, sb[l].loc = "buf" PROVE FALSE
        BY DEF NoBuf
      <4>1. l # q /\ L1 < NewPos(q, l)
        BY <1>2
      <4>2. NewPos(q, l) \in 1..Len(sb') /\ sb'[NewPos(q, l)].loc = "buf"
        BY <1>f, <4>1
      <4> QED BY <2>3, <4>1, <4>2, <1>f DEF NoBuf
    <3> QED BY <1>1, <1>o, <2>3, <3>1
  <2> QED BY <2>1, <2>2, <2>3
<1>6. \E K1 \in 0..Len(sb') : IsLastBottom(K1)'
  <2>1. PICK K \in 0..n : IsLastBottom(K)
    BY DEF ReadInv
  <2>2. CASE K = 0 \/ K = q
    <3>1. \A j \in 1..Len(sb') : ~IsBottom(j)'
      <4> SUFFICES ASSUME NEW j \in 1..Len(sb'), IsBottom(j)' PROVE FALSE
        OBVIOUS
      <4>1. OldPos(q, j) \in 1..n /\ OldPos(q, j) # q /\ IsBottom(OldPos(q, j))
        BY <1>f DEF IsBottom
      <4>2. K = q /\ OldPos(q, j) < q
        BY <2>1, <2>2, <4>1, <1>f DEF IsLastBottom
      <4>3. IsBottom(q)
        BY <2>1, <4>2, <1>f DEF IsLastBottom
      <4> QED BY <1>f, <4>1, <4>2, <4>3 DEF SameLocation, IsBottom
    <3>2. g_bottom' = m_bottom'
      BY <2>1, <2>2, <1>f, <1>v, <1>o DEF IsLastBottom, IsBottom
    <3>3. IsLastBottom(0)' /\ 0 \in 0..Len(sb')
      BY <3>1, <3>2, <1>f DEF IsLastBottom
    <3> QED BY <3>3
  <2>3. CASE K # 0 /\ K # q
    <3> DEFINE K1 == NewPos(q, K)
    <3>1. K \in 1..n /\ K1 \in 1..Len(sb') /\ sb'[K1] = sb[K]
      BY <2>3, <1>f
    <3>2. IsBottom(K1)' /\ sb'[K1].index = m_bottom'
      BY <2>1, <3>1, <1>o DEF IsLastBottom, IsBottom
    <3>3. ASSUME NEW j \in 1..Len(sb'), K1 < j PROVE ~IsBottom(j)'
      <4>1. OldPos(q, j) \in 1..n /\ K < OldPos(q, j)
        BY <1>f, <2>3, <3>1, <3>3 DEF OldPos, NewPos
      <4> QED BY <1>f, <2>1, <4>1 DEF IsLastBottom, IsBottom
    <3> HIDE DEF K1
    <3>4. IsLastBottom(K1)' /\ K1 \in 0..Len(sb') /\ K1 # 0
      BY <3>1, <3>2, <3>3, <1>f DEF IsLastBottom
    <3> QED BY <3>4
  <2> QED BY <2>2, <2>3
<1> QED BY <1>3, <1>4, <1>5, <1>6 DEF ReadInv

-----------------------------------------------------------------------------
(* New stores are issued behind the pending ones.                          *)
Extends ==
    /\ Len(sb) \in Nat /\ Len(sb') \in Nat /\ Len(sb) <= Len(sb')
    /\ \A j \in 1..Len(sb) : sb'[j] = sb[j]
    /\ UNCHANGED <<g_bottom, g_buf, g_slot>>

(* Stores issued later do not change the order of those already issued.    *)
LEMMA BeforeStays ==
    ASSUME Extends, NEW p \in 1..Len(sb), NEW K \in 0..Len(sb), Before(p, K)
    PROVE  Before(p, K)'
<1>1. K \in 1..Len(sb)
  BY DEF Extends, Before
<1> QED BY <1>1 DEF Extends, Before

(* A slot that is read in time stays so if the new stores leave it alone.  *)
LEMMA ExtendReadable ==
    ASSUME Extends, NEW c, NEW i, ItemAt(i)' = ItemAt(i),
           \A j \in 1..Len(sb') : Len(sb) < j => ~Match(j, c, i)',
           NEW K, NEW L, Readable(K, L, c, i), NEW K1, NEW L1,
           \A p \in 1..Len(sb) : Before(p, K) \/ Before(p, L) => (Before(p, K1) \/ Before(p, L1))'
    PROVE  Readable(K1, L1, c, i)'
<1>1. \A j \in 1..Len(sb) : j \in 1..Len(sb') /\ (Match(j, c, i)' <=> Match(j, c, i))
  BY DEF Extends, Match
<1>2. ASSUME NEW p \in 1..Len(sb), Repairs(p, K, L, c, i)
      PROVE  p \in 1..Len(sb') /\ Repairs(p, K1, L1, c, i)'
  <2>1. Match(p, c, i)' /\ sb'[p].val = ItemAt(i)' /\ (Before(p, K1) \/ Before(p, L1))'
    BY <1>1, <1>2 DEF Repairs, Extends
  <2> QED BY <1>1, <2>1 DEF Repairs
<1>3. Load(g_slot, c, i)' # ItemAt(i)' => \E p \in 1..Len(sb') : Repairs(p, K1, L1, c, i)'
  <2>1. Load(g_slot, c, i)' = Load(g_slot, c, i)
    BY DEF Extends, Load
  <2> QED BY <1>2, <2>1 DEF Readable
<1>4. ASSUME NEW j \in 1..Len(sb'), Match(j, c, i)', sb'[j].val # ItemAt(i)'
      PROVE  \E p \in 1..Len(sb') : j < p /\ Repairs(p, K1, L1, c, i)'
  <2>1. j \in 1..Len(sb)
    BY <1>4 DEF Extends
  <2>2. Match(j, c, i) /\ sb[j].val # ItemAt(i)
    BY <1>1, <1>4, <2>1 DEF Extends
  <2> QED BY <1>2, <2>1, <2>2 DEF Readable
<1>5. \A j \in 1..Len(sb') : (Match(j, c, i) /\ sb[j].val # ItemAt(i))' =>
         \E p \in 1..Len(sb') : j < p /\ Repairs(p, K1, L1, c, i)'
  BY <1>4
<1> QED BY <1>3, <1>5 DEF Readable

(* A later m_bottom publishes at most what the youngest one did, and the   *)
(* reads it allows are not earlier.                                        *)
LEMMA LaterBottom ==
    ASSUME IndexInv, ReadInv, Extends, NEW i \in m_top..(LogicalBottom - 1), i < m_bottom,
           NEW K1 \in (Len(sb) + 1)..Len(sb'),
           sb'[K1].epoch \in Nat, sb'[K1].epoch >= epoch,
           NEW L \in 0..Len(sb), IsView(L), NoBuf(L, Len(sb) + 1),
           ItemAt(i)' = ItemAt(i),
           \A j \in 1..Len(sb') : Len(sb) < j => ~Match(j, View(L), i)'
    PROVE  Readable(K1, L, View(L), i)'
<1>1. PICK K \in 0..Len(sb) : IsLastBottom(K)
  BY DEF ReadInv
<1>s. /\ Len(sb) \in Nat /\ epoch \in Nat /\ \A k \in 1..Len(sb) : sb[k].epoch \in Nat
  BY Shapes
<1>2. Published(i, K)
  BY <1>1 DEF IsLastBottom, Published
<1>3. NoBuf(L, K)
  BY <1>s DEF NoBuf
<1>4. Readable(K, L, View(L), i)
  BY <1>2, <1>3 DEF ReadInv, PublishedIsReadable
<1>5. ASSUME NEW p \in 1..Len(sb), Before(p, K) \/ Before(p, L) PROVE Before(p, K1)'
  <2>1. p < K1 /\ sb'[p] = sb[p]
    BY <1>s DEF Extends
  <2>2. CASE StoreOrder = "program"
    BY <2>1, <2>2 DEF Before
  <2>3. CASE StoreOrder # "program"
    <3>1. L = 0
      BY <2>3, <1>s DEF ReadInv, BufBounds, IsView
    <3>2. Before(p, K) /\ K \in 1..Len(sb)
      BY <1>5, <1>s, <3>1 DEF Before
    <3>3. sb[p].epoch < sb[K].epoch /\ sb[K].epoch <= epoch
      BY <2>3, <3>2 DEF Before, ReadInv, BufBounds
    <3> QED BY <1>s, <2>1, <3>2, <3>3, SMTT(30) DEF Before, Extends
  <2> QED BY <2>2, <2>3
<1>6. View(L)' = View(L)
  BY <1>s DEF View, Extends
<1>7. PICK c : c = View(L)
  OBVIOUS
<1>8. Readable(K, L, c, i) /\ \A j \in 1..Len(sb') : Len(sb) < j => ~Match(j, c, i)'
  BY <1>4, <1>6, <1>7 DEF Match
<1>9. Readable(K1, L, c, i)'
  BY <1>5, <1>8, ExtendReadable
<1> QED BY <1>6, <1>7, <1>9 DEF Readable, Repairs, Match

-----------------------------------------------------------------------------
(* Steps that issue no store and make none visible.                        *)
LEMMA KeepReads ==
    ASSUME IndexInv, ReadInv,
           UNCHANGED <<sb, g_bottom, g_buf, g_slot, slot, m_buf, m_bottom, epoch>>,
           m_top' \in Int, LogicalBottom' \in Int,
           m_top <= m_top', LogicalBottom' <= LogicalBottom,
           opc' = "cas" => m_bottom <= m_top',
           \A t \in Thieves : thief'[t].buf <= m_buf,
           \A t \in Thieves : MayWin(t)' =>
              /\ m_top' = m_top
              /\ thief'[t].pc = "buf" => Published(m_top, 0)
              /\ thief'[t].pc = "slot" => Readable(0, 0, thief'[t].buf, m_top)
              /\ thief'[t].pc = "cas" => thief'[t].tmp = ItemAt(m_top)
    PROVE  ReadInv'
<1>s. m_top \in Nat /\ LogicalBottom \in Int /\ m_buf \in Nat /\ Len(sb) \in Nat
  BY Shapes
<1>1. \A i : ItemAt(i)' = ItemAt(i)
  BY DEF ItemAt
<1>2. \A K, L, c, i : Readable(K, L, c, i) => Readable(K, L, c, i)'
  <2>1. \A j, c, i : Match(j, c, i)' <=> Match(j, c, i)
    BY DEF Match
  <2>2. \A p, K : Before(p, K)' <=> Before(p, K)
    BY DEF Before
  <2>3. \A p, K, L, c, i : Repairs(p, K, L, c, i)' <=> Repairs(p, K, L, c, i)
    BY <1>1, <2>1, <2>2 DEF Repairs
  <2>4. \A c, i : Load(g_slot, c, i)' = Load(g_slot, c, i)
    BY DEF Load
  <2> QED BY <1>1, <2>1, <2>3, <2>4 DEF Readable
<1>3. PublishedIsReadable'
  <2> SUFFICES ASSUME NEW i \in m_top'..(LogicalBottom' - 1),
                      NEW K \in 0..Len(sb), NEW L \in 0..Len(sb),
                      Published(i, K)', IsView(L)', NoBuf(L, K)'
               PROVE  Readable(K, L, View(L), i)'
    BY DEF PublishedIsReadable
  <2>1. i \in m_top..(LogicalBottom - 1)
    BY <1>s
  <2>2. Published(i, K)
    <3>1. CASE K = 0 /\ ~(i < g_bottom)
      <4>1. PICK t \in Thieves : i = m_top' /\ MayWin(t)' /\ thief'[t].pc = "buf"
        BY <3>1 DEF Published
      <4> QED BY <3>1, <4>1
    <3>2. CASE ~(K = 0 /\ ~(i < g_bottom))
      BY <3>2 DEF Published, IsBottom
    <3> QED BY <3>1, <3>2
  <2>3. IsView(L) /\ NoBuf(L, K) /\ View(L)' = View(L)
    BY DEF IsView, NoBuf, View
  <2>4. Readable(K, L, View(L), i)
    BY <2>1, <2>2, <2>3 DEF ReadInv, PublishedIsReadable
  <2>5. PICK c : c = View(L)
    OBVIOUS
  <2>6. Readable(K, L, c, i)'
    BY <1>2, <2>4, <2>5
  <2> QED BY <2>3, <2>5, <2>6 DEF Readable, Repairs, Match
<1>4. ThiefReads'
  <2> SUFFICES ASSUME NEW t \in Thieves, MayWin(t)'
               PROVE  /\ (thief[t].pc = "slot")' => Readable(0, 0, thief[t].buf, m_top)'
                      /\ (thief[t].pc = "cas")' => (thief[t].tmp = ItemAt(m_top))'
    BY DEF ThiefReads
  <2>1. ASSUME thief'[t].pc = "slot" PROVE Readable(0, 0, thief[t].buf, m_top)'
    <3>1. PICK c, i : c = thief'[t].buf /\ i = m_top
      OBVIOUS
    <3>2. Readable(0, 0, c, i)'
      BY <1>2, <2>1, <3>1
    <3>3. i = m_top'
      BY <3>1
    <3> QED BY <3>1, <3>2, <3>3 DEF Readable, Repairs, Match
  <2>2. ASSUME thief'[t].pc = "cas" PROVE (thief[t].tmp = ItemAt(m_top))'
    <3>1. ItemAt(m_top)' = ItemAt(m_top)
      BY DEF ItemAt
    <3> QED BY <2>2, <3>1
  <2> QED BY <2>1, <2>2
<1>5. BufBounds'
  <2>1. LogicalBottom' - m_top' <= m_buf
    BY <1>s DEF ReadInv, BufBounds
  <2>2. \A L \in 0..Len(sb) : (IsView(L) /\ NoBuf(L, Len(sb) + 1))' => View(L)' = m_buf
    <3>1. \A L : (IsView(L)' <=> IsView(L)) /\ View(L)' = View(L)
      BY DEF IsView, View
    <3>2. \A L, K : NoBuf(L, K)' <=> NoBuf(L, K)
      BY DEF NoBuf
    <3>3. \A L : NoBuf(L, Len(sb) + 1)' <=> NoBuf(L, Len(sb) + 1)
      BY DEF NoBuf
    <3> QED BY <3>1, <3>3 DEF ReadInv, BufBounds
  <2> QED BY <2>1, <2>2 DEF ReadInv, BufBounds
<1>6. \E K \in 0..Len(sb') : IsLastBottom(K)'
  BY DEF ReadInv, IsLastBottom, IsBottom
<1> QED BY <1>3, <1>4, <1>5, <1>6 DEF ReadInv

(* Steps that store m_bottom behind the pending stores.                    *)
LEMMA AppendShapes ==
    ASSUME IndexInv, ReadInv, NEW b \in -1..MaxPush,
           sb' = Append(sb, BottomStore(b, epoch)), m_bottom' = b,
           UNCHANGED <<g_bottom, g_buf, g_slot, m_buf, epoch, thief>>,
           LogicalBottom' - m_top' <= m_buf, opc' # "cas"
    PROVE  /\ Extends /\ Len(sb') = Len(sb) + 1
           /\ sb'[Len(sb')].loc = "bottom" /\ sb'[Len(sb')].index = b
           /\ sb'[Len(sb')].epoch = epoch
           /\ BufBounds'
           /\ \E K \in 0..Len(sb') : IsLastBottom(K)'
<1>s. /\ sb \in Seq(Stores) /\ Len(sb) \in Nat /\ epoch \in Nat
      /\ m_buf \in Nat
  BY Shapes
<1>1. /\ BottomStore(b, epoch) \in Stores
      /\ BottomStore(b, epoch).loc = "bottom" /\ BottomStore(b, epoch).index = b
      /\ BottomStore(b, epoch).cap = InitialCap /\ BottomStore(b, epoch).epoch = epoch
  BY <1>s, CapacityAssumption DEF BottomStore, Stores, Values, Garbage
<1>2. /\ Len(sb') = Len(sb) + 1
      /\ \A j \in 1..Len(sb) : sb'[j] = sb[j]
      /\ sb'[Len(sb) + 1] = BottomStore(b, epoch)
  BY <1>s, <1>1, AppendedStore
<1>3. Extends
  BY <1>s, <1>2 DEF Extends
<1>4. \A k \in 1..Len(sb') :
        /\ sb'[k].cap <= m_buf /\ sb'[k].epoch <= epoch
        /\ sb'[k].loc = "buf" => StoreOrder = "program"
  BY <1>s, <1>1, <1>2 DEF ReadInv, BufBounds
<1>5. ASSUME NEW L \in 0..Len(sb'), IsView(L)', NoBuf(L, Len(sb) + 1)'
      PROVE  View(L)' = m_buf
  <2>1. L \in 0..Len(sb) /\ IsView(L) /\ View(L)' = View(L)
    BY <1>s, <1>1, <1>2, <1>5 DEF IsView, View
  <2>2. NoBuf(L, Len(sb) + 1)
    BY <1>s, <1>2, <1>5 DEF NoBuf
  <2> QED BY <2>1, <2>2 DEF ReadInv, BufBounds
<1>6. BufBounds'
  BY <1>4, <1>5 DEF ReadInv, BufBounds
<1>7. \E K \in 0..Len(sb') : IsLastBottom(K)'
  <2>1. PICK k \in 1..Len(sb') : k = Len(sb) + 1
    BY <1>s, <1>2
  <2>2. IsLastBottom(k)'
    BY <1>s, <1>1, <1>2, <2>1 DEF IsLastBottom, IsBottom
  <2>3. k \in 0..Len(sb')
    BY <1>s, <1>2
  <2> QED BY <2>2, <2>3
<1> QED BY <1>1, <1>2, <1>3, <1>6, <1>7

(* pop(), before it decides.                                               *)
LEMMA PopReserveReads == ASSUME IndexInv, ReadInv, PopReserve PROVE ReadInv'
<1>s. /\ m_top \in Nat /\ m_bottom \in Int /\ Len(sb) \in Nat /\ epoch \in Nat
      /\ LogicalBottom \in Int
  BY Shapes
<1>1. /\ m_bottom' = m_bottom - 1 /\ m_bottom - 1 \in -1..MaxPush
      /\ LogicalBottom = m_bottom /\ LogicalBottom' = m_bottom
      /\ sb' = Append(sb, BottomStore(m_bottom - 1, epoch))
      /\ UNCHANGED <<g_bottom, g_buf, g_slot, m_buf, epoch, thief, m_top, slot>> /\ opc' = "fence"
  <2>1. opc = "idle" /\ opc' = "fence" /\ m_bottom' = m_bottom - 1
    BY DEF PopReserve
  <2>2. m_bottom \in -1..MaxPush /\ m_top <= LogicalBottom
    BY TypeParts DEF IndexInv, ClaimsAreLive
  <2>3. LogicalBottom = m_bottom /\ LogicalBottom' = m_bottom
    BY <1>s, <2>1 DEF LogicalBottom
  <2>4. m_bottom - 1 \in -1..MaxPush
    BY <1>s, <2>2, <2>3, PushAssumption
  <2> QED BY <2>1, <2>3, <2>4 DEF PopReserve, visible
<1>2. LogicalBottom' - m_top' <= m_buf
  BY <1>1 DEF ReadInv, BufBounds
<1> DEFINE n == Len(sb)
<1>3. /\ Extends /\ Len(sb') = n + 1
      /\ sb'[n + 1].loc = "bottom" /\ sb'[n + 1].index = m_bottom - 1
      /\ sb'[n + 1].epoch = epoch
      /\ BufBounds' /\ \E K \in 0..Len(sb') : IsLastBottom(K)'
  <2>1. PICK b \in -1..MaxPush : b = m_bottom - 1
    BY <1>1
  <2> QED BY <1>1, <1>2, <2>1, AppendShapes
<1>4. \A i : ItemAt(i)' = ItemAt(i)
  BY <1>1 DEF ItemAt
<1>5. \A j \in 1..Len(sb') : n < j => sb'[j].loc = "bottom"
  BY <1>s, <1>3
<1>6. \A c, i : \A j \in 1..Len(sb') : n < j => ~Match(j, c, i)'
  BY <1>5 DEF Match
<1>7. ASSUME NEW K \in 0..n, NEW L \in 0..n, NEW c, NEW i, Readable(K, L, c, i)
      PROVE  Readable(K, L, c, i)'
  BY <1>3, <1>4, <1>6, <1>7, BeforeStays, ExtendReadable
<1>8. \A t \in Thieves : MayWin(t)' <=> MayWin(t)
  BY <1>1 DEF MayWin
<1>9. PublishedIsReadable'
  <2> SUFFICES ASSUME NEW i \in m_top..(LogicalBottom - 1),
                      NEW K \in 0..Len(sb'), NEW L \in 0..Len(sb'),
                      Published(i, K)', IsView(L)', NoBuf(L, K)'
               PROVE  Readable(K, L, View(L), i)'
    BY <1>1 DEF PublishedIsReadable
  <2>1. L \in 0..n /\ IsView(L) /\ View(L)' = View(L)
    BY <1>s, <1>3, <1>1 DEF IsView, View, Extends
  <2>2. PICK c : c = View(L)
    OBVIOUS
  <2>3. Readable(K, L, c, i)'
    <3>1. CASE K \in 0..n
      <4>1. Published(i, K)
        BY <1>1, <1>3, <1>8, <3>1 DEF Published, IsBottom, Extends
      <4>2. NoBuf(L, K)
        BY <1>s, <1>3, <3>1 DEF NoBuf, Extends
      <4>3. Readable(K, L, c, i)
        BY <2>1, <2>2, <3>1, <4>1, <4>2 DEF ReadInv, PublishedIsReadable
      <4> QED BY <1>7, <2>1, <3>1, <4>3
    <3>2. CASE K = n + 1
      <4>1. i < m_bottom
        BY <1>s, <1>3, <3>2 DEF Published
      <4>2. NoBuf(L, n + 1)
        BY <1>s, <1>3, <3>2 DEF NoBuf, Extends
      <4>3. K \in (n + 1)..Len(sb') /\ sb'[K].epoch \in Nat /\ sb'[K].epoch >= epoch
        BY <1>s, <1>3, <3>2
      <4>4. Readable(K, L, View(L), i)'
        BY <1>3, <1>4, <1>6, <2>1, <4>1, <4>2, <4>3, LaterBottom
      <4> QED BY <2>1, <2>2, <4>4 DEF Readable, Repairs, Match
    <3> QED BY <1>s, <1>3, <3>1, <3>2
  <2> QED BY <2>1, <2>2, <2>3 DEF Readable, Repairs, Match
<1>10. ThiefReads'
  <2> SUFFICES ASSUME NEW t \in Thieves, MayWin(t)
               PROVE  /\ thief[t].pc = "slot" => Readable(0, 0, thief[t].buf, m_top)'
                      /\ thief[t].pc = "cas" => (thief[t].tmp = ItemAt(m_top))'
    BY <1>1, <1>8 DEF ThiefReads
  <2>1. ASSUME thief[t].pc = "slot" PROVE Readable(0, 0, thief[t].buf, m_top)'
    <3>1. PICK c, i : c = thief[t].buf /\ i = m_top
      OBVIOUS
    <3>2. Readable(0, 0, c, i)
      BY <2>1, <3>1 DEF ReadInv, ThiefReads
    <3>3. Readable(0, 0, c, i)'
      BY <1>s, <1>7, <3>2
    <3>4. c = thief'[t].buf /\ i = m_top'
      BY <1>1, <3>1
    <3> QED BY <3>3, <3>4 DEF Readable, Repairs, Match
  <2>2. ASSUME thief[t].pc = "cas" PROVE (thief[t].tmp = ItemAt(m_top))'
    <3>1. thief[t].tmp = ItemAt(m_top)
      BY <2>2 DEF ReadInv, ThiefReads
    <3> QED BY <1>1, <3>1 DEF ItemAt
  <2> QED BY <2>1, <2>2
<1> QED BY <1>3, <1>9, <1>10 DEF ReadInv

(* pop() of the last item or of none leaves nothing to read.               *)
LEMMA RestoreReads ==
    ASSUME IndexInv, IndexInv', ReadInv, PopEmpty \/ PopCas
    PROVE  ReadInv'
<1>s. /\ m_top \in Nat /\ m_bottom \in Int /\ LogicalBottom \in Int /\ m_top <= LogicalBottom
      /\ m_buf \in Nat
  BY Shapes
<1>1. /\ m_bottom' = m_bottom + 1 /\ LogicalBottom = m_bottom + 1 /\ LogicalBottom' = m_bottom + 1
      /\ sb' = Append(sb, BottomStore(m_bottom + 1, epoch))
      /\ UNCHANGED <<g_bottom, g_buf, g_slot, m_buf, epoch, thief>> /\ opc' = "idle"
  BY DEF PopEmpty, PopCas, RestoreBottom, LogicalBottom, visible
<1>2. m_top' = LogicalBottom'
  <2>1. CASE PopEmpty
    BY <1>s, <1>1, <2>1 DEF PopEmpty
  <2>2. CASE PopCas
    <3>1. m_bottom <= m_top
      BY <2>2 DEF ReadInv, BufBounds, PopCas
    <3>2. \/ m_top = m_bottom /\ m_top' = m_top + 1
          \/ m_top # m_bottom /\ m_top' = m_top
      BY <2>2 DEF PopCas
    <3> QED BY <1>s, <1>1, <3>1, <3>2
  <2> QED BY <2>1, <2>2
<1>3. m_bottom + 1 \in -1..MaxPush
  <2>1. pushed \in 0..MaxPush /\ LogicalBottom <= pushed /\ m_bottom \in -1..MaxPush
    BY TypeParts DEF IndexInv
  <2> QED BY <1>s, <1>1, <2>1, PushAssumption
<1>4. BufBounds' /\ \E K \in 0..Len(sb') : IsLastBottom(K)'
  <2>1. PICK b \in -1..MaxPush : b = m_bottom + 1
    BY <1>3
  <2>2. LogicalBottom' - m_top' <= m_buf /\ opc' # "cas"
    BY <1>s, <1>1, <1>2
  <2> QED BY <1>1, <2>1, <2>2, AppendShapes
<1>5. PublishedIsReadable'
  BY <1>s, <1>1, <1>2 DEF PublishedIsReadable
<1>6. \A t \in Thieves : ~MayWin(t)'
  BY <1>s, <1>1, <1>2 DEF IndexInv, ClaimsAreLive
<1>7. ThiefReads'
  BY <1>6 DEF ThiefReads
<1> QED BY <1>4, <1>5, <1>7 DEF ReadInv

(* pop() of an item that is not the last, or the way to the race for it.   *)
LEMMA PopDecidesReads == ASSUME IndexInv, ReadInv, PopMany \/ PopLast PROVE ReadInv'
<1>s. /\ m_top \in Nat /\ m_bottom \in Int /\ m_buf \in Nat /\ thief \in [Thieves -> Locals]
  BY Shapes
<1>1. /\ UNCHANGED <<sb, g_bottom, g_buf, g_slot, slot, m_buf, m_bottom, epoch, thief, m_top>>
      /\ LogicalBottom = m_bottom + 1 /\ LogicalBottom' \in {m_bottom, m_bottom + 1}
      /\ opc' = "cas" => m_bottom <= m_top
  BY <1>s DEF PopMany, PopLast, visible, LogicalBottom
<1>2. \A t \in Thieves : MayWin(t)' <=> MayWin(t)
  BY <1>1 DEF MayWin
<1>3. \A t \in Thieves : MayWin(t) /\ thief[t].pc = "buf" => Published(m_top, 0)
  BY DEF Published
<1>4. /\ m_top' \in Int /\ LogicalBottom' \in Int
      /\ m_top <= m_top' /\ LogicalBottom' <= LogicalBottom
      /\ (opc' = "cas" => m_bottom <= m_top')
      /\ \A t \in Thieves : thief'[t].buf <= m_buf
  BY <1>s, <1>1 DEF ReadInv, BufBounds
<1>5. \A t \in Thieves : MayWin(t)' =>
        /\ m_top' = m_top
        /\ thief'[t].pc = "buf" => Published(m_top, 0)
        /\ thief'[t].pc = "slot" => Readable(0, 0, thief'[t].buf, m_top)
        /\ thief'[t].pc = "cas" => thief'[t].tmp = ItemAt(m_top)
  BY <1>1, <1>2, <1>3 DEF ReadInv, ThiefReads
<1> QED BY <1>1, <1>4, <1>5, KeepReads

(* steal(): what was published can be read, and stays what the owner has   *)
(* at that index for as long as the CAS can still succeed.                 *)
LEMMA StealReads ==
    ASSUME IndexInv, ReadInv, NEW u \in Thieves, ThiefNext(u)
    PROVE  ReadInv'
<1>s. /\ m_top \in Nat /\ m_bottom \in Int /\ m_buf \in Nat /\ thief \in [Thieves -> Locals]
      /\ LogicalBottom \in Int /\ g_buf \in Nat /\ Len(sb) \in Nat
  BY Shapes
<1>1. /\ UNCHANGED <<sb, g_bottom, g_buf, g_slot, slot, m_buf, m_bottom, epoch, opc>>
      /\ LogicalBottom' = LogicalBottom
  BY DEF ThiefNext, StealTop, StealBottom, StealBuf, StealSlot, StealCas, owner, visible,
     LogicalBottom
<1>2. m_top' \in Int /\ m_top <= m_top' /\ (m_top' = m_top \/ m_top' = m_top + 1)
  BY <1>s DEF ThiefNext, StealTop, StealBottom, StealBuf, StealSlot, StealCas
<1>3. \A t \in Thieves : t # u => thief'[t] = thief[t]
  BY <1>s DEF ThiefNext, StealTop, StealBottom, StealBuf, StealSlot, StealCas
<1>t. \A t \in Thieves : thief[t].top \in Nat /\ (thief[t].pc # "idle" => thief[t].top <= m_top)
  BY TopTypes DEF IndexInv, TopsAreOld
<1>b. InitialCap <= m_buf /\ g_buf <= m_buf /\ \A t \in Thieves : thief[t].buf <= m_buf
  BY DEF ReadInv, BufBounds
<1>4. thief'[u].buf <= m_buf
  <2>1. CASE StealTop(u) \/ StealSlot(u)
    BY <2>1, <1>s, <1>b DEF StealTop, StealSlot, Locals
  <2>2. CASE StealBuf(u)
    BY <2>2, <1>s, <1>b DEF StealBuf, Locals
  <2>3. CASE StealBottom(u) \/ StealCas(u)
    BY <2>3, <1>s, <1>b DEF StealBottom, StealCas, Locals, Idle
  <2> QED BY <2>1, <2>2, <2>3 DEF ThiefNext
<1>r. \A t \in Thieves : MayWin(t) =>
        /\ thief[t].pc = "buf" => Published(m_top, 0)
        /\ thief[t].pc = "slot" => Readable(0, 0, thief[t].buf, m_top)
        /\ thief[t].pc = "cas" => thief[t].tmp = ItemAt(m_top)
  BY DEF ReadInv, ThiefReads, Published
<1>5. ASSUME NEW t \in Thieves, t # u, MayWin(t)'
      PROVE  m_top' = m_top /\ MayWin(t)
  BY <1>s, <1>2, <1>3, <1>t, <1>5 DEF MayWin
<1>6. ASSUME MayWin(u)'
      PROVE  /\ m_top' = m_top
             /\ thief'[u].pc = "buf" => Published(m_top, 0)
             /\ thief'[u].pc = "slot" => Readable(0, 0, thief'[u].buf, m_top)
             /\ thief'[u].pc = "cas" => thief'[u].tmp = ItemAt(m_top)
  <2>1. CASE StealTop(u) \/ StealCas(u)
    <3>1. thief'[u].pc \in {"bottom", "idle"}
      BY <2>1, <1>s DEF StealTop, StealCas, Idle, Locals
    <3> QED BY <1>6, <3>1 DEF MayWin
  <2>2. CASE StealBottom(u)
    <3>1. m_top' = m_top
      BY <2>2 DEF StealBottom
    <3>2. thief'[u].pc = "buf" /\ thief[u].top < g_bottom /\ thief'[u].top = thief[u].top
      BY <1>6, <2>2, <1>s DEF StealBottom, Idle, MayWin, Locals
    <3>3. m_top < g_bottom
      BY <1>6, <3>1, <3>2 DEF MayWin
    <3> QED BY <3>1, <3>2, <3>3 DEF Published
  <2>3. CASE StealBuf(u)
    <3>1. m_top' = m_top /\ thief'[u].pc = "slot" /\ thief'[u].buf = g_buf
          /\ thief[u].pc = "buf" /\ thief'[u].top = thief[u].top
      BY <2>3, <1>s DEF StealBuf, Locals
    <3>2. MayWin(u) /\ Published(m_top, 0)
      BY <1>6, <1>r, <3>1 DEF MayWin
    <3>3. m_top \in m_top..(LogicalBottom - 1)
      BY <1>s, <3>2 DEF IndexInv, ClaimsAreLive
    <3>4. IsView(0) /\ NoBuf(0, 0) /\ View(0) = g_buf /\ 0 \in 0..Len(sb)
      BY <1>s DEF IsView, NoBuf, View
    <3>5. Readable(0, 0, g_buf, m_top)
      BY <3>2, <3>3, <3>4 DEF ReadInv, PublishedIsReadable
    <3> QED BY <3>1, <3>5
  <2>4. CASE StealSlot(u)
    <3>1. m_top' = m_top /\ thief'[u].pc = "cas" /\ thief[u].pc = "slot"
          /\ thief'[u].tmp = Load(g_slot, thief[u].buf, thief[u].top)
          /\ thief'[u].top = thief[u].top
      BY <2>4, <1>s DEF StealSlot, Locals
    <3>2. MayWin(u) /\ thief[u].top = m_top
      BY <1>6, <3>1 DEF MayWin
    <3>3. Readable(0, 0, thief[u].buf, m_top)
      BY <1>r, <3>1, <3>2
    <3>4. \A p \in 1..Len(sb) : ~Before(p, 0)
      BY <1>s DEF Before
    <3>5. Load(g_slot, thief[u].buf, m_top) = ItemAt(m_top)
      BY <3>3, <3>4 DEF Readable, Repairs
    <3> QED BY <3>1, <3>2, <3>5
  <2> QED BY <2>1, <2>2, <2>3, <2>4 DEF ThiefNext
<1>7. \A t \in Thieves : MayWin(t)' =>
        /\ m_top' = m_top
        /\ thief'[t].pc = "buf" => Published(m_top, 0)
        /\ thief'[t].pc = "slot" => Readable(0, 0, thief'[t].buf, m_top)
        /\ thief'[t].pc = "cas" => thief'[t].tmp = ItemAt(m_top)
  <2> SUFFICES ASSUME NEW t \in Thieves, t # u, MayWin(t)'
               PROVE  /\ m_top' = m_top
                      /\ thief'[t].pc = "buf" => Published(m_top, 0)
                      /\ thief'[t].pc = "slot" => Readable(0, 0, thief'[t].buf, m_top)
                      /\ thief'[t].pc = "cas" => thief'[t].tmp = ItemAt(m_top)
    BY <1>6
  <2> QED BY <1>3, <1>5, <1>r
<1>8. /\ LogicalBottom' \in Int /\ LogicalBottom' <= LogicalBottom
      /\ \A t \in Thieves : thief'[t].buf <= m_buf
      /\ opc' = "cas" => m_bottom <= m_top'
  <2>1. opc = "cas" => m_bottom <= m_top
    BY DEF ReadInv, BufBounds
  <2> QED BY <1>s, <1>1, <1>2, <1>3, <1>4, <1>b, <2>1
<1> QED BY <1>1, <1>2, <1>7, <1>8, KeepReads

-----------------------------------------------------------------------------
(* push(): the owner's numbers before and after it.                        *)
LEMMA PushNumbers ==
    ASSUME IndexInv, ReadInv, Push
    PROVE  /\ m_top \in Nat /\ m_bottom \in Nat /\ m_top <= m_bottom
           /\ m_bottom - m_top <= m_buf /\ epoch \in Nat
           /\ LogicalBottom = m_bottom /\ LogicalBottom' = m_bottom + 1
           /\ m_bottom' = m_bottom + 1 /\ epoch' = epoch + 1
           /\ m_buf' = (IF Full THEN 2 * m_buf ELSE m_buf)
           /\ m_buf' \in Capacities /\ m_buf' \in Nat \ {0} /\ m_buf <= m_buf'
           /\ m_buf \in Capacities /\ m_buf \in Nat \ {0}
           /\ m_bottom + 1 - m_top <= m_buf'
           /\ Full => m_bottom - m_top = m_buf /\ m_buf' = 2 * m_buf
           /\ pushed + 1 \in Values /\ pushed' = pushed + 1 /\ m_bottom + 1 \in 0..MaxPush
           /\ UNCHANGED <<m_top, g_bottom, g_buf, g_slot, opc, thief, delivered, popped>>
<1>s. m_top \in Nat /\ m_bottom \in Int /\ epoch \in Nat /\ m_buf \in Capacities /\ m_buf \in Nat \ {0}
      /\ m_top <= LogicalBottom
  BY Shapes
<1>1. opc = "idle" /\ opc' = opc /\ m_bottom' = m_bottom + 1 /\ epoch' = epoch + 1
  BY DEF Push, ReleaseFence
<1>2. LogicalBottom = m_bottom /\ LogicalBottom' = m_bottom + 1
  BY <1>1 DEF LogicalBottom
<1>3. m_bottom \in Nat /\ m_top <= m_bottom /\ m_bottom - m_top <= m_buf
  BY <1>s, <1>2 DEF ReadInv, BufBounds
<1>4. m_buf' = (IF Full THEN 2 * m_buf ELSE m_buf) /\ (Full => 2 * m_buf \in Capacities)
  BY DEF Push
<1>5. /\ m_buf' \in Capacities /\ m_buf' \in Nat \ {0} /\ m_buf <= m_buf'
      /\ m_bottom + 1 - m_top <= m_buf'
      /\ Full => m_bottom - m_top = m_buf /\ m_buf' = 2 * m_buf
  BY <1>s, <1>3, <1>4 DEF Full
<1>6. pushed \in 0..MaxPush /\ pushed < MaxPush /\ m_bottom <= pushed /\ pushed' = pushed + 1
  BY <1>2, TypeParts DEF IndexInv, Push
<1>7. pushed + 1 \in Values /\ m_bottom + 1 \in 0..MaxPush
  BY <1>3, <1>6, PushAssumption DEF Values, Items
<1>8. UNCHANGED <<m_top, g_bottom, g_buf, g_slot, opc, thief, delivered, popped>>
  BY DEF Push, visible
<1> QED BY <1>s, <1>1, <1>2, <1>3, <1>4, <1>5, <1>6, <1>7, <1>8

(* The new buffer has every item of the old one at its index.              *)
LEMMA ResizeLoad ==
    ASSUME NEW bufs, DOMAIN bufs = Capacities,
           \A c \in Capacities : bufs[c] \in [0..(c - 1) -> Values],
           NEW cap \in Capacities, 2 * cap \in Capacities,
           NEW top \in Int, NEW bot \in Int, bot - top <= cap
    PROVE  /\ DOMAIN Resize(bufs, cap, bot, top) = Capacities
           /\ \A c \in Capacities : Resize(bufs, cap, bot, top)[c] \in [0..(c - 1) -> Values]
           /\ \A i \in top..(bot - 1) :
                Load(Resize(bufs, cap, bot, top), 2 * cap, i) = Load(bufs, cap, i)
<1> DEFINE Src(k) == CHOOSE i \in top..(bot - 1) : Mask(2 * cap, i) = k
           new == [k \in 0..(2 * cap - 1) |->
                     IF \E i \in top..(bot - 1) : Mask(2 * cap, i) = k
                     THEN Load(bufs, cap, Src(k)) ELSE Garbage]
<1>0. cap \in Nat \ {0} /\ 2 * cap \in Nat \ {0}
  BY CapacityAssumption
<1>1. Resize(bufs, cap, bot, top) = [bufs EXCEPT ![2 * cap] = new]
  BY DEF Resize
<1>2. \A k : (\E i \in top..(bot - 1) : Mask(2 * cap, i) = k) =>
         Src(k) \in top..(bot - 1) /\ Mask(2 * cap, Src(k)) = k
  OBVIOUS
<1>3. \A i \in top..(bot - 1) : Load(bufs, cap, i) \in Values
  BY LoadValue
<1>4. new \in [0..(2 * cap - 1) -> Values]
  <2>1. Garbage \in Values
    BY DEF Values
  <2> HIDE DEF Src
  <2> QED BY <1>2, <1>3, <2>1
<1>5. ASSUME NEW i \in top..(bot - 1)
      PROVE  new[Mask(2 * cap, i)] = Load(bufs, cap, i)
  <2> DEFINE k == Mask(2 * cap, i)
             j == Src(k)
  <2>1. k \in 0..(2 * cap - 1)
    <3>1. \A c \in Nat \ {0} : i % c \in 0..(c - 1)
      BY ModRange
    <3> QED BY <1>0, <3>1 DEF Mask
  <2>2. j \in top..(bot - 1) /\ Mask(2 * cap, j) = k
    BY <1>2
  <2>3. new[k] = Load(bufs, cap, j)
    BY <2>1
  <2> HIDE DEF j
  <2>4. i = j
    <3>1. i \in Int /\ j \in Int /\ j % (2 * cap) = i % (2 * cap)
      BY <2>2 DEF Mask
    <3>2. ~(i < j)
      <4>1. i < j => j < i + 2 * cap
        BY <1>0, <2>2
      <4> QED BY <1>0, <3>1, <4>1, SlotsDiffer
    <3>3. ~(j < i)
      <4>1. j < i => i < j + 2 * cap
        BY <1>0, <2>2
      <4> QED BY <1>0, <3>1, <4>1, SlotsDiffer
    <3> QED BY <3>1, <3>2, <3>3
  <2> QED BY <2>3, <2>4
<1> HIDE DEF new
<1>6. [bufs EXCEPT ![2 * cap] = new][2 * cap] = new
  OBVIOUS
<1> QED BY <1>1, <1>4, <1>5, <1>6 DEF Load

(* push() leaves the items in the deque where they are and adds its own.   *)
LEMMA PushItems ==
    ASSUME IndexInv, ReadInv, Push
    PROVE  /\ \A i \in m_top..(m_bottom - 1) : ItemAt(i)' = ItemAt(i)
           /\ Load(slot', m_buf', m_bottom) = pushed + 1
           /\ \A i \in m_top..(m_bottom - 1) : Load(slot', m_buf', i) = ItemAt(i)
<1>n. /\ m_top \in Nat /\ m_bottom \in Nat /\ m_top <= m_bottom /\ m_bottom - m_top <= m_buf
      /\ m_buf' = (IF Full THEN 2 * m_buf ELSE m_buf)
      /\ m_buf' \in Capacities /\ m_buf' \in Nat \ {0} /\ m_buf <= m_buf'
      /\ m_buf \in Capacities /\ m_buf \in Nat \ {0}
      /\ m_bottom + 1 - m_top <= m_buf'
  BY PushNumbers
<1> DEFINE bufs == IF Full THEN Resize(slot, m_buf, m_bottom, m_top) ELSE slot
<1>1. /\ DOMAIN slot = Capacities
      /\ \A c \in Capacities : slot[c] \in [0..(c - 1) -> Values]
  BY SlotParts DEF IndexInv
<1>2. slot' = Store(bufs, m_buf', m_bottom, pushed + 1)
  BY DEF Push
<1>3. /\ DOMAIN bufs = Capacities
      /\ \A c \in Capacities : bufs[c] \in [0..(c - 1) -> Values]
      /\ \A i \in m_top..(m_bottom - 1) : Load(bufs, m_buf', i) = Load(slot, m_buf, i)
  <2>1. CASE Full
    <3>1. 2 * m_buf \in Capacities /\ m_buf' = 2 * m_buf
      BY <1>n, <2>1
    <3>2. bufs = Resize(slot, m_buf, m_bottom, m_top)
      BY <2>1
    <3> HIDE DEF bufs
    <3>3. m_top \in Int /\ m_bottom \in Int
      BY <1>n
    <3>4. LET new == Resize(slot, m_buf, m_bottom, m_top)
          IN  /\ DOMAIN new = Capacities
              /\ \A c \in Capacities : new[c] \in [0..(c - 1) -> Values]
              /\ \A i \in m_top..(m_bottom - 1) : Load(new, 2 * m_buf, i) = Load(slot, m_buf, i)
      BY <1>1, <1>n, <3>1, <3>3, ResizeLoad
    <3> QED BY <3>1, <3>2, <3>4
  <2>2. CASE ~Full
    BY <1>1, <1>n, <2>2
  <2> QED BY <2>1, <2>2
<1> HIDE DEF bufs
<1>4. ASSUME NEW i \in m_top..m_bottom
      PROVE  Load(slot', m_buf', i) =
               IF Mask(m_buf', m_bottom) = Mask(m_buf', i) THEN pushed + 1 ELSE Load(bufs, m_buf', i)
  <2>1. i \in Int /\ m_bottom \in Int
    BY <1>n
  <2> QED BY <1>n, <1>2, <1>3, <2>1, LoadAfterStore, SMTT(30)
<1>5. Load(slot', m_buf', m_bottom) = pushed + 1
  <2>1. m_bottom \in m_top..m_bottom
    BY <1>n
  <2> QED BY <1>4, <2>1
<1>6. ASSUME NEW i \in m_top..(m_bottom - 1)
      PROVE  Load(slot', m_buf', i) = Load(slot, m_buf, i)
  <2>1. Mask(m_buf', m_bottom) # Mask(m_buf', i)
    <3>1. i \in Int /\ m_bottom \in Int /\ i < m_bottom /\ m_bottom < i + m_buf'
      BY <1>n
    <3> QED BY <1>n, <3>1, SlotsDiffer DEF Mask
  <2>2. i \in m_top..m_bottom
    BY <1>n
  <2> QED BY <1>3, <1>4, <2>1, <2>2
<1>7. \A i \in m_top..(m_bottom - 1) : ItemAt(i)' = Load(slot', m_buf', i)
  BY DEF ItemAt, Load, Mask
<1>8. \A i \in m_top..(m_bottom - 1) : Load(slot', m_buf', i) = ItemAt(i)
  BY <1>6 DEF ItemAt
<1> QED BY <1>5, <1>7, <1>8

(* The stores of a push() that finds room, and of one that has to grow.    *)
LEMMA PushStores ==
    ASSUME IndexInv, ReadInv, Push, ~Full
    PROVE  /\ Extends /\ Len(sb') = Len(sb) + 2
           /\ sb'[Len(sb) + 1] = SlotStore(m_buf, m_bottom, pushed + 1, epoch)
           /\ sb'[Len(sb) + 2] = BottomStore(m_bottom + 1, epoch + 1)
<1>n. /\ epoch \in Nat /\ epoch' = epoch + 1 /\ m_buf \in Capacities /\ m_bottom \in Nat
      /\ pushed + 1 \in Values /\ m_bottom + 1 \in 0..MaxPush
      /\ UNCHANGED <<g_bottom, g_buf, g_slot>>
  BY PushNumbers
<1> DEFINE a == SlotStore(m_buf, m_bottom, pushed + 1, epoch)
           b == BottomStore(m_bottom + 1, epoch + 1)
<1>1. a \in Stores /\ b \in Stores
  <2>1. m_bottom \in -1..MaxPush /\ m_bottom + 1 \in -1..MaxPush /\ 0 \in Values
    BY <1>n, PushAssumption DEF Values, Garbage
  <2> QED BY <1>n, <2>1, CapacityAssumption DEF SlotStore, BottomStore, Stores
<1>2. sb' = (sb \o <<>>) \o <<a, b>>
  BY <1>n DEF Push
<1>s. sb \in Seq(Stores) /\ Len(sb) \in Nat
  BY Shapes
<1> HIDE DEF a, b
<1>3. sb \o <<>> = sb
  BY <1>s
<1>4. <<a, b>> \in Seq(Stores) /\ Len(<<a, b>>) = 2 /\ <<a, b>>[1] = a /\ <<a, b>>[2] = b
  BY <1>1
<1> DEFINE l == Len(sb)
           g == <<a, b>>
<1>5. /\ Len(sb') = l + 2
      /\ \A j \in 1..l : sb'[j] = sb[j]
      /\ \A j \in (l + 1)..(l + 2) : sb'[j] = g[j - l]
  BY <1>s, <1>2, <1>3, <1>4, ConcatShape
<1> HIDE DEF l, g
<1>6. l \in Nat /\ l = Len(sb)
  BY <1>s DEF l
<1>7. sb'[l + 1] = g[1] /\ sb'[l + 2] = g[2]
  BY <1>5, <1>6
<1> QED BY <1>n, <1>4, <1>5, <1>6, <1>7 DEF Extends, a, b, g

(* What a push() that grows stores: the copies, m_buf, the item, bottom.   *)
LEMMA GrowingPushStores ==
    ASSUME IndexInv, ReadInv, Push, Full
    PROVE  /\ Extends /\ Len(sb') = Len(sb) + m_buf + 3
           /\ \A k \in 1..m_buf : sb'[Len(sb) + k] =
                SlotStore(2 * m_buf, m_top + k - 1, ItemAt(m_top + k - 1), epoch)
           /\ sb'[Len(sb) + m_buf + 1] = BufStore(2 * m_buf, epoch)
           /\ sb'[Len(sb) + m_buf + 2] = SlotStore(2 * m_buf, m_bottom, pushed + 1, epoch)
           /\ sb'[Len(sb) + m_buf + 3] = BottomStore(m_bottom + 1, epoch + 1)
<1>n. /\ epoch \in Nat /\ epoch' = epoch + 1 /\ m_bottom \in Nat /\ m_top \in Nat
      /\ m_buf' = 2 * m_buf /\ m_buf' \in Capacities /\ m_bottom - m_top = m_buf
      /\ m_buf \in Nat \ {0} /\ m_buf \in Capacities
      /\ pushed + 1 \in Values /\ m_bottom + 1 \in 0..MaxPush
      /\ UNCHANGED <<g_bottom, g_buf, g_slot>>
  BY PushNumbers
<1> DEFINE Copy(k) == SlotStore(2 * m_buf, m_top + k - 1, ItemAt(m_top + k - 1), epoch)
           copies == [k \in 1..m_buf |-> Copy(k)]
           v == BufStore(2 * m_buf, epoch)
           a == SlotStore(2 * m_buf, m_bottom, pushed + 1, epoch)
           b == BottomStore(m_bottom + 1, epoch + 1)
<1>1. a \in Stores /\ b \in Stores /\ v \in Stores
  <2>1. /\ m_bottom \in -1..MaxPush /\ m_bottom + 1 \in -1..MaxPush /\ 0 \in -1..MaxPush
        /\ 0 \in Values /\ 2 * m_buf \in Capacities
    BY <1>n, PushAssumption DEF Values, Garbage
  <2> QED BY <1>n, <2>1, CapacityAssumption DEF SlotStore, BottomStore, BufStore, Stores
<1>2. ASSUME NEW k \in 1..m_buf PROVE Copy(k) \in Stores
  <2>1. /\ DOMAIN slot = Capacities
        /\ \A c \in Capacities : slot[c] \in [0..(c - 1) -> Values]
    BY SlotParts DEF IndexInv
  <2>2. m_top + k - 1 \in -1..MaxPush /\ m_top + k - 1 \in Int /\ 2 * m_buf \in Capacities
    BY <1>n, PushAssumption
  <2>3. ItemAt(m_top + k - 1) \in Values
    BY <1>n, <2>1, <2>2, LoadValue DEF ItemAt
  <2> QED BY <1>n, <2>2, <2>3 DEF SlotStore, Stores
<1>3. sb' = (sb \o (copies \o <<v>>)) \o <<a, b>>
  <2>1. GrowStores = copies \o <<v>>
    BY <1>n DEF GrowStores, ItemAt
  <2> QED BY <1>n, <2>1 DEF Push
<1>s. sb \in Seq(Stores) /\ Len(sb) \in Nat
  BY Shapes
<1>4. copies \in Seq(Stores) /\ Len(copies) = m_buf /\ \A k \in 1..m_buf : copies[k] = Copy(k)
  <2>1. copies \in [1..m_buf -> Stores]
    BY <1>2
  <2>2. m_buf \in Nat
    BY <1>n
  <2> HIDE DEF Copy
  <2> QED BY <2>1, <2>2, FunctionIsSeq
<1> HIDE DEF Copy, copies, v, a, b
<1>5. <<a, b>> \in Seq(Stores) /\ Len(<<a, b>>) = 2 /\ <<a, b>>[1] = a /\ <<a, b>>[2] = b
  BY <1>1
<1>6. <<v>> \in Seq(Stores) /\ Len(<<v>>) = 1 /\ <<v>>[1] = v
  BY <1>1
<1> DEFINE l == Len(sb)
           g == copies \o <<v>>
           q == sb \o g
<1>7. /\ g \in Seq(Stores) /\ Len(g) = m_buf + 1 /\ \A j \in 1..m_buf : g[j] = Copy(j)
      /\ g[m_buf + 1] = v
  <2>1. /\ g \in Seq(Stores) /\ Len(g) = m_buf + 1 /\ \A j \in 1..m_buf : g[j] = copies[j]
        /\ \A j \in (m_buf + 1)..(m_buf + 1) : g[j] = <<v>>[j - m_buf]
    BY <1>4, <1>6, ConcatShape
  <2>2. g[m_buf + 1] = <<v>>[(m_buf + 1) - m_buf]
    BY <1>n, <2>1
  <2>3. (m_buf + 1) - m_buf = 1
    BY <1>n
  <2> QED BY <1>4, <1>6, <2>1, <2>2, <2>3
<1> HIDE DEF g
<1>8. /\ q \in Seq(Stores) /\ Len(q) = l + m_buf + 1 /\ \A j \in 1..l : q[j] = sb[j]
      /\ \A j \in (l + 1)..(l + (m_buf + 1)) : q[j] = g[j - l]
  <2>1. /\ sb \o g \in Seq(Stores) /\ Len(sb \o g) = Len(sb) + Len(g)
        /\ \A j \in 1..Len(sb) : (sb \o g)[j] = sb[j]
        /\ \A j \in (Len(sb) + 1)..(Len(sb) + Len(g)) : (sb \o g)[j] = g[j - Len(sb)]
    BY ONLY <1>s, <1>7, ConcatShape
  <2>2. Len(sb) + (m_buf + 1) = Len(sb) + m_buf + 1
    BY <1>n, <1>s
  <2>3. Len(g) = m_buf + 1
    BY <1>7
  <2> QED BY <2>1, <2>2, <2>3
<1> HIDE DEF l, q
<1>l. l \in Nat /\ l = Len(sb)
  BY <1>s DEF l
<1>9. /\ Len(sb') = l + m_buf + 3
      /\ \A j \in 1..(l + m_buf + 1) : sb'[j] = q[j]
      /\ sb'[l + m_buf + 2] = a /\ sb'[l + m_buf + 3] = b
  <2> DEFINE m == Len(q)
             w == <<a, b>>
  <2>0. sb' = q \o w
    BY <1>3 DEF q, g
  <2>1. /\ Len(q \o w) = m + 2
        /\ \A j \in 1..m : (q \o w)[j] = q[j]
        /\ \A j \in (m + 1)..(m + 2) : (q \o w)[j] = w[j - m]
    BY <1>5, <1>8, ConcatShape
  <2> HIDE DEF w, m
  <2>2. m \in Nat /\ m = l + m_buf + 1 /\ m + 1 = l + m_buf + 2 /\ m + 2 = l + m_buf + 3
    BY <1>n, <1>l, <1>8 DEF m
  <2>3. sb'[m + 1] = w[1] /\ sb'[m + 2] = w[2]
    <3>1. m + 1 \in (m + 1)..(m + 2) /\ m + 2 \in (m + 1)..(m + 2)
          /\ (m + 1) - m = 1 /\ (m + 2) - m = 2
      BY <2>2
    <3> QED BY <2>0, <2>1, <3>1
  <2>4. w[1] = a /\ w[2] = b
    BY <1>5 DEF w
  <2> QED BY <2>0, <2>1, <2>2, <2>3, <2>4
<1>10. \A j \in 1..l : sb'[j] = sb[j]
  BY <1>n, <1>l, <1>8, <1>9
<1>11. \A k \in 1..(m_buf + 1) : sb'[l + k] = g[k]
  <2> SUFFICES ASSUME NEW k \in 1..(m_buf + 1) PROVE sb'[l + k] = g[k]
    OBVIOUS
  <2>1. l + k \in (l + 1)..(l + (m_buf + 1)) /\ l + k \in 1..(l + m_buf + 1) /\ (l + k) - l = k
    BY <1>n, <1>l
  <2> QED BY <1>8, <1>9, <2>1
<1>12. sb'[l + m_buf + 1] = v /\ \A k \in 1..m_buf : sb'[l + k] = Copy(k)
  <2>1. m_buf + 1 \in 1..(m_buf + 1) /\ l + (m_buf + 1) = l + m_buf + 1
        /\ \A k \in 1..m_buf : k \in 1..(m_buf + 1)
    BY <1>n, <1>l
  <2> QED BY <1>7, <1>11, <2>1
<1>13. Extends /\ Len(sb') = Len(sb) + m_buf + 3
  BY <1>n, <1>l, <1>9, <1>10 DEF Extends
<1> QED BY <1>l, <1>9, <1>12, <1>13 DEF Copy, v, a, b

(* A new store of the right item repairs every older one to its slot.      *)
LEMMA NewestRepairs ==
    ASSUME Extends, NEW c, NEW i, NEW K, NEW L, NEW p \in 1..Len(sb'),
           Repairs(p, K, L, c, i)', \A j \in 1..Len(sb') : p < j => ~Match(j, c, i)'
    PROVE  Readable(K, L, c, i)'
<1>1. Match(p, c, i)' /\ sb'[p].val = ItemAt(i)'
  BY DEF Repairs
<1>2. Load(g_slot, c, i)' # ItemAt(i)' => \E r \in 1..Len(sb') : Repairs(r, K, L, c, i)'
  OBVIOUS
<1>3. ASSUME NEW j \in 1..Len(sb'), Match(j, c, i)', sb'[j].val # ItemAt(i)'
      PROVE  \E r \in 1..Len(sb') : j < r /\ Repairs(r, K, L, c, i)'
  <2>1. j < p
    BY <1>1, <1>3 DEF Extends
  <2> QED BY <2>1
<1>4. \A j \in 1..Len(sb') : (Match(j, c, i) /\ sb[j].val # ItemAt(i))' =>
         \E r \in 1..Len(sb') : j < r /\ Repairs(r, K, L, c, i)'
  BY <1>3
<1> QED BY <1>2, <1>4 DEF Readable

(* What was readable before a push() still is: its stores go to slots of   *)
(* no item that a thief can see, or to a buffer that none can see yet.     *)
NewStoresElsewhere ==
    \A j \in 1..Len(sb') : Len(sb) < j =>
        \A c \in Capacities : \A i \in m_top..(m_bottom - 1) : c <= m_buf => ~Match(j, c, i)'

(* push() leaves the items that were in the deque readable.                *)
LEMMA PushKeepsReads ==
    ASSUME IndexInv, ReadInv, Push, Extends, NewStoresElsewhere
    PROVE  /\ \A K, L \in 0..Len(sb) : \A c \in Capacities : \A i \in m_top..(m_bottom - 1) :
                c <= m_buf /\ Readable(K, L, c, i) => Readable(K, L, c, i)'
           /\ \A K \in 0..Len(sb) : \A i \in m_top..m_bottom :
                Published(i, K)' => i \in m_top..(m_bottom - 1) /\ Published(i, K)
           /\ ThiefReads'
<1>n. /\ m_top \in Nat /\ m_bottom \in Nat /\ LogicalBottom = m_bottom
      /\ UNCHANGED <<m_top, g_bottom, g_buf, g_slot, thief>>
      /\ g_bottom \in Int /\ \A k \in 1..Len(sb) : sb[k].index \in Int
  BY PushNumbers, Shapes
<1>i. \A i \in m_top..(m_bottom - 1) : ItemAt(i)' = ItemAt(i)
  BY PushItems
<1>1. ASSUME NEW K \in 0..Len(sb), NEW L \in 0..Len(sb), NEW c \in Capacities,
             NEW i \in m_top..(m_bottom - 1), c <= m_buf, Readable(K, L, c, i)
      PROVE  Readable(K, L, c, i)'
  <2>1. \A j \in 1..Len(sb') : Len(sb) < j => ~Match(j, c, i)'
    BY <1>1 DEF NewStoresElsewhere
  <2>2. \A p \in 1..Len(sb) : Before(p, K) \/ Before(p, L) => (Before(p, K) \/ Before(p, L))'
    BY BeforeStays
  <2> QED BY <1>1, <1>i, <2>1, <2>2, ExtendReadable
<1>w. \A t \in Thieves : MayWin(t)' <=> MayWin(t)
  BY <1>n DEF MayWin
<1>2. ASSUME NEW K \in 0..Len(sb), NEW i \in m_top..m_bottom, Published(i, K)'
      PROVE  i \in m_top..(m_bottom - 1) /\ Published(i, K)
  <2>1. Published(i, K)
    <3>1. CASE K = 0
      BY <1>2, <1>n, <1>w, <3>1 DEF Published
    <3>2. CASE K # 0
      BY <1>2, <3>2 DEF Published, IsBottom, Extends
    <3> QED BY <3>1, <3>2
  <2>2. i < m_bottom
    <3>1. CASE K = 0
      <4>1. g_bottom <= m_bottom
        BY <1>n DEF IndexInv, VisibleBottomIsBounded
      <4>2. \A t \in Thieves : MayWin(t) => m_top < m_bottom
        BY <1>n DEF IndexInv, ClaimsAreLive
      <4> QED BY <1>n, <2>1, <3>1, <4>1, <4>2 DEF Published
    <3>2. CASE K # 0
      <4>1. K \in 1..Len(sb) /\ IsBottom(K) /\ i < sb[K].index
        BY <2>1, <3>2 DEF Published, Extends
      <4>2. sb[K].index <= m_bottom
        BY <1>n, <4>1 DEF IndexInv, VisibleBottomIsBounded
      <4> QED BY <1>n, <4>1, <4>2
    <3> QED BY <3>1, <3>2
  <2> QED BY <1>n, <2>1, <2>2
<1>3. ThiefReads'
  <2> SUFFICES ASSUME NEW t \in Thieves, MayWin(t)
               PROVE  /\ thief[t].pc = "slot" => Readable(0, 0, thief[t].buf, m_top)'
                      /\ thief[t].pc = "cas" => (thief[t].tmp = ItemAt(m_top))'
    BY <1>n, <1>w DEF ThiefReads
  <2>m. m_top \in m_top..(m_bottom - 1)
    BY <1>n DEF IndexInv, ClaimsAreLive
  <2>1. ASSUME thief[t].pc = "slot" PROVE Readable(0, 0, thief[t].buf, m_top)'
    <3>1. thief[t].buf \in Capacities /\ thief[t].buf <= m_buf
      <4>1. thief[t] \in Locals
        BY Shapes
      <4> QED BY <4>1 DEF ReadInv, BufBounds, Locals
    <3>2. PICK c \in Capacities, i \in m_top..(m_bottom - 1) : c = thief[t].buf /\ i = m_top
      BY <2>m, <3>1
    <3>3. Readable(0, 0, c, i) /\ c <= m_buf
      BY <2>1, <3>1, <3>2 DEF ReadInv, ThiefReads
    <3>4. Readable(0, 0, c, i)'
      BY <1>1, <3>3 DEF Extends
    <3>5. c = thief'[t].buf /\ i = m_top'
      BY <1>n, <3>2
    <3> QED BY <3>4, <3>5 DEF Readable, Repairs, Match
  <2>2. ASSUME thief[t].pc = "cas" PROVE (thief[t].tmp = ItemAt(m_top))'
    <3>1. thief[t].tmp = ItemAt(m_top)
      BY <2>2 DEF ReadInv, ThiefReads
    <3>2. PICK i \in m_top..(m_bottom - 1) : i = m_top
      BY <2>m
    <3>3. ItemAt(i)' = ItemAt(i) /\ i = m_top'
      BY <1>i, <1>n, <3>2
    <3>4. ItemAt(m_top)' = ItemAt(i)'
      BY <3>3 DEF ItemAt
    <3> QED BY <1>n, <3>1, <3>2, <3>3, <3>4
  <2> QED BY <2>1, <2>2
<1> QED BY <1>1, <1>2, <1>3

(* A buffer that a thief can get hold of.                                  *)
LEMMA ViewType ==
    ASSUME IndexInv, ReadInv, NEW L \in 0..Len(sb)
    PROVE  View(L) \in Capacities /\ View(L) <= m_buf
<1>1. CASE L = 0
  BY <1>1, Shapes DEF View, ReadInv, BufBounds
<1>2. CASE L \in 1..Len(sb)
  BY <1>2, Shapes DEF View, ReadInv, BufBounds
<1> QED BY <1>1, <1>2, Shapes

(* push() that finds room: the fence keeps the item before the index.      *)
LEMMA PushReadsInPlace == ASSUME IndexInv, ReadInv, Push, ~Full PROVE ReadInv'
<1> DEFINE n == Len(sb)
<1>n. /\ m_top \in Nat /\ m_bottom \in Nat /\ m_top <= m_bottom /\ LogicalBottom = m_bottom
      /\ LogicalBottom' = m_bottom + 1 /\ m_bottom' = m_bottom + 1
      /\ epoch \in Nat /\ epoch' = epoch + 1
      /\ m_buf \in Nat \ {0} /\ m_buf \in Capacities /\ m_buf' = m_buf
      /\ m_bottom + 1 - m_top <= m_buf
      /\ UNCHANGED <<m_top, g_bottom, g_buf, g_slot, opc, thief>>
  BY PushNumbers
<1>s. /\ n \in Nat /\ Extends /\ Len(sb') = n + 2
      /\ sb'[n + 1] = SlotStore(m_buf, m_bottom, pushed + 1, epoch)
      /\ sb'[n + 2] = BottomStore(m_bottom + 1, epoch + 1)
  BY PushStores, Shapes
<1>a. /\ sb'[n + 1].loc = "slot" /\ sb'[n + 1].cap = m_buf /\ sb'[n + 1].index = m_bottom
      /\ sb'[n + 1].val = pushed + 1 /\ sb'[n + 1].epoch = epoch
      /\ sb'[n + 2].loc = "bottom" /\ sb'[n + 2].cap = InitialCap
      /\ sb'[n + 2].index = m_bottom + 1 /\ sb'[n + 2].epoch = epoch + 1
  BY <1>s DEF SlotStore, BottomStore
<1>b. /\ \A j \in 1..Len(sb') : n < j => j = n + 1 \/ j = n + 2
      /\ \A j \in 1..n : sb'[j] = sb[j] /\ j \in 1..Len(sb')
      /\ n + 1 \in 1..Len(sb') /\ n + 2 \in 1..Len(sb') /\ n + 1 # n + 2
  BY <1>s DEF Extends
<1>1. NewStoresElsewhere
  <2> SUFFICES ASSUME NEW j \in 1..Len(sb'), n < j, NEW c \in Capacities,
                      NEW i \in m_top..(m_bottom - 1), c <= m_buf, Match(j, c, i)'
               PROVE  FALSE
    BY DEF NewStoresElsewhere
  <2>1. j = n + 1 /\ c = m_buf /\ Mask(m_buf, m_bottom) = Mask(m_buf, i)
    BY <1>a, <1>b DEF Match, Mask
  <2>2. i \in Int /\ m_bottom \in Int /\ i < m_bottom /\ m_bottom < i + m_buf
    BY <1>n
  <2> QED BY <1>n, <2>1, <2>2, SlotsDiffer DEF Mask
<1>k. /\ \A K, L \in 0..n : \A c \in Capacities : \A i \in m_top..(m_bottom - 1) :
           c <= m_buf /\ Readable(K, L, c, i) => Readable(K, L, c, i)'
      /\ \A K \in 0..n : \A i \in m_top..m_bottom :
           Published(i, K)' => i \in m_top..(m_bottom - 1) /\ Published(i, K)
      /\ ThiefReads'
  BY <1>s, <1>1, PushKeepsReads
<1>v. \A L \in 0..Len(sb') : IsView(L)' => L \in 0..n /\ IsView(L) /\ View(L)' = View(L)
  BY <1>n, <1>s, <1>a, <1>b DEF IsView, View
<1>2. PublishedIsReadable'
  <2> SUFFICES ASSUME NEW i \in m_top..m_bottom,
                      NEW K \in 0..Len(sb'), NEW L \in 0..Len(sb'),
                      Published(i, K)', IsView(L)', NoBuf(L, K)'
               PROVE  Readable(K, L, View(L), i)'
    BY <1>n DEF PublishedIsReadable
  <2>1. L \in 0..n /\ IsView(L) /\ View(L)' = View(L)
    BY <1>v
  <2>2. PICK c \in Capacities : c = View(L) /\ c <= m_buf
    BY <2>1, ViewType
  <2>3. Readable(K, L, c, i)'
    <3>1. CASE K \in 0..n
      <4>1. i \in m_top..(m_bottom - 1) /\ Published(i, K)
        BY <1>k, <3>1
      <4>2. NoBuf(L, K)
        BY <1>s, <1>b, <3>1 DEF NoBuf
      <4>3. Readable(K, L, c, i)
        BY <1>n, <2>1, <2>2, <3>1, <4>1, <4>2 DEF ReadInv, PublishedIsReadable
      <4> QED BY <1>k, <2>1, <2>2, <3>1, <4>1, <4>3
    <3>2. CASE K \notin 0..n
      <4>1. K \in 1..Len(sb') /\ (K = n + 1 \/ K = n + 2) /\ K # 0
        BY <1>s, <3>2
      <4>2. K = n + 2
        BY <1>a, <4>1 DEF Published, IsBottom
      <4>3. NoBuf(L, n + 1)
        BY <1>s, <1>b, <4>2 DEF NoBuf
      <4>4. c = m_buf
        BY <2>1, <2>2, <4>3 DEF ReadInv, BufBounds
      <4>5. CASE i \in m_top..(m_bottom - 1)
        <5>1. /\ K \in (n + 1)..Len(sb') /\ sb'[K].epoch \in Nat /\ sb'[K].epoch >= epoch
              /\ i \in m_top..(LogicalBottom - 1) /\ i < m_bottom
          <6>1. K \in (n + 1)..Len(sb') /\ sb'[K].epoch = epoch + 1
            BY <1>n, <1>s, <1>a, <4>2, SMTT(30)
          <6>2. i \in m_top..(LogicalBottom - 1) /\ i < m_bottom
            BY <1>n, <4>5
          <6>3. epoch \in Nat
            BY <1>n
          <6> QED BY <6>1, <6>2, <6>3
        <5>2. ItemAt(i)' = ItemAt(i)
          BY <4>5, PushItems
        <5>3. \A j \in 1..Len(sb') : n < j => ~Match(j, View(L), i)'
          <6>1. \A j \in 1..Len(sb') : n < j => ~Match(j, c, i)'
            BY <1>1, <2>2, <4>5 DEF NewStoresElsewhere
          <6> QED BY <2>1, <2>2, <6>1 DEF Match
        <5>4. Readable(K, L, View(L), i)'
          BY <1>s, <2>1, <4>3, <5>1, <5>2, <5>3, LaterBottom
        <5> QED BY <2>1, <2>2, <5>4 DEF Readable, Repairs, Match
      <4>6. CASE i = m_bottom
        <5>1. PICK p \in 1..Len(sb') : p = n + 1
          BY <1>b
        <5>2. Match(p, c, i)'
          BY <1>a, <4>4, <4>6, <5>1 DEF Match
        <5>3. sb'[p].val = ItemAt(i)'
          <6>1. Load(slot', m_buf', i) = pushed + 1
            BY <4>6, PushItems
          <6> QED BY <1>a, <5>1, <6>1 DEF ItemAt, Load, Mask
        <5>4. Before(p, K)'
          BY <1>n, <1>s, <1>a, <4>2, <5>1, SMTT(30) DEF Before
        <5>5. Repairs(p, K, L, c, i)'
          BY <5>2, <5>3, <5>4 DEF Repairs
        <5>6. \A j \in 1..Len(sb') : p < j => ~Match(j, c, i)'
          BY <1>s, <1>a, <1>b, <5>1 DEF Match
        <5> QED BY <1>s, <5>5, <5>6, NewestRepairs
      <4> QED BY <1>n, <4>5, <4>6
    <3> QED BY <3>1, <3>2
  <2> QED BY <2>1, <2>2, <2>3 DEF Readable, Repairs, Match
<1>3. BufBounds'
  <2>1. /\ LogicalBottom' - m_top' <= m_buf' /\ InitialCap <= m_buf' /\ g_buf' <= m_buf'
        /\ \A t \in Thieves : thief'[t].buf <= m_buf'
        /\ opc' # "cas"
    BY <1>n DEF ReadInv, BufBounds, Push
  <2>2. \A k \in 1..Len(sb') :
          /\ sb'[k].cap <= m_buf' /\ sb'[k].epoch <= epoch'
          /\ sb'[k].loc = "buf" => StoreOrder = "program"
    <3> SUFFICES ASSUME NEW k \in 1..Len(sb')
                 PROVE  /\ sb'[k].cap <= m_buf' /\ sb'[k].epoch <= epoch'
                        /\ sb'[k].loc = "buf" => StoreOrder = "program"
      OBVIOUS
    <3>1. CASE k \in 1..n
      <4>1. sb[k].epoch \in Nat /\ sb[k].epoch <= epoch /\ sb[k].cap <= m_buf
            /\ (sb[k].loc = "buf" => StoreOrder = "program")
        BY <3>1, Shapes DEF ReadInv, BufBounds
      <4> QED BY <1>n, <1>b, <3>1, <4>1
    <3>2. CASE k = n + 1 \/ k = n + 2
      BY <1>n, <1>a, <2>1, <3>2
    <3> QED BY <1>s, <1>b, <3>1, <3>2
  <2>3. ASSUME NEW L \in 0..Len(sb'), IsView(L)', NoBuf(L, Len(sb) + 1)'
        PROVE  View(L)' = m_buf'
    <3>1. NoBuf(L, n + 1)
      BY <1>s, <1>b, <2>3 DEF NoBuf
    <3> QED BY <1>n, <1>v, <2>3, <3>1 DEF ReadInv, BufBounds
  <2> QED BY <2>1, <2>2, <2>3 DEF BufBounds
<1>4. \E K \in 0..Len(sb') : IsLastBottom(K)'
  <2>1. PICK k \in 1..Len(sb') : k = n + 2
    BY <1>b
  <2>2. IsLastBottom(k)'
    BY <1>n, <1>s, <1>a, <2>1, SMTT(30) DEF IsLastBottom, IsBottom
  <2>3. k \in 0..Len(sb')
    BY <1>s
  <2> QED BY <2>2, <2>3
<1> QED BY <1>k, <1>2, <1>3, <1>4 DEF ReadInv

(* push() that grows, with stores in order: the copies come before the     *)
(* buffer, and the item before the index.                                  *)
LEMMA PushReadsGrowing == ASSUME InOrder, IndexInv, ReadInv, Push, Full PROVE ReadInv'
<1> DEFINE n == Len(sb)
<1>n. /\ m_top \in Nat /\ m_bottom \in Nat /\ m_top <= m_bottom /\ LogicalBottom = m_bottom
      /\ LogicalBottom' = m_bottom + 1 /\ m_bottom' = m_bottom + 1
      /\ epoch \in Nat /\ epoch' = epoch + 1
      /\ m_buf \in Nat \ {0} /\ m_buf \in Capacities
      /\ m_buf' = 2 * m_buf /\ m_buf' \in Capacities /\ m_bottom - m_top = m_buf
      /\ UNCHANGED <<m_top, g_bottom, g_buf, g_slot, opc, thief>>
  BY PushNumbers
<1>o. StoreOrder = "program"
  BY <1>n DEF InOrder
<1>s. /\ n \in Nat /\ Extends /\ Len(sb') = n + m_buf + 3
      /\ \A k \in 1..m_buf : sb'[n + k] =
           SlotStore(2 * m_buf, m_top + k - 1, ItemAt(m_top + k - 1), epoch)
      /\ sb'[n + m_buf + 1] = BufStore(2 * m_buf, epoch)
      /\ sb'[n + m_buf + 2] = SlotStore(2 * m_buf, m_bottom, pushed + 1, epoch)
      /\ sb'[n + m_buf + 3] = BottomStore(m_bottom + 1, epoch + 1)
  BY GrowingPushStores, Shapes
<1>b. PICK b \in Nat, big \in Capacities :
        /\ b = n + m_buf + 1 /\ b + 1 = n + m_buf + 2 /\ b + 2 = n + m_buf + 3
        /\ big = 2 * m_buf /\ big = m_buf'
  BY <1>n, <1>s
<1>c. \A k \in 1..m_buf :
        /\ sb'[n + k].loc = "slot" /\ sb'[n + k].cap = 2 * m_buf
        /\ sb'[n + k].index = m_top + k - 1 /\ sb'[n + k].val = ItemAt(m_top + k - 1)
        /\ sb'[n + k].epoch = epoch
  <2> SUFFICES ASSUME NEW k \in 1..m_buf
               PROVE  /\ sb'[n + k].loc = "slot" /\ sb'[n + k].cap = 2 * m_buf
                      /\ sb'[n + k].index = m_top + k - 1 /\ sb'[n + k].val = ItemAt(m_top + k - 1)
                      /\ sb'[n + k].epoch = epoch
    OBVIOUS
  <2>1. sb'[n + k] = SlotStore(2 * m_buf, m_top + k - 1, ItemAt(m_top + k - 1), epoch)
    BY <1>s
  <2> QED BY <2>1 DEF SlotStore
<1>a. /\ sb'[b].loc = "buf" /\ sb'[b].cap = 2 * m_buf /\ sb'[b].epoch = epoch
      /\ sb'[b + 1].loc = "slot" /\ sb'[b + 1].cap = 2 * m_buf /\ sb'[b + 1].index = m_bottom
      /\ sb'[b + 1].val = pushed + 1 /\ sb'[b + 1].epoch = epoch
      /\ sb'[b + 2].loc = "bottom" /\ sb'[b + 2].cap = InitialCap
      /\ sb'[b + 2].index = m_bottom + 1 /\ sb'[b + 2].epoch = epoch + 1
  <2>1. /\ sb'[b] = BufStore(2 * m_buf, epoch)
        /\ sb'[b + 1] = SlotStore(2 * m_buf, m_bottom, pushed + 1, epoch)
        /\ sb'[b + 2] = BottomStore(m_bottom + 1, epoch + 1)
    BY <1>b, <1>s
  <2> QED BY <2>1 DEF SlotStore, BottomStore, BufStore
(* The new stores, by position.                                            *)
<1>p. /\ \A j \in 1..Len(sb') : n < j =>
            \/ j - n \in 1..m_buf /\ j = n + (j - n) /\ j < b
            \/ j = b \/ j = b + 1 \/ j = b + 2
      /\ \A j \in 1..n : sb'[j] = sb[j] /\ j \in 1..Len(sb')
      /\ b \in 1..Len(sb') /\ b + 1 \in 1..Len(sb') /\ b + 2 \in 1..Len(sb') /\ n < b
      /\ Len(sb') = b + 2
  <2>1. Len(sb') = b + 2 /\ n < b /\ n \in Nat /\ m_buf \in Nat
    BY <1>n, <1>s, <1>b
  <2>2. \A j \in 1..n : sb'[j] = sb[j]
    BY <1>s DEF Extends
  <2> HIDE DEF n
  <2>3. \A j \in 1..(b + 2) : n < j =>
            \/ j - n \in 1..m_buf /\ j = n + (j - n) /\ j < b
            \/ j = b \/ j = b + 1 \/ j = b + 2
    BY <1>b, <2>1
  <2> QED BY <2>1, <2>2, <2>3
<1>q. \A j \in 1..Len(sb') : n < j =>
        /\ sb'[j].epoch <= epoch + 1
        /\ sb'[j].loc \in {"slot", "buf"} => sb'[j].cap = 2 * m_buf
        /\ sb'[j].loc = "buf" => j = b
        /\ sb'[j].loc = "bottom" => j = b + 2 /\ sb'[j].cap = InitialCap
        /\ sb'[j].loc \in {"slot", "buf", "bottom"}
  <2> SUFFICES ASSUME NEW j \in 1..Len(sb'), n < j
               PROVE  /\ sb'[j].epoch <= epoch + 1
                      /\ sb'[j].loc \in {"slot", "buf"} => sb'[j].cap = 2 * m_buf
                      /\ sb'[j].loc = "buf" => j = b
                      /\ sb'[j].loc = "bottom" => j = b + 2 /\ sb'[j].cap = InitialCap
                      /\ sb'[j].loc \in {"slot", "buf", "bottom"}
    OBVIOUS
  <2>1. CASE j - n \in 1..m_buf /\ j = n + (j - n)
    <3>1. PICK k \in 1..m_buf : j = n + k
      BY <2>1
    <3>2. sb'[j].loc = "slot" /\ sb'[j].cap = 2 * m_buf /\ sb'[j].epoch = epoch
      BY <1>c, <3>1
    <3> QED BY <1>n, <3>2
  <2>2. CASE j = b \/ j = b + 1 \/ j = b + 2
    <3>n. epoch \in Nat
      BY <1>n
    <3>1. CASE j = b
      <4>1. sb'[j].loc = "buf" /\ sb'[j].cap = 2 * m_buf /\ sb'[j].epoch = epoch
        BY <1>a, <3>1
      <4> QED BY <3>n, <3>1, <4>1
    <3>2. CASE j = b + 1
      <4>1. sb'[j].loc = "slot" /\ sb'[j].cap = 2 * m_buf /\ sb'[j].epoch = epoch
        BY <1>a, <3>2
      <4> QED BY <3>n, <4>1
    <3>3. CASE j = b + 2
      <4>1. sb'[j].loc = "bottom" /\ sb'[j].cap = InitialCap /\ sb'[j].epoch = epoch + 1
        BY <1>a, <3>3
      <4> QED BY <3>n, <3>3, <4>1
    <3> QED BY <2>2, <3>1, <3>2, <3>3
  <2> QED BY <1>p, <2>1, <2>2
<1>1. NewStoresElsewhere
  <2> SUFFICES ASSUME NEW j \in 1..Len(sb'), n < j, NEW c \in Capacities, c <= m_buf,
                      NEW i, Match(j, c, i)'
               PROVE  FALSE
    BY DEF NewStoresElsewhere
  <2>1. c = 2 * m_buf
    BY <1>q DEF Match
  <2> QED BY <1>n, <2>1
<1>k. /\ \A K, L \in 0..n : \A c \in Capacities : \A i \in m_top..(m_bottom - 1) :
           c <= m_buf /\ Readable(K, L, c, i) => Readable(K, L, c, i)'
      /\ \A K \in 0..n : \A i \in m_top..m_bottom :
           Published(i, K)' => i \in m_top..(m_bottom - 1) /\ Published(i, K)
      /\ ThiefReads'
  BY <1>s, <1>1, PushKeepsReads
<1>v. \A L \in 0..Len(sb') : IsView(L)' =>
        \/ L \in 0..n /\ IsView(L) /\ View(L)' = View(L)
        \/ L = b /\ View(L)' = 2 * m_buf
  <2> SUFFICES ASSUME NEW L \in 0..Len(sb'), IsView(L)'
               PROVE  \/ L \in 0..n /\ IsView(L) /\ View(L)' = View(L)
                      \/ L = b /\ View(L)' = 2 * m_buf
    OBVIOUS
  <2>1. CASE L = 0
    BY <1>n, <1>s, <2>1 DEF IsView, View
  <2>2. CASE L \in 1..n
    BY <1>n, <1>s, <1>p, <2>2 DEF IsView, View
  <2>3. CASE L \in 1..Len(sb') /\ n < L
    <3>1. sb'[L].loc = "buf" /\ L # 0
      BY <1>s, <2>3 DEF IsView
    <3> QED BY <1>q, <2>3, <3>1 DEF View
  <2> QED BY <1>s, <2>1, <2>2, <2>3
(* Every item can be read in the new buffer.                               *)
<1>r. ASSUME NEW i \in m_top..m_bottom, NEW K \in 0..Len(sb'), i = m_bottom => K = b + 2
      PROVE  Readable(K, b, big, i)'
  <2>1. big \in Nat \ {0} /\ big = 2 * m_buf /\ big = m_buf'
    BY <1>n, <1>b
  <2>d. ASSUME NEW x \in m_top..m_bottom, x # i PROVE Mask(big, x) # Mask(big, i)
    <3>1. x \in Int /\ i \in Int /\ (x < i => i < x + big) /\ (i < x => x < i + big)
      BY <1>n, <2>1
    <3>2. x < i \/ i < x
      BY <2>d, <3>1
    <3> QED BY <2>1, <3>1, <3>2, SlotsDiffer DEF Mask
  <2>2. CASE i \in m_top..(m_bottom - 1)
    <3>1. PICK k \in 1..m_buf : i = m_top + k - 1
      <4>1. i - m_top + 1 \in 1..m_buf /\ i = m_top + (i - m_top + 1) - 1
        BY <1>n, <2>2
      <4> QED BY <4>1
    <3>2. PICK p \in 1..Len(sb') : p = n + k /\ p < b /\ n < p
      <4>1. n \in Nat /\ m_buf \in Nat /\ b = n + m_buf + 1 /\ Len(sb') = b + 2
        BY <1>n, <1>s, <1>p, <1>b
      <4> HIDE DEF n
      <4>2. n + k \in 1..Len(sb') /\ n + k < b /\ n < n + k
        BY <4>1
      <4> QED BY <4>2
    <3>3. Match(p, big, i)'
      BY <1>c, <2>1, <3>1, <3>2 DEF Match
    <3>4. sb'[p].val = ItemAt(i)'
      BY <1>c, <2>2, <3>1, <3>2, PushItems
    <3>5. Repairs(p, K, b, big, i)'
      BY <1>o, <3>2, <3>3, <3>4 DEF Repairs, Before
    <3>6. ASSUME NEW j \in 1..Len(sb'), p < j PROVE ~Match(j, big, i)'
      <4>1. CASE j = b \/ j = b + 2
        BY <1>a, <4>1 DEF Match
      <4>2. CASE j = b + 1
        <5>1. m_bottom \in m_top..m_bottom /\ m_bottom # i
          BY <1>n, <2>2
        <5> QED BY <1>a, <2>d, <4>2, <5>1 DEF Match
      <4>3. CASE j - n \in 1..m_buf /\ j = n + (j - n)
        <5>1. PICK h \in 1..m_buf : j = n + h
          BY <4>3
        <5>2. m_top + h - 1 \in m_top..m_bottom /\ m_top + h - 1 # i
          BY <1>n, <1>s, <3>1, <3>2, <3>6, <5>1, SMTT(30)
        <5> QED BY <1>c, <2>d, <5>1, <5>2 DEF Match
      <4>4. n < j
        BY <1>s, <3>2, <3>6
      <4> QED BY <1>p, <4>1, <4>2, <4>3, <4>4
    <3> QED BY <1>s, <3>5, <3>6, NewestRepairs
  <2>3. CASE i = m_bottom
    <3>1. PICK p \in 1..Len(sb') : p = b + 1
      BY <1>p
    <3>2. Match(p, big, i)'
      BY <1>a, <2>1, <2>3, <3>1 DEF Match
    <3>3. sb'[p].val = ItemAt(i)'
      <4>1. Load(slot', m_buf', i) = pushed + 1
        BY <2>3, PushItems
      <4> QED BY <1>a, <3>1, <4>1 DEF ItemAt, Load, Mask
    <3>4. Repairs(p, K, b, big, i)'
      BY <1>r, <1>o, <1>b, <2>3, <3>1, <3>2, <3>3 DEF Repairs, Before
    <3>5. \A j \in 1..Len(sb') : p < j => ~Match(j, big, i)'
      BY <1>a, <1>b, <1>p, <3>1 DEF Match
    <3> QED BY <1>s, <3>4, <3>5, NewestRepairs
  <2> QED BY <1>n, <2>2, <2>3
<1>2. PublishedIsReadable'
  <2> SUFFICES ASSUME NEW i \in m_top..m_bottom,
                      NEW K \in 0..Len(sb'), NEW L \in 0..Len(sb'),
                      Published(i, K)', IsView(L)', NoBuf(L, K)'
               PROVE  Readable(K, L, View(L), i)'
    BY <1>n DEF PublishedIsReadable
  <2>k. K \in 0..n \/ K = b + 2
    BY <1>p, <1>q, <1>s DEF Published, IsBottom
  <2>1. CASE L \in 0..n /\ IsView(L) /\ View(L)' = View(L)
    <3>1. K \in 0..n
      <4>1. K = b + 2 => ~NoBuf(L, K)'
        BY <1>p, <1>a, <1>b, <1>s, <2>1 DEF NoBuf
      <4> QED BY <2>k, <4>1
    <3>2. i \in m_top..(m_bottom - 1) /\ Published(i, K)
      BY <1>k, <3>1
    <3>3. NoBuf(L, K)
      BY <1>s, <1>p, <3>1 DEF NoBuf
    <3>4. PICK c \in Capacities : c = View(L) /\ c <= m_buf
      BY <2>1, ViewType
    <3>5. Readable(K, L, c, i)
      BY <1>n, <2>1, <3>1, <3>2, <3>3, <3>4 DEF ReadInv, PublishedIsReadable
    <3>6. Readable(K, L, c, i)'
      BY <1>k, <2>1, <3>1, <3>2, <3>4, <3>5
    <3> QED BY <2>1, <3>4, <3>6 DEF Readable, Repairs, Match
  <2>2. CASE L = b /\ View(L)' = big
    <3>1. i = m_bottom => K = b + 2
      <4>1. K \in 0..n => i \in m_top..(m_bottom - 1)
        BY <1>k
      <4> QED BY <1>n, <2>k, <4>1
    <3>2. Readable(K, b, big, i)'
      BY <1>r, <3>1
    <3> QED BY <2>2, <3>2 DEF Readable, Repairs, Match
  <2> QED BY <1>v, <1>b, <2>1, <2>2
<1>3. BufBounds'
  <2>1. /\ LogicalBottom' - m_top' <= m_buf' /\ InitialCap <= m_buf' /\ g_buf' <= m_buf'
        /\ \A t \in Thieves : thief'[t].buf <= m_buf'
        /\ opc' # "cas"
    <3>1. /\ InitialCap <= m_buf /\ g_buf <= m_buf
          /\ \A t \in Thieves : thief[t].buf <= m_buf
      BY DEF ReadInv, BufBounds
    <3>2. /\ InitialCap \in Nat /\ g_buf \in Nat /\ \A t \in Thieves : thief[t].buf \in Nat
      BY Shapes, CapacityAssumption DEF Locals
    <3>3. opc' # "cas"
      BY <1>n DEF Push
    <3> QED BY <1>n, <3>1, <3>2, <3>3
  <2>2. \A k \in 1..Len(sb') :
          /\ sb'[k].cap <= m_buf' /\ sb'[k].epoch <= epoch'
          /\ sb'[k].loc = "buf" => StoreOrder = "program"
    <3> SUFFICES ASSUME NEW k \in 1..Len(sb')
                 PROVE  sb'[k].cap <= m_buf' /\ sb'[k].epoch <= epoch'
      BY <1>o
    <3>1. CASE k \in 1..n
      <4>1. /\ sb[k].epoch \in Nat /\ sb[k].epoch <= epoch
            /\ sb[k].cap <= m_buf /\ sb[k].cap \in Nat
        BY <3>1, Shapes DEF ReadInv, BufBounds
      <4> QED BY <1>n, <1>p, <3>1, <4>1
    <3>2. CASE n < k
      BY <1>n, <1>q, <2>1, <3>2
    <3> QED BY <1>s, <3>1, <3>2
  <2>3. ASSUME NEW L \in 0..Len(sb'), IsView(L)', NoBuf(L, Len(sb) + 1)'
        PROVE  View(L)' = m_buf'
    <3>1. ~(L \in 0..n)
      BY <1>s, <1>p, <1>a, <1>b, <2>3 DEF NoBuf
    <3> QED BY <1>n, <1>v, <2>3, <3>1
  <2> QED BY <2>1, <2>2, <2>3 DEF BufBounds
<1>4. \E K \in 0..Len(sb') : IsLastBottom(K)'
  <2>1. PICK k \in 1..Len(sb') : k = b + 2
    BY <1>p
  <2>2. IsLastBottom(k)'
    BY <1>n, <1>b, <1>p, <1>a, <2>1 DEF IsLastBottom, IsBottom
  <2>3. k \in 0..Len(sb')
    BY <1>s
  <2> QED BY <2>2, <2>3
<1> QED BY <1>k, <1>2, <1>3, <1>4 DEF ReadInv

-----------------------------------------------------------------------------
(* Nothing is published in the beginning.                                  *)
LEMMA ReadInit == Init => ReadInv
<1> SUFFICES ASSUME Init PROVE ReadInv
  OBVIOUS
<1>1. Len(sb) = 0 /\ LogicalBottom = 0 /\ m_top = 0 /\ m_buf = InitialCap /\ g_buf = InitialCap
      /\ g_bottom = 0 /\ m_bottom = 0 /\ opc = "idle" /\ epoch = 0
  BY EmptySeq DEF Init, LogicalBottom
<1>2. \A t \in Thieves : thief[t].pc = "idle" /\ thief[t].buf = InitialCap
  BY DEF Init, Idle
<1>3. PublishedIsReadable
  BY <1>1 DEF PublishedIsReadable
<1>4. ThiefReads
  BY <1>2 DEF ThiefReads, MayWin
<1>5. BufBounds
  <2>1. InitialCap \in Nat /\ 0 - 0 <= InitialCap
    BY CapacityAssumption
  <2>2. (\A k \in 1..Len(sb) : FALSE) /\ \A L \in 0..Len(sb) : L = 0
    BY <1>1
  <2> QED BY <1>1, <1>2, <2>1, <2>2 DEF BufBounds, View
<1>6. IsLastBottom(0) /\ 0 \in 0..Len(sb)
  BY <1>1 DEF IsLastBottom
<1> QED BY <1>3, <1>4, <1>5, <1>6 DEF ReadInv

(* Every step keeps the items readable when the stores stay in order.      *)
LEMMA ReadStep == InOrder /\ IndexInv /\ IndexInv' /\ ReadInv /\ [Next]_vars => ReadInv'
<1> SUFFICES ASSUME InOrder, IndexInv, IndexInv', ReadInv, [Next]_vars PROVE ReadInv'
  OBVIOUS
<1>1. CASE OwnerNext
  <2>1. CASE Push
    BY <2>1, PushReadsInPlace, PushReadsGrowing
  <2>2. CASE PopReserve
    BY <2>2, PopReserveReads
  <2>3. CASE PopMany \/ PopLast
    BY <2>3, PopDecidesReads
  <2>4. CASE PopEmpty \/ PopCas
    BY <2>4, RestoreReads
  <2> QED BY <1>1, <2>1, <2>2, <2>3, <2>4 DEF OwnerNext
<1>2. CASE \E q \in DOMAIN sb : Flush(q)
  BY <1>2, FlushReads
<1>3. CASE \E t \in Thieves : ThiefNext(t)
  BY <1>3, StealReads
<1>4. CASE UNCHANGED vars
  <2>1. UNCHANGED <<sb, g_bottom, g_buf, g_slot, slot, m_buf, m_bottom, epoch, m_top, thief, opc>>
    BY <1>4 DEF vars, owner, visible
  <2>2. LogicalBottom' = LogicalBottom
    BY <2>1 DEF LogicalBottom
  <2>3. \A t \in Thieves : MayWin(t)' <=> MayWin(t)
    BY <2>1 DEF MayWin
  <2>4. m_top' \in Int /\ LogicalBottom' \in Int /\ m_top <= m_top' /\ LogicalBottom' <= LogicalBottom
    BY <2>1, <2>2, Shapes
  <2>5. (opc' = "cas" => m_bottom <= m_top') /\ \A t \in Thieves : thief'[t].buf <= m_buf
    BY <2>1 DEF ReadInv, BufBounds
  <2>6. \A t \in Thieves : MayWin(t)' =>
          /\ m_top' = m_top
          /\ thief'[t].pc = "buf" => Published(m_top, 0)
          /\ thief'[t].pc = "slot" => Readable(0, 0, thief'[t].buf, m_top)
          /\ thief'[t].pc = "cas" => thief'[t].tmp = ItemAt(m_top)
    BY <2>1, <2>3 DEF ReadInv, ThiefReads, Published
  <2> QED BY <2>1, <2>4, <2>5, <2>6, KeepReads
<1> QED BY <1>1, <1>2, <1>3, <1>4 DEF Next

(* What thieves may rely on when they read, whatever their number, the     *)
(* number of pushes and pops, and how far the owner's stores lag behind.   *)
THEOREM ReadsAreSafe == InOrder => (Spec => [](IndexInv /\ ReadInv))
<1>1. Init => IndexInv /\ ReadInv
  BY InitIndexInv, ReadInit
<1>2. InOrder /\ IndexInv /\ ReadInv /\ [Next]_vars => IndexInv' /\ ReadInv'
  BY NextIndexInv, ReadStep
<1> SUFFICES ASSUME InOrder PROVE Spec => [](IndexInv /\ ReadInv)
  OBVIOUS
<1> QED BY <1>1, <1>2, PTL DEF Spec

(* steal() returns what was pushed at the index it claims: its read did    *)
(* not race with a slot that is reused, not yet written or not yet copied. *)
THEOREM WinnerReadsTheItem == InOrder => (Spec => []WinnerReadIsClean)
<1>1. ReadInv => WinnerReadIsClean
  BY DEF ReadInv, ThiefReads, WinnerReadIsClean
<1> SUFFICES ASSUME InOrder PROVE Spec => []WinnerReadIsClean
  OBVIOUS
<1> QED BY <1>1, ReadsAreSafe, PTL

(* Every index that a thief can see below m_bottom holds its item in the   *)
(* buffer the thief can see: push() publishes the item before the index,   *)
(* and resize() the copies before the buffer.                              *)
THEOREM PublishedBeforeVisible == InOrder => (Spec => []VisibleItemsAreReadable)
<1>1. IndexInv /\ ReadInv => VisibleItemsAreReadable
  <2> SUFFICES ASSUME IndexInv, ReadInv,
                      NEW i \in m_top..(LogicalBottom - 1), i < g_bottom
               PROVE  Load(g_slot, g_buf, i) = ItemAt(i)
    BY DEF VisibleItemsAreReadable
  <2>s. Len(sb) \in Nat
    BY Shapes
  <2>1. Published(i, 0) /\ IsView(0) /\ View(0) = g_buf /\ NoBuf(0, 0) /\ 0 \in 0..Len(sb)
    BY <2>s DEF Published, IsView, View, NoBuf
  <2>2. Readable(0, 0, g_buf, i)
    BY <2>1 DEF ReadInv, PublishedIsReadable
  <2>3. \A p \in 1..Len(sb) : ~Before(p, 0)
    BY <2>s DEF Before
  <2> QED BY <2>2, <2>3 DEF Readable, Repairs
<1> SUFFICES ASSUME InOrder PROVE Spec => []VisibleItemsAreReadable
  OBVIOUS
<1> QED BY <1>1, ReadsAreSafe, PTL

-----------------------------------------------------------------------------
(* The refinement, step by step.                                           *)
Size == LogicalBottom - m_top

Taken == [v \in {u \in Values : delivered[u] > 0} |-> delivered[v]]

ContentOK == Content \in [1..Size -> Values] /\ Size \in Nat

(* What the deque holds is a sequence of items.                            *)
LEMMA ContentType == IndexInv => ContentOK
<1> SUFFICES ASSUME IndexInv PROVE ContentOK
  OBVIOUS
<1>1. m_top \in Nat /\ Size \in Nat /\ m_buf \in Capacities
  BY Shapes DEF Size
<1>2. \A k \in 1..Size : m_top + k - 1 \in Int
  BY <1>1
<1>3. \A k \in 1..Size : ItemAt(m_top + k - 1) \in Values
  <2>1. /\ DOMAIN slot = Capacities
        /\ \A c \in Capacities : slot[c] \in [0..(c - 1) -> Values]
    BY SlotParts DEF IndexInv
  <2> QED BY <1>1, <1>2, <2>1, LoadValue DEF ItemAt
<1> QED BY <1>1, <1>3 DEF ContentOK, Content, Size

(* The same after a step.                                                  *)
LEMMA ContentTypeNext == IndexInv' => ContentOK'
  BY ContentType, PTL

(* Deliver() puts one more copy of the item in the bag of taken ones.      *)
LEMMA DeliverAddsToBag ==
    ASSUME IndexInv, NEW v \in Values, Deliver(v)
    PROVE  Taken' = WD!(+)(Taken, WD!SetToBag({v}))
<1> DEFINE S == {u \in Values : delivered[u] > 0}
<1>1. /\ delivered \in [Values -> Nat]
      /\ delivered' = [delivered EXCEPT ![v] = @ + 1]
  BY DEF IndexInv, TypeOK, Deliver
<1>2. {u \in Values : delivered'[u] > 0} = S \cup {v}
  BY <1>1
<1>3. WD!SetToBag({v}) = [e \in {v} |-> 1]
  BY DEF WD!SetToBag
<1>4. WD!(+)(Taken, WD!SetToBag({v})) =
        [e \in S \cup {v} |-> (IF e \in S THEN delivered[e] ELSE 0)
                              + (IF e \in {v} THEN 1 ELSE 0)]
  BY <1>3 DEF WD!(+), Taken
<1>5. \A e \in S \cup {v} : delivered'[e] = (IF e \in S THEN delivered[e] ELSE 0)
                                           + (IF e \in {v} THEN 1 ELSE 0)
  BY <1>1
<1>6. Taken' = [e \in S \cup {v} |-> delivered'[e]]
  BY <1>2 DEF Taken
<1> HIDE DEF S
<1> QED BY <1>4, <1>5, <1>6

(* A step that leaves the owner's indices and slots alone is not seen.     *)
LEMMA SameContent ==
    ASSUME UNCHANGED <<m_top, slot, m_buf, pushed, delivered, popped>>, LogicalBottom' = LogicalBottom
    PROVE  UNCHANGED WD!vars
  BY DEF WD!vars, Content, ItemAt, Load, Mask

(* push() is the abstract push.                                            *)
LEMMA PushRefines ==
    ASSUME IndexInv, IndexInv', ReadInv, Push
    PROVE  WD!Push
<1>n. /\ m_top \in Nat /\ m_bottom \in Nat /\ m_top <= m_bottom
      /\ LogicalBottom = m_bottom /\ LogicalBottom' = m_bottom + 1
      /\ pushed + 1 \in Values /\ pushed' = pushed + 1
      /\ UNCHANGED <<m_top, delivered, popped>>
  BY PushNumbers
<1> DEFINE n == Size
<1>1. n \in Nat /\ n = m_bottom - m_top /\ Content \in [1..n -> Values]
      /\ Content' \in [1..(n + 1) -> Values]
  <2>1. Content \in [1..n -> Values] /\ Content' \in [1..Size' -> Values]
    BY ContentType, ContentTypeNext DEF ContentOK
  <2>2. n \in Nat /\ n = m_bottom - m_top /\ Size' = n + 1
    BY <1>n DEF Size
  <2> QED BY <2>1, <2>2
<1> HIDE DEF n
<1>2. \A k \in 1..(n + 1) : Content'[k] = Load(slot', m_buf', m_top + k - 1)
  <2>1. LogicalBottom' - m_top' = n + 1
    BY <1>n, <1>1
  <2> QED BY <1>n, <2>1 DEF Content, ItemAt, Load, Mask
<1>3. \A k \in 1..n : Content'[k] = Content[k]
  <2> TAKE k \in 1..n
  <2>1. Content[k] = ItemAt(m_top + k - 1)
    BY <1>n, <1>1 DEF Content
  <2>2. k \in 1..(n + 1) /\ m_top + k - 1 \in m_top..(m_bottom - 1)
    BY <1>n, <1>1
  <2> QED BY <1>2, <2>1, <2>2, PushItems
<1>4. Content'[n + 1] = pushed + 1
  <2>1. m_top + (n + 1) - 1 = m_bottom /\ n + 1 \in 1..(n + 1)
    BY <1>n, <1>1
  <2> QED BY <1>2, <2>1, PushItems
<1>5. Content' = Append(Content, pushed + 1)
  BY <1>n, <1>1, <1>3, <1>4, AppendShape
<1> QED BY <1>n, <1>5 DEF WD!Push

(* Whoever takes the newest item: pop() without a race, or by its CAS.     *)
LEMMA TakesNewest ==
    ASSUME IndexInv, IndexInv', opc # "idle", m_top <= m_bottom,
           UNCHANGED <<slot, m_buf, pushed>>, Size' = Size - 1,
           m_top' = m_top \/ Size' = 0,
           popped' = Load(slot, m_buf, m_bottom), Deliver(popped')
    PROVE  WD!Pop
<1>s. m_top \in Nat /\ m_bottom \in Int /\ m_buf \in Capacities
  BY Shapes
<1> DEFINE n == Size
<1>1. n \in Nat \ {0} /\ n = m_bottom + 1 - m_top /\ LogicalBottom = m_bottom + 1
  <2>1. LogicalBottom = m_bottom + 1
    BY DEF LogicalBottom
  <2> QED BY <1>s, <2>1 DEF Size
<1>2. Content \in [1..n -> Values] /\ Content' \in [1..(n - 1) -> Values]
  <2>1. Content' \in [1..Size' -> Values]
    BY ContentTypeNext DEF ContentOK
  <2> QED BY <2>1, ContentType DEF ContentOK
<1>d. LogicalBottom' - m_top' = n - 1
  BY DEF Size
<1> HIDE DEF n
<1>3. \A k \in 1..(n - 1) : Content'[k] = Content[k]
  <2> SUFFICES ASSUME NEW k \in 1..(n - 1) PROVE Content'[k] = Content[k]
    OBVIOUS
  <2>1. n - 1 # 0 /\ k \in 1..(LogicalBottom - m_top) /\ k \in 1..(LogicalBottom' - m_top')
    BY <1>s, <1>1, <1>d
  <2>2. m_top' = m_top
    BY <1>d, <2>1 DEF Size
  <2> QED BY <2>1, <2>2 DEF Content, ItemAt, Load, Mask
<1>4. Content' = SubSeq(Content, 1, n - 1) /\ Len(Content) = n /\ Content # <<>>
  BY <1>1, <1>2, <1>3, FrontShape
<1>5. Content[n] = Load(slot, m_buf, m_bottom)
  <2>1. m_top + n - 1 = m_bottom /\ n \in 1..(LogicalBottom - m_top)
    BY <1>s, <1>1
  <2> QED BY <2>1 DEF Content, ItemAt
<1>6. WD!Last(Content) = popped' /\ WD!Front(Content) = Content'
  BY <1>4, <1>5 DEF WD!Last, WD!Front
<1>7. Taken' = WD!(+)(Taken, WD!SetToBag({popped'}))
  <2>1. popped' \in Values
    BY Zenon DEF IndexInv, TypeOK
  <2>2. PICK v \in Values : v = popped'
    BY <2>1
  <2>3. Deliver(v)
    BY <2>2 DEF Deliver
  <2> QED BY <2>2, <2>3, DeliverAddsToBag
<1> QED BY <1>4, <1>6, <1>7 DEF WD!Pop, Taken

(* pop() says empty only when there is nothing left.                       *)
LEMMA FindsNothing ==
    ASSUME IndexInv, opc # "idle", opc' = "idle", m_bottom < m_top,
           m_bottom' = m_bottom + 1, popped' = Empty,
           UNCHANGED <<m_top, slot, m_buf, pushed, delivered>>
    PROVE  WD!PopEmpty
<1>s. m_top \in Nat /\ m_bottom \in Int /\ m_top <= LogicalBottom
  BY Shapes
<1>1. LogicalBottom = m_bottom + 1 /\ LogicalBottom' = m_bottom + 1
  BY DEF LogicalBottom
<1>2. Size = 0
  BY <1>s, <1>1 DEF Size
<1>3. Content = <<>>
  BY <1>2, ContentType, EmptyShape DEF ContentOK
<1>4. Content' = Content
  BY <1>1 DEF Content, ItemAt, Load, Mask
<1> QED BY <1>3, <1>4 DEF WD!PopEmpty, WD!Empty, Empty

(* pop() is the abstract pop, or an abstract step that finds nothing.      *)
LEMMA PopRefines ==
    ASSUME IndexInv, IndexInv', ReadInv, PopMany \/ PopEmpty \/ PopCas
    PROVE  WD!Pop \/ WD!PopEmpty
<1>s. m_top \in Nat /\ m_bottom \in Int
  BY Shapes
<1>1. CASE PopMany
  <2>1. /\ opc # "idle" /\ m_top <= m_bottom /\ UNCHANGED <<slot, m_buf, pushed, m_top>>
        /\ popped' = Load(slot, m_buf, m_bottom) /\ Deliver(popped')
    BY <1>s, <1>1 DEF PopMany
  <2>2. LogicalBottom = m_bottom + 1 /\ LogicalBottom' = m_bottom
    BY <1>1 DEF PopMany, LogicalBottom
  <2>3. Size' = Size - 1
    BY <1>s, <2>1, <2>2 DEF Size
  <2> QED BY <2>1, <2>3, TakesNewest
<1>2. CASE PopEmpty
  BY <1>s, <1>2, FindsNothing DEF PopEmpty, RestoreBottom
<1>3. CASE PopCas
  <2>1. m_bottom <= m_top
    BY <1>3 DEF ReadInv, BufBounds, PopCas
  <2>2. CASE m_top = m_bottom
    <3>1. /\ opc # "idle" /\ m_top <= m_bottom /\ UNCHANGED <<slot, m_buf, pushed>>
          /\ popped' = Load(slot, m_buf, m_bottom) /\ Deliver(popped') /\ m_top' = m_top + 1
      BY <1>s, <1>3, <2>2 DEF PopCas
    <3>2. LogicalBottom = m_bottom + 1 /\ LogicalBottom' = m_bottom + 1
      BY <1>3 DEF PopCas, RestoreBottom, LogicalBottom
    <3>3. Size' = Size - 1 /\ Size' = 0
      BY <1>s, <2>2, <3>1, <3>2 DEF Size
    <3> QED BY <3>1, <3>3, TakesNewest
  <2>3. CASE m_top # m_bottom
    <3>1. m_bottom < m_top
      BY <1>s, <2>1, <2>3
    <3> QED BY <1>3, <2>3, <3>1, FindsNothing DEF PopCas, RestoreBottom
  <2> QED BY <2>2, <2>3
<1> QED BY <1>1, <1>2, <1>3

(* A CAS on m_top that succeeds takes the oldest item.                     *)
LEMMA StealRefines ==
    ASSUME IndexInv, IndexInv', ReadInv, NEW t \in Thieves, StealCas(t)
    PROVE  WD!Steal \/ UNCHANGED WD!vars
<1>s. m_top \in Nat /\ m_bottom \in Int /\ LogicalBottom \in Int
  BY Shapes
<1>1. UNCHANGED <<slot, m_buf, pushed, popped, m_bottom, opc>> /\ LogicalBottom' = LogicalBottom
  BY DEF StealCas, owner, LogicalBottom
<1>2. CASE m_top = thief[t].top
  <2>1. m_top' = m_top + 1 /\ Deliver(thief[t].tmp) /\ MayWin(t)
    BY <1>2 DEF StealCas, MayWin
  <2>2. thief[t].tmp = ItemAt(m_top) /\ m_top < LogicalBottom
    BY <2>1 DEF StealCas, ReadInv, ThiefReads, IndexInv, ClaimsAreLive
  <2> DEFINE n == Size
  <2>3. n \in Nat \ {0} /\ n = LogicalBottom - m_top /\ LogicalBottom' - m_top' = n - 1
    BY <1>s, <1>1, <2>1, <2>2 DEF Size
  <2>4. Content \in [1..n -> Values] /\ Content' \in [1..(n - 1) -> Values]
    <3>1. Content' \in [1..Size' -> Values] /\ Size' = LogicalBottom' - m_top'
      BY ContentTypeNext DEF ContentOK, Size
    <3> QED BY <2>3, <3>1, ContentType DEF ContentOK
  <2> HIDE DEF n
  <2>5. \A k \in 1..(n - 1) : Content'[k] = Content[k + 1]
    <3> SUFFICES ASSUME NEW k \in 1..(n - 1) PROVE Content'[k] = Content[k + 1]
      OBVIOUS
    <3>1. /\ k + 1 \in 1..(LogicalBottom - m_top) /\ k \in 1..(LogicalBottom' - m_top')
          /\ m_top' + k - 1 = m_top + (k + 1) - 1
      BY <1>s, <2>1, <2>3
    <3>2. Content'[k] = Load(slot, m_buf, m_top' + k - 1)
      BY <1>1, <3>1 DEF Content, ItemAt, Load, Mask
    <3>3. Content[k + 1] = Load(slot, m_buf, m_top + (k + 1) - 1)
      BY <3>1 DEF Content, ItemAt
    <3> QED BY <3>1, <3>2, <3>3
  <2>6. Content' = Tail(Content) /\ Head(Content) = Content[1] /\ Content # <<>>
    BY <2>3, <2>4, <2>5, TailShape
  <2>7. Content[1] = thief[t].tmp
    <3>1. m_top + 1 - 1 = m_top /\ 1 \in 1..(LogicalBottom - m_top)
      BY <1>s, <2>2
    <3> QED BY <2>2, <3>1 DEF Content
  <2>8. Taken' = WD!(+)(Taken, WD!SetToBag({thief[t].tmp}))
    <3>1. thief[t].tmp \in Values
      <4>1. thief[t] \in Locals
        BY Shapes
      <4> QED BY <4>1 DEF Locals
    <3> QED BY <2>1, <3>1, DeliverAddsToBag
  <2> QED BY <1>1, <2>6, <2>7, <2>8 DEF WD!Steal, Taken
<1>3. CASE m_top # thief[t].top
  BY <1>1, <1>3, SameContent DEF StealCas
<1> QED BY <1>2, <1>3

(* Every step is a step of the abstract deque or none.                     *)
LEMMA StepRefines ==
    IndexInv /\ IndexInv' /\ ReadInv /\ [Next]_vars => [WD!Next]_(WD!vars)
<1> SUFFICES ASSUME IndexInv, IndexInv', ReadInv, [Next]_vars PROVE [WD!Next]_(WD!vars)
  OBVIOUS
<1>1. CASE Push
  BY <1>1, PushRefines DEF WD!Next
<1>2. CASE PopMany \/ PopEmpty \/ PopCas
  BY <1>2, PopRefines DEF WD!Next
<1>3. CASE PopReserve \/ PopLast
  <2>1. m_bottom \in Int
    BY Shapes
  <2>2. LogicalBottom' = LogicalBottom
    BY <1>3, <2>1 DEF PopReserve, PopLast, LogicalBottom
  <2> QED BY <1>3, <2>2, SameContent DEF PopReserve, PopLast
<1>4. CASE \E q \in DOMAIN sb : Flush(q)
  <2>1. UNCHANGED <<m_top, slot, m_buf, pushed, delivered, popped>> /\ LogicalBottom' = LogicalBottom
    BY <1>4 DEF Flush, owner, LogicalBottom
  <2> QED BY <2>1, SameContent
<1>5. ASSUME NEW t \in Thieves, ThiefNext(t) PROVE [WD!Next]_(WD!vars)
  <2>1. CASE StealCas(t)
    BY <2>1, StealRefines DEF WD!Next
  <2>2. CASE StealTop(t) \/ StealBottom(t) \/ StealBuf(t) \/ StealSlot(t)
    <3>1. UNCHANGED <<m_top, slot, m_buf, pushed, delivered, popped>> /\ LogicalBottom' = LogicalBottom
      BY <2>2 DEF StealTop, StealBottom, StealBuf, StealSlot, owner, LogicalBottom
    <3> QED BY <3>1, SameContent
  <2> QED BY <1>5, <2>1, <2>2 DEF ThiefNext
<1>6. CASE UNCHANGED vars
  <2>1. UNCHANGED <<m_top, slot, m_buf, pushed, delivered, popped>> /\ LogicalBottom' = LogicalBottom
    BY <1>6 DEF vars, owner, LogicalBottom
  <2> QED BY <2>1, SameContent
<1> QED BY <1>1, <1>2, <1>3, <1>4, <1>5, <1>6 DEF Next, OwnerNext

(* A new deque is an empty abstract deque.                                 *)
LEMMA InitRefines == Init => WD!Init
<1> SUFFICES ASSUME Init PROVE WD!Init
  OBVIOUS
<1>1. Content = <<>>
  <2>1. Size = 0
    BY DEF Init, Size, LogicalBottom
  <2> QED BY <2>1, InitIndexInv, ContentType, EmptyShape DEF ContentOK
<1>2. Taken = WD!EmptyBag
  <2>1. {u \in Values : delivered[u] > 0} = {}
    BY DEF Init
  <2> QED BY <2>1 DEF Taken, WD!EmptyBag, WD!SetToBag
<1> QED BY <1>1, <1>2 DEF Init, WD!Init, WD!Empty, Empty, Taken

(* The Chase-Lev deque implements WorkDeque: whatever thieves there are    *)
(* and however their steps and the owner's delayed stores interleave, every*)
(* item is handed out once, pop() takes the newest and steal() the oldest, *)
(* and pop() says empty only when it is.                                   *)
THEOREM Refinement == InOrder => (Spec => ImplementsWorkDeque)
<1>1. IndexInv /\ IndexInv' /\ ReadInv /\ [Next]_vars => [WD!Next]_(WD!vars)
  BY StepRefines
<1>2. Init => WD!Init
  BY InitRefines
<1> SUFFICES ASSUME InOrder PROVE Spec => ImplementsWorkDeque
  OBVIOUS
<1> QED BY <1>1, <1>2, ReadsAreSafe, PTL DEF Spec, ImplementsWorkDeque, WD!Spec
=============================================================================

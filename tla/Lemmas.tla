-------------------------------- MODULE Lemmas -------------------------------
(***************************************************************************)
(* Facts the proofs share: induction over the numbers and the iteration of *)
(* a function, from the well-foundedness of the numbers; ring buffer       *)
(* indices do not collide; and what Append, Tail and Front do to a         *)
(* sequence that is given as a function.                                   *)
(***************************************************************************)
EXTENDS Integers, Sequences, SequencesExt, SequenceTheorems, FiniteSetTheorems,
        WellFoundedInduction, TLAPS

(* Every set of numbers that is not empty has a least member: the order of *)
(* the numbers is well founded.                                            *)
LEMMA NatMin ==
    ASSUME NEW T, T \subseteq Nat, T # {}
    PROVE  \E x \in T : \A y \in T : x <= y
<1> DEFINE R == {ss \in Nat \X Nat : ss[1] < ss[2]}
<1>1. IsWellFoundedOn(R, Nat)
  BY NatLessThanWellFounded DEF OpToRel
<1>2. PICK x \in T : \A y \in T : ~(<<y, x>> \in R)
  <2> HIDE DEF R
  <2> QED BY <1>1, WFMin
<1>3. ASSUME NEW y \in T PROVE x <= y
  <2>1. x \in Nat /\ y \in Nat
    OBVIOUS
  <2>2. ~(y < x)
    BY <1>2, <2>1
  <2> QED BY <2>1, <2>2
<1> QED BY <1>3

(* Induction, over a set instead of a predicate.                           *)
LEMMA SetInduction ==
    ASSUME NEW S, 0 \in S, \A n \in Nat : n \in S => n + 1 \in S
    PROVE  \A n \in Nat : n \in S
<1> SUFFICES ASSUME Nat \ S # {} PROVE FALSE
  OBVIOUS
<1>1. PICK x \in Nat \ S : \A y \in Nat \ S : x <= y
  BY NatMin
<1>2. x - 1 \in Nat /\ x - 1 \in S
  BY <1>1
<1> QED BY <1>1, <1>2

(* f[n] is what n steps of G make of a.                                    *)
IsIteration(f, D, a, G) ==
    f \in [Nat -> D] /\ f[0] = a /\ \A n \in Nat : f[n + 1] = G[f[n]]
MapsInto(G, D) == G \in [D -> D]

(* There is such a function: for every n by induction, and any two agree   *)
(* as far as they go.                                                      *)
LEMMA Iterates ==
    ASSUME NEW D, NEW a, a \in D, NEW G, MapsInto(G, D)
    PROVE  \E f : IsIteration(f, D, a, G)
<1> USE DEF MapsInto
<1> DEFINE Good(n, g) == g \in [0..n -> D] /\ g[0] = a /\ \A i \in 0..(n - 1) : g[i + 1] = G[g[i]]
           S == {n \in Nat : \E g : Good(n, g)}
<1>1. 0 \in S
  <2>1. Good(0, [i \in 0..0 |-> a])
    OBVIOUS
  <2> QED BY <2>1
<1>2. ASSUME NEW n \in Nat, n \in S PROVE n + 1 \in S
  <2>1. PICK g : Good(n, g)
    BY <1>2
  <2>2. PICK h : h = [i \in 0..(n + 1) |-> IF i <= n THEN g[i] ELSE G[g[n]]]
    OBVIOUS
  <2>3. h \in [0..(n + 1) -> D]
    <3>1. ASSUME NEW i \in 0..(n + 1) PROVE (IF i <= n THEN g[i] ELSE G[g[n]]) \in D
      <4>1. n \in 0..n /\ (i <= n => i \in 0..n)
        OBVIOUS
      <4> QED BY <2>1, <4>1
    <3> QED BY <2>2, <3>1
  <2>4. h[0] = a
    BY <2>1, <2>2
  <2>5. ASSUME NEW i \in 0..((n + 1) - 1) PROVE h[i + 1] = G[h[i]]
    <3>1. i \in 0..(n + 1) /\ i + 1 \in 0..(n + 1) /\ i \in 0..n
      OBVIOUS
    <3>2. CASE i = n
      BY <2>1, <2>2, <3>1, <3>2
    <3>3. CASE i # n
      <4>1. i \in 0..(n - 1) /\ i + 1 <= n /\ i <= n
        BY <3>3
      <4> QED BY <2>1, <2>2, <3>1, <4>1
    <3> QED BY <3>2, <3>3
  <2>6. Good(n + 1, h)
    BY <2>3, <2>4, <2>5
  <2> QED BY <2>6
<1>3. \A n \in Nat : n \in S
  <2> HIDE DEF S
  <2> QED BY <1>1, <1>2, SetInduction
<1>4. ASSUME NEW n \in Nat, NEW m \in Nat, n <= m, NEW g, NEW h, Good(n, g), Good(m, h)
      PROVE  \A k \in 0..n : g[k] = h[k]
  <2> DEFINE E == {k \in Nat : k <= n => g[k] = h[k]}
  <2>1. 0 \in E
    BY <1>4
  <2>2. ASSUME NEW k \in Nat, k \in E PROVE k + 1 \in E
    <3>1. CASE k + 1 <= n
      <4>1. k \in 0..(n - 1) /\ k \in 0..(m - 1) /\ k <= n
        BY <3>1, <1>4
      <4>2. g[k + 1] = G[g[k]] /\ h[k + 1] = G[h[k]] /\ g[k] = h[k]
        BY <4>1, <1>4, <2>2
      <4> QED BY <4>2
    <3> QED BY <3>1
  <2>3. \A k \in Nat : k \in E
    <3> HIDE DEF E
    <3> QED BY <2>1, <2>2, SetInduction
  <2> QED BY <2>3
<1> DEFINE pick(n) == CHOOSE g : Good(n, g)
<1>5. ASSUME NEW n \in Nat PROVE Good(n, pick(n))
  BY <1>3
<1> HIDE DEF pick, S
<1>6. PICK f : f = [n \in Nat |-> pick(n)[n]]
  OBVIOUS
<1>7. ASSUME NEW n \in Nat PROVE pick(n)[n] \in D
  BY <1>5
<1>8. f \in [Nat -> D]
  BY <1>6, <1>7
<1>9. f[0] = a
  BY <1>5, <1>6
<1>10. ASSUME NEW n \in Nat PROVE f[n + 1] = G[f[n]]
  <2>1. Good(n, pick(n)) /\ Good(n + 1, pick(n + 1)) /\ n <= n + 1
    BY <1>5
  <2>2. pick(n)[n] = pick(n + 1)[n]
    <3> HIDE DEF Good
    <3> QED BY <1>4, <2>1
  <2>3. pick(n + 1)[n + 1] = G[pick(n + 1)[n]]
    BY <2>1
  <2> QED BY <1>6, <2>2, <2>3
<1> QED BY <1>8, <1>9, <1>10 DEF IsIteration

-----------------------------------------------------------------------------
(* What the quotient and the remainder of an index are.                    *)
LEMMA DivMod ==
    ASSUME NEW c \in Nat \ {0}, NEW i \in Int
    PROVE  i \div c \in Int /\ i % c \in 0..(c - 1) /\ i = c * (i \div c) + (i % c)
  OBVIOUS

(* Nothing strictly between 0 and c is a multiple of c.                    *)
LEMMA NoMultipleBetween ==
    ASSUME NEW c \in Nat \ {0}, NEW q \in Int, NEW r \in Int, c * q = r, 0 < r, r < c
    PROVE  FALSE
  OBVIOUS

(* Two different indices less than the capacity apart have different slots. *)
LEMMA SlotsDiffer ==
    ASSUME NEW c \in Nat \ {0}, NEW i \in Int, NEW j \in Int, i < j, j < i + c
    PROVE  i % c # j % c
<1> SUFFICES ASSUME i % c = j % c PROVE FALSE
  OBVIOUS
<1> DEFINE p == i \div c
           q == j \div c
<1>1. p \in Int /\ q \in Int /\ i % c \in Int /\ i = c * p + (i % c) /\ j = c * q + (j % c)
  BY DivMod
<1> HIDE DEF p, q
<1>2. q - p \in Int /\ c * (q - p) = j - i
  <2>1. c * (q - p) = c * q - c * p
    BY <1>1
  <2> QED BY <1>1, <2>1
<1> QED BY <1>2, NoMultipleBetween

(* A function on 1..n is a sequence of length n.                           *)
LEMMA FunctionIsSeq ==
    ASSUME NEW V, NEW n \in Nat, NEW s \in [1..n -> V]
    PROVE  s \in Seq(V) /\ Len(s) = n
  OBVIOUS

(* A sequence that agrees with another and has one more element at the end. *)
LEMMA AppendShape ==
    ASSUME NEW V, NEW n \in Nat, NEW s \in [1..n -> V], NEW e \in V,
           NEW t \in [1..(n + 1) -> V],
           \A k \in 1..n : t[k] = s[k], t[n + 1] = e
    PROVE  t = Append(s, e)
<1>1. s \in Seq(V) /\ Len(s) = n
  BY FunctionIsSeq
<1>2. t \in Seq(V) /\ Len(t) = n + 1
  BY FunctionIsSeq
<1>3. Append(s, e) \in Seq(V) /\ Len(Append(s, e)) = n + 1
  BY <1>1, AppendProperties
<1>4. \A k \in 1..(n + 1) : t[k] = Append(s, e)[k]
  BY <1>1, AppendProperties
<1> QED BY <1>2, <1>3, <1>4, SeqEqual

(* A sequence that agrees with another but for its first element.          *)
LEMMA TailShape ==
    ASSUME NEW V, NEW n \in Nat \ {0}, NEW s \in [1..n -> V],
           NEW t \in [1..(n - 1) -> V],
           \A k \in 1..(n - 1) : t[k] = s[k + 1]
    PROVE  t = Tail(s) /\ Head(s) = s[1] /\ s # <<>>
<1>1. s \in Seq(V) /\ Len(s) = n /\ s # <<>>
  OBVIOUS
<1>2. t \in Seq(V) /\ Len(t) = n - 1
  BY FunctionIsSeq
<1>3. Tail(s) \in Seq(V) /\ Len(Tail(s)) = n - 1
      /\ \A k \in 1..(n - 1) : Tail(s)[k] = s[k + 1]
  BY <1>1, HeadTailProperties
<1>4. \A k \in 1..(n - 1) : t[k] = Tail(s)[k]
  BY <1>3
<1>5. Head(s) = s[1]
  BY <1>1
<1> QED BY <1>1, <1>2, <1>3, <1>4, <1>5, SeqEqual

(* A sequence that agrees with another but for its last element.           *)
LEMMA FrontShape ==
    ASSUME NEW V, NEW n \in Nat \ {0}, NEW s \in [1..n -> V],
           NEW t \in [1..(n - 1) -> V],
           \A k \in 1..(n - 1) : t[k] = s[k]
    PROVE  t = SubSeq(s, 1, n - 1) /\ Len(s) = n /\ s # <<>>
<1>1. s \in Seq(V) /\ Len(s) = n /\ s # <<>>
  OBVIOUS
<1>2. t \in Seq(V) /\ Len(t) = n - 1
  BY FunctionIsSeq
<1>3. \A k \in 1..(n - 1) : s[k] \in V
  OBVIOUS
<1>4. SubSeq(s, 1, n - 1) \in Seq(V) /\ Len(SubSeq(s, 1, n - 1)) = n - 1
      /\ \A k \in 1..(n - 1) : SubSeq(s, 1, n - 1)[k] = s[k]
  BY <1>3, SubSeqProperties
<1>5. \A k \in 1..(n - 1) : t[k] = SubSeq(s, 1, n - 1)[k]
  BY <1>4
<1> QED BY <1>1, <1>2, <1>4, <1>5, SeqEqual

(* A sequence with nothing in it is the empty one.                         *)
LEMMA EmptyShape ==
    ASSUME NEW V, NEW s \in [1..0 -> V]
    PROVE  s = <<>>
  OBVIOUS
=============================================================================

--------------------------- MODULE ForkJoinProofs ---------------------------
(***************************************************************************)
(* Proofs about ForkJoin, for every number of workers, frames, roots,      *)
(* switches and exceptions: no frame is lost or resumed twice, the         *)
(* counters account for the children, what a join promises holds, and the  *)
(* frames leave their stacks in FILO order, each by the worker that has    *)
(* the stack.  JoinInv says where the frames are and who waits for whom;   *)
(* StackInv, which rests on it, what is on which stack and whose it is.    *)
(* The counters have 16 bits, so all this is true only as long as the      *)
(* steals of a scope fit them (StealsFit).                                 *)
(***************************************************************************)
EXTENDS ForkJoin, FiniteSetTheorems, TLAPS

(* No scope sees the 65534th steal.                                        *)
StealsFit == \A f \in Frames : frame[f].steal + 1 < CounterMax

Labels == {"run", "construct", "final", "suspend", "idle", "report", "release",
           "selfsteal", "switch"}

Kinds == {"root", "fork", "call"}

(***************************************************************************)
(* Types, without what is on which stack.                                  *)
(***************************************************************************)
FrameRec == [st : {"none", "live", "done"}, parent : 0..MaxFrames,
             kind : Kinds, stack : 0..MaxFrames,
             steal : 0..CounterMax, join : 0..CounterMax,
             exc : {"none", "flag", "set"}, open : BOOLEAN,
             last : 0..MaxFrames, pre : 0..CounterMax]

FrameTypes == frame \in [Frames -> FrameRec]

ControlTypes ==
    /\ worker \in [Workers -> [pc : Labels, f : 0..MaxFrames, arg : Nat, stack : 0..MaxFrames]]
    /\ deque \in [Workers -> Seq(Frames)]
    /\ submit \in [Workers -> SUBSET Frames]
    /\ parked \in SUBSET Frames
    /\ created \in 0..MaxFrames

(***************************************************************************)
(* Where the frames are.  The functions at, who and pos say for each frame *)
(* the one place it is in; the state has it there and nowhere else.        *)
(***************************************************************************)
PlaceTypes(at, who) ==
    /\ at \in [Frames -> {"none", "run", "deque", "submit", "parked", "call"}]
    /\ DOMAIN who = Frames
    /\ \A f \in Frames : at[f] \in {"run", "deque", "submit"} => who[f] \in Workers
    /\ \A f \in Frames : at[f] = "call" => who[f] \in Frames

LiveIsPlaced(at) == \A f \in Frames : at[f] = "none" <=> frame[f].st # "live"

RunPlaces(at, who) ==
    \A w \in Workers : \A f \in Frames : worker[w].f = f <=> at[f] = "run" /\ who[f] = w

DequePlaces(at, who, pos) ==
    /\ \A f \in Frames : at[f] = "deque" => pos[f] \in 1..Len(deque[who[f]])
    /\ \A w \in Workers : \A i \in 1..Len(deque[w]) : \A f \in Frames :
         deque[w][i] = f <=> at[f] = "deque" /\ who[f] = w /\ pos[f] = i

SubmitPlaces(at, who) ==
    \A w \in Workers : \A f \in Frames : f \in submit[w] <=> at[f] = "submit" /\ who[f] = w

ParkPlaces(at) == \A f \in Frames : f \in parked <=> at[f] = "parked"

CallPlaces(at, who) ==
    \A f, c \in Frames :
        (frame[c].st = "live" /\ frame[c].kind = "call" /\ frame[c].parent = f)
        <=> (at[f] = "call" /\ who[f] = c)

Placed(at, who, pos) ==
    /\ PlaceTypes(at, who) /\ LiveIsPlaced(at)
    /\ RunPlaces(at, who) /\ DequePlaces(at, who, pos) /\ SubmitPlaces(at, who)
    /\ ParkPlaces(at) /\ CallPlaces(at, who)

(***************************************************************************)
(* Which frames are whose: a worker that has no frame has none; ids are    *)
(* used in order; parents live as long as a child may need them.           *)
(***************************************************************************)
Control ==
    /\ \A w \in Workers : worker[w].f # None <=> worker[w].pc \in Executing
    /\ \A w \in Workers : worker[w].pc \in {"idle", "report", "release"} => deque[w] = <<>>
    /\ \A w \in Workers : worker[w].pc = "report" =>
         worker[w].arg \in Frames /\ frame[worker[w].arg].st = "live"
    /\ \A w \in Workers : worker[w].pc = "construct" => frame[worker[w].f].kind # "root"

Family ==
    /\ \A f \in Frames : f > created => frame[f].st = "none"
    /\ \A f \in Frames : frame[f].st = "live" /\ frame[f].kind # "root" =>
         frame[f].parent \in Frames /\ frame[frame[f].parent].st = "live"

(***************************************************************************)
(* The deque of a worker: each entry is the parent of the fork in which    *)
(* the next one, or the running frame, was called.  base says which.       *)
(***************************************************************************)
Bases(base) ==
    /\ base \in [Frames -> Frames]
    /\ \A f \in Frames : frame[f].st = "live" =>
         /\ base[f] <= created
         /\ base[f] = IF frame[f].kind = "call" THEN base[frame[f].parent] ELSE f

(* f was called, directly or not, by the fork that p made last.            *)
ForkedBy(base, f, p) ==
    frame[base[f]].kind = "fork" /\ frame[base[f]].parent = p /\ frame[p].last = base[f]

Chained(base) ==
    /\ \A w \in Workers : \A i \in 1..(Len(deque[w]) - 1) :
         ForkedBy(base, deque[w][i + 1], deque[w][i])
    /\ \A w \in Workers : worker[w].f # None /\ deque[w] # <<>> =>
         ForkedBy(base, worker[w].f, deque[w][Len(deque[w])])

(***************************************************************************)
(* The counters, the sync fork and the exceptions.                         *)
(***************************************************************************)
LiveForks(f) == {c \in Live : frame[c].kind = "fork" /\ frame[c].parent = f}

CountedAt(at, f) ==
    frame[f].st = "live" =>
        Outstanding(f) = IF at[f] = "parked" THEN frame[f].join
                         ELSE frame[f].steal - (CounterMax - frame[f].join)
                              + IF at[f] = "deque" THEN 1 ELSE 0

Counted(at) == \A f \in Frames : CountedAt(at, f)

(* A scope without forks has no steals, and no task ends in another one.   *)
ScopeAt(at, f) ==
    frame[f].st = "live" /\ frame[f].open = FALSE =>
        /\ frame[f].steal = 0 /\ frame[f].join = CounterMax
        /\ at[f] # "deque" /\ at[f] # "parked"

Scopes(at) ==
    /\ \A f \in Frames : ScopeAt(at, f)
    /\ \A w \in Workers : worker[w].pc \in {"construct", "final"} => frame[worker[w].f].open = FALSE

LastForkAt(at, f) ==
    frame[f].st = "live" /\ frame[f].last # None =>
        /\ frame[f].last <= created
        /\ IF at[f] = "deque" THEN frame[f].steal = frame[f].pre
           ELSE frame[f].steal > frame[f].pre \/ frame[frame[f].last].st = "done"

LastForks(at) == \A f \in Frames : LastForkAt(at, f)

FlagIsSet ==
    \A f \in Frames : frame[f].st = "live" /\ frame[f].exc = "flag" =>
        \E w \in Workers : /\ worker[w].pc = "construct"
                           /\ frame[worker[w].f].parent = f

Linked(at, who, pos, base) ==
    /\ FrameTypes /\ ControlTypes /\ Control /\ Family /\ Placed(at, who, pos)
    /\ Bases(base) /\ Chained(base)
    /\ Counted(at) /\ Scopes(at) /\ LastForks(at) /\ FlagIsSet

JoinInv == \E at, who, pos, base : Linked(at, who, pos, base)

-----------------------------------------------------------------------------
(* The fields of a frame, apart from the flag.                             *)
LEMMA FieldTypes ==
    ASSUME FrameTypes, NEW f \in Frames
    PROVE  /\ frame[f].st \in {"none", "live", "done"} /\ frame[f].parent \in 0..MaxFrames
           /\ frame[f].kind \in Kinds /\ frame[f].stack \in 0..MaxFrames
           /\ frame[f].steal \in 0..CounterMax /\ frame[f].join \in 0..CounterMax
           /\ frame[f].exc \in {"none", "flag", "set"}
           /\ frame[f].last \in 0..MaxFrames /\ frame[f].pre \in 0..CounterMax
           /\ CounterMax \in Nat /\ MaxFrames \in Nat
BY ConstantsAssumption DEF FrameTypes, FrameRec

(* A counter stays one.                                                    *)
LEMMA WrapType == \A n \in Int : Wrap(n) \in 0..CounterMax /\ (n \in 0..CounterMax => Wrap(n) = n)
BY ConstantsAssumption DEF Wrap

(* The records the actions build are frames.                               *)
LEMMA FreshType ==
    ASSUME NEW p \in 0..MaxFrames, NEW k \in Kinds, NEW s \in 0..MaxFrames
    PROVE  Fresh(p, k, s) \in FrameRec
BY ConstantsAssumption DEF Fresh, None, FrameRec

(* Setting m_steal or m_join leaves a frame.                               *)
LEMMA SetCounter ==
    ASSUME NEW r \in FrameRec, NEW n \in 0..CounterMax
    PROVE  [r EXCEPT !.steal = n] \in FrameRec /\ [r EXCEPT !.join = n] \in FrameRec
BY DEF FrameRec

(* Destroying a frame leaves its control block well formed.                *)
LEMMA SetDone ==
    ASSUME NEW r \in FrameRec
    PROVE  [r EXCEPT !.st = "done"] \in FrameRec
BY DEF FrameRec

(* So does setting m_except and m_eptr.                                    *)
LEMMA SetExc ==
    ASSUME NEW r \in FrameRec, NEW e \in {"none", "flag", "set"}
    PROVE  [r EXCEPT !.exc = e] \in FrameRec
BY DEF FrameRec

(* So does what fork_awaitable notes in the parent.                        *)
LEMMA SetFork ==
    ASSUME NEW r \in FrameRec, NEW n \in 0..CounterMax, NEW l \in 0..MaxFrames
    PROVE  [r EXCEPT !.open = TRUE, !.last = l, !.pre = n] \in FrameRec
BY DEF FrameRec

(* So does await_resume of a join.                                         *)
LEMMA SetJoined ==
    ASSUME NEW r \in FrameRec, NEW n \in 0..CounterMax, NEW m \in 0..CounterMax, NEW l \in 0..MaxFrames
    PROVE  /\ [r EXCEPT !.exc = "none", !.open = FALSE, !.last = l] \in FrameRec
           /\ [r EXCEPT !.steal = n, !.join = m] \in FrameRec
BY DEF FrameRec

(* The frame after its join, with and without frame::reset().              *)
LEMMA JoinedType ==
    ASSUME NEW r \in FrameRec
    PROVE  AfterJoin(r) \in FrameRec /\ Reset(r) \in FrameRec /\ AfterJoin(Reset(r)) \in FrameRec
<1>1. 0 \in 0..CounterMax /\ CounterMax \in 0..CounterMax /\ 0 \in 0..MaxFrames
  BY ConstantsAssumption
<1>2. ASSUME NEW q \in FrameRec PROVE AfterJoin(q) \in FrameRec
  BY <1>1, SetJoined DEF AfterJoin, None
<1>3. Reset(r) \in FrameRec
  BY <1>1, SetJoined DEF Reset
<1> QED BY <1>2, <1>3

(* What the invariant says of the frames at hand.                          *)
Whereabouts(at, who, pos) ==
    /\ created \in 0..MaxFrames /\ MaxFrames \in Nat /\ Frames = 1..MaxFrames
    /\ \A w \in Workers : worker[w].f \in Frames \union {0}
    /\ \A w \in Workers : worker[w].pc \in Executing <=> worker[w].f \in Frames
    /\ \A w \in Workers : worker[w].f \in Frames =>
         /\ at[worker[w].f] = "run" /\ who[worker[w].f] = w
         /\ frame[worker[w].f].st = "live"
    /\ \A w \in Workers : worker[w].pc = "report" =>
         worker[w].arg \in Frames /\ frame[worker[w].arg].st = "live"
    /\ \A w \in Workers :
         /\ Len(deque[w]) \in Nat
         /\ deque[w] = <<>> <=> Len(deque[w]) = 0
         /\ \A i \in 1..Len(deque[w]) :
              /\ deque[w][i] \in Frames /\ frame[deque[w][i]].st = "live"
              /\ at[deque[w][i]] = "deque" /\ who[deque[w][i]] = w /\ pos[deque[w][i]] = i
         /\ deque[w] # <<>> => /\ Head(deque[w]) = deque[w][1]
                               /\ Last(deque[w]) = deque[w][Len(deque[w])]
                               /\ 1 \in 1..Len(deque[w])
                               /\ Len(deque[w]) \in 1..Len(deque[w])

(* A worker's frame, the deques and the reporters are where they seem.     *)
LEMMA Here ==
    ASSUME NEW at, NEW who, NEW pos, FrameTypes, ControlTypes, Control, Family, Placed(at, who, pos)
    PROVE  Whereabouts(at, who, pos)
<1>1. created \in 0..MaxFrames /\ MaxFrames \in Nat /\ Frames = 1..MaxFrames
  BY ConstantsAssumption DEF ControlTypes, Frames
<1>2. /\ \A w \in Workers : worker[w].f \in Frames \union {0}
      /\ \A w \in Workers : worker[w].pc \in Executing <=> worker[w].f \in Frames
  BY <1>1 DEF ControlTypes, Control, None
<1>3. \A w \in Workers : worker[w].f \in Frames =>
         /\ at[worker[w].f] = "run" /\ who[worker[w].f] = w
         /\ frame[worker[w].f].st = "live"
  BY <1>2 DEF Placed, RunPlaces, LiveIsPlaced
<1>4. ASSUME NEW w \in Workers
      PROVE  /\ Len(deque[w]) \in Nat
             /\ deque[w] = <<>> <=> Len(deque[w]) = 0
             /\ \A i \in 1..Len(deque[w]) : deque[w][i] \in Frames
             /\ deque[w] # <<>> => /\ Head(deque[w]) = deque[w][1]
                                   /\ Last(deque[w]) = deque[w][Len(deque[w])]
                                   /\ 1 \in 1..Len(deque[w])
                                   /\ Len(deque[w]) \in 1..Len(deque[w])
  <2>1. deque[w] \in Seq(Frames)
    BY DEF ControlTypes
  <2> QED BY <2>1 DEF Last
<1>5. ASSUME NEW w \in Workers, NEW i \in 1..Len(deque[w])
      PROVE  /\ frame[deque[w][i]].st = "live"
             /\ at[deque[w][i]] = "deque" /\ who[deque[w][i]] = w /\ pos[deque[w][i]] = i
  BY <1>4, <1>5 DEF Placed, DequePlaces, LiveIsPlaced
<1> QED BY <1>1, <1>2, <1>3, <1>4, <1>5 DEF Control, Whereabouts

-----------------------------------------------------------------------------
(* The children that a frame waits for, and how their number changes.      *)
LEMMA OutFinite ==
    ASSUME NEW g
    PROVE  /\ IsFiniteSet(LiveForks(g)) /\ Cardinality(LiveForks(g)) \in Nat
           /\ IsFiniteSet(Reporters(g)) /\ Cardinality(Reporters(g)) \in Nat
           /\ Outstanding(g) = Cardinality(LiveForks(g)) + Cardinality(Reporters(g))
           /\ Outstanding(g) \in Nat
<1>1. IsFiniteSet(LiveForks(g))
  <2>1. LiveForks(g) \subseteq 1..MaxFrames /\ MaxFrames \in Int /\ 1 \in Int
    BY ConstantsAssumption DEF LiveForks, Live, Frames
  <2> QED BY <2>1, FS_Interval, FS_Subset
<1>2. IsFiniteSet(Reporters(g))
  <2>1. Reporters(g) \subseteq Workers
    BY DEF Reporters
  <2> QED BY <2>1, FS_Subset, ConstantsAssumption
<1>3. Cardinality(LiveForks(g)) \in Nat /\ Cardinality(Reporters(g)) \in Nat
  BY <1>1, <1>2, FS_CardinalityType
<1>4. Outstanding(g) = Cardinality(LiveForks(g)) + Cardinality(Reporters(g))
  BY DEF Outstanding, LiveForks
<1> QED BY <1>1, <1>2, <1>3, <1>4

(* Outstanding in the next state.                                          *)
LEMMA OutNext ==
    ASSUME NEW g
    PROVE  Outstanding(g)' = Cardinality(LiveForks(g)') + Cardinality(Reporters(g)')
BY DEF Outstanding, LiveForks

(* A child that runs or reports is outstanding; two of them are two.       *)
LEMMA OutSome ==
    ASSUME NEW g
    PROVE  /\ \A c \in LiveForks(g) : Outstanding(g) >= 1
           /\ \A w \in Reporters(g) : Outstanding(g) >= 1
           /\ \A c \in LiveForks(g) : \A w \in Reporters(g) : Outstanding(g) >= 2
           /\ \A c, d \in LiveForks(g) : c # d => Outstanding(g) >= 2
<1> USE OutFinite
<1>1. ASSUME NEW c \in LiveForks(g) PROVE Cardinality(LiveForks(g)) >= 1
  BY <1>1, FS_EmptySet
<1>2. ASSUME NEW w \in Reporters(g) PROVE Cardinality(Reporters(g)) >= 1
  BY <1>2, FS_EmptySet
<1>3. ASSUME NEW c \in LiveForks(g), NEW d \in LiveForks(g), c # d
      PROVE  Cardinality(LiveForks(g)) >= 2
  <2>1. /\ IsFiniteSet(LiveForks(g) \ {c})
        /\ Cardinality(LiveForks(g) \ {c}) = Cardinality(LiveForks(g)) - 1
    BY FS_RemoveElement
  <2>2. d \in LiveForks(g) \ {c}
    BY <1>3
  <2>3. Cardinality(LiveForks(g) \ {c}) # 0
    BY <2>1, <2>2, FS_EmptySet
  <2> QED BY <2>1, <2>3, FS_CardinalityType
<1> QED BY <1>1, <1>2, <1>3

(* How Outstanding follows the children that start, end and report.        *)
LEMMA OutMoves ==
    ASSUME NEW g, NEW A, NEW R, LiveForks(g)' = A, Reporters(g)' = R
    PROVE  /\ A = LiveForks(g) /\ R = Reporters(g) => Outstanding(g)' = Outstanding(g)
           /\ \A c : A = LiveForks(g) \union {c} /\ c \notin LiveForks(g) /\ R = Reporters(g) =>
                Outstanding(g)' = Outstanding(g) + 1
           /\ \A c \in LiveForks(g) : A = LiveForks(g) \ {c} /\ R = Reporters(g) =>
                Outstanding(g)' = Outstanding(g) - 1
           /\ \A c \in LiveForks(g) : \A w : A = LiveForks(g) \ {c}
                /\ R = Reporters(g) \union {w} /\ w \notin Reporters(g) =>
                     Outstanding(g)' = Outstanding(g)
           /\ \A w \in Reporters(g) : A = LiveForks(g) /\ R = Reporters(g) \ {w} =>
                Outstanding(g)' = Outstanding(g) - 1
<1> USE OutFinite, OutNext
<1>1. A = LiveForks(g) /\ R = Reporters(g) => Outstanding(g)' = Outstanding(g)
  OBVIOUS
<1>2. ASSUME NEW c, A = LiveForks(g) \union {c}, c \notin LiveForks(g)
      PROVE  Cardinality(A) = Cardinality(LiveForks(g)) + 1
  BY <1>2, FS_AddElement
<1>3. ASSUME NEW c \in LiveForks(g), A = LiveForks(g) \ {c}
      PROVE  Cardinality(A) = Cardinality(LiveForks(g)) - 1
  BY <1>3, FS_RemoveElement
<1>4. ASSUME NEW w, R = Reporters(g) \union {w}, w \notin Reporters(g)
      PROVE  Cardinality(R) = Cardinality(Reporters(g)) + 1
  BY <1>4, FS_AddElement
<1>5. ASSUME NEW w \in Reporters(g), R = Reporters(g) \ {w}
      PROVE  Cardinality(R) = Cardinality(Reporters(g)) - 1
  BY <1>5, FS_RemoveElement
<1> QED BY <1>1, <1>2, <1>3, <1>4, <1>5

-----------------------------------------------------------------------------
(* How places change with a deque: not at all, at its end, at its head.    *)
SameOnDeque(at, who, pos, at1, who1, pos1, S) ==
    \A g \in S : /\ at1[g] = "deque" <=> at[g] = "deque"
                 /\ at[g] = "deque" => who1[g] = who[g] /\ pos1[g] = pos[g]

(* A deque that does not change keeps its places.                          *)
LEMMA DequeSame ==
    ASSUME NEW at, NEW who, NEW pos, DequePlaces(at, who, pos),
           NEW at1, NEW who1, NEW pos1, SameOnDeque(at, who, pos, at1, who1, pos1, Frames),
           deque' = deque
    PROVE  DequePlaces(at1, who1, pos1)'
BY DEF DequePlaces, SameOnDeque

(* push(): the new entry is the last one.                                  *)
LEMMA DequePush ==
    ASSUME NEW at, NEW who, NEW pos, PlaceTypes(at, who), DequePlaces(at, who, pos), ControlTypes,
           NEW w \in Workers, NEW p \in Frames, at[p] # "deque",
           deque' = [deque EXCEPT ![w] = Append(@, p)],
           NEW at1, NEW who1, NEW pos1, SameOnDeque(at, who, pos, at1, who1, pos1, Frames \ {p}),
           at1[p] = "deque", who1[p] = w, pos1[p] = Len(deque[w]) + 1
    PROVE  DequePlaces(at1, who1, pos1)'
<1>d. /\ \A v \in Workers : Len(deque[v]) \in Nat
      /\ \A v \in Workers \ {w} : deque'[v] = deque[v]
      /\ Len(deque'[w]) = Len(deque[w]) + 1
      /\ \A i \in 1..Len(deque[w]) : deque'[w][i] = deque[w][i]
      /\ deque'[w][Len(deque[w]) + 1] = p
  BY DEF ControlTypes
<1>1. ASSUME NEW g \in Frames, at1[g] = "deque" PROVE pos1[g] \in 1..Len(deque'[who1[g]])
  BY <1>1, <1>d DEF SameOnDeque, DequePlaces, PlaceTypes
<1>2. ASSUME NEW v \in Workers, NEW i \in 1..Len(deque'[v]), NEW g \in Frames
      PROVE  deque'[v][i] = g <=> at1[g] = "deque" /\ who1[g] = v /\ pos1[g] = i
  <2>1. CASE i \in 1..Len(deque[v])
    <3>1. deque'[v][i] = deque[v][i]
      BY <2>1, <1>d
    <3>2. CASE g = p
      BY <3>1, <3>2, <2>1, <1>d DEF DequePlaces
    <3>3. CASE g # p
      BY <3>1, <3>3, <2>1 DEF DequePlaces, SameOnDeque
    <3> QED BY <3>2, <3>3
  <2>2. CASE i \notin 1..Len(deque[v])
    <3>1. v = w /\ i = Len(deque[w]) + 1 /\ deque'[v][i] = p
      BY <2>2, <1>d
    <3>2. ASSUME g # p, at1[g] = "deque", who1[g] = w PROVE pos1[g] # i
      BY <3>1, <3>2, <1>d DEF DequePlaces, SameOnDeque, PlaceTypes
    <3> QED BY <3>1, <3>2
  <2> QED BY <2>1, <2>2
<1> QED BY <1>1, <1>2 DEF DequePlaces

(* All of a sequence but its last element.                                 *)
LEMMA FrontOf ==
    ASSUME NEW S, NEW s \in Seq(S), s # <<>>
    PROVE  /\ Front(s) \in Seq(S) /\ Len(s) \in 1..Len(s) /\ Len(Front(s)) = Len(s) - 1
           /\ \A i \in 1..(Len(s) - 1) : Front(s)[i] = s[i]
<1>1. Len(s) \in Nat /\ Len(s) # 0
  OBVIOUS
<1>2. Front(s) = SubSeq(s, 1, Len(s) - 1)
  BY DEF Front
<1>3. /\ SubSeq(s, 1, Len(s) - 1) = [i \in 1..(Len(s) - 1) |-> s[i]]
  BY <1>1
<1>4. \A i \in 1..(Len(s) - 1) : s[i] \in S
  BY <1>1
<1> DEFINE q == [i \in 1..(Len(s) - 1) |-> s[i]]
<1>5. q \in [1..(Len(s) - 1) -> S]
  BY <1>4
<1>6. q \in Seq(S) /\ Len(q) = Len(s) - 1
  BY <1>1, <1>5
<1>7. Front(s) = q /\ \A i \in 1..(Len(s) - 1) : q[i] = s[i]
  BY <1>2, <1>3
<1> HIDE DEF q
<1> QED BY <1>1, <1>6, <1>7

(* The newest entry of w's deque leaves it.                                *)
LEMMA DequePop ==
    ASSUME NEW at, NEW who, NEW pos, PlaceTypes(at, who), DequePlaces(at, who, pos), ControlTypes,
           NEW w \in Workers, deque[w] # <<>>, NEW p \in Frames, p = deque[w][Len(deque[w])],
           deque' = [deque EXCEPT ![w] = Front(@)],
           NEW at1, NEW who1, NEW pos1, SameOnDeque(at, who, pos, at1, who1, pos1, Frames \ {p}),
           at1[p] # "deque"
    PROVE  DequePlaces(at1, who1, pos1)'
<1>d. /\ \A v \in Workers : Len(deque[v]) \in Nat
      /\ \A v \in Workers \ {w} : deque'[v] = deque[v]
      /\ Len(deque[w]) \in 1..Len(deque[w])
      /\ Len(deque'[w]) = Len(deque[w]) - 1
      /\ \A i \in 1..(Len(deque[w]) - 1) : deque'[w][i] = deque[w][i]
  <2>1. deque \in [Workers -> Seq(Frames)]
    BY DEF ControlTypes
  <2> QED BY <2>1, FrontOf
<1>p. at[p] = "deque" /\ who[p] = w /\ pos[p] = Len(deque[w])
  BY <1>d DEF DequePlaces
<1>1. ASSUME NEW g \in Frames, at1[g] = "deque" PROVE pos1[g] \in 1..Len(deque'[who1[g]])
  <2>1. g # p /\ at[g] = "deque" /\ who1[g] = who[g] /\ pos1[g] = pos[g] /\ who[g] \in Workers
    BY <1>1 DEF SameOnDeque, PlaceTypes
  <2>2. pos[g] \in 1..Len(deque[who[g]]) /\ deque[who[g]][pos[g]] = g
    BY <2>1 DEF DequePlaces
  <2>3. CASE who[g] = w
    BY <2>1, <2>2, <2>3, <1>d
  <2> QED BY <2>1, <2>2, <2>3, <1>d
<1>2. ASSUME NEW v \in Workers, NEW i \in 1..Len(deque'[v]), NEW g \in Frames
      PROVE  deque'[v][i] = g <=> at1[g] = "deque" /\ who1[g] = v /\ pos1[g] = i
  <2>1. i \in 1..Len(deque[v]) /\ deque'[v][i] = deque[v][i] /\ (v = w => i # Len(deque[w]))
    BY <1>d
  <2>2. CASE g = p
    BY <2>1, <2>2, <1>p DEF DequePlaces
  <2>3. CASE g # p
    BY <2>1, <2>3 DEF DequePlaces, SameOnDeque
  <2> QED BY <2>2, <2>3
<1> QED BY <1>1, <1>2 DEF DequePlaces

(* The oldest entry of v's deque leaves it.                                *)
DownOnDeque(at, who, pos, at1, who1, pos1, S, v) ==
    \A g \in S : /\ at1[g] = "deque" <=> at[g] = "deque"
                 /\ at[g] = "deque" => /\ who1[g] = who[g]
                                       /\ pos1[g] = IF who[g] = v THEN pos[g] - 1 ELSE pos[g]

(* steal(): all other entries move one down.                               *)
LEMMA DequeSteal ==
    ASSUME NEW at, NEW who, NEW pos, PlaceTypes(at, who), DequePlaces(at, who, pos), ControlTypes,
           NEW v \in Workers, deque[v] # <<>>, NEW p \in Frames, p = deque[v][1],
           deque' = [deque EXCEPT ![v] = Tail(@)],
           NEW at1, NEW who1, NEW pos1,
           DownOnDeque(at, who, pos, at1, who1, pos1, Frames \ {p}, v), at1[p] # "deque"
    PROVE  DequePlaces(at1, who1, pos1)'
<1>d. /\ \A u \in Workers : Len(deque[u]) \in Nat
      /\ \A u \in Workers \ {v} : deque'[u] = deque[u]
      /\ 1 \in 1..Len(deque[v])
      /\ Len(deque'[v]) = Len(deque[v]) - 1
      /\ \A i \in 1..(Len(deque[v]) - 1) : deque'[v][i] = deque[v][i + 1]
  BY DEF ControlTypes
<1>p. at[p] = "deque" /\ who[p] = v /\ pos[p] = 1
  BY <1>d DEF DequePlaces
<1>1. ASSUME NEW g \in Frames, at1[g] = "deque" PROVE pos1[g] \in 1..Len(deque'[who1[g]])
  <2>1. g # p /\ at[g] = "deque" /\ who1[g] = who[g] /\ who[g] \in Workers
        /\ pos1[g] = IF who[g] = v THEN pos[g] - 1 ELSE pos[g]
    BY <1>1 DEF PlaceTypes, DownOnDeque
  <2>2. pos[g] \in 1..Len(deque[who[g]]) /\ deque[who[g]][pos[g]] = g
    BY <2>1 DEF DequePlaces
  <2>3. CASE who[g] = v
    BY <2>1, <2>2, <2>3, <1>d
  <2> QED BY <2>1, <2>2, <2>3, <1>d
<1>2. ASSUME NEW u \in Workers, NEW i \in 1..Len(deque'[u]), NEW g \in Frames
      PROVE  deque'[u][i] = g <=> at1[g] = "deque" /\ who1[g] = u /\ pos1[g] = i
  <2>1. CASE u = v
    <3>1. i + 1 \in 1..Len(deque[v]) /\ deque'[v][i] = deque[v][i + 1] /\ i # 0
      BY <1>d, <2>1
    <3>2. CASE g = p
      BY <2>1, <3>1, <3>2, <1>p DEF DequePlaces
    <3>3. ASSUME g # p, at[g] = "deque", who[g] = v PROVE pos[g] \in Int
      BY <3>3, <1>d DEF DequePlaces
    <3>4. CASE g # p
      BY <2>1, <3>1, <3>3, <3>4 DEF DequePlaces, DownOnDeque
    <3> QED BY <3>2, <3>4
  <2>2. CASE u # v
    <3>1. i \in 1..Len(deque[u]) /\ deque'[u][i] = deque[u][i]
      BY <1>d, <2>2
    <3> QED BY <2>2, <3>1, <1>p DEF DequePlaces, DownOnDeque
  <2> QED BY <2>1, <2>2
<1> QED BY <1>1, <1>2 DEF DequePlaces

(* fork_awaitable, frame by frame.                                         *)
ForkFlow(w, p, c) ==
    /\ worker[w].f = p /\ worker[w].pc = "run" /\ c = created + 1 /\ created' = c /\ c # p
    /\ frame'[c].st = "live" /\ frame'[c].parent = p /\ frame'[c].kind = "fork"
    /\ frame'[c].steal = 0 /\ frame'[c].join = CounterMax /\ frame'[c].exc = "none"
    /\ frame'[c].last = None
    /\ frame'[p].st = frame[p].st /\ frame'[p].parent = frame[p].parent
    /\ frame'[p].kind = frame[p].kind /\ frame'[p].steal = frame[p].steal
    /\ frame'[p].join = frame[p].join /\ frame'[p].exc = frame[p].exc
    /\ frame'[p].last = c /\ frame'[p].pre = frame[p].steal
    /\ \A g \in Frames \ {p, c} : frame'[g] = frame[g]
    /\ \A v \in Workers \ {w} : worker'[v] = worker[v]
    /\ worker'[w].pc = "run" /\ worker'[w].f = c
    /\ deque' = [deque EXCEPT ![w] = Append(@, p)]
    /\ UNCHANGED <<submit, parked>>

(* What Fork does to the frames, the workers and the deques.               *)
LEMMA ForkFlows ==
    ASSUME NEW at, NEW who, NEW pos, FrameTypes, ControlTypes, Control, Family, Placed(at, who, pos),
           NEW w \in Workers, Fork(w)
    PROVE  \E p, c \in Frames :
             ForkFlow(w, p, c) /\ frame'[c].open = FALSE /\ frame'[p].open = TRUE
<1> DEFINE c == created + 1
           p == worker[w].f
<1>1. c \in Frames /\ p \in Frames /\ c # p
  <2>1. worker[w].pc \in Executing /\ created < MaxFrames
    BY DEF Fork, Executing
  <2>2. Whereabouts(at, who, pos)
    BY Here
  <2>3. p \in Frames /\ frame[p].st = "live" /\ c \in Frames
    BY <2>1, <2>2 DEF Whereabouts
  <2>4. frame[c].st = "none"
    <3>1. c > created
      BY <2>2 DEF Whereabouts
    <3> QED BY <3>1, <2>3 DEF Family
  <2> QED BY <2>3, <2>4
<1>2. /\ worker[w].f = p /\ worker[w].pc = "run" /\ created' = c /\ submit' = submit /\ parked' = parked
      /\ deque' = [deque EXCEPT ![w] = Append(@, p)]
  BY DEF Fork
<1>3. /\ \A v \in Workers \ {w} : worker'[v] = worker[v]
      /\ worker'[w].pc = "run" /\ worker'[w].f = c
  BY DEF Fork, RunOn, ControlTypes
<1>4. PICK s : frame' = [frame EXCEPT ![c] = Fresh(p, "fork", s), ![p].open = TRUE, ![p].last = c,
                                      ![p].pre = frame[p].steal]
  BY Zenon DEF Fork
<1>5. /\ \A g \in Frames \ {p, c} : frame'[g] = frame[g]
      /\ frame'[c] = Fresh(p, "fork", s)
      /\ frame'[p] = [frame[p] EXCEPT !.open = TRUE, !.last = c, !.pre = frame[p].steal]
      /\ frame[p] \in FrameRec
  BY <1>1, <1>4, Zenon DEF FrameTypes
<1>6. /\ frame'[p].st = frame[p].st /\ frame'[p].parent = frame[p].parent
      /\ frame'[p].kind = frame[p].kind /\ frame'[p].steal = frame[p].steal
      /\ frame'[p].join = frame[p].join /\ frame'[p].exc = frame[p].exc
      /\ frame'[p].last = c /\ frame'[p].pre = frame[p].steal /\ frame'[p].open = TRUE
  BY <1>5 DEF FrameRec
<1>7. /\ frame'[c].st = "live" /\ frame'[c].parent = p /\ frame'[c].kind = "fork"
      /\ frame'[c].steal = 0 /\ frame'[c].join = CounterMax /\ frame'[c].exc = "none"
      /\ frame'[c].last = None /\ frame'[c].open = FALSE
  BY <1>5 DEF Fresh
<1>8. ForkFlow(w, p, c)
  BY <1>1, <1>2, <1>3, <1>5, <1>6, <1>7 DEF ForkFlow
<1> HIDE DEF c, p
<1> QED BY <1>1, <1>6, <1>7, <1>8

(* After a fork the child runs and the parent is on the deque.             *)
LEMMA ForkKeepsPlaces ==
    ASSUME NEW at, NEW who, NEW pos, FrameTypes, ControlTypes, Control, Family, Placed(at, who, pos),
           NEW w \in Workers, NEW p \in Frames, NEW c \in Frames, ForkFlow(w, p, c),
           NEW at1, at1 = [g \in Frames |-> IF g = c THEN "run" ELSE IF g = p THEN "deque" ELSE at[g]],
           NEW who1, who1 = [g \in Frames |-> IF g = c THEN w ELSE who[g]],
           NEW pos1, pos1 = [g \in Frames |-> IF g = p THEN Len(deque[w]) + 1 ELSE pos[g]]
    PROVE  Placed(at1, who1, pos1)'
<1>h. /\ frame[c].st = "none" /\ at[c] = "none" /\ at[p] = "run" /\ who[p] = w /\ c # p
      /\ frame[p].st = "live" /\ worker[w].f = p
  BY Here DEF ForkFlow, Family, Placed, LiveIsPlaced, Whereabouts
<1>1. PlaceTypes(at1, who1)'
  BY <1>h DEF Placed, PlaceTypes
<1>2. LiveIsPlaced(at1)'
  BY <1>h DEF Placed, LiveIsPlaced, ForkFlow
<1>3. RunPlaces(at1, who1)'
  BY <1>h DEF Placed, RunPlaces, ForkFlow
<1>4. DequePlaces(at1, who1, pos1)'
  <2>1. SameOnDeque(at, who, pos, at1, who1, pos1, Frames \ {p})
    BY <1>h DEF SameOnDeque
  <2> QED BY <2>1, <1>h, DequePush DEF Placed, ForkFlow
<1>5. SubmitPlaces(at1, who1)'
  BY <1>h DEF Placed, SubmitPlaces, ForkFlow
<1>6. ParkPlaces(at1)'
  BY <1>h DEF Placed, ParkPlaces, ForkFlow
<1>7. CallPlaces(at1, who1)'
  BY <1>h DEF Placed, CallPlaces, ForkFlow
<1> QED BY <1>1, <1>2, <1>3, <1>4, <1>5, <1>6, <1>7 DEF Placed

-----------------------------------------------------------------------------
(* Every step leaves the frames well formed.                               *)
LEMMA FrameTypesStep ==
    ASSUME NEW at, NEW who, NEW pos, FrameTypes, ControlTypes, Control, Family, Placed(at, who, pos),
           [Next]_vars
    PROVE  FrameTypes'
<1> USE DEF FrameTypes
<1>a. /\ created \in 0..MaxFrames /\ MaxFrames \in Nat /\ Frames = 1..MaxFrames
      /\ \A f \in Frames : frame[f] \in FrameRec
      /\ \A w \in Workers : worker[w].stack \in 0..MaxFrames
  BY ConstantsAssumption DEF ControlTypes, Frames
<1>k. /\ \A w \in Workers : worker[w].pc \in Executing =>
            worker[w].f \in Frames /\ frame[worker[w].f].st = "live"
      /\ \A w \in Workers : worker[w].pc = "report" => worker[w].arg \in Frames
      /\ \A w \in Workers : deque[w] # <<>> => Head(deque[w]) \in Frames /\ Last(deque[w]) \in Frames
  BY Here DEF Whereabouts
<1>s. \A w \in Workers : \A f \in Frames : StackFor(w, f) \in 0..MaxFrames
  BY <1>a DEF StackFor
<1>1. ASSUME NEW w \in Workers, Submit(w) PROVE FrameTypes'
  <2>1. created + 1 \in Frames /\ None \in 0..MaxFrames /\ created + 1 \in 0..MaxFrames
    BY <1>1, <1>a DEF Submit, None
  <2> QED BY <1>1, <2>1, FreshType DEF Submit, Kinds
<1>2. ASSUME NEW w \in Workers, NEW f \in submit[w], ResumeSubmitted(w, f) PROVE FrameTypes'
  BY <1>2 DEF ResumeSubmitted
<1>3. ASSUME NEW f \in Frames, frame' = [frame EXCEPT ![f].steal = Wrap(@ + 1)] PROVE FrameTypes'
  <2>1. Wrap(frame[f].steal + 1) \in 0..CounterMax
    BY FieldTypes, WrapType
  <2>2. frame' = [frame EXCEPT ![f] = [frame[f] EXCEPT !.steal = Wrap(frame[f].steal + 1)]]
    BY <1>3
  <2> QED BY <1>a, <2>1, <2>2, SetCounter
<1>4. ASSUME NEW w \in Workers, Fork(w) PROVE FrameTypes'
  <2> DEFINE c == created + 1
             p == worker[w].f
  <2>0. worker[w].pc \in Executing /\ created < MaxFrames
    BY <1>4 DEF Fork, Executing
  <2>1. c \in Frames /\ p \in Frames /\ p \in 0..MaxFrames /\ c \in 0..MaxFrames
    BY <2>0, <1>a, <1>k
  <2>2. Fresh(p, "fork", StackFor(w, c)) \in FrameRec
    BY <2>1, <1>s, FreshType DEF Kinds
  <2> DEFINE fr == [frame EXCEPT ![c] = Fresh(p, "fork", StackFor(w, c))]
  <2>3. fr \in [Frames -> FrameRec] /\ frame[p].steal \in 0..CounterMax
    <3>1. fr \in [Frames -> FrameRec]
      BY <2>1, <2>2
    <3>2. frame[p].steal \in 0..CounterMax
      BY <2>1, FieldTypes
    <3> QED BY <3>1, <3>2
  <2>4. frame' = [fr EXCEPT ![p] = [fr[p] EXCEPT !.open = TRUE, !.last = c, !.pre = frame[p].steal]]
    BY <1>4, <2>1, <2>3 DEF Fork
  <2>5. [fr[p] EXCEPT !.open = TRUE, !.last = c, !.pre = frame[p].steal] \in FrameRec
    BY <2>1, <2>3, SetFork
  <2> QED BY <2>1, <2>3, <2>4, <2>5
<1>5. ASSUME NEW w \in Workers, Call(w) PROVE FrameTypes'
  <2>1. created + 1 \in Frames /\ worker[w].f \in 0..MaxFrames
    BY <1>5, <1>a, <1>k DEF Call, Executing
  <2> QED BY <1>5, <2>1, <1>s, FreshType DEF Call, Kinds
<1>6. ASSUME NEW w \in Workers, Return(w) \/ ReportReleases(w) \/ JoinNotReady(w) \/ SwitchReleases(w)
      PROVE  FrameTypes'
  BY <1>6 DEF Return, ReportReleases, JoinNotReady, SwitchReleases
<1>7. ASSUME NEW w \in Workers, CaptureException(w) \/ ConstructException(w) PROVE FrameTypes'
  <2> DEFINE p == frame[worker[w].f].parent
  <2>1. p \in Frames
    BY <1>7, <1>k, Zenon DEF CaptureException, ConstructException, Family, Control, Executing
  <2>2. PICK e \in {"none", "flag", "set"} : frame' = [frame EXCEPT ![p].exc = e]
    <3>1. CASE CaptureException(w)
      BY <3>1, <2>1, FieldTypes, Zenon DEF CaptureException
    <3>2. CASE ConstructException(w)
      BY <3>2, <2>1 DEF ConstructException
    <3> QED BY <1>7, <3>1, <3>2, Zenon
  <2>3. frame' = [frame EXCEPT ![p] = [frame[p] EXCEPT !.exc = e]]
    BY <2>1, <2>2
  <2> HIDE DEF p
  <2> QED BY <2>1, <2>3, <1>a, SetExc, Zenon
<1>8. ASSUME NEW f \in Frames, frame' = [frame EXCEPT ![f].st = "done"] PROVE FrameTypes'
  <2>1. frame' = [frame EXCEPT ![f] = [frame[f] EXCEPT !.st = "done"]]
    BY <1>8
  <2> QED BY <1>a, <2>1, SetDone
<1>9. ASSUME NEW f \in Frames, NEW p \in Frames, NEW e \in {"none", "flag", "set"},
             frame' = [frame EXCEPT ![f].st = "done", ![p].exc = e]
      PROVE  FrameTypes'
  <2> DEFINE fr == [frame EXCEPT ![f] = [frame[f] EXCEPT !.st = "done"]]
  <2>1. fr \in [Frames -> FrameRec]
    BY <1>a, SetDone
  <2>2. frame' = [fr EXCEPT ![p] = [fr[p] EXCEPT !.exc = e]]
    BY <1>9, <2>1
  <2> HIDE DEF fr
  <2> QED BY <2>1, <2>2, SetExc
<1>10. ASSUME NEW w \in Workers, FinalRoot(w) \/ FinalForkStolen(w) PROVE FrameTypes'
  BY <1>10, <1>8, <1>k DEF FinalRoot, FinalForkStolen, Executing
<1>11. ASSUME NEW w \in Workers, FinalCall(w) PROVE FrameTypes'
  <2> DEFINE f == worker[w].f
             p == frame[f].parent
  <2>1. f \in Frames /\ p \in Frames
    BY <1>11, <1>k DEF FinalCall, Executing, Family
  <2>2. PICK eager \in BOOLEAN :
          frame' = [frame EXCEPT ![f].st = "done", ![p].exc = IF Rethrows(w, p, eager) THEN "none" ELSE @]
    BY <1>11, Zenon DEF FinalCall
  <2>3. PICK e \in {"none", "flag", "set"} : e = IF Rethrows(w, p, eager) THEN "none" ELSE frame[p].exc
    BY <2>1, FieldTypes
  <2>4. frame' = [frame EXCEPT ![f].st = "done", ![p].exc = e]
    BY <2>1, <2>2, <2>3
  <2> QED BY <2>1, <2>4, <1>9, Zenon
<1>12. ASSUME NEW w \in Workers, FinalForkPop(w) PROVE FrameTypes'
  <2> DEFINE f == worker[w].f
             p == Last(deque[w])
  <2>1. f \in Frames /\ p \in Frames
    BY <1>12, <1>k DEF FinalForkPop, Executing
  <2>2. PICK sync \in BOOLEAN :
          frame' = [frame EXCEPT ![f].st = "done", ![p].exc = IF Rethrows(w, p, sync) THEN "none" ELSE @]
    BY <1>12 DEF FinalForkPop
  <2>3. PICK e \in {"none", "flag", "set"} : e = IF Rethrows(w, p, sync) THEN "none" ELSE frame[p].exc
    BY <2>1, FieldTypes
  <2>4. frame' = [frame EXCEPT ![f].st = "done", ![p].exc = e]
    BY <2>1, <2>2, <2>3
  <2> QED BY <2>1, <2>4, <1>9
<1>13. ASSUME NEW f \in Frames, NEW n \in Int, frame' = [frame EXCEPT ![f].join = Wrap(n)]
       PROVE  FrameTypes'
  <2>1. Wrap(n) \in 0..CounterMax
    BY WrapType
  <2>2. frame' = [frame EXCEPT ![f] = [frame[f] EXCEPT !.join = Wrap(n)]]
    BY <1>13
  <2> QED BY <1>a, <2>1, <2>2, SetCounter
<1>14. ASSUME NEW w \in Workers, ReportWins(w) \/ JoinReady(w) \/ JoinWins(w) PROVE FrameTypes'
  <2>1. CASE ReportWins(w)
    BY <2>1, <1>a, <1>k, JoinedType DEF ReportWins
  <2>2. CASE JoinReady(w)
    <3>1. worker[w].f \in Frames
      BY <2>2, <1>k DEF JoinReady, Executing
    <3>2. CASE frame' = [frame EXCEPT ![worker[w].f] = AfterJoin(@)]
      BY <3>1, <3>2, <1>a, JoinedType
    <3>3. CASE frame' = [frame EXCEPT ![worker[w].f] = AfterJoin(Reset(@))]
      BY <3>1, <3>3, <1>a, JoinedType
    <3> QED BY <2>2, <3>2, <3>3 DEF JoinReady, TakeStackResetFrame
  <2>3. CASE JoinWins(w)
    BY <2>3, <1>a, <1>k, JoinedType DEF JoinWins, TakeStackResetFrame, Executing
  <2> QED BY <1>14, <2>1, <2>2, <2>3
<1>15. ASSUME NEW w \in Workers, ReportLoses(w) \/ JoinParks(w) PROVE FrameTypes'
  <2>1. CASE ReportLoses(w)
    <3> DEFINE p == worker[w].arg
    <3>1. p \in Frames /\ frame[p].join - 1 \in Int
      BY <2>1, <1>k, FieldTypes DEF ReportLoses
    <3>2. frame' = [frame EXCEPT ![p].join = Wrap(frame[p].join - 1)]
      BY <2>1 DEF ReportLoses
    <3> QED BY <3>1, <3>2, <1>13
  <2>2. CASE JoinParks(w)
    <3> DEFINE p == worker[w].f
    <3>1. p \in Frames /\ frame[p].join - (CounterMax - frame[p].steal) \in Int
      BY <2>2, <1>k, FieldTypes DEF JoinParks, Executing
    <3>2. frame' = [frame EXCEPT ![p].join = Wrap(frame[p].join - (CounterMax - frame[p].steal))]
      BY <2>2 DEF JoinParks
    <3> QED BY <3>1, <3>2, <1>13
  <2> QED BY <1>15, <2>1, <2>2
<1>16. ASSUME NEW w \in Workers, SelfSteal(w) \/ (\E v \in Workers : Switch(w, v) \/ Steal(w, v)) PROVE FrameTypes'
  BY <1>16, <1>3, <1>k DEF SelfSteal, Switch, Steal
<1>17. CASE UNCHANGED vars
  BY <1>17 DEF vars
<1> QED BY <1>1, <1>2, <1>4, <1>5, <1>6, <1>7, <1>10, <1>11, <1>12, <1>14, <1>15, <1>16, <1>17
        DEF Next, Proceed, FindWork

(* Every step leaves workers and queues well formed.                       *)
LEMMA ControlTypesStep ==
    ASSUME NEW at, NEW who, NEW pos, FrameTypes, ControlTypes, Control, Family, Placed(at, who, pos),
           [Next]_vars
    PROVE  ControlTypes'
<1> DEFINE Locals == [pc : Labels, f : 0..MaxFrames, arg : Nat, stack : 0..MaxFrames]
<1>a. /\ created \in 0..MaxFrames /\ MaxFrames \in Nat /\ Frames = 1..MaxFrames
      /\ worker \in [Workers -> Locals] /\ \A w \in Workers : worker[w] \in Locals
      /\ \A w \in Workers : worker[w].stack \in 0..MaxFrames /\ worker[w].arg \in Nat
      /\ deque \in [Workers -> Seq(Frames)] /\ submit \in [Workers -> SUBSET Frames]
      /\ parked \in SUBSET Frames
  BY ConstantsAssumption DEF ControlTypes, Frames
<1>k. /\ \A w \in Workers : worker[w].pc \in Executing =>
            worker[w].f \in Frames /\ frame[worker[w].f].st = "live"
      /\ \A w \in Workers : worker[w].pc = "report" => worker[w].arg \in Frames
      /\ \A w \in Workers : deque[w] # <<>> => Head(deque[w]) \in Frames /\ Last(deque[w]) \in Frames
  BY Here DEF Whereabouts
<1>s. /\ \A w \in Workers : \A f \in Frames : StackFor(w, f) \in 0..MaxFrames
      /\ \A w \in Workers : StackLeft(w) \in 0..MaxFrames
      /\ \A f \in Frames : frame[f].stack \in 0..MaxFrames /\ frame[f].steal \in Nat
                           /\ frame[f].parent \in 0..MaxFrames
      /\ \A f \in Frames : f \in 0..MaxFrames
  BY <1>a, FieldTypes DEF StackFor, StackLeft, None
<1>r. ASSUME NEW f \in 0..MaxFrames, NEW s \in 0..MaxFrames PROVE RunOn(f, s) \in Locals /\ IdleOn(s) \in Locals
  BY <1>a DEF RunOn, IdleOn, Labels, None
<1>q. /\ \A w \in Workers : \A f \in Frames : [deque EXCEPT ![w] = Append(@, f)] \in [Workers -> Seq(Frames)]
      /\ \A w \in Workers : deque[w] # <<>> =>
           /\ [deque EXCEPT ![w] = Front(@)] \in [Workers -> Seq(Frames)]
           /\ [deque EXCEPT ![w] = Tail(@)] \in [Workers -> Seq(Frames)]
  BY <1>a, FrontOf
<1>w. ASSUME NEW w \in Workers, NEW r \in Locals, worker' = [worker EXCEPT ![w] = r]
      PROVE  worker' \in [Workers -> Locals]
  BY <1>a, <1>w
<1> HIDE DEF Locals
<1>t. ASSUME worker' \in [Workers -> Locals], deque' \in [Workers -> Seq(Frames)],
             submit' \in [Workers -> SUBSET Frames], parked' \in SUBSET Frames, created' \in 0..MaxFrames
      PROVE  ControlTypes'
  BY <1>t DEF ControlTypes, Locals
<1>1. ASSUME NEW w \in Workers, Submit(w) PROVE ControlTypes'
  <2>1. created + 1 \in Frames /\ created + 1 \in 0..MaxFrames
    BY <1>1, <1>a DEF Submit
  <2> QED BY <1>1, <2>1, <1>a, <1>t DEF Submit
<1>2. ASSUME NEW w \in Workers, NEW f \in submit[w], ResumeSubmitted(w, f) PROVE ControlTypes'
  <2>1. f \in Frames
    BY <1>a
  <2>2. (IF frame[f].steal = 0 THEN frame[f].stack ELSE worker[w].stack) \in 0..MaxFrames
    BY <2>1, <1>a, <1>s
  <2>3. worker' \in [Workers -> Locals]
    BY <1>2, <2>1, <2>2, <1>s, <1>r, <1>w DEF ResumeSubmitted
  <2> QED BY <1>2, <2>3, <1>a, <1>t DEF ResumeSubmitted
<1>3. ASSUME NEW w \in Workers, NEW v \in Workers, Steal(w, v) PROVE ControlTypes'
  <2>1. worker' \in [Workers -> Locals]
    BY <1>3, <1>k, <1>a, <1>s, <1>r, <1>w DEF Steal
  <2> QED BY <1>3, <2>1, <1>a, <1>q, <1>t DEF Steal
<1>4. ASSUME NEW w \in Workers, Fork(w) \/ Call(w) PROVE ControlTypes'
  <2>1. created + 1 \in Frames /\ created + 1 \in 0..MaxFrames /\ worker[w].f \in Frames
    BY <1>4, <1>a, <1>k DEF Fork, Call, Executing
  <2>2. worker' \in [Workers -> Locals]
    BY <1>4, <2>1, <1>s, <1>r, <1>w DEF Fork, Call
  <2>3. deque' \in [Workers -> Seq(Frames)]
    <3>1. CASE Fork(w)
      BY <3>1, <2>1, <1>q DEF Fork
    <3>2. CASE Call(w)
      BY <3>2, <1>a DEF Call
    <3> QED BY <1>4, <3>1, <3>2
  <2> QED BY <1>4, <2>1, <2>2, <2>3, <1>a, <1>t DEF Fork, Call
<1>5. ASSUME NEW w \in Workers, Return(w) \/ ConstructException(w) \/ JoinNotReady(w) PROVE ControlTypes'
  <2>1. worker' \in [Workers -> Locals]
    <3>1. CASE Return(w)
      BY <3>1, <1>a DEF Return, Locals, Labels
    <3>2. CASE ConstructException(w)
      BY <3>2, <1>a, Zenon DEF ConstructException, Locals, Labels
    <3>3. CASE JoinNotReady(w)
      BY <3>3, <1>a DEF JoinNotReady, Locals, Labels
    <3> QED BY <1>5, <3>1, <3>2, <3>3
  <2> QED BY <1>5, <2>1, <1>a, <1>t DEF Return, ConstructException, JoinNotReady
<1>6. ASSUME NEW w \in Workers, CaptureException(w) PROVE ControlTypes'
  <2>1. frame[worker[w].f].parent \in Nat
    BY <1>6, <1>a, <1>k, <1>s DEF CaptureException, Executing
  <2>2. PICK l \in Labels : worker' = [worker EXCEPT ![w].pc = l, ![w].arg = frame[worker[w].f].parent]
    BY <1>6, Zenon DEF CaptureException, Labels
  <2>3. worker' \in [Workers -> Locals]
    BY <2>1, <2>2, <1>a DEF Locals
  <2> QED BY <1>6, <2>3, <1>a, <1>t DEF CaptureException
<1>7. ASSUME NEW w \in Workers, FinalRoot(w) \/ FinalCall(w) PROVE ControlTypes'
  <2>1. worker[w].f \in Frames /\ frame[worker[w].f].parent \in 0..MaxFrames
    <3>1. worker[w].pc = "final"
      <4>1. CASE FinalRoot(w)
        BY <4>1, Zenon DEF FinalRoot
      <4>2. CASE FinalCall(w)
        BY <4>2, Zenon DEF FinalCall
      <4> QED BY <1>7, <4>1, <4>2
    <3> QED BY <3>1, <1>k, <1>s DEF Executing
  <2>2. worker' \in [Workers -> Locals]
    BY <1>7, <2>1, <1>a, <1>s, <1>r, <1>w DEF FinalRoot, FinalCall
  <2> QED BY <1>7, <2>2, <1>a, <1>t DEF FinalRoot, FinalCall
<1>8. ASSUME NEW w \in Workers, FinalForkPop(w) PROVE ControlTypes'
  <2>1. worker' \in [Workers -> Locals]
    BY <1>8, <1>k, <1>a, <1>s, <1>r, <1>w DEF FinalForkPop
  <2> QED BY <1>8, <2>1, <1>a, <1>q, <1>t DEF FinalForkPop
<1>9. ASSUME NEW w \in Workers, FinalForkStolen(w) PROVE ControlTypes'
  <2>1. frame[worker[w].f].parent \in Nat
    BY <1>9, <1>a, <1>k, <1>s DEF FinalForkStolen, Executing
  <2>2. [pc |-> "report", f |-> None, arg |-> frame[worker[w].f].parent, stack |-> StackLeft(w)] \in Locals
    BY <2>1, <1>s, <1>a DEF Locals, Labels, None
  <2>3. worker' \in [Workers -> Locals]
    BY <1>9, <2>2, <1>w DEF FinalForkStolen
  <2> QED BY <1>9, <2>3, <1>a, <1>t DEF FinalForkStolen
<1>10. ASSUME NEW w \in Workers, ReportWins(w) \/ ReportReleases(w) PROVE ControlTypes'
  <2>1. worker' \in [Workers -> Locals]
    <3>1. CASE ReportWins(w)
      BY <3>1, <1>k, <1>s, <1>r, <1>w DEF ReportWins
    <3>2. CASE ReportReleases(w)
      BY <3>2, <1>a, <1>r, <1>w DEF ReportReleases, None
    <3> QED BY <1>10, <3>1, <3>2
  <2> QED BY <1>10, <2>1, <1>a, <1>t DEF ReportWins, ReportReleases
<1>11. ASSUME NEW w \in Workers, ReportLoses(w) PROVE ControlTypes'
  <2>1. [worker[w] EXCEPT !.pc = "release"] \in Locals
    BY <1>a DEF Locals, Labels
  <2>2. worker' \in [Workers -> Locals]
    BY <1>11, <2>1, <1>a, <1>r, <1>w DEF ReportLoses
  <2> QED BY <1>11, <2>2, <1>a, <1>t DEF ReportLoses
<1>12. ASSUME NEW w \in Workers, JoinReady(w) \/ JoinWins(w) PROVE ControlTypes'
  <2>1. worker' \in [Workers -> Locals]
    BY <1>12, <1>k, <1>s, <1>a, <1>r, <1>w DEF JoinReady, JoinWins, TakeStackResetFrame, Executing
  <2> QED BY <1>12, <2>1, <1>a, <1>t DEF JoinReady, JoinWins
<1>13. ASSUME NEW w \in Workers, JoinParks(w) PROVE ControlTypes'
  <2>1. [worker[w] EXCEPT !.pc = "selfsteal", !.f = None] \in Locals
    <3>1. "selfsteal" \in Labels /\ None \in 0..MaxFrames /\ worker[w] \in Locals
      BY <1>a DEF Labels, None
    <3> QED BY <3>1 DEF Locals
  <2>2. worker' \in [Workers -> Locals] /\ worker[w].f \in Frames
    BY <1>13, <2>1, <1>k, <1>w DEF JoinParks, Executing
  <2> QED BY <1>13, <2>2, <1>a, <1>t DEF JoinParks
<1>14. ASSUME NEW w \in Workers, SelfSteal(w) PROVE ControlTypes'
  <2>1. worker' \in [Workers -> Locals]
    BY <1>14, <1>k, <1>a, <1>s, <1>r, <1>w DEF SelfSteal
  <2> QED BY <1>14, <2>1, <1>a, <1>q, <1>t DEF SelfSteal
<1>15. ASSUME NEW w \in Workers, NEW v \in Workers, Switch(w, v) PROVE ControlTypes'
  <2>1. worker[w].f \in Frames /\ frame[worker[w].f].steal \in Nat
    BY <1>15, <1>k, <1>s DEF Switch, Executing
  <2>2. [pc |-> "switch", f |-> None, arg |-> frame[worker[w].f].steal, stack |-> worker[w].stack] \in Locals
    BY <2>1, <1>a DEF Locals, Labels, None
  <2>3. worker' \in [Workers -> Locals]
    BY <1>15, <2>2, <1>w DEF Switch
  <2> QED BY <1>15, <2>1, <2>3, <1>a, <1>t DEF Switch
<1>16. ASSUME NEW w \in Workers, SwitchReleases(w) PROVE ControlTypes'
  <2>1. [pc |-> "selfsteal", f |-> None, arg |-> None,
         stack |-> IF worker[w].arg = 0 THEN None ELSE worker[w].stack] \in Locals
    BY <1>a DEF Locals, Labels, None
  <2>2. worker' \in [Workers -> Locals]
    BY <1>16, <2>1, <1>w DEF SwitchReleases
  <2> QED BY <1>16, <2>2, <1>a, <1>t DEF SwitchReleases
<1>17. CASE UNCHANGED vars
  BY <1>17, <1>a, <1>t DEF vars
<1> QED BY <1>1, <1>2, <1>3, <1>4, <1>5, <1>6, <1>7, <1>8, <1>9, <1>10, <1>11, <1>12, <1>13, <1>14,
           <1>15, <1>16, <1>17 DEF Next, Proceed, FindWork

-----------------------------------------------------------------------------
(* Nobody waits for, or reports to, a frame that is not live.              *)
LEMMA OutNone ==
    ASSUME FrameTypes, ControlTypes, Control, Family, NEW g \in Frames, frame[g].st # "live"
    PROVE  LiveForks(g) = {} /\ Reporters(g) = {} /\ Outstanding(g) = 0
<1>1. LiveForks(g) = {} /\ Reporters(g) = {}
  BY DEF LiveForks, Live, Reporters, Family, Control
<1> QED BY <1>1, OutFinite, FS_EmptySet

-----------------------------------------------------------------------------
(***************************************************************************)
(* What the steps have in common.  A step may create a frame, or end one;  *)
(* it changes the counters of one frame at most, and one worker.           *)
(***************************************************************************)
Shrinks(D) ==
    /\ created' = created
    /\ \A g \in Frames : frame'[g].kind = frame[g].kind /\ frame'[g].parent = frame[g].parent
    /\ \A g \in Frames \ D : frame'[g].st = frame[g].st
    /\ \A g \in D : frame[g].st = "live" /\ frame'[g].st = "done"

Grows(c, p, k) ==
    /\ c = created + 1 /\ created' = c /\ frame[c].st = "none" /\ frame'[c].st = "live"
    /\ frame'[c].kind = k /\ frame'[c].parent = p
    /\ \A g \in Frames \ {c} : /\ frame'[g].kind = frame[g].kind
                               /\ frame'[g].parent = frame[g].parent
                               /\ frame'[g].st = frame[g].st

Others(w) == \A v \in Workers \ {w} : worker'[v] = worker[v]

Kept(g) ==
    /\ frame'[g].steal = frame[g].steal /\ frame'[g].join = frame[g].join
    /\ frame'[g].last = frame[g].last /\ frame'[g].pre = frame[g].pre
    /\ frame'[g].open = frame[g].open

SameSpot(at, at1, g) ==
    (at1[g] = "deque" <=> at[g] = "deque") /\ (at1[g] = "parked" <=> at[g] = "parked")

(* A sync fork is untouched by a step that does not steal the frame.       *)
LEMMA KeptLastFork ==
    ASSUME NEW at, NEW at1, NEW g \in Frames, FrameTypes, ControlTypes, LastForkAt(at, g),
           frame'[g].steal = frame[g].steal, frame'[g].last = frame[g].last, frame'[g].pre = frame[g].pre,
           at1[g] = "deque" <=> at[g] = "deque", frame'[g].st = "live" => frame[g].st = "live",
           created' >= created, created' \in Nat,
           \A x \in Frames : frame[x].st = "done" => frame'[x].st = "done"
    PROVE  LastForkAt(at1, g)'
<1> SUFFICES ASSUME frame'[g].st = "live", frame'[g].last # 0
             PROVE  /\ frame'[g].last <= created'
                    /\ IF at1[g] = "deque" THEN frame'[g].steal = frame'[g].pre
                       ELSE frame'[g].steal > frame'[g].pre \/ frame'[frame'[g].last].st = "done"
  BY DEF LastForkAt, None
<1>1. frame[g].st = "live" /\ frame[g].last # 0 /\ frame'[g].last = frame[g].last
  OBVIOUS
<1>2. /\ frame[g].last <= created /\ frame[g].last \in Frames /\ frame[g].last \in Nat
      /\ created \in Nat
      /\ IF at[g] = "deque" THEN frame[g].steal = frame[g].pre
         ELSE frame[g].steal > frame[g].pre \/ frame[frame[g].last].st = "done"
  BY <1>1, FieldTypes, ConstantsAssumption DEF LastForkAt, None, Frames, ControlTypes
<1> QED BY <1>1, <1>2

(* A frame whose counters, place and children are left alone.              *)
LEMMA KeptFrame ==
    ASSUME NEW at, NEW at1, NEW g \in Frames, FrameTypes, ControlTypes,
           CountedAt(at, g), ScopeAt(at, g), LastForkAt(at, g),
           Kept(g), SameSpot(at, at1, g), frame'[g].st = "live" => frame[g].st = "live",
           LiveForks(g)' = LiveForks(g), Reporters(g)' = Reporters(g),
           created' >= created, created' \in Nat,
           \A x \in Frames : frame[x].st = "done" => frame'[x].st = "done"
    PROVE  CountedAt(at1, g)' /\ ScopeAt(at1, g)' /\ LastForkAt(at1, g)'
<1>1. CountedAt(at1, g)'
  <2>1. Outstanding(g)' = Outstanding(g)
    BY OutMoves
  <2> QED BY <2>1 DEF CountedAt, Kept, SameSpot
<1>2. ScopeAt(at1, g)'
  BY DEF ScopeAt, Kept, SameSpot
<1>3. LastForkAt(at1, g)'
  BY KeptLastFork DEF Kept, SameSpot
<1> QED BY <1>1, <1>2, <1>3

(* The forked children after some frames ended.                            *)
LEMMA ShrinksForks ==
    ASSUME NEW D, Shrinks(D), NEW g
    PROVE  LiveForks(g)' = LiveForks(g) \ D
BY DEF LiveForks, Live, Shrinks

(* The forked children after a frame was created.                          *)
LEMMA GrowsForks ==
    ASSUME NEW c \in Frames, NEW p, NEW k, Grows(c, p, k), NEW g
    PROVE  /\ k = "fork" /\ p = g => LiveForks(g)' = LiveForks(g) \union {c} /\ c \notin LiveForks(g)
           /\ k # "fork" \/ p # g => LiveForks(g)' = LiveForks(g)
BY DEF LiveForks, Live, Grows

(* Parents stay as long as their children.                                 *)
LEMMA FamilyShrinks ==
    ASSUME NEW D, Shrinks(D), Family,
           \A g \in Frames \ D : frame[g].st = "live" /\ frame[g].kind # "root" => frame[g].parent \notin D
    PROVE  Family'
BY DEF Shrinks, Family

(* A new frame has a parent that lives.                                    *)
LEMMA FamilyGrows ==
    ASSUME NEW c \in Frames, NEW p, NEW k, Grows(c, p, k), Family, ControlTypes,
           k = "root" \/ (p \in Frames /\ frame[p].st = "live")
    PROVE  Family'
<1>1. created \in Nat /\ \A f \in Frames : f \in Nat
  BY ConstantsAssumption DEF ControlTypes, Frames
<1>2. ASSUME NEW g \in Frames, g > created' PROVE frame'[g].st = "none"
  BY <1>1, <1>2 DEF Grows, Family
<1>3. ASSUME NEW g \in Frames, frame'[g].st = "live", frame'[g].kind # "root"
      PROVE  frame'[g].parent \in Frames /\ frame'[frame'[g].parent].st = "live"
  <2>1. CASE g = c
    <3>1. frame'[g].parent = p /\ p \in Frames /\ frame[p].st = "live" /\ p # c
      BY <1>3, <2>1 DEF Grows
    <3> QED BY <3>1 DEF Grows
  <2>2. CASE g # c
    <3>1. frame[g].st = "live" /\ frame[g].kind # "root" /\ frame'[g].parent = frame[g].parent
      BY <1>3, <2>2 DEF Grows
    <3>2. frame[g].parent \in Frames /\ frame[frame[g].parent].st = "live"
      BY <3>1 DEF Family
    <3> QED BY <3>1, <3>2 DEF Grows
  <2> QED BY <2>1, <2>2
<1> QED BY <1>2, <1>3 DEF Family

(* Frames that end do not change what the others are called by.            *)
LEMMA BasesShrinks ==
    ASSUME NEW D, Shrinks(D), NEW base, Bases(base)
    PROVE  Bases(base)'
BY DEF Shrinks, Bases

(* A called frame has the base of its caller, another is its own.          *)
LEMMA BasesGrows ==
    ASSUME NEW c \in Frames, NEW p, NEW k, Grows(c, p, k), Family, ControlTypes, NEW base, Bases(base),
           k = "call" => p \in Frames /\ frame[p].st = "live",
           NEW base1, base1 = [base EXCEPT ![c] = IF k = "call" THEN base[p] ELSE c]
    PROVE  Bases(base1)'
<1>1. created \in Nat /\ \A f \in Frames : f \in Nat
  BY ConstantsAssumption DEF ControlTypes, Frames
<1>2. base1 \in [Frames -> Frames]
  BY DEF Bases
<1>3. ASSUME NEW g \in Frames, frame'[g].st = "live"
      PROVE  /\ base1[g] <= created'
             /\ base1[g] = IF frame'[g].kind = "call" THEN base1[frame'[g].parent] ELSE g
  <2>1. CASE g = c
    <3>1. k = "call" => p # c /\ base[p] \in Nat /\ base[p] <= created
      BY <1>1 DEF Grows, Bases
    <3> QED BY <2>1, <3>1, <1>1 DEF Grows, Bases
  <2>2. CASE g # c
    <3>1. /\ frame[g].st = "live" /\ frame'[g].kind = frame[g].kind
          /\ frame'[g].parent = frame[g].parent /\ base1[g] = base[g]
      BY <1>3, <2>2 DEF Grows, Bases
    <3>2. base[g] \in Nat /\ base[g] <= created
          /\ base[g] = IF frame[g].kind = "call" THEN base[frame[g].parent] ELSE g
      BY <3>1, <1>1 DEF Bases
    <3>3. frame[g].kind = "call" => frame[g].parent \in Frames /\ frame[g].parent # c
      BY <3>1 DEF Family, Grows
    <3>4. created' \in Nat /\ created' >= created
      BY <1>1 DEF Grows
    <3> QED BY <3>1, <3>2, <3>3, <3>4, <1>1 DEF Bases
  <2> QED BY <2>1, <2>2
<1> QED BY <1>2, <1>3 DEF Bases

(* The worker that makes the step goes where it should; the others stay.   *)
LEMMA ControlKept ==
    ASSUME NEW at, NEW who, NEW pos, Whereabouts(at, who, pos), Control, NEW w \in Workers, Others(w),
           \A v \in Workers \ {w} : \/ deque'[v] = deque[v]
                                    \/ worker[v].pc \notin {"idle", "report", "release"},
           \A g \in Frames : frame[g].st = "live" => frame'[g].kind = frame[g].kind,
           \A v \in Workers \ {w} : worker[v].pc = "report" => frame'[worker[v].arg].st = "live",
           worker'[w].f # None <=> worker'[w].pc \in Executing,
           worker'[w].pc \in {"idle", "report", "release"} => deque'[w] = <<>>,
           worker'[w].pc = "report" => worker'[w].arg \in Frames /\ frame'[worker'[w].arg].st = "live",
           worker'[w].pc = "construct" => frame'[worker'[w].f].kind # "root"
    PROVE  Control'
<1>1. ASSUME NEW v \in Workers \ {w}
      PROVE  /\ worker'[v].f # None <=> worker'[v].pc \in Executing
             /\ worker'[v].pc \in {"idle", "report", "release"} => deque'[v] = <<>>
             /\ worker'[v].pc = "report" => worker'[v].arg \in Frames /\ frame'[worker'[v].arg].st = "live"
             /\ worker'[v].pc = "construct" => frame'[worker'[v].f].kind # "root"
  <2>1. worker'[v] = worker[v]
    BY DEF Others
  <2>2. worker[v].f # None <=> worker[v].pc \in Executing
    BY DEF Control
  <2>3. worker[v].pc \in {"idle", "report", "release"} => deque'[v] = <<>>
    BY DEF Control
  <2>4. worker[v].pc = "report" => worker[v].arg \in Frames /\ frame'[worker[v].arg].st = "live"
    BY DEF Control
  <2>5. worker[v].pc = "construct" => frame'[worker[v].f].kind # "root"
    <3>1. worker[v].pc = "construct" => worker[v].f \in Frames /\ frame[worker[v].f].st = "live"
      BY DEF Whereabouts, Executing
    <3> QED BY <3>1 DEF Control
  <2> QED BY <2>1, <2>2, <2>3, <2>4, <2>5
<1> QED BY <1>1 DEF Control

(* Whoever constructs an exception still does.                             *)
LEMMA FlagKept ==
    ASSUME NEW at, NEW who, NEW pos, Whereabouts(at, who, pos), FlagIsSet, NEW w \in Workers, Others(w),
           worker[w].pc # "construct",
           \A g \in Frames : frame[g].st = "live" => frame'[g].parent = frame[g].parent,
           \A g \in Frames : frame'[g].st = "live" /\ frame'[g].exc = "flag" =>
             frame[g].st = "live" /\ frame[g].exc = "flag"
    PROVE  FlagIsSet'
<1> SUFFICES ASSUME NEW g \in Frames, frame'[g].st = "live", frame'[g].exc = "flag"
             PROVE  \E v \in Workers : worker'[v].pc = "construct" /\ frame'[worker'[v].f].parent = g
  BY DEF FlagIsSet
<1>1. PICK v \in Workers : worker[v].pc = "construct" /\ frame[worker[v].f].parent = g
  BY DEF FlagIsSet
<1>2. v # w /\ worker'[v] = worker[v] /\ worker[v].f \in Frames /\ frame[worker[v].f].st = "live"
  BY <1>1 DEF Others, Whereabouts, Executing
<1> QED BY <1>1, <1>2

(* A link of the chain stays when neither end of it changes.               *)
LEMMA LinkKept ==
    ASSUME NEW base, NEW base1, NEW x, NEW q, ForkedBy(base, x, q), base1[x] = base[x],
           frame'[base[x]].kind = frame[base[x]].kind, frame'[base[x]].parent = frame[base[x]].parent,
           frame'[q].last = frame[q].last
    PROVE  ForkedBy(base1, x, q)'
BY DEF ForkedBy

(* The deque of v loses its oldest entry, or its newest one, or none.      *)
LosesHead(v) ==
    /\ Len(deque'[v]) = Len(deque[v]) - 1
    /\ \A i \in 1..Len(deque'[v]) : deque'[v][i] = deque[v][i + 1]

LosesLast(v) ==
    /\ Len(deque'[v]) = Len(deque[v]) - 1
    /\ \A i \in 1..Len(deque'[v]) : deque'[v][i] = deque[v][i]

Cut(w) ==
    /\ \A v \in Workers : deque'[v] = deque[v] \/ LosesHead(v) \/ LosesLast(v)
    /\ \A v \in Workers \ {w} : deque'[v] = deque[v] \/ LosesHead(v)

(* The links that remain when a deque is cut.                              *)
LEMMA ChainedCut ==
    ASSUME NEW at, NEW who, NEW pos, Whereabouts(at, who, pos), ControlTypes', NEW w \in Workers, Others(w), Cut(w),
           NEW base, Chained(base), NEW base1,
           \A x \in Frames : frame[x].st = "live" =>
             /\ base1[x] = base[x]
             /\ frame'[base[x]].kind = frame[base[x]].kind
             /\ frame'[base[x]].parent = frame[base[x]].parent,
           \A q \in Frames : at[q] = "deque" => frame'[q].last = frame[q].last,
           worker'[w].f # None /\ deque'[w] # <<>> =>
             ForkedBy(base1, worker[w].f, deque[w][Len(deque[w])])'
    PROVE  Chained(base1)'
<1>k. ASSUME NEW x \in Frames, NEW q \in Frames, frame[x].st = "live", at[q] = "deque", ForkedBy(base, x, q)
      PROVE  ForkedBy(base1, x, q)'
  BY <1>k, LinkKept
<1>l. \A v \in Workers : Len(deque[v]) \in Nat /\ Len(deque'[v]) \in Nat /\ (deque'[v] = <<>> <=> Len(deque'[v]) = 0)
  BY DEF Whereabouts, ControlTypes
<1>m. \A v \in Workers : \A i \in 1..Len(deque[v]) :
        deque[v][i] \in Frames /\ frame[deque[v][i]].st = "live" /\ at[deque[v][i]] = "deque"
  BY DEF Whereabouts
<1>1. ASSUME NEW v \in Workers, NEW i \in 1..(Len(deque'[v]) - 1)
      PROVE  ForkedBy(base1, deque[v][i + 1], deque[v][i])'
  <2>1. PICK j \in 1..(Len(deque[v]) - 1) : deque'[v][i + 1] = deque[v][j + 1] /\ deque'[v][i] = deque[v][j]
    <3>1. CASE deque'[v] = deque[v]
      BY <3>1
    <3>2. CASE LosesHead(v)
      <4>1. /\ i + 1 \in 1..(Len(deque[v]) - 1) /\ i \in 1..Len(deque'[v]) /\ i + 1 \in 1..Len(deque'[v])
        BY <3>2, <1>l DEF LosesHead
      <4>2. deque'[v][i + 1] = deque[v][(i + 1) + 1] /\ deque'[v][i] = deque[v][i + 1]
        BY <3>2, <4>1 DEF LosesHead
      <4> QED BY <4>1, <4>2
    <3>3. CASE LosesLast(v)
      <4>1. /\ i \in 1..(Len(deque[v]) - 1) /\ i \in 1..Len(deque'[v]) /\ i + 1 \in 1..Len(deque'[v])
        BY <3>3, <1>l DEF LosesLast
      <4>2. deque'[v][i + 1] = deque[v][i + 1] /\ deque'[v][i] = deque[v][i]
        BY <3>3, <4>1 DEF LosesLast
      <4> QED BY <4>1, <4>2
    <3> QED BY <3>1, <3>2, <3>3 DEF Cut
  <2>2. ForkedBy(base, deque[v][j + 1], deque[v][j]) /\ j \in 1..Len(deque[v]) /\ j + 1 \in 1..Len(deque[v])
    BY <1>l DEF Chained
  <2>4. PICK x \in Frames, q \in Frames : x = deque[v][j + 1] /\ q = deque[v][j]
    BY <2>2, <1>m
  <2>5. ForkedBy(base1, x, q)'
    BY <2>2, <2>4, <1>m, <1>k
  <2>6. deque'[v][i + 1] = x /\ deque'[v][i] = q
    BY <2>1, <2>4
  <2> QED BY <2>5, <2>6 DEF ForkedBy
<1>2. ASSUME NEW v \in Workers, worker'[v].f # None, deque'[v] # <<>>
      PROVE  ForkedBy(base1, worker[v].f, deque[v][Len(deque[v])])'
  <2>1. CASE v = w
    BY <1>2, <2>1
  <2>2. CASE v # w
    <3>1. worker'[v].f = worker[v].f /\ worker[v].f # None
      BY <1>2, <2>2 DEF Others
    <3>2. deque[v] # <<>> /\ deque'[v][Len(deque'[v])] = deque[v][Len(deque[v])]
      <4>1. CASE deque'[v] = deque[v]
        BY <4>1, <1>2
      <4>2. CASE LosesHead(v)
        <5>1. Len(deque[v]) \in Nat /\ Len(deque'[v]) # 0 /\ Len(deque'[v]) \in Nat
          BY <1>l, <1>2
        <5>a. Len(deque'[v]) = Len(deque[v]) - 1
          BY <4>2 DEF LosesHead
        <5>2. Len(deque'[v]) \in 1..Len(deque'[v]) /\ Len(deque'[v]) + 1 = Len(deque[v])
          <6>1. \A m, n \in Nat : n # 0 /\ n = m - 1 => n \in 1..n /\ n + 1 = m
            OBVIOUS
          <6> QED BY <5>1, <5>a, <6>1
        <5>3. deque'[v][Len(deque'[v])] = deque[v][Len(deque'[v]) + 1]
          BY <5>2, <4>2 DEF LosesHead
        <5> QED BY <5>1, <5>2, <5>3 DEF Whereabouts
      <4> QED BY <2>2, <4>1, <4>2 DEF Cut
    <3>3. ForkedBy(base, worker[v].f, deque[v][Len(deque[v])])
      BY <3>1, <3>2 DEF Chained
    <3>4. PICK x \in Frames, q \in Frames : x = worker[v].f /\ q = deque[v][Len(deque[v])]
      BY <3>1, <3>2 DEF Whereabouts, None
    <3>5. frame[x].st = "live" /\ at[q] = "deque"
      BY <3>4, <3>2 DEF Whereabouts
    <3>6. ForkedBy(base1, x, q)'
      BY <3>3, <3>4, <3>5, <1>k
    <3> QED BY <3>6, <3>1, <3>2, <3>4 DEF ForkedBy
  <2> QED BY <2>1, <2>2
<1> QED BY <1>1, <1>2 DEF Chained

(***************************************************************************)
(* A step of w that creates no frame.  D are the frames it ends; at1, who1 *)
(* and pos1 say where the frames are after it.                             *)
(***************************************************************************)
Goes(w) ==
    /\ worker'[w].f # None <=> worker'[w].pc \in Executing
    /\ worker'[w].pc \in {"idle", "report", "release"} => deque'[w] = <<>>
    /\ worker'[w].pc = "report" => worker'[w].arg \in Frames /\ frame'[worker'[w].arg].st = "live"
    /\ worker'[w].pc = "construct" => frame'[worker'[w].f].kind # "root"
    /\ worker'[w].pc \in {"construct", "final"} => frame'[worker'[w].f].open = FALSE

Accounted(at1) == \A g \in Frames : CountedAt(at1, g)' /\ ScopeAt(at1, g)' /\ LastForkAt(at1, g)'

(* What every step that creates no frame has to show.                      *)
LEMMA StepLinks ==
    ASSUME NEW at, NEW who, NEW pos, NEW base, Linked(at, who, pos, base),
           FrameTypes', ControlTypes', NEW w \in Workers, Others(w), Cut(w), Goes(w),
           NEW D, Shrinks(D),
           \A g \in Frames : frame[g].st = "live" /\ frame[g].kind # "root" /\ g \notin D =>
             frame[g].parent \notin D,
           \A v \in Workers \ {w} : worker[v].pc = "report" => worker[v].arg \notin D,
           \A v \in Workers \ {w} : deque[v] = <<>> => deque'[v] = <<>>,
           \A q \in Frames : at[q] = "deque" => frame'[q].last = frame[q].last,
           \A q \in Frames : at[q] = "run" /\ who[q] # w => frame'[q].open = frame[q].open,
           worker'[w].f # None /\ deque'[w] # <<>> =>
             ForkedBy(base, worker[w].f, deque[w][Len(deque[w])])',
           NEW at1, NEW who1, NEW pos1, Placed(at1, who1, pos1)', Accounted(at1), FlagIsSet'
    PROVE  JoinInv'
<1>l. /\ FrameTypes /\ ControlTypes /\ Control /\ Family /\ Placed(at, who, pos)
      /\ Bases(base) /\ Chained(base) /\ Scopes(at)
  BY DEF Linked
<1>e. Whereabouts(at, who, pos)
  BY <1>l, Here
<1>1. Control'
  <2>1. \A v \in Workers \ {w} : deque'[v] = deque[v] \/ worker[v].pc \notin {"idle", "report", "release"}
    BY <1>l DEF Control
  <2>2. \A g \in Frames : frame[g].st = "live" => frame'[g].kind = frame[g].kind
    BY DEF Shrinks
  <2>3. \A v \in Workers \ {w} : worker[v].pc = "report" => frame'[worker[v].arg].st = "live"
    BY <1>e DEF Whereabouts, Shrinks
  <2>4. /\ worker'[w].f # None <=> worker'[w].pc \in Executing
        /\ worker'[w].pc \in {"idle", "report", "release"} => deque'[w] = <<>>
        /\ worker'[w].pc = "report" => worker'[w].arg \in Frames /\ frame'[worker'[w].arg].st = "live"
        /\ worker'[w].pc = "construct" => frame'[worker'[w].f].kind # "root"
    BY DEF Goes
  <2> QED BY <2>1, <2>2, <2>3, <2>4, <1>l, <1>e, ControlKept
<1>2. Family'
  BY <1>l, FamilyShrinks
<1>3. Bases(base)'
  BY <1>l, BasesShrinks
<1>4. Chained(base)'
  <2>1. \A x \in Frames : frame[x].st = "live" =>
             /\ base[x] = base[x]
             /\ frame'[base[x]].kind = frame[base[x]].kind
             /\ frame'[base[x]].parent = frame[base[x]].parent
    BY <1>l DEF Bases, Shrinks
  <2> QED BY <2>1, <1>e, <1>l, ChainedCut
<1>5. Scopes(at1)'
  <2>1. ASSUME NEW v \in Workers, worker'[v].pc \in {"construct", "final"}
        PROVE  frame'[worker'[v].f].open = FALSE
    <3>1. CASE v = w
      BY <2>1, <3>1 DEF Goes
    <3>2. CASE v # w
      <4>1. worker'[v] = worker[v]
        BY <3>2 DEF Others
      <4>2. worker[v].f \in Frames /\ at[worker[v].f] = "run" /\ who[worker[v].f] = v
        BY <2>1, <4>1, <1>e DEF Whereabouts, Executing
      <4>3. frame[worker[v].f].open = FALSE
        BY <2>1, <4>1, <1>l DEF Scopes
      <4> QED BY <3>2, <4>1, <4>2, <4>3
    <3> QED BY <3>1, <3>2
  <2> QED BY <2>1 DEF Scopes, Accounted
<1>6. Counted(at1)' /\ LastForks(at1)'
  BY DEF Accounted, Counted, LastForks
<1> QED BY <1>1, <1>2, <1>3, <1>4, <1>5, <1>6 DEF JoinInv, Linked

(* A step of w that moves no frame.                                        *)
Quiet(w) ==
    /\ UNCHANGED <<deque, submit, parked>>
    /\ Others(w) /\ worker'[w].f = worker[w].f /\ Shrinks({})

(* The same for a step that ends no frame and opens no scope.              *)
LEMMA QuietLinks ==
    ASSUME NEW at, NEW who, NEW pos, NEW base, Linked(at, who, pos, base),
           FrameTypes', ControlTypes', NEW w \in Workers, Quiet(w), Goes(w),
           \A q \in Frames : at[q] = "deque" => frame'[q].last = frame[q].last,
           \A q \in Frames : at[q] = "run" /\ who[q] # w => frame'[q].open = frame[q].open,
           Accounted(at), FlagIsSet'
    PROVE  JoinInv'
<1>l. /\ FrameTypes /\ ControlTypes /\ Control /\ Family /\ Placed(at, who, pos)
      /\ Bases(base) /\ Chained(base)
  BY DEF Linked
<1>e. Whereabouts(at, who, pos)
  BY <1>l, Here
<1>1. Placed(at, who, pos)'
  <2>1. RunPlaces(at, who)'
    BY <1>l DEF Placed, RunPlaces, Quiet, Others
  <2>2. LiveIsPlaced(at)' /\ CallPlaces(at, who)'
    BY <1>l DEF Placed, LiveIsPlaced, CallPlaces, Quiet, Shrinks
  <2>3. PlaceTypes(at, who)' /\ DequePlaces(at, who, pos)' /\ SubmitPlaces(at, who)' /\ ParkPlaces(at)'
    BY <1>l DEF Placed, PlaceTypes, DequePlaces, SubmitPlaces, ParkPlaces, Quiet
  <2> QED BY <2>1, <2>2, <2>3 DEF Placed
<1>2. worker'[w].f # None /\ deque'[w] # <<>> => ForkedBy(base, worker[w].f, deque[w][Len(deque[w])])'
  <2> SUFFICES ASSUME worker[w].f # None, deque[w] # <<>>
               PROVE  ForkedBy(base, worker[w].f, deque[w][Len(deque[w])])'
    BY DEF Quiet
  <2>1. PICK x \in Frames, q \in Frames : x = worker[w].f /\ q = deque[w][Len(deque[w])]
    BY <1>e DEF Whereabouts, None
  <2>2. ForkedBy(base, x, q) /\ at[q] = "deque"
    BY <2>1, <1>l, <1>e DEF Chained, Whereabouts
  <2>3. base[x] \in Frames
    BY <1>l DEF Bases
  <2>4. ForkedBy(base, x, q)'
    BY <2>2, <2>3 DEF ForkedBy, Quiet, Shrinks
  <2> QED BY <2>1, <2>4 DEF ForkedBy, Quiet
<1>3. Cut(w) /\ Others(w) /\ Shrinks({})
  BY DEF Cut, Quiet
<1>4. /\ \A g \in Frames : frame[g].st = "live" /\ frame[g].kind # "root" /\ g \notin {} =>
             frame[g].parent \notin {}
      /\ \A v \in Workers \ {w} : worker[v].pc = "report" => worker[v].arg \notin {}
      /\ \A v \in Workers \ {w} : deque[v] = <<>> => deque'[v] = <<>>
  BY DEF Quiet
<1> QED BY <1>1, <1>2, <1>3, <1>4, StepLinks

-----------------------------------------------------------------------------
(* The frames that a step leaves alone stay accounted for.                 *)
LEMMA Untouched ==
    ASSUME NEW at, NEW who, NEW pos, NEW base, Linked(at, who, pos, base), FrameTypes', ControlTypes',
           NEW at1, NEW D, Shrinks(D), NEW g \in Frames, Kept(g), SameSpot(at, at1, g),
           LiveForks(g) \intersect D = {}, Reporters(g)' = Reporters(g)
    PROVE  CountedAt(at1, g)' /\ ScopeAt(at1, g)' /\ LastForkAt(at1, g)'
<1>1. FrameTypes /\ ControlTypes /\ CountedAt(at, g) /\ ScopeAt(at, g) /\ LastForkAt(at, g)
  BY DEF Linked, Counted, Scopes, LastForks
<1>2. frame'[g].st = "live" => frame[g].st = "live"
  BY DEF Shrinks
<1>3. LiveForks(g)' = LiveForks(g)
  BY ShrinksForks
<1>4. created' >= created /\ created' \in Nat
  BY <1>1, ConstantsAssumption DEF Shrinks, ControlTypes
<1>5. \A x \in Frames : frame[x].st = "done" => frame'[x].st = "done"
  BY DEF Shrinks
<1> QED BY <1>1, <1>2, <1>3, <1>4, <1>5, KeptFrame

(* Reporters come and go with the step of their worker.                    *)
LEMMA SameReporters ==
    ASSUME NEW w \in Workers, Others(w), NEW g,
           worker'[w].pc = "report" /\ worker'[w].arg = g <=> worker[w].pc = "report" /\ worker[w].arg = g
    PROVE  Reporters(g)' = Reporters(g)
BY DEF Reporters, Others

(* Steps that change nothing but where a worker is in its code.            *)
Idles(w) ==
    /\ UNCHANGED <<frame, deque, submit, parked, created>>
    /\ Others(w) /\ worker'[w].f = worker[w].f
    /\ worker[w].pc \notin {"report", "construct"} /\ worker'[w].pc # "report"

(* Steps inside a worker leave the frames and the queues alone.            *)
LEMMA IdlesLinks ==
    ASSUME NEW at, NEW who, NEW pos, NEW base, Linked(at, who, pos, base), FrameTypes', ControlTypes',
           NEW w \in Workers, Idles(w), Goes(w)
    PROVE  JoinInv'
<1>1. Quiet(w) /\ Others(w) /\ Shrinks({})
  BY DEF Idles, Quiet, Shrinks
<1>2. /\ \A q \in Frames : at[q] = "deque" => frame'[q].last = frame[q].last
      /\ \A q \in Frames : at[q] = "run" /\ who[q] # w => frame'[q].open = frame[q].open
  BY DEF Idles
<1>3. Accounted(at)
  <2> SUFFICES ASSUME NEW g \in Frames
               PROVE  CountedAt(at, g)' /\ ScopeAt(at, g)' /\ LastForkAt(at, g)'
    BY DEF Accounted
  <2>1. Kept(g) /\ SameSpot(at, at, g)
    BY DEF Idles, Kept, SameSpot
  <2>2. Reporters(g)' = Reporters(g)
    BY <1>1, SameReporters DEF Idles
  <2> QED BY <2>1, <2>2, <1>1, Untouched
<1>4. FlagIsSet'
  <2>1. FrameTypes /\ ControlTypes /\ Control /\ Family /\ Placed(at, who, pos) /\ FlagIsSet
    BY DEF Linked
  <2>2. Whereabouts(at, who, pos)
    BY <2>1, Here
  <2> QED BY <2>1, <2>2, <1>1, FlagKept DEF Idles
<1> QED BY <1>1, <1>2, <1>3, <1>4, QuietLinks

(* Return, a join that is not ready, and the releases of a stack.          *)
LEMMA IdlesSteps ==
    ASSUME NEW at, NEW who, NEW pos, NEW base, Linked(at, who, pos, base), FrameTypes', ControlTypes',
           NEW w \in Workers,
           \/ Return(w) \/ JoinNotReady(w) \/ ReportReleases(w) \/ SwitchReleases(w)
           \/ SelfSteal(w) /\ deque[w] = <<>>
    PROVE  JoinInv'
<1>l. /\ FrameTypes /\ ControlTypes /\ Control /\ Family /\ Placed(at, who, pos)
  BY DEF Linked
<1>w. worker \in [Workers -> [pc : Labels, f : 0..MaxFrames, arg : Nat, stack : 0..MaxFrames]]
  BY <1>l DEF ControlTypes
<1>1. CASE Return(w)
  <2>1. worker[w].pc = "run" /\ worker'[w].pc = "final" /\ worker'[w].f = worker[w].f /\ Others(w)
        /\ frame[worker[w].f].open = FALSE /\ worker[w].f \in Frames
    <3>1. worker[w].f \in Frames
      BY <1>1, <1>l, Here DEF Whereabouts, Return, Executing
    <3>2. frame[worker[w].f].open \in BOOLEAN
      BY <3>1, <1>l DEF FrameTypes, FrameRec
    <3> QED BY <1>1, <1>w, <3>1, <3>2 DEF Return, Others, MayEnd
  <2>2. Idles(w)
    BY <1>1, <2>1 DEF Return, Idles
  <2>3. Goes(w)
    BY <1>1, <2>1 DEF Return, Goes, Executing, None, Frames
  <2> QED BY <2>2, <2>3, IdlesLinks
<1>2. CASE JoinNotReady(w)
  <2>1. worker[w].pc = "run" /\ worker'[w].pc = "suspend" /\ worker'[w].f = worker[w].f /\ Others(w)
        /\ worker[w].f \in Frames
    <3>1. worker[w].f \in Frames
      BY <1>2, <1>l, Here DEF Whereabouts, JoinNotReady, Executing
    <3> QED BY <1>2, <1>w, <3>1 DEF JoinNotReady, Others
  <2>2. Idles(w)
    BY <1>2, <2>1 DEF JoinNotReady, Idles
  <2>3. Goes(w)
    BY <2>1 DEF Goes, Executing, None, Frames
  <2> QED BY <2>2, <2>3, IdlesLinks
<1>3. CASE ReportReleases(w)
  <2>1. worker[w].pc = "release" /\ worker[w].f = None /\ deque[w] = <<>>
    BY <1>3, <1>l DEF ReportReleases, Control, Executing
  <2>2. worker'[w].pc = "idle" /\ worker'[w].f = None /\ Others(w) /\ deque' = deque
    BY <1>3, <1>w DEF ReportReleases, IdleOn, Others
  <2>3. Idles(w)
    BY <1>3, <2>1, <2>2 DEF ReportReleases, Idles
  <2>4. Goes(w)
    BY <2>1, <2>2 DEF Goes, Executing
  <2> QED BY <2>3, <2>4, IdlesLinks
<1>4. CASE SwitchReleases(w)
  <2>1. worker[w].pc = "switch" /\ worker[w].f = None
    BY <1>4, <1>l DEF SwitchReleases, Control, Executing
  <2>2. worker'[w].pc = "selfsteal" /\ worker'[w].f = None /\ Others(w)
    BY <1>4, <1>w DEF SwitchReleases, Others
  <2>3. Idles(w)
    BY <1>4, <2>1, <2>2 DEF SwitchReleases, Idles
  <2>4. Goes(w)
    BY <2>1, <2>2 DEF Goes, Executing
  <2> QED BY <2>3, <2>4, IdlesLinks
<1>5. CASE SelfSteal(w) /\ deque[w] = <<>>
  <2>1. worker[w].pc = "selfsteal" /\ worker[w].f = None
    BY <1>5, <1>l DEF SelfSteal, Control, Executing
  <2>2. worker'[w].pc = "idle" /\ worker'[w].f = None /\ Others(w) /\ deque' = deque
    BY <1>5, <1>w DEF SelfSteal, IdleOn, Others
  <2>3. Idles(w)
    BY <1>5, <2>1, <2>2 DEF SelfSteal, Idles
  <2>4. Goes(w)
    BY <2>1, <2>2, <1>5 DEF Goes, Executing
  <2> QED BY <2>3, <2>4, IdlesLinks
<1> QED BY <1>1, <1>2, <1>3, <1>4, <1>5

-----------------------------------------------------------------------------
(* Steps that change nothing of the frames but one m_except.               *)
LEMMA SetsExc ==
    ASSUME FrameTypes, NEW p \in Frames, NEW e, frame' = [frame EXCEPT ![p].exc = e], created' = created
    PROVE  /\ Shrinks({}) /\ \A g \in Frames : Kept(g)
           /\ frame'[p].exc = e /\ \A g \in Frames \ {p} : frame'[g].exc = frame[g].exc
<1>1. \A g \in Frames \ {p} : frame'[g] = frame[g]
  BY DEF FrameTypes
<1>2. frame'[p] = [frame[p] EXCEPT !.exc = e]
  BY DEF FrameTypes
<1>3. frame[p] \in FrameRec
  BY DEF FrameTypes
<1>4. /\ frame'[p].exc = e /\ frame'[p].st = frame[p].st /\ frame'[p].kind = frame[p].kind
      /\ frame'[p].parent = frame[p].parent /\ frame'[p].steal = frame[p].steal
      /\ frame'[p].join = frame[p].join /\ frame'[p].last = frame[p].last
      /\ frame'[p].pre = frame[p].pre /\ frame'[p].open = frame[p].open
  BY <1>2, <1>3 DEF FrameRec
<1> QED BY <1>1, <1>4 DEF Shrinks, Kept

(* unhandled_exception(): m_except is set, then m_eptr constructed.        *)
LEMMA ExceptionLinks ==
    ASSUME NEW at, NEW who, NEW pos, NEW base, Linked(at, who, pos, base), FrameTypes', ControlTypes',
           NEW w \in Workers, CaptureException(w) \/ ConstructException(w)
    PROVE  JoinInv'
<1>l. /\ FrameTypes /\ ControlTypes /\ Control /\ Family /\ Placed(at, who, pos) /\ Scopes(at) /\ FlagIsSet
  BY DEF Linked
<1>e. Whereabouts(at, who, pos)
  BY <1>l, Here
<1>w. worker \in [Workers -> [pc : Labels, f : 0..MaxFrames, arg : Nat, stack : 0..MaxFrames]]
  BY <1>l DEF ControlTypes
<1> DEFINE f == worker[w].f
           p == frame[worker[w].f].parent
<1>1. f \in Frames /\ frame[f].kind # "root" /\ frame[f].st = "live" /\ p \in Frames
      /\ worker[w].pc \in {"run", "construct"}
  <2>1. f \in Frames /\ frame[f].st = "live" /\ worker[w].pc \in {"run", "construct"}
    <3>1. worker[w].pc \in {"run", "construct"}
      BY Zenon DEF CaptureException, ConstructException
    <3> QED BY <3>1, <1>e DEF Whereabouts, Executing
  <2>2. frame[f].kind # "root"
    <3>1. CASE CaptureException(w)
      BY <3>1 DEF CaptureException
    <3>2. CASE ConstructException(w)
      BY <3>2, <1>l DEF ConstructException, Control
    <3> QED BY <3>1, <3>2
  <2> QED BY <2>1, <2>2, <1>l DEF Family
<1>2. frame[f].open = FALSE
  <2>1. CASE CaptureException(w)
    <3>1. frame[f].open \in BOOLEAN
      BY <1>1, <1>l DEF FrameTypes, FrameRec
    <3> QED BY <2>1, <3>1 DEF CaptureException, MayEnd
  <2>2. CASE ConstructException(w)
    BY <2>2, <1>l DEF ConstructException, Scopes
  <2> QED BY <2>1, <2>2
<1>3. PICK e : /\ frame' = [frame EXCEPT ![p].exc = e]
               /\ CaptureException(w) => e = IF frame[p].exc = "none" THEN "flag" ELSE frame[p].exc
               /\ ConstructException(w) => e = "set"
  BY <1>1, <1>l, Zenon DEF CaptureException, ConstructException, FrameTypes
<1>4. /\ Shrinks({}) /\ \A g \in Frames : Kept(g)
      /\ frame'[p].exc = e /\ \A g \in Frames \ {p} : frame'[g].exc = frame[g].exc
  <2>1. created' = created
    BY Zenon DEF CaptureException, ConstructException
  <2> HIDE DEF p
  <2> QED BY <1>1, <1>3, <1>l, <2>1, SetsExc, Zenon
<1>5. /\ Others(w) /\ worker'[w].f = f /\ worker'[w].pc \in {"construct", "final"}
      /\ CaptureException(w) => worker'[w].pc = IF frame[p].exc = "none" THEN "construct" ELSE "final"
      /\ UNCHANGED <<deque, submit, parked>>
  <2>1. CASE CaptureException(w)
    <3>1. worker' = [worker EXCEPT ![w].pc = IF frame[p].exc = "none" THEN "construct" ELSE "final", ![w].arg = p]
      BY <2>1 DEF CaptureException
    <3>2. UNCHANGED <<deque, submit, parked>>
      BY <2>1 DEF CaptureException
    <3> QED BY <1>w, <3>1, <3>2 DEF Others
  <2>2. CASE ConstructException(w)
    BY <1>w, <1>1, <2>2 DEF ConstructException, CaptureException, Others
  <2> QED BY <2>1, <2>2
<1> HIDE DEF f, p
<1>6. Quiet(w)
  BY <1>4, <1>5 DEF Quiet, f
<1>7. Goes(w)
  <2>1. frame'[f].kind # "root" /\ frame'[f].open = FALSE
    BY <1>1, <1>2, <1>4 DEF Shrinks, Kept
  <2> QED BY <1>1, <1>5, <2>1 DEF Goes, Executing, None, Frames
<1>8. /\ \A q \in Frames : at[q] = "deque" => frame'[q].last = frame[q].last
      /\ \A q \in Frames : at[q] = "run" /\ who[q] # w => frame'[q].open = frame[q].open
  BY <1>4 DEF Kept
<1>9. Accounted(at)
  <2> SUFFICES ASSUME NEW g \in Frames
               PROVE  CountedAt(at, g)' /\ ScopeAt(at, g)' /\ LastForkAt(at, g)'
    BY DEF Accounted
  <2>1. Kept(g) /\ SameSpot(at, at, g)
    BY <1>4 DEF SameSpot
  <2>2. Reporters(g)' = Reporters(g)
    BY <1>1, <1>5, SameReporters
  <2> QED BY <2>1, <2>2, <1>4, Untouched
<1>10. FlagIsSet'
  <2> SUFFICES ASSUME NEW g \in Frames, frame'[g].st = "live", frame'[g].exc = "flag"
               PROVE  \E v \in Workers : worker'[v].pc = "construct" /\ frame'[worker'[v].f].parent = g
    BY DEF FlagIsSet
  <2>1. frame[g].st = "live" /\ \A x \in Frames : frame'[x].parent = frame[x].parent
    BY <1>4 DEF Shrinks
  <2>2. ASSUME frame[g].exc = "flag", ConstructException(w) => g # p
        PROVE  \E v \in Workers : worker'[v].pc = "construct" /\ frame'[worker'[v].f].parent = g
    <3>1. PICK v \in Workers : worker[v].pc = "construct" /\ frame[worker[v].f].parent = g
      BY <2>1, <2>2, <1>l DEF FlagIsSet
    <3>2. v # w
      BY <3>1, <2>2 DEF p, CaptureException
    <3>3. worker'[v] = worker[v] /\ worker[v].f \in Frames
      BY <3>1, <3>2, <1>5, <1>e DEF Others, Whereabouts, Executing
    <3> QED BY <3>1, <3>3, <2>1
  <2>3. CASE g # p
    BY <2>2, <2>3, <1>4
  <2>4. CASE g = p
    <3>1. CaptureException(w)
      BY <1>3, <1>4, <2>4
    <3>2. CASE frame[p].exc = "none"
      BY <3>1, <3>2, <2>1, <2>4, <1>5, <1>1 DEF f, p
    <3>3. CASE frame[p].exc # "none"
      <4>1. frame[p].exc = "flag" /\ ~ConstructException(w)
        BY <3>1, <3>3, <1>3, <1>4, <2>4, Zenon DEF CaptureException, ConstructException
      <4> QED BY <4>1, <2>2, <2>4
    <3> QED BY <3>2, <3>3
  <2> QED BY <2>3, <2>4
<1> QED BY <1>6, <1>7, <1>8, <1>9, <1>10, QuietLinks

-----------------------------------------------------------------------------
(* A frame that has passed its join: the counters are reset.               *)
Joined(f) ==
    /\ Shrinks({}) /\ \A g \in Frames \ {f} : Kept(g) /\ frame'[g].exc = frame[g].exc
    /\ frame'[f].steal = 0 /\ frame'[f].join = CounterMax /\ frame'[f].exc = "none"
    /\ frame'[f].open = FALSE /\ frame'[f].last = None

(* A frame after its join: fresh counters and no open scope.               *)
LEMMA ResetsFrame ==
    ASSUME FrameTypes, NEW f \in Frames, created' = created,
           \/ frame' = [frame EXCEPT ![f] = AfterJoin(Reset(@))]
           \/ frame[f].steal = 0 /\ frame[f].join = CounterMax /\ frame' = [frame EXCEPT ![f] = AfterJoin(@)]
    PROVE  Joined(f)
<1>1. \A g \in Frames \ {f} : frame'[g] = frame[g]
  BY DEF FrameTypes
<1>2. frame[f] \in FrameRec
  BY DEF FrameTypes
<1>3. /\ frame'[f].steal = 0 /\ frame'[f].join = CounterMax /\ frame'[f].exc = "none"
      /\ frame'[f].open = FALSE /\ frame'[f].last = None
      /\ frame'[f].st = frame[f].st /\ frame'[f].kind = frame[f].kind /\ frame'[f].parent = frame[f].parent
  <2>1. CASE frame' = [frame EXCEPT ![f] = AfterJoin(Reset(@))]
    <3>1. frame'[f] = AfterJoin(Reset(frame[f]))
      BY <2>1 DEF FrameTypes
    <3> QED BY <3>1, <1>2 DEF AfterJoin, Reset, FrameRec
  <2>2. CASE frame[f].steal = 0 /\ frame[f].join = CounterMax /\ frame' = [frame EXCEPT ![f] = AfterJoin(@)]
    <3>1. frame'[f] = AfterJoin(frame[f])
      BY <2>2 DEF FrameTypes
    <3> QED BY <3>1, <2>2, <1>2 DEF AfterJoin, FrameRec
  <2> QED BY <2>1, <2>2
<1> QED BY <1>1, <1>3 DEF Joined, Shrinks, Kept

(* Nobody is missing when a frame passes its join.                         *)
LEMMA JoinedFrame ==
    ASSUME NEW f \in Frames, Joined(f), Outstanding(f)' = 0, NEW at1, at1[f] = "run"
    PROVE  CountedAt(at1, f)' /\ ScopeAt(at1, f)' /\ LastForkAt(at1, f)'
<1>1. CounterMax \in Nat
  BY ConstantsAssumption
<1>2. CountedAt(at1, f)'
  BY <1>1 DEF CountedAt, Joined
<1>3. ScopeAt(at1, f)' /\ LastForkAt(at1, f)'
  BY DEF ScopeAt, LastForkAt, Joined
<1> QED BY <1>2, <1>3

(* A join that finds all children done goes on in a fresh scope.           *)
LEMMA JoinLinks ==
    ASSUME NEW at, NEW who, NEW pos, NEW base, Linked(at, who, pos, base), FrameTypes', ControlTypes',
           NEW w \in Workers, JoinReady(w) \/ JoinWins(w)
    PROVE  JoinInv'
<1>l. /\ FrameTypes /\ ControlTypes /\ Control /\ Family /\ Placed(at, who, pos) /\ FlagIsSet /\ Counted(at)
  BY DEF Linked
<1>e. Whereabouts(at, who, pos)
  BY <1>l, Here
<1>w. worker \in [Workers -> [pc : Labels, f : 0..MaxFrames, arg : Nat, stack : 0..MaxFrames]]
  BY <1>l DEF ControlTypes
<1>0. PICK f \in Frames : f = worker[w].f
  BY <1>e DEF Whereabouts, JoinReady, JoinWins, Executing
<1>1. frame[f].st = "live" /\ at[f] = "run" /\ who[f] = w /\ worker[w].pc \in {"run", "suspend"}
  BY <1>0, <1>e DEF Whereabouts, JoinReady, JoinWins
<1>2. Outstanding(f) = 0 /\ (frame[f].steal = 0 => frame[f].join = CounterMax)
  <2>1. Outstanding(f) = frame[f].steal - (CounterMax - frame[f].join)
    <3>1. frame[f].steal \in Nat /\ frame[f].join \in Nat /\ CounterMax \in Nat
      BY <1>l, FieldTypes
    <3> QED BY <3>1, <1>1, <1>l DEF Counted, CountedAt
  <2>2. /\ frame[f].steal \in Nat /\ frame[f].join \in Nat /\ CounterMax \in Nat
        /\ frame[f].join <= CounterMax /\ Outstanding(f) \in Nat
    BY <1>l, FieldTypes, OutFinite
  <2>3. frame[f].steal = 0 \/ frame[f].steal = CounterMax - frame[f].join
    BY <1>0 DEF JoinReady, JoinWins, AllReported
  <2> QED BY <2>1, <2>2, <2>3
<1>3. Joined(f)
  <2>1. created' = created
    BY DEF JoinReady, JoinWins
  <2>2. \/ frame' = [frame EXCEPT ![f] = AfterJoin(Reset(@))]
        \/ frame[f].steal = 0 /\ frame[f].join = CounterMax /\ frame' = [frame EXCEPT ![f] = AfterJoin(@)]
    BY <1>0, <1>2 DEF JoinReady, JoinWins, TakeStackResetFrame
  <2> QED BY <2>1, <2>2, <1>l, ResetsFrame
<1>4. worker'[w].pc = "run" /\ worker'[w].f = f /\ Others(w) /\ UNCHANGED <<deque, submit, parked>>
  <2>1. CASE UNCHANGED worker /\ JoinReady(w)
    BY <2>1, <1>0 DEF JoinReady, Others
  <2>2. CASE worker' = [worker EXCEPT ![w] = RunOn(f, frame[f].stack)]
    BY <2>2, <1>w DEF RunOn, Others, JoinReady, JoinWins
  <2> QED BY <1>0, <2>1, <2>2 DEF JoinReady, JoinWins, TakeStackResetFrame
<1>5. Quiet(w)
  BY <1>0, <1>3, <1>4 DEF Quiet, Joined
<1>6. Goes(w)
  BY <1>4 DEF Goes, Executing, None, Frames
<1>7. /\ \A q \in Frames : at[q] = "deque" => frame'[q].last = frame[q].last
      /\ \A q \in Frames : at[q] = "run" /\ who[q] # w => frame'[q].open = frame[q].open
  BY <1>1, <1>3 DEF Joined, Kept
<1>8. Accounted(at)
  <2> SUFFICES ASSUME NEW g \in Frames
               PROVE  CountedAt(at, g)' /\ ScopeAt(at, g)' /\ LastForkAt(at, g)'
    BY DEF Accounted
  <2>1. Reporters(g)' = Reporters(g)
    BY <1>1, <1>4, SameReporters
  <2>2. Shrinks({})
    BY <1>3 DEF Joined
  <2>3. CASE g = f
    <3>1. LiveForks(g)' = LiveForks(g)
      BY <2>2, ShrinksForks
    <3>2. Outstanding(g)' = 0
      BY <3>1, <2>1, <2>3, <1>2, OutMoves
    <3> QED BY <3>2, <2>3, <1>1, <1>3, JoinedFrame
  <2>4. CASE g # f
    <3>1. Kept(g) /\ SameSpot(at, at, g)
      BY <2>4, <1>3 DEF SameSpot, Joined
    <3> QED BY <2>1, <2>2, <3>1, Untouched
  <2> QED BY <2>3, <2>4
<1>9. FlagIsSet'
  <2>1. /\ \A g \in Frames : frame[g].st = "live" => frame'[g].parent = frame[g].parent
        /\ \A g \in Frames : frame'[g].st = "live" /\ frame'[g].exc = "flag" =>
             frame[g].st = "live" /\ frame[g].exc = "flag"
    BY <1>3 DEF Joined, Shrinks
  <2> QED BY <2>1, <1>1, <1>4, <1>e, <1>l, FlagKept
<1> QED BY <1>5, <1>6, <1>7, <1>8, <1>9, QuietLinks

-----------------------------------------------------------------------------
(* What a child finds that reports to its parent: it is missed, so the     *)
(* scope is open; and m_join is at 1 only if the parent waits.             *)
LEMMA Reported ==
    ASSUME NEW at, NEW who, NEW pos, NEW base, Linked(at, who, pos, base), StealsFit,
           NEW w \in Workers, worker[w].pc = "report"
    PROVE  /\ worker[w].arg \in Frames /\ frame[worker[w].arg].st = "live"
           /\ worker[w].f = None /\ deque[w] = <<>>
           /\ Outstanding(worker[w].arg) >= 1 /\ frame[worker[w].arg].open # FALSE
           /\ at[worker[w].arg] # "parked" => frame[worker[w].arg].join >= 2
           /\ at[worker[w].arg] = "parked" => frame[worker[w].arg].join = Outstanding(worker[w].arg)
<1>l. FrameTypes /\ ControlTypes /\ Control /\ Counted(at) /\ Scopes(at)
  BY DEF Linked
<1>0. PICK p \in Frames : p = worker[w].arg /\ frame[p].st = "live"
  BY <1>l DEF Control
<1>1. worker[w].f = None /\ deque[w] = <<>>
  BY <1>l DEF Control, Executing
<1>2. Outstanding(p) >= 1 /\ Outstanding(p) \in Nat
  <2>1. w \in Reporters(p)
    BY <1>0 DEF Reporters
  <2> QED BY <2>1, OutSome, OutFinite
<1>3. /\ frame[p].steal \in Nat /\ frame[p].join \in Nat /\ CounterMax \in Nat
      /\ frame[p].steal + 1 < CounterMax
  BY <1>l, FieldTypes DEF StealsFit
<1>4. Outstanding(p) = IF at[p] = "parked" THEN frame[p].join
                       ELSE frame[p].steal - (CounterMax - frame[p].join) + IF at[p] = "deque" THEN 1 ELSE 0
  BY <1>0, <1>l DEF Counted, CountedAt
<1>5. at[p] # "parked" => frame[p].join >= 2
  <2>1. CASE at[p] = "deque"
    BY <1>2, <1>3, <1>4, <2>1
  <2>2. CASE at[p] # "deque" /\ at[p] # "parked"
    BY <1>2, <1>3, <1>4, <2>2
  <2> QED BY <2>1, <2>2
<1>6. frame[p].open # FALSE
  <2> SUFFICES ASSUME frame[p].open = FALSE PROVE FALSE
    OBVIOUS
  <2>1. frame[p].steal = 0 /\ frame[p].join = CounterMax /\ at[p] # "deque" /\ at[p] # "parked"
    BY <1>0, <1>l DEF Scopes, ScopeAt
  <2> QED BY <2>1, <1>2, <1>3, <1>4
<1> QED BY <1>0, <1>1, <1>2, <1>4, <1>5, <1>6

(* A child that is not the last one subtracts itself.                      *)
LEMMA ReportLosesLinks ==
    ASSUME NEW at, NEW who, NEW pos, NEW base, Linked(at, who, pos, base), FrameTypes', ControlTypes',
           StealsFit, NEW w \in Workers, ReportLoses(w)
    PROVE  JoinInv'
<1>l. /\ FrameTypes /\ ControlTypes /\ Control /\ Family /\ Placed(at, who, pos) /\ FlagIsSet
      /\ Counted(at) /\ Scopes(at) /\ LastForks(at)
  BY DEF Linked
<1>e. Whereabouts(at, who, pos)
  BY <1>l, Here
<1>w. worker \in [Workers -> [pc : Labels, f : 0..MaxFrames, arg : Nat, stack : 0..MaxFrames]]
  BY <1>l DEF ControlTypes
<1>0. worker[w].pc = "report" /\ ~LastToJoin(worker[w].arg)
  BY DEF ReportLoses
<1>1. PICK p \in Frames : p = worker[w].arg
  BY <1>0, Reported
<1>2. /\ frame[p].st = "live" /\ worker[w].f = None /\ deque[w] = <<>>
      /\ Outstanding(p) >= 1 /\ frame[p].open # FALSE
      /\ at[p] # "parked" => frame[p].join >= 2
      /\ at[p] = "parked" => frame[p].join = Outstanding(p)
  BY <1>0, <1>1, Reported
<1>3. /\ frame[p].steal \in Nat /\ frame[p].join \in Nat /\ frame[p].join <= CounterMax
      /\ CounterMax \in Nat /\ Outstanding(p) \in Nat
  BY <1>l, FieldTypes, OutFinite
<1>4. Wrap(frame[p].join - 1) = frame[p].join - 1
  <2>1. frame[p].join - 1 \in 0..CounterMax
    BY <1>2, <1>3
  <2> QED BY <2>1, WrapType
<1>5. /\ Shrinks({}) /\ \A g \in Frames \ {p} : frame'[g] = frame[g]
      /\ frame'[p].steal = frame[p].steal /\ frame'[p].join = frame[p].join - 1
      /\ frame'[p].last = frame[p].last /\ frame'[p].pre = frame[p].pre
      /\ frame'[p].open = frame[p].open /\ frame'[p].exc = frame[p].exc
  <2>1. frame' = [frame EXCEPT ![p].join = frame[p].join - 1] /\ created' = created
    BY <1>1, <1>4 DEF ReportLoses
  <2>2. \A g \in Frames \ {p} : frame'[g] = frame[g]
    BY <2>1, <1>l DEF FrameTypes
  <2>3. frame'[p] = [frame[p] EXCEPT !.join = frame[p].join - 1] /\ frame[p] \in FrameRec
    BY <2>1, <1>l DEF FrameTypes
  <2>4. /\ frame'[p].st = frame[p].st /\ frame'[p].kind = frame[p].kind /\ frame'[p].parent = frame[p].parent
        /\ frame'[p].steal = frame[p].steal /\ frame'[p].join = frame[p].join - 1
        /\ frame'[p].last = frame[p].last /\ frame'[p].pre = frame[p].pre
        /\ frame'[p].open = frame[p].open /\ frame'[p].exc = frame[p].exc
    BY <2>3 DEF FrameRec
  <2> QED BY <2>1, <2>2, <2>4 DEF Shrinks
<1>6. /\ worker'[w].pc \in {"release", "idle"} /\ worker'[w].f = None /\ Others(w)
      /\ UNCHANGED <<deque, submit, parked>>
  BY <1>1, <1>2, <1>w DEF ReportLoses, IdleOn, Others
<1>7. Quiet(w)
  BY <1>2, <1>5, <1>6 DEF Quiet
<1>8. Goes(w)
  BY <1>2, <1>6 DEF Goes, Executing
<1>9. /\ \A q \in Frames : at[q] = "deque" => frame'[q].last = frame[q].last
      /\ \A q \in Frames : at[q] = "run" /\ who[q] # w => frame'[q].open = frame[q].open
  BY <1>5
<1>10. Accounted(at)
  <2> SUFFICES ASSUME NEW g \in Frames
               PROVE  CountedAt(at, g)' /\ ScopeAt(at, g)' /\ LastForkAt(at, g)'
    BY DEF Accounted
  <2>1. CASE g = p
    <3>1. Reporters(g)' = Reporters(g) \ {w} /\ w \in Reporters(g)
      BY <2>1, <1>0, <1>1, <1>6 DEF Reporters, Others
    <3>2. LiveForks(g)' = LiveForks(g)
      BY <1>5, ShrinksForks
    <3>3. Outstanding(g)' = Outstanding(g) - 1
      BY <3>1, <3>2, OutMoves
    <3>4. CountedAt(at, g)'
      <4>1. Outstanding(g) = IF at[g] = "parked" THEN frame[g].join
                       ELSE frame[g].steal - (CounterMax - frame[g].join) + IF at[g] = "deque" THEN 1 ELSE 0
        BY <2>1, <1>2, <1>l DEF Counted, CountedAt
      <4>a. /\ frame'[g].join = frame[g].join - 1 /\ frame'[g].steal = frame[g].steal
            /\ frame[g].steal \in Nat /\ frame[g].join \in Nat /\ CounterMax \in Nat
        BY <2>1, <1>3, <1>5
      <4>2. CASE at[g] = "parked"
        BY <4>1, <4>2, <3>3, <4>a DEF CountedAt
      <4>3. CASE at[g] = "deque"
        BY <4>1, <4>3, <3>3, <4>a DEF CountedAt
      <4>4. CASE at[g] # "parked" /\ at[g] # "deque"
        BY <4>1, <4>4, <3>3, <4>a DEF CountedAt
      <4> QED BY <4>2, <4>3, <4>4
    <3>5. ScopeAt(at, g)'
      BY <2>1, <1>2, <1>5 DEF ScopeAt
    <3>6. LastForkAt(at, g)'
      <4>1. created' >= created /\ created' \in Nat /\ LastForkAt(at, g)
        BY <1>l, <1>5, ConstantsAssumption DEF Shrinks, ControlTypes, LastForks
      <4>2. /\ \A x \in Frames : frame[x].st = "done" => frame'[x].st = "done"
            /\ frame'[g].st = "live" => frame[g].st = "live"
        BY <1>5 DEF Shrinks
      <4> QED BY <4>1, <4>2, <2>1, <1>5, <1>l, KeptLastFork
    <3> QED BY <3>4, <3>5, <3>6
  <2>2. CASE g # p
    <3>1. Kept(g) /\ SameSpot(at, at, g)
      BY <2>2, <1>5 DEF SameSpot, Kept
    <3>2. Reporters(g)' = Reporters(g)
      BY <2>2, <1>1, <1>6, SameReporters
    <3> QED BY <3>1, <3>2, <1>5, Untouched
  <2> QED BY <2>1, <2>2
<1>11. FlagIsSet'
  <2>1. /\ \A g \in Frames : frame[g].st = "live" => frame'[g].parent = frame[g].parent
        /\ \A g \in Frames : frame'[g].st = "live" /\ frame'[g].exc = "flag" =>
             frame[g].st = "live" /\ frame[g].exc = "flag"
    BY <1>5 DEF Shrinks
  <2> QED BY <2>1, <1>0, <1>6, <1>e, <1>l, FlagKept
<1> QED BY <1>7, <1>8, <1>9, <1>10, <1>11, QuietLinks

-----------------------------------------------------------------------------
(* One frame goes to another place.                                        *)
Shifts(at, who, at1, who1, m, k, u) ==
    /\ \A g \in Frames \ {m} : at1[g] = at[g] /\ who1[g] = who[g]
    /\ at1[m] = k /\ who1[m] = u

Resettled(at1, who1) ==
    PlaceTypes(at1, who1)' /\ LiveIsPlaced(at1)' /\ RunPlaces(at1, who1)' /\ CallPlaces(at1, who1)'

(* Queues that do not change keep their places.                            *)
LEMMA SameQueues ==
    ASSUME NEW at, NEW who, NEW pos, Placed(at, who, pos), NEW m \in Frames, NEW k, NEW u,
           NEW at1, NEW who1, Shifts(at, who, at1, who1, m, k, u)
    PROVE  /\ submit' = submit /\ at[m] # "submit" /\ k # "submit" => SubmitPlaces(at1, who1)'
           /\ parked' = parked /\ at[m] # "parked" /\ k # "parked" => ParkPlaces(at1)'
           /\ deque' = deque /\ at[m] # "deque" /\ k # "deque" => DequePlaces(at1, who1, pos)'
<1>1. submit' = submit /\ at[m] # "submit" /\ k # "submit" => SubmitPlaces(at1, who1)'
  BY DEF Placed, SubmitPlaces, Shifts
<1>2. parked' = parked /\ at[m] # "parked" /\ k # "parked" => ParkPlaces(at1)'
  BY DEF Placed, ParkPlaces, Shifts
<1>3. deque' = deque /\ at[m] # "deque" /\ k # "deque" => DequePlaces(at1, who1, pos)'
  <2>1. at[m] # "deque" /\ k # "deque" => SameOnDeque(at, who, pos, at1, who1, pos, Frames)
    BY DEF SameOnDeque, Shifts
  <2> QED BY <2>1, DequeSame DEF Placed
<1> QED BY <1>1, <1>2, <1>3

(* A worker without a frame takes up one that waits on a queue or a join.  *)
LEMMA StartsPlaces ==
    ASSUME NEW at, NEW who, NEW pos, Placed(at, who, pos), NEW w \in Workers, Others(w), Shrinks({}),
           worker[w].f = None, NEW m \in Frames, worker'[w].f = m,
           at[m] = "submit" \/ at[m] = "parked" \/ at[m] = "deque"
    PROVE  \E at1, who1 : Shifts(at, who, at1, who1, m, "run", w) /\ Resettled(at1, who1)
<1>a. PICK at1 : at1 = [at EXCEPT ![m] = "run"]
  OBVIOUS
<1>b. PICK who1 : who1 = [who EXCEPT ![m] = w]
  OBVIOUS
<1>0. Shifts(at, who, at1, who1, m, "run", w)
  BY <1>a, <1>b DEF Placed, PlaceTypes, Shifts
<1>1. PlaceTypes(at1, who1)'
  BY <1>a, <1>b DEF Placed, PlaceTypes
<1>2. LiveIsPlaced(at1)'
  BY <1>0 DEF Placed, LiveIsPlaced, Shrinks, Shifts
<1>3. RunPlaces(at1, who1)'
  <2> SUFFICES ASSUME NEW v \in Workers, NEW g \in Frames
               PROVE  worker'[v].f = g <=> at1[g] = "run" /\ who1[g] = v
    BY DEF RunPlaces
  <2>1. worker[v].f = g <=> at[g] = "run" /\ who[g] = v
    BY DEF Placed, RunPlaces
  <2>2. CASE v = w
    BY <2>1, <2>2, <1>0 DEF None, Frames, Shifts
  <2>3. CASE v # w
    BY <2>1, <2>3, <1>0 DEF Others, Shifts
  <2> QED BY <2>2, <2>3
<1>4. CallPlaces(at1, who1)'
  BY <1>0 DEF Placed, CallPlaces, Shrinks, Shifts
<1> QED BY <1>0, <1>1, <1>2, <1>3, <1>4 DEF Resettled

(* A worker leaves its frame on a queue or at its join.                    *)
LEMMA StopsPlaces ==
    ASSUME NEW at, NEW who, NEW pos, Placed(at, who, pos), NEW w \in Workers, Others(w), Shrinks({}),
           NEW m \in Frames, worker[w].f = m, worker'[w].f = None,
           NEW k, k = "submit" \/ k = "parked", NEW u \in Workers
    PROVE  \E at1, who1 : Shifts(at, who, at1, who1, m, k, u) /\ Resettled(at1, who1)
<1>a. PICK at1 : at1 = [at EXCEPT ![m] = k]
  OBVIOUS
<1>b. PICK who1 : who1 = [who EXCEPT ![m] = u]
  OBVIOUS
<1>0. Shifts(at, who, at1, who1, m, k, u) /\ at[m] = "run" /\ who[m] = w
  BY <1>a, <1>b DEF Placed, PlaceTypes, Shifts, RunPlaces
<1>1. PlaceTypes(at1, who1)'
  BY <1>a, <1>b DEF Placed, PlaceTypes
<1>2. LiveIsPlaced(at1)'
  BY <1>0 DEF Placed, LiveIsPlaced, Shrinks, Shifts
<1>3. RunPlaces(at1, who1)'
  <2> SUFFICES ASSUME NEW v \in Workers, NEW g \in Frames
               PROVE  worker'[v].f = g <=> at1[g] = "run" /\ who1[g] = v
    BY DEF RunPlaces
  <2>1. worker[v].f = g <=> at[g] = "run" /\ who[g] = v
    BY DEF Placed, RunPlaces
  <2>2. CASE v = w
    BY <2>1, <2>2, <1>0 DEF None, Frames, Shifts
  <2>3. CASE v # w
    BY <2>1, <2>3, <1>0 DEF Others, Shifts
  <2> QED BY <2>2, <2>3
<1>4. CallPlaces(at1, who1)'
  BY <1>0 DEF Placed, CallPlaces, Shrinks, Shifts
<1> QED BY <1>0, <1>1, <1>2, <1>3, <1>4 DEF Resettled

-----------------------------------------------------------------------------
(* A frame that starts running without having been stolen or joined.       *)
LEMMA ResumeLinks ==
    ASSUME NEW at, NEW who, NEW pos, NEW base, Linked(at, who, pos, base), FrameTypes', ControlTypes',
           NEW w \in Workers, NEW f \in submit[w], ResumeSubmitted(w, f)
    PROVE  JoinInv'
<1>l. /\ FrameTypes /\ ControlTypes /\ Control /\ Family /\ Placed(at, who, pos) /\ FlagIsSet
  BY DEF Linked
<1>e. Whereabouts(at, who, pos)
  BY <1>l, Here
<1>w. worker \in [Workers -> [pc : Labels, f : 0..MaxFrames, arg : Nat, stack : 0..MaxFrames]]
  BY <1>l DEF ControlTypes
<1>0. f \in Frames /\ at[f] = "submit" /\ who[f] = w
  BY <1>l DEF ControlTypes, Placed, SubmitPlaces
<1>1. worker[w].pc = "idle" /\ worker[w].f = None /\ deque[w] = <<>>
  BY <1>l DEF ResumeSubmitted, Control, Executing
<1>2. worker'[w].pc = "run" /\ worker'[w].f = f /\ Others(w)
  BY <1>w DEF ResumeSubmitted, RunOn, Others
<1>3. /\ frame' = frame /\ created' = created /\ deque' = deque /\ parked' = parked
      /\ submit' = [submit EXCEPT ![w] = @ \ {f}]
  BY DEF ResumeSubmitted
<1>4. Shrinks({})
  BY <1>3 DEF Shrinks
<1>a. PICK at1, who1 : Shifts(at, who, at1, who1, f, "run", w) /\ Resettled(at1, who1)
  BY <1>0, <1>1, <1>2, <1>4, <1>l, StartsPlaces
<1>5. ParkPlaces(at1)' /\ DequePlaces(at1, who1, pos)'
  BY <1>0, <1>3, <1>a, <1>l, SameQueues
<1>6. SubmitPlaces(at1, who1)'
  <2> SUFFICES ASSUME NEW v \in Workers, NEW g \in Frames
               PROVE  g \in submit'[v] <=> at1[g] = "submit" /\ who1[g] = v
    BY DEF SubmitPlaces
  <2>1. g \in submit[v] <=> at[g] = "submit" /\ who[g] = v
    BY <1>l DEF Placed, SubmitPlaces
  <2>2. submit'[v] = IF v = w THEN submit[v] \ {f} ELSE submit[v]
    BY <1>3, <1>l DEF ControlTypes
  <2> QED BY <2>1, <2>2, <1>0, <1>a DEF Shifts
<1>7. Placed(at1, who1, pos)'
  BY <1>a, <1>5, <1>6 DEF Placed, Resettled
<1>8. Goes(w) /\ Cut(w)
  <2>1. Goes(w)
    BY <1>0, <1>2 DEF Goes, Executing, None, Frames
  <2> QED BY <2>1, <1>3 DEF Cut
<1>9. Accounted(at1)
  <2> SUFFICES ASSUME NEW g \in Frames
               PROVE  CountedAt(at1, g)' /\ ScopeAt(at1, g)' /\ LastForkAt(at1, g)'
    BY DEF Accounted
  <2>1. Kept(g) /\ SameSpot(at, at1, g)
    BY <1>0, <1>3, <1>a DEF SameSpot, Kept, Shifts
  <2>2. Reporters(g)' = Reporters(g)
    BY <1>1, <1>2, SameReporters
  <2> QED BY <2>1, <2>2, <1>4, Untouched
<1>10. FlagIsSet'
  BY <1>1, <1>2, <1>3, <1>e, <1>l, FlagKept
<1>11. worker'[w].f # None /\ deque'[w] # <<>> => ForkedBy(base, worker[w].f, deque[w][Len(deque[w])])'
  BY <1>1, <1>3
<1>12. /\ \A g \in Frames : frame[g].st = "live" /\ frame[g].kind # "root" /\ g \notin {} =>
             frame[g].parent \notin {}
       /\ \A v \in Workers \ {w} : worker[v].pc = "report" => worker[v].arg \notin {}
       /\ \A v \in Workers \ {w} : deque[v] = <<>> => deque'[v] = <<>>
       /\ \A q \in Frames : at[q] = "deque" => frame'[q].last = frame[q].last
       /\ \A q \in Frames : at[q] = "run" /\ who[q] # w => frame'[q].open = frame[q].open
  BY <1>3
<1> QED BY <1>2, <1>4, <1>7, <1>8, <1>9, <1>10, <1>11, <1>12, StepLinks

(* The last child goes on with its parent.                                 *)
LEMMA ReportWinsLinks ==
    ASSUME NEW at, NEW who, NEW pos, NEW base, Linked(at, who, pos, base), FrameTypes', ControlTypes',
           StealsFit, NEW w \in Workers, ReportWins(w)
    PROVE  JoinInv'
<1>l. /\ FrameTypes /\ ControlTypes /\ Control /\ Family /\ Placed(at, who, pos) /\ FlagIsSet
  BY DEF Linked
<1>e. Whereabouts(at, who, pos)
  BY <1>l, Here
<1>w. worker \in [Workers -> [pc : Labels, f : 0..MaxFrames, arg : Nat, stack : 0..MaxFrames]]
  BY <1>l DEF ControlTypes
<1>p. worker[w].pc = "report" /\ frame[worker[w].arg].join = 1
  BY DEF ReportWins, LastToJoin
<1>0. PICK f \in Frames : f = worker[w].arg
  BY <1>p, Reported
<1>1. /\ worker[w].f = None /\ deque[w] = <<>> /\ at[f] = "parked" /\ Outstanding(f) = 1
      /\ frame[f].st = "live"
  <2>1. /\ worker[w].f = None /\ deque[w] = <<>> /\ frame[f].st = "live" /\ frame[f].join = 1
        /\ at[f] # "parked" => frame[f].join >= 2
        /\ at[f] = "parked" => frame[f].join = Outstanding(f)
    BY <1>p, <1>0, Reported
  <2> QED BY <2>1
<1>2. worker'[w].pc = "run" /\ worker'[w].f = f /\ Others(w)
  BY <1>w, <1>0 DEF ReportWins, RunOn, Others
<1>3. created' = created /\ deque' = deque /\ submit' = submit /\ parked' = parked \ {f}
  BY <1>0 DEF ReportWins
<1>4. Joined(f) /\ Shrinks({})
  <2>1. frame' = [frame EXCEPT ![f] = AfterJoin(Reset(@))]
    BY <1>0 DEF ReportWins
  <2>2. Joined(f)
    BY <2>1, <1>3, <1>l, ResetsFrame
  <2> QED BY <2>2 DEF Joined
<1>a. PICK at1, who1 : Shifts(at, who, at1, who1, f, "run", w) /\ Resettled(at1, who1)
  BY <1>1, <1>2, <1>4, <1>l, StartsPlaces
<1>5. SubmitPlaces(at1, who1)' /\ DequePlaces(at1, who1, pos)' /\ at1[f] = "run"
  BY <1>1, <1>3, <1>a, <1>l, SameQueues DEF Shifts
<1>6. ParkPlaces(at1)'
  BY <1>3, <1>a, <1>l DEF Placed, ParkPlaces, Shifts
<1>7. Placed(at1, who1, pos)'
  BY <1>a, <1>5, <1>6 DEF Placed, Resettled
<1>8. Goes(w) /\ Cut(w)
  <2>1. Goes(w)
    BY <1>0, <1>2 DEF Goes, Executing, None, Frames
  <2> QED BY <2>1, <1>3 DEF Cut
<1>9. Accounted(at1)
  <2> SUFFICES ASSUME NEW g \in Frames
               PROVE  CountedAt(at1, g)' /\ ScopeAt(at1, g)' /\ LastForkAt(at1, g)'
    BY DEF Accounted
  <2>1. CASE g = f
    <3>1. Reporters(g)' = Reporters(g) \ {w} /\ w \in Reporters(g)
      BY <2>1, <1>0, <1>p, <1>2 DEF Reporters, Others
    <3>2. LiveForks(g)' = LiveForks(g)
      BY <1>4, ShrinksForks
    <3>3. Outstanding(g)' = Outstanding(g) - 1
      BY <3>1, <3>2, OutMoves
    <3> QED BY <3>3, <2>1, <1>1, <1>4, <1>5, JoinedFrame
  <2>2. CASE g # f
    <3>1. Kept(g) /\ SameSpot(at, at1, g)
      BY <2>2, <1>4, <1>a DEF SameSpot, Joined, Shifts
    <3>2. Reporters(g)' = Reporters(g)
      BY <2>2, <1>0, <1>2, SameReporters
    <3> QED BY <3>1, <3>2, <1>4, Untouched
  <2> QED BY <2>1, <2>2
<1>10. FlagIsSet'
  <2>1. /\ \A g \in Frames : frame[g].st = "live" => frame'[g].parent = frame[g].parent
        /\ \A g \in Frames : frame'[g].st = "live" /\ frame'[g].exc = "flag" =>
             frame[g].st = "live" /\ frame[g].exc = "flag"
    BY <1>4 DEF Joined, Shrinks
  <2> QED BY <2>1, <1>p, <1>2, <1>e, <1>l, FlagKept
<1>11. worker'[w].f # None /\ deque'[w] # <<>> => ForkedBy(base, worker[w].f, deque[w][Len(deque[w])])'
  BY <1>1, <1>3
<1>12. /\ \A g \in Frames : frame[g].st = "live" /\ frame[g].kind # "root" /\ g \notin {} =>
             frame[g].parent \notin {}
       /\ \A v \in Workers \ {w} : worker[v].pc = "report" => worker[v].arg \notin {}
       /\ \A v \in Workers \ {w} : deque[v] = <<>> => deque'[v] = <<>>
       /\ \A q \in Frames : at[q] = "deque" => frame'[q].last = frame[q].last
       /\ \A q \in Frames : at[q] = "run" /\ who[q] # w => frame'[q].open = frame[q].open
  BY <1>1, <1>3, <1>4 DEF Joined, Kept
<1> QED BY <1>2, <1>4, <1>7, <1>8, <1>9, <1>10, <1>11, <1>12, StepLinks

-----------------------------------------------------------------------------
(* A continuation is taken off a deque as stolen: fetch_add_steal().       *)
Taken(f) ==
    /\ Shrinks({}) /\ \A g \in Frames \ {f} : frame'[g] = frame[g]
    /\ frame'[f].steal = frame[f].steal + 1 /\ frame'[f].join = frame[f].join
    /\ frame'[f].last = frame[f].last /\ frame'[f].pre = frame[f].pre
    /\ frame'[f].open = frame[f].open /\ frame'[f].exc = frame[f].exc

(* fetch_add_steal() does not wrap and changes nothing else.               *)
LEMMA TakesFrame ==
    ASSUME FrameTypes, StealsFit, NEW f \in Frames, frame' = [frame EXCEPT ![f].steal = Wrap(@ + 1)],
           created' = created
    PROVE  Taken(f)
<1>1. Wrap(frame[f].steal + 1) = frame[f].steal + 1
  <2>1. frame[f].steal \in Nat /\ CounterMax \in Nat /\ frame[f].steal + 1 < CounterMax
    BY FieldTypes DEF StealsFit
  <2>2. frame[f].steal + 1 \in 0..CounterMax
    BY <2>1
  <2> QED BY <2>2, WrapType
<1>2. \A g \in Frames \ {f} : frame'[g] = frame[g]
  BY DEF FrameTypes
<1>3. frame'[f] = [frame[f] EXCEPT !.steal = frame[f].steal + 1] /\ frame[f] \in FrameRec
  BY <1>1 DEF FrameTypes
<1>4. /\ frame'[f].st = frame[f].st /\ frame'[f].kind = frame[f].kind /\ frame'[f].parent = frame[f].parent
      /\ frame'[f].steal = frame[f].steal + 1 /\ frame'[f].join = frame[f].join
      /\ frame'[f].last = frame[f].last /\ frame'[f].pre = frame[f].pre
      /\ frame'[f].open = frame[f].open /\ frame'[f].exc = frame[f].exc
  BY <1>3 DEF FrameRec
<1> QED BY <1>2, <1>4 DEF Taken, Shrinks

(* The steal makes up for the place on the deque.                          *)
LEMMA TakenFrame ==
    ASSUME NEW at, NEW who, NEW pos, NEW base, Linked(at, who, pos, base), NEW f \in Frames,
           at[f] = "deque", Taken(f), Reporters(f)' = Reporters(f), NEW at1, at1[f] = "run"
    PROVE  CountedAt(at1, f)' /\ ScopeAt(at1, f)' /\ LastForkAt(at1, f)'
<1>l. /\ FrameTypes /\ ControlTypes /\ CountedAt(at, f) /\ ScopeAt(at, f) /\ LastForkAt(at, f)
      /\ Placed(at, who, pos)
  BY DEF Linked, Counted, Scopes, LastForks
<1>1. frame[f].st = "live"
  BY <1>l DEF Placed, LiveIsPlaced
<1>2. /\ frame[f].steal \in Nat /\ frame[f].join \in Nat /\ CounterMax \in Nat /\ frame[f].pre \in Nat
  BY <1>l, FieldTypes
<1>3. /\ frame'[f].steal = frame[f].steal + 1 /\ frame'[f].join = frame[f].join
      /\ frame'[f].last = frame[f].last /\ frame'[f].pre = frame[f].pre
      /\ frame'[f].open = frame[f].open /\ created' = created /\ Shrinks({})
  BY DEF Taken, Shrinks
<1>4. CountedAt(at1, f)'
  <2>1. LiveForks(f)' = LiveForks(f)
    BY <1>3, ShrinksForks
  <2>2. Outstanding(f)' = Outstanding(f)
    BY <2>1, OutMoves
  <2>3. Outstanding(f) = frame[f].steal - (CounterMax - frame[f].join) + 1
    BY <1>1, <1>l DEF CountedAt
  <2> QED BY <1>2, <1>3, <2>2, <2>3 DEF CountedAt
<1>5. ScopeAt(at1, f)'
  BY <1>1, <1>3, <1>l DEF ScopeAt
<1>6. LastForkAt(at1, f)'
  BY <1>1, <1>2, <1>3, <1>l DEF LastForkAt
<1> QED BY <1>4, <1>5, <1>6

(* Who goes on with the newest entry of the deque finds its parent below.  *)
LEMMA PoppedLink ==
    ASSUME NEW at, NEW who, NEW pos, Whereabouts(at, who, pos), ControlTypes', NEW w \in Workers,
           deque[w] # <<>>, LosesLast(w), NEW D, Shrinks(D), NEW base, Bases(base), Chained(base),
           worker'[w].f = deque[w][Len(deque[w])],
           \A q \in Frames : at[q] = "deque" => frame'[q].last = frame[q].last
    PROVE  worker'[w].f # None /\ deque'[w] # <<>> =>
             ForkedBy(base, worker[w].f, deque[w][Len(deque[w])])'
<1> SUFFICES ASSUME deque'[w] # <<>> PROVE ForkedBy(base, worker[w].f, deque[w][Len(deque[w])])'
  OBVIOUS
<1>1. Len(deque'[w]) \in Nat /\ Len(deque'[w]) # 0 /\ Len(deque'[w]) = Len(deque[w]) - 1 /\ Len(deque[w]) \in Nat
  BY DEF ControlTypes, LosesLast, Whereabouts
<1>2. PICK n \in Nat : n = Len(deque'[w]) /\ n # 0 /\ n + 1 = Len(deque[w])
  BY <1>1
<1>3. n \in 1..Len(deque'[w]) /\ n \in 1..(Len(deque[w]) - 1) /\ n \in 1..Len(deque[w]) /\ n + 1 \in 1..Len(deque[w])
  BY <1>2
<1>4. deque'[w][n] = deque[w][n]
  BY <1>3 DEF LosesLast
<1>5. PICK x \in Frames, q \in Frames : x = deque[w][n + 1] /\ q = deque[w][n] /\ at[q] = "deque"
  <2>1. \A i \in 1..Len(deque[w]) : deque[w][i] \in Frames /\ at[deque[w][i]] = "deque"
    BY DEF Whereabouts
  <2> QED BY <1>3, <2>1
<1>6. ForkedBy(base, x, q)
  BY <1>3, <1>5 DEF Chained
<1>7. base[x] \in Frames
  BY DEF Bases
<1>8. ForkedBy(base, x, q)'
  BY <1>5, <1>6, <1>7 DEF ForkedBy, Shrinks
<1>9. worker'[w].f = x /\ deque'[w][Len(deque'[w])] = q
  BY <1>2, <1>4, <1>5
<1> QED BY <1>8, <1>9 DEF ForkedBy

(* What all who take up a stolen continuation have in common.              *)
LEMMA TakenLinks ==
    ASSUME NEW at, NEW who, NEW pos, NEW base, Linked(at, who, pos, base), FrameTypes', ControlTypes',
           NEW w \in Workers, NEW f \in Frames, at[f] = "deque", Taken(f),
           worker[w].f = None, worker[w].pc # "report", worker'[w].pc = "run", worker'[w].f = f, Others(w),
           Cut(w), \A v \in Workers \ {w} : deque[v] = <<>> => deque'[v] = <<>>,
           worker'[w].f # None /\ deque'[w] # <<>> =>
             ForkedBy(base, worker[w].f, deque[w][Len(deque[w])])',
           NEW at1, NEW who1, NEW pos1, Shifts(at, who, at1, who1, f, "run", w), Placed(at1, who1, pos1)'
    PROVE  JoinInv'
<1>l. /\ FrameTypes /\ ControlTypes /\ Control /\ Family /\ Placed(at, who, pos) /\ FlagIsSet
  BY DEF Linked
<1>e. Whereabouts(at, who, pos)
  BY <1>l, Here
<1>0. Shrinks({})
  BY DEF Taken
<1>1. Goes(w)
  BY DEF Goes, Executing, None, Frames
<1>2. Accounted(at1)
  <2> SUFFICES ASSUME NEW g \in Frames
               PROVE  CountedAt(at1, g)' /\ ScopeAt(at1, g)' /\ LastForkAt(at1, g)'
    BY DEF Accounted
  <2>1. Reporters(g)' = Reporters(g)
    BY SameReporters
  <2>2. CASE g = f
    BY <2>1, <2>2, TakenFrame DEF Shifts
  <2>3. CASE g # f
    <3>1. Kept(g) /\ SameSpot(at, at1, g)
      BY <2>3 DEF SameSpot, Taken, Shifts, Kept
    <3> QED BY <3>1, <2>1, <1>0, Untouched
  <2> QED BY <2>2, <2>3
<1>3. FlagIsSet'
  <2>1. /\ \A g \in Frames : frame[g].st = "live" => frame'[g].parent = frame[g].parent
        /\ \A g \in Frames : frame'[g].st = "live" /\ frame'[g].exc = "flag" =>
             frame[g].st = "live" /\ frame[g].exc = "flag"
    BY DEF Taken, Shrinks
  <2>2. worker[w].pc # "construct"
    BY <1>l DEF Control, Executing
  <2> QED BY <2>1, <2>2, <1>e, <1>l, FlagKept
<1>4. /\ \A g \in Frames : frame[g].st = "live" /\ frame[g].kind # "root" /\ g \notin {} =>
             frame[g].parent \notin {}
      /\ \A v \in Workers \ {w} : worker[v].pc = "report" => worker[v].arg \notin {}
      /\ \A q \in Frames : at[q] = "deque" => frame'[q].last = frame[q].last
      /\ \A q \in Frames : at[q] = "run" /\ who[q] # w => frame'[q].open = frame[q].open
  BY DEF Taken
<1> QED BY <1>0, <1>1, <1>2, <1>3, <1>4, StepLinks

(* A thief takes the oldest continuation of a victim.                      *)
LEMMA StealLinks ==
    ASSUME NEW at, NEW who, NEW pos, NEW base, Linked(at, who, pos, base), FrameTypes', ControlTypes',
           StealsFit, NEW w \in Workers, NEW v \in Workers, Steal(w, v)
    PROVE  JoinInv'
<1>l. /\ FrameTypes /\ ControlTypes /\ Control /\ Family /\ Placed(at, who, pos)
  BY DEF Linked
<1>e. Whereabouts(at, who, pos)
  BY <1>l, Here
<1>w. worker \in [Workers -> [pc : Labels, f : 0..MaxFrames, arg : Nat, stack : 0..MaxFrames]]
      /\ deque \in [Workers -> Seq(Frames)]
  BY <1>l DEF ControlTypes
<1>0. w # v /\ deque[v] # <<>> /\ worker[w].pc = "idle" /\ deque' = [deque EXCEPT ![v] = Tail(@)]
      /\ created' = created /\ submit' = submit /\ parked' = parked
  BY DEF Steal
<1>1. PICK f \in Frames : /\ f = deque[v][1] /\ f = Head(deque[v])
                          /\ at[f] = "deque" /\ who[f] = v /\ pos[f] = 1
  BY <1>0, <1>e DEF Whereabouts
<1>2. worker[w].f = None /\ deque[w] = <<>>
  BY <1>0, <1>l DEF Control, Executing
<1>3. worker'[w].pc = "run" /\ worker'[w].f = f /\ Others(w)
  BY <1>w, <1>1 DEF Steal, RunOn, Others
<1>4. Taken(f)
  <2>1. frame' = [frame EXCEPT ![f].steal = Wrap(@ + 1)]
    BY <1>1 DEF Steal
  <2> QED BY <2>1, <1>0, <1>l, TakesFrame
<1>5. LosesHead(v) /\ \A u \in Workers \ {v} : deque'[u] = deque[u]
  <2>1. \A u \in Workers \ {v} : deque'[u] = deque[u]
    BY <1>0, <1>w
  <2>2. deque'[v] = Tail(deque[v]) /\ deque[v] \in Seq(Frames)
    BY <1>0, <1>w
  <2> QED BY <2>1, <2>2, <1>0 DEF LosesHead
<1>6. Cut(w) /\ \A u \in Workers \ {w} : deque[u] = <<>> => deque'[u] = <<>>
  BY <1>0, <1>5 DEF Cut
<1>7. worker'[w].f # None /\ deque'[w] # <<>> => ForkedBy(base, worker[w].f, deque[w][Len(deque[w])])'
  BY <1>0, <1>2, <1>5
<1>a. PICK at1, who1 : Shifts(at, who, at1, who1, f, "run", w) /\ Resettled(at1, who1)
  <2>1. Shrinks({})
    BY <1>4 DEF Taken
  <2> QED BY <2>1, <1>1, <1>2, <1>3, <1>l, StartsPlaces
<1>b. PICK pos1 : pos1 = [g \in Frames |-> IF at[g] = "deque" /\ who[g] = v THEN pos[g] - 1 ELSE pos[g]]
  OBVIOUS
<1>8. SubmitPlaces(at1, who1)' /\ ParkPlaces(at1)'
  BY <1>0, <1>1, <1>a, <1>l, SameQueues
<1>9. DequePlaces(at1, who1, pos1)'
  <2>1. DownOnDeque(at, who, pos, at1, who1, pos1, Frames \ {f}, v)
    BY <1>a, <1>b DEF Shifts, DownOnDeque
  <2>2. at1[f] # "deque"
    BY <1>a DEF Shifts
  <2>3. PlaceTypes(at, who) /\ DequePlaces(at, who, pos)
    BY <1>l DEF Placed
  <2> QED BY <2>1, <2>2, <2>3, <1>0, <1>1, <1>l, DequeSteal
<1>10. Placed(at1, who1, pos1)'
  BY <1>a, <1>8, <1>9 DEF Placed, Resettled
<1> QED BY <1>0, <1>1, <1>2, <1>3, <1>4, <1>6, <1>7, <1>a, <1>10, TakenLinks

(* A worker that parked a frame takes an ancestor of it.                   *)
LEMMA SelfStealLinks ==
    ASSUME NEW at, NEW who, NEW pos, NEW base, Linked(at, who, pos, base), FrameTypes', ControlTypes',
           StealsFit, NEW w \in Workers, SelfSteal(w), deque[w] # <<>>
    PROVE  JoinInv'
<1>l. /\ FrameTypes /\ ControlTypes /\ Control /\ Family /\ Placed(at, who, pos) /\ Bases(base) /\ Chained(base)
  BY DEF Linked
<1>e. Whereabouts(at, who, pos)
  BY <1>l, Here
<1>w. worker \in [Workers -> [pc : Labels, f : 0..MaxFrames, arg : Nat, stack : 0..MaxFrames]]
      /\ deque \in [Workers -> Seq(Frames)]
  BY <1>l DEF ControlTypes
<1>0. worker[w].pc = "selfsteal" /\ deque' = [deque EXCEPT ![w] = Front(@)]
      /\ created' = created /\ submit' = submit /\ parked' = parked
  BY DEF SelfSteal
<1>1. PICK f \in Frames : /\ f = deque[w][Len(deque[w])] /\ f = Last(deque[w])
                          /\ at[f] = "deque" /\ who[f] = w
  BY <1>e DEF Whereabouts
<1>2. worker[w].f = None
  BY <1>0, <1>l DEF Control, Executing
<1>3. worker'[w].pc = "run" /\ worker'[w].f = f /\ Others(w)
  BY <1>w, <1>1 DEF SelfSteal, RunOn, Others
<1>4. Taken(f)
  <2>1. frame' = [frame EXCEPT ![f].steal = Wrap(@ + 1)]
    BY <1>1 DEF SelfSteal
  <2> QED BY <2>1, <1>0, <1>l, TakesFrame
<1>5. LosesLast(w) /\ \A u \in Workers \ {w} : deque'[u] = deque[u]
  <2>1. \A u \in Workers \ {w} : deque'[u] = deque[u]
    BY <1>0, <1>w
  <2>2. deque'[w] = Front(deque[w]) /\ deque[w] \in Seq(Frames)
    BY <1>0, <1>w
  <2> QED BY <2>1, <2>2, FrontOf DEF LosesLast
<1>6. Cut(w) /\ \A u \in Workers \ {w} : deque[u] = <<>> => deque'[u] = <<>>
  BY <1>5 DEF Cut
<1>s. Shrinks({}) /\ \A q \in Frames : at[q] = "deque" => frame'[q].last = frame[q].last
  BY <1>4 DEF Taken
<1>7. worker'[w].f # None /\ deque'[w] # <<>> => ForkedBy(base, worker[w].f, deque[w][Len(deque[w])])'
  <2>1. worker'[w].f = deque[w][Len(deque[w])] /\ LosesLast(w) /\ Bases(base) /\ Chained(base)
    BY <1>1, <1>3, <1>5, <1>l
  <2> QED BY <2>1, <1>s, <1>e, PoppedLink
<1>a. PICK at1, who1 : Shifts(at, who, at1, who1, f, "run", w) /\ Resettled(at1, who1)
  BY <1>s, <1>1, <1>2, <1>3, <1>l, StartsPlaces
<1>8. SubmitPlaces(at1, who1)' /\ ParkPlaces(at1)'
  BY <1>0, <1>1, <1>a, <1>l, SameQueues
<1>9. DequePlaces(at1, who1, pos)'
  <2>1. SameOnDeque(at, who, pos, at1, who1, pos, Frames \ {f}) /\ at1[f] # "deque"
    BY <1>a DEF Shifts, SameOnDeque
  <2>2. PlaceTypes(at, who) /\ DequePlaces(at, who, pos)
    BY <1>l DEF Placed
  <2> QED BY <2>1, <2>2, <1>0, <1>1, <1>l, DequePop
<1>10. Placed(at1, who1, pos)'
  BY <1>a, <1>8, <1>9 DEF Placed, Resettled
<1> QED BY <1>0, <1>1, <1>2, <1>3, <1>4, <1>6, <1>7, <1>a, <1>10, TakenLinks

-----------------------------------------------------------------------------
(* A parent that has to wait turns m_join into the number of the missing.  *)
LEMMA JoinParksLinks ==
    ASSUME NEW at, NEW who, NEW pos, NEW base, Linked(at, who, pos, base), FrameTypes', ControlTypes',
           NEW w \in Workers, JoinParks(w)
    PROVE  JoinInv'
<1>l. /\ FrameTypes /\ ControlTypes /\ Control /\ Family /\ Placed(at, who, pos) /\ FlagIsSet
      /\ Counted(at) /\ Scopes(at) /\ LastForks(at)
  BY DEF Linked
<1>e. Whereabouts(at, who, pos)
  BY <1>l, Here
<1>w. worker \in [Workers -> [pc : Labels, f : 0..MaxFrames, arg : Nat, stack : 0..MaxFrames]]
  BY <1>l DEF ControlTypes
<1>p. worker[w].pc = "suspend" /\ ~AllReported(worker[w].f) /\ deque' = deque /\ submit' = submit
      /\ created' = created
  BY DEF JoinParks
<1>0. PICK f \in Frames : f = worker[w].f /\ at[f] = "run" /\ who[f] = w /\ frame[f].st = "live"
  BY <1>p, <1>e DEF Whereabouts, Executing
<1>1. worker'[w].pc = "selfsteal" /\ worker'[w].f = None /\ Others(w)
  BY <1>w DEF JoinParks, Others
<1>2. /\ frame[f].steal \in Nat /\ frame[f].join \in Nat /\ CounterMax \in Nat
      /\ frame[f].steal <= CounterMax /\ frame[f].join <= CounterMax
      /\ Outstanding(f) \in Nat
  BY <1>l, FieldTypes, OutFinite
<1>3. Outstanding(f) = frame[f].steal - (CounterMax - frame[f].join)
  BY <1>0, <1>2, <1>l DEF Counted, CountedAt
<1>4. Wrap(frame[f].join - (CounterMax - frame[f].steal)) = Outstanding(f)
  <2>1. frame[f].join - (CounterMax - frame[f].steal) = Outstanding(f) /\ Outstanding(f) \in 0..CounterMax
    BY <1>2, <1>3
  <2>2. Outstanding(f) \in Int
    BY <1>2
  <2> QED BY <2>1, <2>2, WrapType
<1>5. /\ Shrinks({}) /\ \A g \in Frames \ {f} : frame'[g] = frame[g]
      /\ frame'[f].steal = frame[f].steal /\ frame'[f].join = Outstanding(f)
      /\ frame'[f].last = frame[f].last /\ frame'[f].pre = frame[f].pre
      /\ frame'[f].open = frame[f].open /\ frame'[f].exc = frame[f].exc
  <2>1. frame' = [frame EXCEPT ![f].join = Outstanding(f)]
    BY <1>0, <1>4 DEF JoinParks
  <2>2. \A g \in Frames \ {f} : frame'[g] = frame[g]
    BY <2>1, <1>l DEF FrameTypes
  <2>3. frame'[f] = [frame[f] EXCEPT !.join = Outstanding(f)] /\ frame[f] \in FrameRec
    BY <2>1, <1>l DEF FrameTypes
  <2>4. /\ frame'[f].st = frame[f].st /\ frame'[f].kind = frame[f].kind /\ frame'[f].parent = frame[f].parent
        /\ frame'[f].steal = frame[f].steal /\ frame'[f].join = Outstanding(f)
        /\ frame'[f].last = frame[f].last /\ frame'[f].pre = frame[f].pre
        /\ frame'[f].open = frame[f].open /\ frame'[f].exc = frame[f].exc
    BY <2>3 DEF FrameRec
  <2> QED BY <1>p, <2>2, <2>4 DEF Shrinks
<1>6. frame[f].open # FALSE
  <2> SUFFICES ASSUME frame[f].open = FALSE PROVE FALSE
    OBVIOUS
  <2>1. frame[f].steal = 0 /\ frame[f].join = CounterMax
    BY <1>0, <1>l DEF Scopes, ScopeAt
  <2> QED BY <2>1, <1>0, <1>p, <1>2 DEF AllReported
<1>a. PICK at1, who1 : Shifts(at, who, at1, who1, f, "parked", w) /\ Resettled(at1, who1)
  BY <1>0, <1>1, <1>5, <1>l, StopsPlaces
<1>7. SubmitPlaces(at1, who1)' /\ DequePlaces(at1, who1, pos)'
  BY <1>0, <1>p, <1>a, <1>l, SameQueues
<1>8. ParkPlaces(at1)'
  <2>1. parked' = parked \union {f}
    BY <1>0 DEF JoinParks
  <2> QED BY <2>1, <1>a, <1>l DEF Placed, ParkPlaces, Shifts
<1>9. Placed(at1, who1, pos)'
  BY <1>a, <1>7, <1>8 DEF Placed, Resettled
<1>10. Goes(w) /\ Cut(w)
  <2>1. Goes(w)
    BY <1>1 DEF Goes, Executing
  <2> QED BY <2>1, <1>p DEF Cut
<1>11. Accounted(at1)
  <2> SUFFICES ASSUME NEW g \in Frames
               PROVE  CountedAt(at1, g)' /\ ScopeAt(at1, g)' /\ LastForkAt(at1, g)'
    BY DEF Accounted
  <2>r. Reporters(g)' = Reporters(g)
    BY <1>p, <1>1, SameReporters
  <2>1. CASE g = f
    <3>1. LiveForks(g)' = LiveForks(g)
      BY <1>5, ShrinksForks
    <3>2. Outstanding(g)' = Outstanding(g)
      BY <2>r, <3>1, OutMoves
    <3>3. CountedAt(at1, g)'
      BY <3>2, <2>1, <1>5, <1>a DEF CountedAt, Shifts
    <3>4. ScopeAt(at1, g)'
      BY <2>1, <1>5, <1>6 DEF ScopeAt
    <3>5. LastForkAt(at1, g)'
      <4>1. created' >= created /\ created' \in Nat /\ LastForkAt(at, g)
        BY <1>l, <1>5, ConstantsAssumption DEF Shrinks, ControlTypes, LastForks
      <4>2. /\ \A x \in Frames : frame[x].st = "done" => frame'[x].st = "done"
            /\ frame'[g].st = "live" => frame[g].st = "live"
        BY <1>5 DEF Shrinks
      <4>3. at1[g] = "deque" <=> at[g] = "deque"
        BY <2>1, <1>0, <1>a DEF Shifts
      <4> QED BY <4>1, <4>2, <4>3, <2>1, <1>5, <1>l, KeptLastFork
    <3> QED BY <3>3, <3>4, <3>5
  <2>2. CASE g # f
    <3>1. Kept(g) /\ SameSpot(at, at1, g)
      BY <2>2, <1>5, <1>a DEF SameSpot, Kept, Shifts
    <3> QED BY <3>1, <2>r, <1>5, Untouched
  <2> QED BY <2>1, <2>2
<1>12. FlagIsSet'
  <2>1. /\ \A g \in Frames : frame[g].st = "live" => frame'[g].parent = frame[g].parent
        /\ \A g \in Frames : frame'[g].st = "live" /\ frame'[g].exc = "flag" =>
             frame[g].st = "live" /\ frame[g].exc = "flag"
    BY <1>5 DEF Shrinks
  <2> QED BY <2>1, <1>p, <1>1, <1>e, <1>l, FlagKept
<1>13. worker'[w].f # None /\ deque'[w] # <<>> => ForkedBy(base, worker[w].f, deque[w][Len(deque[w])])'
  BY <1>1
<1>14. /\ \A g \in Frames : frame[g].st = "live" /\ frame[g].kind # "root" /\ g \notin {} =>
             frame[g].parent \notin {}
       /\ \A v \in Workers \ {w} : worker[v].pc = "report" => worker[v].arg \notin {}
       /\ \A v \in Workers \ {w} : deque[v] = <<>> => deque'[v] = <<>>
       /\ \A q \in Frames : at[q] = "deque" => frame'[q].last = frame[q].last
       /\ \A q \in Frames : at[q] = "run" /\ who[q] # w => frame'[q].open = frame[q].open
  BY <1>p, <1>5
<1> QED BY <1>1, <1>5, <1>9, <1>10, <1>11, <1>12, <1>13, <1>14, StepLinks

(* A frame that moves to another worker.                                   *)
LEMMA SwitchLinks ==
    ASSUME NEW at, NEW who, NEW pos, NEW base, Linked(at, who, pos, base), FrameTypes', ControlTypes',
           NEW w \in Workers, NEW u \in Workers, Switch(w, u)
    PROVE  JoinInv'
<1>l. /\ FrameTypes /\ ControlTypes /\ Control /\ Family /\ Placed(at, who, pos) /\ FlagIsSet
  BY DEF Linked
<1>e. Whereabouts(at, who, pos)
  BY <1>l, Here
<1>w. worker \in [Workers -> [pc : Labels, f : 0..MaxFrames, arg : Nat, stack : 0..MaxFrames]]
  BY <1>l DEF ControlTypes
<1>p. worker[w].pc = "run" /\ frame' = frame /\ deque' = deque /\ parked' = parked /\ created' = created
  BY DEF Switch
<1>0. PICK f \in Frames : f = worker[w].f /\ at[f] = "run" /\ who[f] = w /\ frame[f].st = "live"
  BY <1>p, <1>e DEF Whereabouts, Executing
<1>1. worker'[w].pc = "switch" /\ worker'[w].f = None /\ Others(w)
  BY <1>w DEF Switch, Others
<1>2. Shrinks({})
  BY <1>p DEF Shrinks
<1>a. PICK at1, who1 : Shifts(at, who, at1, who1, f, "submit", u) /\ Resettled(at1, who1)
  BY <1>0, <1>1, <1>2, <1>l, StopsPlaces
<1>7. ParkPlaces(at1)' /\ DequePlaces(at1, who1, pos)'
  BY <1>0, <1>p, <1>a, <1>l, SameQueues
<1>8. SubmitPlaces(at1, who1)'
  <2> SUFFICES ASSUME NEW v \in Workers, NEW g \in Frames
               PROVE  g \in submit'[v] <=> at1[g] = "submit" /\ who1[g] = v
    BY DEF SubmitPlaces
  <2>1. g \in submit[v] <=> at[g] = "submit" /\ who[g] = v
    BY <1>l DEF Placed, SubmitPlaces
  <2>2. submit'[v] = IF v = u THEN submit[v] \union {f} ELSE submit[v]
    BY <1>0, <1>l DEF ControlTypes, Switch
  <2> QED BY <2>1, <2>2, <1>0, <1>a DEF Shifts
<1>9. Placed(at1, who1, pos)'
  BY <1>a, <1>7, <1>8 DEF Placed, Resettled
<1>10. Goes(w) /\ Cut(w)
  <2>1. Goes(w)
    BY <1>1 DEF Goes, Executing
  <2> QED BY <2>1, <1>p DEF Cut
<1>11. Accounted(at1)
  <2> SUFFICES ASSUME NEW g \in Frames
               PROVE  CountedAt(at1, g)' /\ ScopeAt(at1, g)' /\ LastForkAt(at1, g)'
    BY DEF Accounted
  <2>r. Reporters(g)' = Reporters(g)
    BY <1>p, <1>1, SameReporters
  <2>1. Kept(g) /\ SameSpot(at, at1, g)
    BY <1>0, <1>p, <1>a DEF SameSpot, Kept, Shifts
  <2> QED BY <2>1, <2>r, <1>2, Untouched
<1>12. FlagIsSet'
  BY <1>p, <1>1, <1>e, <1>l, FlagKept
<1>13. worker'[w].f # None /\ deque'[w] # <<>> => ForkedBy(base, worker[w].f, deque[w][Len(deque[w])])'
  BY <1>1
<1>14. /\ \A g \in Frames : frame[g].st = "live" /\ frame[g].kind # "root" /\ g \notin {} =>
             frame[g].parent \notin {}
       /\ \A v \in Workers \ {w} : worker[v].pc = "report" => worker[v].arg \notin {}
       /\ \A v \in Workers \ {w} : deque[v] = <<>> => deque'[v] = <<>>
       /\ \A q \in Frames : at[q] = "deque" => frame'[q].last = frame[q].last
       /\ \A q \in Frames : at[q] = "run" /\ who[q] # w => frame'[q].open = frame[q].open
  BY <1>p
<1> QED BY <1>1, <1>2, <1>9, <1>10, <1>11, <1>12, <1>13, <1>14, StepLinks

-----------------------------------------------------------------------------
(* A task that ends has no child left, and its worker is where it was.     *)
LEMMA EndsAlone ==
    ASSUME NEW at, NEW who, NEW pos, NEW base, Linked(at, who, pos, base),
           NEW w \in Workers, worker[w].pc = "final"
    PROVE  \E f \in Frames :
             /\ f = worker[w].f /\ frame[f].st = "live" /\ at[f] = "run" /\ who[f] = w
             /\ \A g \in Frames : frame[g].st = "live" /\ frame[g].kind # "root" => frame[g].parent # f
             /\ \A v \in Workers : worker[v].pc = "report" => worker[v].arg # f
<1>l. /\ FrameTypes /\ ControlTypes /\ Control /\ Family /\ Placed(at, who, pos) /\ Counted(at) /\ Scopes(at)
  BY DEF Linked
<1>e. Whereabouts(at, who, pos)
  BY <1>l, Here
<1>0. PICK f \in Frames : f = worker[w].f /\ at[f] = "run" /\ who[f] = w /\ frame[f].st = "live"
  BY <1>e DEF Whereabouts, Executing
<1>1. Outstanding(f) = 0
  <2>1. frame[f].steal = 0 /\ frame[f].join = CounterMax
    BY <1>0, <1>l DEF Scopes, ScopeAt
  <2>2. Outstanding(f) = frame[f].steal - (CounterMax - frame[f].join) + 0
    BY <1>0, <1>l DEF Counted, CountedAt
  <2> QED BY <2>1, <2>2, ConstantsAssumption
<1>2. LiveForks(f) = {} /\ Reporters(f) = {}
  BY <1>1, OutSome
<1>3. ASSUME NEW g \in Frames, frame[g].st = "live", frame[g].kind # "root" PROVE frame[g].parent # f
  <2>1. frame[g].kind = "fork" \/ frame[g].kind = "call"
    BY <1>3, <1>l, FieldTypes DEF Kinds
  <2>2. CASE frame[g].kind = "fork"
    BY <1>2, <1>3, <2>2 DEF LiveForks, Live
  <2>3. CASE frame[g].kind = "call"
    BY <1>0, <1>3, <2>3, <1>l DEF Placed, CallPlaces
  <2> QED BY <2>1, <2>2, <2>3
<1>4. \A v \in Workers : worker[v].pc = "report" => worker[v].arg # f
  BY <1>2 DEF Reporters
<1> QED BY <1>0, <1>3, <1>4

(* The frame f ends; an exception may be rethrown.                         *)
Ended(f) ==
    /\ Shrinks({f})
    /\ \A g \in Frames : Kept(g) /\ (frame'[g].exc = frame[g].exc \/ frame'[g].exc = "none")

Ends(f, p) ==
    \/ frame' = [frame EXCEPT ![f].st = "done"]
    \/ /\ p \in Frames
       /\ \E e : /\ e = frame[p].exc \/ e = "none"
                 /\ frame' = [frame EXCEPT ![f].st = "done", ![p].exc = e]

(* A final suspend ends one frame and may clear an exception.              *)
LEMMA EndsFrame ==
    ASSUME FrameTypes, created' = created, NEW f \in Frames, NEW p, frame[f].st = "live", Ends(f, p)
    PROVE  Ended(f)
<1>1. CASE frame' = [frame EXCEPT ![f].st = "done"]
  <2>1. \A g \in Frames \ {f} : frame'[g] = frame[g]
    BY <1>1 DEF FrameTypes
  <2>2. frame'[f] = [frame[f] EXCEPT !.st = "done"] /\ frame[f] \in FrameRec
    BY <1>1 DEF FrameTypes
  <2>3. /\ frame'[f].st = "done" /\ frame'[f].kind = frame[f].kind /\ frame'[f].parent = frame[f].parent
        /\ Kept(f) /\ frame'[f].exc = frame[f].exc
    BY <2>2 DEF FrameRec, Kept
  <2> QED BY <2>1, <2>3 DEF Ended, Shrinks, Kept
<1>2. ASSUME NEW e, e = frame[p].exc \/ e = "none", p \in Frames,
             frame' = [frame EXCEPT ![f].st = "done", ![p].exc = e]
      PROVE  Ended(f)
  <2>e. (e = frame[p].exc \/ e = "none") /\ p \in Frames
    BY <1>2
  <2>1. \A g \in Frames \ {f, p} : frame'[g] = frame[g]
    BY <1>2 DEF FrameTypes
  <2>2. frame[f] \in FrameRec /\ frame[p] \in FrameRec
    BY <1>2 DEF FrameTypes
  <2>3. CASE p = f
    <3>1. frame'[f] = [frame[f] EXCEPT !.st = "done", !.exc = e]
      BY <1>2, <2>3 DEF FrameTypes
    <3>2. /\ frame'[f].st = "done" /\ frame'[f].kind = frame[f].kind /\ frame'[f].parent = frame[f].parent
          /\ Kept(f) /\ frame'[f].exc = e
      BY <3>1, <2>2 DEF FrameRec, Kept
    <3> QED BY <2>e, <2>1, <2>3, <3>2 DEF Ended, Shrinks, Kept
  <2>4. CASE p # f
    <3>1. frame'[f] = [frame[f] EXCEPT !.st = "done"] /\ frame'[p] = [frame[p] EXCEPT !.exc = e]
      BY <1>2, <2>4 DEF FrameTypes
    <3>2. /\ frame'[f].st = "done" /\ frame'[f].kind = frame[f].kind /\ frame'[f].parent = frame[f].parent
          /\ Kept(f) /\ frame'[f].exc = frame[f].exc
      BY <3>1, <2>2 DEF FrameRec, Kept
    <3>3. /\ frame'[p].st = frame[p].st /\ frame'[p].kind = frame[p].kind /\ frame'[p].parent = frame[p].parent
          /\ Kept(p) /\ frame'[p].exc = e
      BY <3>1, <2>2 DEF FrameRec, Kept
    <3> QED BY <2>e, <2>1, <3>2, <3>3 DEF Ended, Shrinks, Kept
  <2> QED BY <2>3, <2>4
<1> QED BY <1>1, <1>2 DEF Ends

(* A worker that leaves the frame it has ended.                            *)
LEMMA EndsPlaces ==
    ASSUME NEW at, NEW who, NEW pos, Placed(at, who, pos), NEW w \in Workers, Others(w),
           NEW f \in Frames, worker[w].f = f, Shrinks({f}), worker'[w].f = None, frame[f].kind # "call"
    PROVE  \E at1, who1 : Shifts(at, who, at1, who1, f, "none", w) /\ Resettled(at1, who1)
<1>a. PICK at1 : at1 = [at EXCEPT ![f] = "none"]
  OBVIOUS
<1>b. PICK who1 : who1 = [who EXCEPT ![f] = w]
  OBVIOUS
<1>0. Shifts(at, who, at1, who1, f, "none", w) /\ at[f] = "run" /\ who[f] = w
  BY <1>a, <1>b DEF Placed, PlaceTypes, Shifts, RunPlaces
<1>1. PlaceTypes(at1, who1)'
  BY <1>a, <1>b DEF Placed, PlaceTypes
<1>2. LiveIsPlaced(at1)'
  BY <1>0 DEF Placed, LiveIsPlaced, Shrinks, Shifts
<1>3. RunPlaces(at1, who1)'
  <2> SUFFICES ASSUME NEW v \in Workers, NEW g \in Frames
               PROVE  worker'[v].f = g <=> at1[g] = "run" /\ who1[g] = v
    BY DEF RunPlaces
  <2>1. worker[v].f = g <=> at[g] = "run" /\ who[g] = v
    BY DEF Placed, RunPlaces
  <2>2. CASE v = w
    BY <2>1, <2>2, <1>0 DEF None, Frames, Shifts
  <2>3. CASE v # w
    BY <2>1, <2>3, <1>0 DEF Others, Shifts
  <2> QED BY <2>2, <2>3
<1>4. CallPlaces(at1, who1)'
  BY <1>0 DEF Placed, CallPlaces, Shrinks, Shifts
<1> QED BY <1>0, <1>1, <1>2, <1>3, <1>4 DEF Resettled

(* A worker that goes on with the parent of the frame it has ended.        *)
Returns(at, who, at1, who1, f, p, w) ==
    /\ \A g \in Frames \ {f, p} : at1[g] = at[g] /\ who1[g] = who[g]
    /\ at1[f] = "none" /\ at1[p] = "run" /\ who1[p] = w

(* The child is gone and its parent runs where the child ran.              *)
LEMMA ReturnsPlaces ==
    ASSUME NEW at, NEW who, NEW pos, Placed(at, who, pos), NEW w \in Workers, Others(w),
           NEW f \in Frames, NEW p \in Frames, worker[w].f = f, Shrinks({f}), worker'[w].f = p,
           \/ at[p] = "deque" /\ frame[f].kind = "fork"
           \/ at[p] = "call" /\ who[p] = f
    PROVE  \E at1, who1 : Returns(at, who, at1, who1, f, p, w) /\ Resettled(at1, who1)
<1>a. PICK at1 : at1 = [at EXCEPT ![f] = "none", ![p] = "run"]
  OBVIOUS
<1>b. PICK who1 : who1 = [who EXCEPT ![p] = w]
  OBVIOUS
<1>c. at[f] = "run" /\ who[f] = w /\ f # p
  BY DEF Placed, RunPlaces
<1>0. Returns(at, who, at1, who1, f, p, w)
  BY <1>a, <1>b, <1>c DEF Placed, PlaceTypes, Returns
<1>1. PlaceTypes(at1, who1)'
  BY <1>a, <1>b DEF Placed, PlaceTypes
<1>2. LiveIsPlaced(at1)'
  BY <1>0, <1>c DEF Placed, LiveIsPlaced, Shrinks, Returns
<1>3. RunPlaces(at1, who1)'
  <2> SUFFICES ASSUME NEW v \in Workers, NEW g \in Frames
               PROVE  worker'[v].f = g <=> at1[g] = "run" /\ who1[g] = v
    BY DEF RunPlaces
  <2>1. worker[v].f = g <=> at[g] = "run" /\ who[g] = v
    BY DEF Placed, RunPlaces
  <2>2. CASE v = w
    BY <2>1, <2>2, <1>0, <1>c DEF Returns
  <2>3. CASE v # w
    BY <2>1, <2>3, <1>0, <1>c DEF Others, Returns
  <2> QED BY <2>2, <2>3
<1>4. CallPlaces(at1, who1)'
  <2> SUFFICES ASSUME NEW x \in Frames, NEW c \in Frames
               PROVE  (frame'[c].st = "live" /\ frame'[c].kind = "call" /\ frame'[c].parent = x)
                      <=> (at1[x] = "call" /\ who1[x] = c)
    BY DEF CallPlaces
  <2>1. /\ (frame[c].st = "live" /\ frame[c].kind = "call" /\ frame[c].parent = x)
           <=> (at[x] = "call" /\ who[x] = c)
        /\ (frame[f].st = "live" /\ frame[f].kind = "call" /\ frame[f].parent = p)
           <=> (at[p] = "call" /\ who[p] = f)
    BY DEF Placed, CallPlaces
  <2>2. frame'[c].kind = frame[c].kind /\ frame'[c].parent = frame[c].parent
        /\ frame'[c].st = IF c = f THEN "done" ELSE frame[c].st
    BY DEF Shrinks
  <2>3. CASE c = f
    BY <2>1, <2>2, <2>3, <1>0, <1>c DEF Returns
  <2>4. CASE c # f
    BY <2>1, <2>2, <2>4, <1>0, <1>c DEF Returns
  <2> QED BY <2>3, <2>4
<1> QED BY <1>0, <1>1, <1>2, <1>3, <1>4 DEF Resettled

(* What all ends of a task have in common.                                 *)
LEMMA EndedLinks ==
    ASSUME NEW at, NEW who, NEW pos, NEW base, Linked(at, who, pos, base), FrameTypes', ControlTypes',
           NEW w \in Workers, worker[w].pc = "final", NEW f \in Frames, f = worker[w].f, Ended(f),
           Others(w), Cut(w), Goes(w), \A v \in Workers \ {w} : deque'[v] = deque[v],
           worker'[w].f # None /\ deque'[w] # <<>> =>
             ForkedBy(base, worker[w].f, deque[w][Len(deque[w])])',
           NEW at1, NEW who1, NEW pos1, Placed(at1, who1, pos1)', NEW p \in Frames,
           frame[f].kind = "root" \/ frame[f].parent = p,
           worker'[w].pc = "report" => worker'[w].arg = p,
           \A g \in Frames \ {f, p} : SameSpot(at, at1, g),
           CountedAt(at1, p)' /\ ScopeAt(at1, p)' /\ LastForkAt(at1, p)'
    PROVE  JoinInv'
<1>l. /\ FrameTypes /\ ControlTypes /\ Control /\ Family /\ Placed(at, who, pos) /\ FlagIsSet
  BY DEF Linked
<1>e. Whereabouts(at, who, pos)
  BY <1>l, Here
<1>0. Shrinks({f}) /\ \A g \in Frames : Kept(g)
  BY DEF Ended
<1>1. /\ \A g \in Frames : frame[g].st = "live" /\ frame[g].kind # "root" => frame[g].parent # f
      /\ \A v \in Workers : worker[v].pc = "report" => worker[v].arg # f
  BY EndsAlone
<1>2. Accounted(at1)
  <2> SUFFICES ASSUME NEW g \in Frames
               PROVE  CountedAt(at1, g)' /\ ScopeAt(at1, g)' /\ LastForkAt(at1, g)'
    BY DEF Accounted
  <2>1. CASE g = p
    BY <2>1
  <2>2. CASE g = f
    BY <2>2, <1>0 DEF Shrinks, CountedAt, ScopeAt, LastForkAt
  <2>3. CASE g # f /\ g # p
    <3>1. Kept(g) /\ SameSpot(at, at1, g)
      BY <2>3, <1>0
    <3>2. LiveForks(g) \intersect {f} = {}
      BY <2>3 DEF LiveForks, Live
    <3>3. Reporters(g)' = Reporters(g)
      BY <2>3, SameReporters
    <3> QED BY <3>1, <3>2, <3>3, <1>0, Untouched
  <2> QED BY <2>1, <2>2, <2>3
<1>3. FlagIsSet'
  <2>1. /\ \A g \in Frames : frame[g].st = "live" => frame'[g].parent = frame[g].parent
        /\ \A g \in Frames : frame'[g].st = "live" /\ frame'[g].exc = "flag" =>
             frame[g].st = "live" /\ frame[g].exc = "flag"
    BY <1>0 DEF Ended, Shrinks
  <2> QED BY <2>1, <1>e, <1>l, FlagKept
<1>4. /\ \A g \in Frames : frame[g].st = "live" /\ frame[g].kind # "root" /\ g \notin {f} =>
             frame[g].parent \notin {f}
      /\ \A v \in Workers \ {w} : worker[v].pc = "report" => worker[v].arg \notin {f}
      /\ \A v \in Workers \ {w} : deque[v] = <<>> => deque'[v] = <<>>
      /\ \A q \in Frames : at[q] = "deque" => frame'[q].last = frame[q].last
      /\ \A q \in Frames : at[q] = "run" /\ who[q] # w => frame'[q].open = frame[q].open
  BY <1>0, <1>1 DEF Kept
<1> QED BY <1>0, <1>2, <1>3, <1>4, StepLinks

(* A root task ends.                                                       *)
LEMMA FinalRootLinks ==
    ASSUME NEW at, NEW who, NEW pos, NEW base, Linked(at, who, pos, base), FrameTypes', ControlTypes',
           NEW w \in Workers, FinalRoot(w)
    PROVE  JoinInv'
<1>l. /\ FrameTypes /\ ControlTypes /\ Control /\ Family /\ Placed(at, who, pos) /\ Bases(base) /\ Chained(base)
  BY DEF Linked
<1>e. Whereabouts(at, who, pos)
  BY <1>l, Here
<1>w. worker \in [Workers -> [pc : Labels, f : 0..MaxFrames, arg : Nat, stack : 0..MaxFrames]]
  BY <1>l DEF ControlTypes
<1>p. worker[w].pc = "final" /\ frame[worker[w].f].kind = "root" /\ deque' = deque /\ submit' = submit
      /\ parked' = parked /\ created' = created
  BY DEF FinalRoot
<1>0. PICK f \in Frames : f = worker[w].f /\ frame[f].st = "live" /\ at[f] = "run" /\ who[f] = w
  BY <1>p, EndsAlone
<1>1. worker'[w].pc = "idle" /\ worker'[w].f = None /\ Others(w)
  BY <1>w DEF FinalRoot, IdleOn, Others
<1>2. Ended(f) /\ Shrinks({f})
  <2>1. Ends(f, f)
    BY <1>0 DEF FinalRoot, Ends
  <2>2. Ended(f)
    BY <2>1, <1>0, <1>p, <1>l, EndsFrame
  <2> QED BY <2>2 DEF Ended
<1>3. deque[w] = <<>>
  <2> SUFFICES ASSUME deque[w] # <<>> PROVE FALSE
    OBVIOUS
  <2>1. ForkedBy(base, f, deque[w][Len(deque[w])])
    BY <1>0, <1>l DEF Chained, None, Frames
  <2>2. base[f] = f
    BY <1>0, <1>p, <1>l DEF Bases
  <2> QED BY <2>1, <2>2, <1>0, <1>p DEF ForkedBy
<1>4. Goes(w) /\ Cut(w) /\ \A v \in Workers \ {w} : deque'[v] = deque[v]
  <2>1. Goes(w)
    BY <1>1, <1>3, <1>p DEF Goes, Executing
  <2> QED BY <2>1, <1>p DEF Cut
<1>a. PICK at1, who1 : Shifts(at, who, at1, who1, f, "none", w) /\ Resettled(at1, who1)
  BY <1>0, <1>p, <1>1, <1>2, <1>l, EndsPlaces
<1>5. ParkPlaces(at1)' /\ DequePlaces(at1, who1, pos)' /\ SubmitPlaces(at1, who1)'
  BY <1>0, <1>p, <1>a, <1>l, SameQueues
<1>6. Placed(at1, who1, pos)'
  BY <1>a, <1>5 DEF Placed, Resettled
<1>7. CountedAt(at1, f)' /\ ScopeAt(at1, f)' /\ LastForkAt(at1, f)'
  BY <1>2 DEF Shrinks, CountedAt, ScopeAt, LastForkAt
<1>8. \A g \in Frames \ {f, f} : SameSpot(at, at1, g)
  BY <1>a DEF Shifts, SameSpot
<1>9. worker'[w].f # None /\ deque'[w] # <<>> => ForkedBy(base, worker[w].f, deque[w][Len(deque[w])])'
  BY <1>1
<1>10. frame[f].kind = "root" /\ worker'[w].pc # "report"
  BY <1>0, <1>p, <1>1
<1> QED BY <1>0, <1>p, <1>1, <1>2, <1>4, <1>6, <1>7, <1>8, <1>9, <1>10, EndedLinks

(* A forked task ends, its parent was stolen: it has to report.            *)
LEMMA FinalForkStolenLinks ==
    ASSUME NEW at, NEW who, NEW pos, NEW base, Linked(at, who, pos, base), FrameTypes', ControlTypes',
           NEW w \in Workers, FinalForkStolen(w)
    PROVE  JoinInv'
<1>l. /\ FrameTypes /\ ControlTypes /\ Control /\ Family /\ Placed(at, who, pos)
  BY DEF Linked
<1>w. worker \in [Workers -> [pc : Labels, f : 0..MaxFrames, arg : Nat, stack : 0..MaxFrames]]
  BY <1>l DEF ControlTypes
<1>p. worker[w].pc = "final" /\ frame[worker[w].f].kind = "fork" /\ deque' = deque /\ submit' = submit
      /\ parked' = parked /\ created' = created /\ deque[w] = <<>>
  BY DEF FinalForkStolen
<1>0. PICK f \in Frames :
        /\ f = worker[w].f /\ frame[f].st = "live" /\ at[f] = "run" /\ who[f] = w
        /\ \A g \in Frames : frame[g].st = "live" /\ frame[g].kind # "root" => frame[g].parent # f
  BY <1>p, EndsAlone
<1>q. PICK p \in Frames : p = frame[f].parent /\ frame[p].st = "live" /\ p # f
  BY <1>0, <1>p, <1>l DEF Family
<1>1. worker'[w].pc = "report" /\ worker'[w].f = None /\ worker'[w].arg = p /\ Others(w)
  BY <1>w, <1>0, <1>q DEF FinalForkStolen, Others
<1>2. Ended(f) /\ Shrinks({f}) /\ \A g \in Frames : Kept(g)
  <2>1. Ends(f, f)
    BY <1>0 DEF FinalForkStolen, Ends
  <2>2. Ended(f)
    BY <2>1, <1>0, <1>p, <1>l, EndsFrame
  <2> QED BY <2>2 DEF Ended
<1>4. Goes(w) /\ Cut(w) /\ \A v \in Workers \ {w} : deque'[v] = deque[v]
  <2>0. frame'[p].st = "live"
    BY <1>q, <1>2 DEF Shrinks
  <2>1. Goes(w)
    BY <1>1, <1>p, <2>0 DEF Goes, Executing
  <2> QED BY <2>1, <1>p DEF Cut
<1>a. PICK at1, who1 : Shifts(at, who, at1, who1, f, "none", w) /\ Resettled(at1, who1)
  BY <1>0, <1>p, <1>1, <1>2, <1>l, EndsPlaces
<1>5. ParkPlaces(at1)' /\ DequePlaces(at1, who1, pos)' /\ SubmitPlaces(at1, who1)'
  BY <1>0, <1>p, <1>a, <1>l, SameQueues
<1>6. Placed(at1, who1, pos)'
  BY <1>a, <1>5 DEF Placed, Resettled
<1>7. CountedAt(at1, p)' /\ ScopeAt(at1, p)' /\ LastForkAt(at1, p)'
  <2>1. CountedAt(at, p) /\ ScopeAt(at, p) /\ LastForkAt(at, p)
    BY DEF Linked, Counted, Scopes, LastForks
  <2>2. /\ LiveForks(p)' = LiveForks(p) \ {f} /\ f \in LiveForks(p)
        /\ Reporters(p)' = Reporters(p) \union {w} /\ w \notin Reporters(p)
    <3>1. f \in LiveForks(p)
      BY <1>0, <1>p, <1>q DEF LiveForks, Live
    <3>2. Reporters(p)' = Reporters(p) \union {w} /\ w \notin Reporters(p)
      BY <1>1, <1>p DEF Reporters, Others
    <3> QED BY <3>1, <3>2, <1>2, ShrinksForks
  <2>3. Outstanding(p)' = Outstanding(p)
    BY <2>2, OutMoves
  <2>4. /\ Kept(p) /\ at1[p] = at[p] /\ frame'[p].st = "live"
    BY <1>2, <1>a, <1>q DEF Shifts, Shrinks
  <2>5. CountedAt(at1, p)' /\ ScopeAt(at1, p)'
    BY <2>1, <2>3, <2>4, <1>q DEF CountedAt, ScopeAt, Kept
  <2>6. LastForkAt(at1, p)'
    <3>1. created' >= created /\ created' \in Nat
      BY <1>l, <1>p, ConstantsAssumption DEF ControlTypes
    <3>2. \A x \in Frames : frame[x].st = "done" => frame'[x].st = "done"
      BY <1>2 DEF Shrinks
    <3> QED BY <3>1, <3>2, <2>1, <2>4, <1>q, <1>l, KeptLastFork DEF Kept
  <2> QED BY <2>5, <2>6
<1>8. \A g \in Frames \ {f, p} : SameSpot(at, at1, g)
  BY <1>a DEF Shifts, SameSpot
<1>9. worker'[w].f # None /\ deque'[w] # <<>> => ForkedBy(base, worker[w].f, deque[w][Len(deque[w])])'
  BY <1>1
<1> QED BY <1>0, <1>p, <1>q, <1>1, <1>2, <1>4, <1>6, <1>7, <1>8, <1>9, EndedLinks

(* A called task ends and its caller goes on.                              *)
LEMMA FinalCallLinks ==
    ASSUME NEW at, NEW who, NEW pos, NEW base, Linked(at, who, pos, base), FrameTypes', ControlTypes',
           NEW w \in Workers, FinalCall(w)
    PROVE  JoinInv'
<1>l. /\ FrameTypes /\ ControlTypes /\ Control /\ Family /\ Placed(at, who, pos) /\ Bases(base) /\ Chained(base)
  BY DEF Linked
<1>e. Whereabouts(at, who, pos)
  BY <1>l, Here
<1>w. worker \in [Workers -> [pc : Labels, f : 0..MaxFrames, arg : Nat, stack : 0..MaxFrames]]
  BY <1>l DEF ControlTypes
<1>p. worker[w].pc = "final" /\ frame[worker[w].f].kind = "call" /\ deque' = deque /\ submit' = submit
      /\ parked' = parked /\ created' = created
  BY DEF FinalCall
<1>0. PICK f \in Frames :
        /\ f = worker[w].f /\ frame[f].st = "live" /\ at[f] = "run" /\ who[f] = w
        /\ \A g \in Frames : frame[g].st = "live" /\ frame[g].kind # "root" => frame[g].parent # f
  BY <1>p, EndsAlone
<1>q. PICK p \in Frames : p = frame[f].parent /\ frame[p].st = "live" /\ p # f /\ at[p] = "call" /\ who[p] = f
  <2>1. frame[f].parent \in Frames /\ frame[frame[f].parent].st = "live" /\ frame[f].parent # f
    BY <1>0, <1>p, <1>l DEF Family
  <2> QED BY <2>1, <1>0, <1>p, <1>l DEF Placed, CallPlaces
<1>1. worker'[w].pc = "run" /\ worker'[w].f = p /\ Others(w)
  BY <1>w, <1>0, <1>q DEF FinalCall, RunOn, Others
<1>2. Ended(f) /\ Shrinks({f}) /\ \A g \in Frames : Kept(g)
  <2>1. Ends(f, p)
    <3>1. PICK eager \in BOOLEAN :
            frame' = [frame EXCEPT ![f].st = "done", ![p].exc = IF Rethrows(w, p, eager) THEN "none" ELSE @]
      BY <1>0, <1>q, Zenon DEF FinalCall
    <3>2. PICK e : e = IF Rethrows(w, p, eager) THEN "none" ELSE frame[p].exc
      OBVIOUS
    <3>3. frame' = [frame EXCEPT ![f].st = "done", ![p].exc = e]
      BY <3>1, <3>2, <1>q, <1>l DEF FrameTypes
    <3>4. e = frame[p].exc \/ e = "none"
      BY <3>2
    <3> QED BY <3>3, <3>4, Zenon DEF Ends
  <2>2. Ended(f)
    BY <2>1, <1>0, <1>p, <1>l, EndsFrame
  <2> QED BY <2>2 DEF Ended
<1>4. Goes(w) /\ Cut(w) /\ \A v \in Workers \ {w} : deque'[v] = deque[v]
  <2>1. Goes(w)
    BY <1>1 DEF Goes, Executing, None, Frames
  <2> QED BY <2>1, <1>p DEF Cut
<1>a. PICK at1, who1 : Returns(at, who, at1, who1, f, p, w) /\ Resettled(at1, who1)
  BY <1>0, <1>q, <1>1, <1>2, <1>l, ReturnsPlaces
<1>5. ParkPlaces(at1)' /\ DequePlaces(at1, who1, pos)' /\ SubmitPlaces(at1, who1)'
  <2>1. ParkPlaces(at1)' /\ SubmitPlaces(at1, who1)'
    BY <1>0, <1>p, <1>q, <1>a, <1>l DEF Placed, ParkPlaces, SubmitPlaces, Returns
  <2>2. SameOnDeque(at, who, pos, at1, who1, pos, Frames)
    BY <1>0, <1>q, <1>a DEF SameOnDeque, Returns
  <2> QED BY <2>1, <2>2, <1>p, <1>l, DequeSame DEF Placed
<1>6. Placed(at1, who1, pos)'
  BY <1>a, <1>5 DEF Placed, Resettled
<1>7. CountedAt(at1, p)' /\ ScopeAt(at1, p)' /\ LastForkAt(at1, p)'
  <2>1. Kept(p) /\ SameSpot(at, at1, p)
    BY <1>2, <1>a, <1>q DEF SameSpot, Returns
  <2>2. LiveForks(p) \intersect {f} = {}
    BY <1>0, <1>p DEF LiveForks
  <2>3. Reporters(p)' = Reporters(p)
    BY <1>1, <1>p, SameReporters
  <2> QED BY <2>1, <2>2, <2>3, <1>2, Untouched
<1>8. \A g \in Frames \ {f, p} : SameSpot(at, at1, g)
  BY <1>a DEF Returns, SameSpot
<1>9. worker'[w].f # None /\ deque'[w] # <<>> => ForkedBy(base, worker[w].f, deque[w][Len(deque[w])])'
  <2> SUFFICES ASSUME deque[w] # <<>> PROVE ForkedBy(base, worker[w].f, deque[w][Len(deque[w])])'
    BY <1>p
  <2>1. PICK q \in Frames : q = deque[w][Len(deque[w])]
    BY <1>e DEF Whereabouts
  <2>2. ForkedBy(base, f, q)
    BY <2>1, <1>0, <1>l DEF Chained, None, Frames
  <2>3. base[f] = base[p] /\ base[p] \in Frames
    BY <1>0, <1>p, <1>q, <1>l DEF Bases
  <2>4. ForkedBy(base, p, q)'
    BY <2>2, <2>3, <1>2 DEF ForkedBy, Shrinks, Kept
  <2> QED BY <2>1, <2>4, <1>1, <1>p DEF ForkedBy
<1> QED BY <1>0, <1>p, <1>q, <1>1, <1>2, <1>4, <1>6, <1>7, <1>8, <1>9, EndedLinks

(* A forked task ends and pops its parent, which was not stolen.           *)
LEMMA FinalForkPopLinks ==
    ASSUME NEW at, NEW who, NEW pos, NEW base, Linked(at, who, pos, base), FrameTypes', ControlTypes',
           NEW w \in Workers, FinalForkPop(w)
    PROVE  JoinInv'
<1>l. /\ FrameTypes /\ ControlTypes /\ Control /\ Family /\ Placed(at, who, pos) /\ Bases(base) /\ Chained(base)
  BY DEF Linked
<1>e. Whereabouts(at, who, pos)
  BY <1>l, Here
<1>w. worker \in [Workers -> [pc : Labels, f : 0..MaxFrames, arg : Nat, stack : 0..MaxFrames]]
      /\ deque \in [Workers -> Seq(Frames)]
  BY <1>l DEF ControlTypes
<1>p. worker[w].pc = "final" /\ frame[worker[w].f].kind = "fork" /\ deque[w] # <<>>
      /\ deque' = [deque EXCEPT ![w] = Front(@)] /\ submit' = submit
      /\ parked' = parked /\ created' = created
  BY DEF FinalForkPop
<1>0. PICK f \in Frames :
        /\ f = worker[w].f /\ frame[f].st = "live" /\ at[f] = "run" /\ who[f] = w
        /\ \A g \in Frames : frame[g].st = "live" /\ frame[g].kind # "root" => frame[g].parent # f
  BY <1>p, EndsAlone
<1>q. PICK p \in Frames : p = deque[w][Len(deque[w])] /\ p = Last(deque[w]) /\ frame[p].st = "live" /\ at[p] = "deque"
  BY <1>p, <1>e DEF Whereabouts
<1>r. p = frame[f].parent /\ p # f /\ frame[p].last = f
  <2>0. worker[w].f = f /\ f # None /\ deque[w] # <<>> /\ p = deque[w][Len(deque[w])] /\ Chained(base)
    BY <1>0, <1>p, <1>q, <1>l DEF None, Frames
  <2>1. ForkedBy(base, f, p)
    BY <2>0 DEF Chained
  <2>2. base[f] = f
    BY <1>0, <1>p, <1>l DEF Bases
  <2> QED BY <2>1, <2>2, <1>0, <1>p DEF ForkedBy
<1>1. worker'[w].pc = "run" /\ worker'[w].f = p /\ Others(w)
  BY <1>w, <1>0, <1>q DEF FinalForkPop, RunOn, Others
<1>2. Ended(f) /\ Shrinks({f}) /\ \A g \in Frames : Kept(g)
  <2>1. Ends(f, p)
    <3>0. \E sync \in BOOLEAN :
            frame' = [frame EXCEPT ![worker[w].f].st = "done",
                                   ![Last(deque[w])].exc =
                                       IF Rethrows(w, Last(deque[w]), sync) THEN "none" ELSE @]
      BY Zenon DEF FinalForkPop
    <3>1. PICK sync \in BOOLEAN :
            frame' = [frame EXCEPT ![f].st = "done", ![p].exc = IF Rethrows(w, p, sync) THEN "none" ELSE @]
      BY <3>0, <1>0, <1>q
    <3>2. PICK e : e = IF Rethrows(w, p, sync) THEN "none" ELSE frame[p].exc
      OBVIOUS
    <3>3. frame' = [frame EXCEPT ![f].st = "done", ![p].exc = e]
      BY <3>1, <3>2, <1>r, <1>l DEF FrameTypes
    <3>4. e = frame[p].exc \/ e = "none"
      BY <3>2
    <3> QED BY <3>3, <3>4, Zenon DEF Ends
  <2>2. Ended(f)
    BY <2>1, <1>0, <1>p, <1>l, EndsFrame
  <2> QED BY <2>2 DEF Ended
<1>3. LosesLast(w) /\ \A u \in Workers \ {w} : deque'[u] = deque[u]
  <2>1. \A u \in Workers \ {w} : deque'[u] = deque[u]
    BY <1>p, <1>w
  <2>2. deque'[w] = Front(deque[w]) /\ deque[w] \in Seq(Frames)
    BY <1>p, <1>w
  <2> QED BY <2>1, <2>2, <1>p, FrontOf DEF LosesLast
<1>4. Goes(w) /\ Cut(w)
  <2>1. Goes(w)
    BY <1>1 DEF Goes, Executing, None, Frames
  <2> QED BY <2>1, <1>3 DEF Cut
<1>a. PICK at1, who1 : Returns(at, who, at1, who1, f, p, w) /\ Resettled(at1, who1)
  <2>1. at[p] = "deque" /\ frame[f].kind = "fork" /\ worker[w].f = f
    BY <1>0, <1>p, <1>q
  <2> QED BY <2>1, <1>1, <1>2, <1>l, ReturnsPlaces
<1>5. ParkPlaces(at1)' /\ DequePlaces(at1, who1, pos)' /\ SubmitPlaces(at1, who1)'
  <2>1. ParkPlaces(at1)' /\ SubmitPlaces(at1, who1)'
    BY <1>0, <1>p, <1>q, <1>a, <1>l DEF Placed, ParkPlaces, SubmitPlaces, Returns
  <2>2. SameOnDeque(at, who, pos, at1, who1, pos, Frames \ {p}) /\ at1[p] # "deque"
    BY <1>0, <1>q, <1>a DEF SameOnDeque, Returns
  <2>3. PlaceTypes(at, who) /\ DequePlaces(at, who, pos)
    BY <1>l DEF Placed
  <2>4. DequePlaces(at1, who1, pos)'
    BY <2>2, <2>3, <1>p, <1>q, <1>l, DequePop
  <2> QED BY <2>1, <2>4
<1>6. Placed(at1, who1, pos)'
  BY <1>a, <1>5 DEF Placed, Resettled
<1>7. CountedAt(at1, p)' /\ ScopeAt(at1, p)' /\ LastForkAt(at1, p)'
  <2>1. CountedAt(at, p) /\ ScopeAt(at, p) /\ LastForkAt(at, p)
    BY DEF Linked, Counted, Scopes, LastForks
  <2>2. LiveForks(p)' = LiveForks(p) \ {f} /\ f \in LiveForks(p) /\ Reporters(p)' = Reporters(p)
    <3>1. f \in LiveForks(p)
      BY <1>0, <1>p, <1>r DEF LiveForks, Live
    <3>2. Reporters(p)' = Reporters(p)
      BY <1>1, <1>p, SameReporters
    <3> QED BY <3>1, <3>2, <1>2, ShrinksForks
  <2>3. Outstanding(p)' = Outstanding(p) - 1
    BY <2>2, OutMoves
  <2>4. Kept(p) /\ at1[p] = "run" /\ frame'[p].st = "live" /\ frame'[f].st = "done"
    BY <1>2, <1>a, <1>q, <1>r DEF Returns, Shrinks
  <2>5. frame[p].steal \in Nat /\ frame[p].join \in Nat /\ CounterMax \in Nat
    BY <1>l, FieldTypes
  <2>6. CountedAt(at1, p)'
    <3>1. Outstanding(p) = frame[p].steal - (CounterMax - frame[p].join) + 1
      BY <2>1, <1>q DEF CountedAt
    <3>2. frame'[p].steal = frame[p].steal /\ frame'[p].join = frame[p].join
      BY <2>4 DEF Kept
    <3> QED BY <3>1, <3>2, <2>3, <2>4, <2>5 DEF CountedAt
  <2>7. ScopeAt(at1, p)'
    BY <2>1, <2>4, <1>q DEF ScopeAt, Kept
  <2>8. LastForkAt(at1, p)'
    BY <2>1, <2>4, <1>p, <1>q, <1>r DEF LastForkAt, Kept
  <2> QED BY <2>6, <2>7, <2>8
<1>8. \A g \in Frames \ {f, p} : SameSpot(at, at1, g)
  BY <1>a DEF Returns, SameSpot
<1>9. worker'[w].f # None /\ deque'[w] # <<>> => ForkedBy(base, worker[w].f, deque[w][Len(deque[w])])'
  <2>1. worker'[w].f = deque[w][Len(deque[w])] /\ Bases(base) /\ Chained(base) /\ deque[w] # <<>>
    BY <1>1, <1>p, <1>q, <1>l
  <2>2. \A q \in Frames : at[q] = "deque" => frame'[q].last = frame[q].last
    BY <1>2 DEF Kept
  <2> QED BY <2>1, <2>2, <1>2, <1>3, <1>e, PoppedLink
<1>10. frame[f].parent = p /\ worker'[w].pc # "report"
  BY <1>1, <1>r
<1> QED BY <1>0, <1>p, <1>1, <1>2, <1>3, <1>4, <1>6, <1>7, <1>8, <1>9, <1>10, EndedLinks

-----------------------------------------------------------------------------
(* A frame that is created: it has no children and a fresh control block.  *)
Created(c, p, k) ==
    /\ Grows(c, p, k)
    /\ frame'[c].steal = 0 /\ frame'[c].join = CounterMax /\ frame'[c].exc = "none"
    /\ frame'[c].open = FALSE /\ frame'[c].last = None
    /\ \A g \in Frames \ {c} : frame'[g].exc = frame[g].exc

(* A new frame owes and expects nothing.                                   *)
LEMMA NewFrame ==
    ASSUME NEW at, NEW who, NEW pos, NEW base, Linked(at, who, pos, base), NEW c \in Frames, NEW p, NEW k,
           Created(c, p, k), p # c, Reporters(c)' = Reporters(c),
           NEW at1, at1[c] # "deque", at1[c] # "parked"
    PROVE  CountedAt(at1, c)' /\ ScopeAt(at1, c)' /\ LastForkAt(at1, c)'
<1>1. FrameTypes /\ ControlTypes /\ Control /\ Family /\ CounterMax \in Nat
  BY ConstantsAssumption DEF Linked
<1>2. frame[c].st # "live" /\ Grows(c, p, k)
  BY DEF Created, Grows
<1>3. Outstanding(c) = 0
  BY <1>1, <1>2, OutNone
<1>4. LiveForks(c)' = LiveForks(c)
  BY <1>2, GrowsForks
<1>5. Outstanding(c)' = 0
  BY <1>3, <1>4, OutMoves
<1>6. CountedAt(at1, c)'
  BY <1>1, <1>5 DEF CountedAt, Created
<1> QED BY <1>6 DEF ScopeAt, LastForkAt, Created

(* Frames that have nothing to do with the new one.                        *)
LEMMA UntouchedByNew ==
    ASSUME NEW at, NEW who, NEW pos, NEW base, Linked(at, who, pos, base), ControlTypes',
           NEW at1, NEW c \in Frames, NEW p, NEW k, Grows(c, p, k), NEW g \in Frames, g # c,
           Kept(g), SameSpot(at, at1, g), k # "fork" \/ p # g, Reporters(g)' = Reporters(g)
    PROVE  CountedAt(at1, g)' /\ ScopeAt(at1, g)' /\ LastForkAt(at1, g)'
<1>1. FrameTypes /\ ControlTypes /\ CountedAt(at, g) /\ ScopeAt(at, g) /\ LastForkAt(at, g)
  BY DEF Linked, Counted, Scopes, LastForks
<1>2. frame'[g].st = "live" => frame[g].st = "live"
  BY DEF Grows
<1>3. LiveForks(g)' = LiveForks(g)
  BY GrowsForks
<1>4. created' >= created /\ created' \in Nat
  BY <1>1, ConstantsAssumption DEF Grows, ControlTypes
<1>5. \A x \in Frames : frame[x].st = "done" => frame'[x].st = "done"
  BY DEF Grows
<1> QED BY <1>1, <1>2, <1>3, <1>4, <1>5, KeptFrame

(* What the steps that create a frame have in common.                      *)
Creates(at, who, w) ==
    /\ Others(w)
    /\ \/ worker' = worker
       \/ worker[w].pc # "construct" /\ worker'[w].pc = "run" /\ worker'[w].f \in Frames
    /\ \A v \in Workers : deque'[v] = deque[v] \/ worker[v].pc \notin {"idle", "report", "release"}
    /\ \A q \in Frames : at[q] = "run" /\ who[q] # w => frame'[q].open = frame[q].open
    /\ worker' = worker => \A q \in Frames : at[q] = "run" => frame'[q].open = frame[q].open

BaseOf(base, c, p, k) == [base EXCEPT ![c] = IF k = "call" THEN base[p] ELSE c]

(* What every step that creates a frame has to show.                       *)
LEMMA CreatedLinks ==
    ASSUME NEW at, NEW who, NEW pos, NEW base, Linked(at, who, pos, base), FrameTypes', ControlTypes',
           NEW w \in Workers, Creates(at, who, w), NEW c \in Frames, NEW p, NEW k, Created(c, p, k),
           k = "root" \/ (p \in Frames /\ frame[p].st = "live"),
           NEW at1, NEW who1, NEW pos1, Placed(at1, who1, pos1)', Accounted(at1),
           NEW base1, base1 = BaseOf(base, c, p, k), Chained(base1)'
    PROVE  JoinInv'
<1>l. /\ FrameTypes /\ ControlTypes /\ Control /\ Family /\ Placed(at, who, pos) /\ FlagIsSet
      /\ Bases(base) /\ Scopes(at)
  BY DEF Linked
<1>e. Whereabouts(at, who, pos)
  BY <1>l, Here
<1>c. /\ Others(w)
      /\ \/ worker' = worker
         \/ worker[w].pc # "construct" /\ worker'[w].pc = "run" /\ worker'[w].f \in Frames
      /\ \A v \in Workers : deque'[v] = deque[v] \/ worker[v].pc \notin {"idle", "report", "release"}
  BY DEF Creates
<1>g. /\ Grows(c, p, k)
      /\ \A g \in Frames : frame[g].st = "live" => /\ frame'[g].st = "live" /\ frame'[g].kind = frame[g].kind
                                                   /\ frame'[g].parent = frame[g].parent
      /\ \A g \in Frames : frame'[g].st = "live" /\ frame'[g].exc = "flag" =>
             frame[g].st = "live" /\ frame[g].exc = "flag"
  BY DEF Created, Grows
<1>1. Control'
  <2> SUFFICES ASSUME NEW v \in Workers
               PROVE  /\ worker'[v].f # None <=> worker'[v].pc \in Executing
                      /\ worker'[v].pc \in {"idle", "report", "release"} => deque'[v] = <<>>
                      /\ worker'[v].pc = "report" =>
                           worker'[v].arg \in Frames /\ frame'[worker'[v].arg].st = "live"
                      /\ worker'[v].pc = "construct" => frame'[worker'[v].f].kind # "root"
    BY DEF Control
  <2>1. CASE worker'[v] = worker[v]
    <3>1. worker[v].pc = "construct" => worker[v].f \in Frames /\ frame[worker[v].f].st = "live"
      BY <1>e DEF Whereabouts, Executing
    <3>2. /\ worker[v].f # None <=> worker[v].pc \in Executing
          /\ worker[v].pc \in {"idle", "report", "release"} => deque[v] = <<>>
          /\ worker[v].pc = "report" => worker[v].arg \in Frames /\ frame[worker[v].arg].st = "live"
          /\ worker[v].pc = "construct" => frame[worker[v].f].kind # "root"
      BY <1>l DEF Control
    <3>3. worker[v].pc \in {"idle", "report", "release"} => deque'[v] = <<>>
      BY <3>2, <1>c
    <3>4. worker[v].pc = "report" => worker[v].arg \in Frames /\ frame'[worker[v].arg].st = "live"
      BY <3>2, <1>g
    <3>5. worker[v].pc = "construct" => frame'[worker[v].f].kind # "root"
      BY <3>1, <3>2, <1>g
    <3> QED BY <2>1, <3>2, <3>3, <3>4, <3>5
  <2>2. CASE v = w /\ worker'[w].pc = "run" /\ worker'[w].f \in Frames
    BY <2>2 DEF Executing, None, Frames
  <2> QED BY <2>1, <2>2, <1>c DEF Others
<1>2. Family'
  BY <1>g, <1>l, FamilyGrows
<1>3. Bases(base1)'
  <2>1. k = "call" => p \in Frames /\ frame[p].st = "live"
    OBVIOUS
  <2> QED BY <2>1, <1>g, <1>l, BasesGrows DEF BaseOf
<1>4. Scopes(at1)'
  <2>1. ASSUME NEW v \in Workers, worker'[v].pc \in {"construct", "final"}
        PROVE  frame'[worker'[v].f].open = FALSE
    <3>1. worker'[v] = worker[v] /\ (v # w \/ worker' = worker)
      BY <2>1, <1>c DEF Others
    <3>2. worker[v].f \in Frames /\ at[worker[v].f] = "run" /\ who[worker[v].f] = v
      BY <2>1, <3>1, <1>e DEF Whereabouts, Executing
    <3>3. frame[worker[v].f].open = FALSE
      BY <2>1, <3>1, <1>l DEF Scopes
    <3> QED BY <3>1, <3>2, <3>3 DEF Creates
  <2> QED BY <2>1 DEF Scopes, Accounted
<1>5. Counted(at1)' /\ LastForks(at1)'
  BY DEF Accounted, Counted, LastForks
<1>6. FlagIsSet'
  <2>1. CASE worker[w].pc # "construct"
    BY <2>1, <1>c, <1>g, <1>e, <1>l, FlagKept
  <2>2. CASE worker' = worker
    <3>1. \A v \in Workers : worker[v].pc = "construct" => worker[v].f \in Frames /\ frame[worker[v].f].st = "live"
      BY <1>e DEF Whereabouts, Executing
    <3> QED BY <2>2, <3>1, <1>g, <1>l DEF FlagIsSet
  <2> QED BY <2>1, <2>2, <1>c
<1> QED BY <1>1, <1>2, <1>3, <1>4, <1>5, <1>6 DEF JoinInv, Linked

(* The links outlive the creation of a frame.                              *)
LEMMA LinksGrow ==
    ASSUME NEW c \in Frames, NEW p, NEW k, Grows(c, p, k), ControlTypes, NEW base, Bases(base),
           NEW base1, base1 = BaseOf(base, c, p, k)
    PROVE  /\ base1[c] = IF k = "call" THEN base[p] ELSE c
           /\ \A x \in Frames : frame[x].st = "live" =>
                /\ x # c /\ base1[x] = base[x] /\ base[x] \in Frames /\ base[x] # c
                /\ frame'[base[x]].kind = frame[base[x]].kind
                /\ frame'[base[x]].parent = frame[base[x]].parent
<1>1. created \in Nat /\ c = created + 1 /\ frame[c].st = "none"
  BY ConstantsAssumption DEF ControlTypes, Grows
<1>2. /\ base1[c] = IF k = "call" THEN base[p] ELSE c
      /\ base \in [Frames -> Frames] /\ \A x \in Frames \ {c} : base1[x] = base[x]
  BY DEF Bases, BaseOf
<1>3. ASSUME NEW x \in Frames, frame[x].st = "live"
      PROVE  /\ x # c /\ base1[x] = base[x] /\ base[x] \in Frames /\ base[x] # c
             /\ frame'[base[x]].kind = frame[base[x]].kind
             /\ frame'[base[x]].parent = frame[base[x]].parent
  <2>1. base[x] \in Frames /\ base[x] <= created /\ x # c
    BY <1>1, <1>2, <1>3 DEF Bases
  <2>2. base[x] # c
    BY <1>1, <2>1 DEF Frames
  <2> QED BY <2>1, <2>2, <1>2 DEF Grows
<1> QED BY <1>2, <1>3

(* schedule(): a root task is submitted.                                   *)
LEMMA SubmitLinks ==
    ASSUME NEW at, NEW who, NEW pos, NEW base, Linked(at, who, pos, base), FrameTypes', ControlTypes',
           NEW w \in Workers, Submit(w)
    PROVE  JoinInv'
<1>l. /\ FrameTypes /\ ControlTypes /\ Control /\ Family /\ Placed(at, who, pos) /\ Bases(base) /\ Chained(base)
  BY DEF Linked
<1>e. Whereabouts(at, who, pos)
  BY <1>l, Here
<1>p. worker' = worker /\ deque' = deque /\ parked' = parked
  BY DEF Submit
<1>0. PICK c \in Frames : c = created + 1 /\ frame[c].st = "none" /\ at[c] = "none"
  BY <1>e, <1>l DEF Submit, Whereabouts, Family, Placed, LiveIsPlaced
<1>1. /\ Created(c, None, "root") /\ Grows(c, None, "root")
      /\ \A g \in Frames \ {c} : frame'[g] = frame[g]
  <2>1. frame'[c] = Fresh(None, "root", c) /\ created' = c
    BY <1>0, <1>l DEF Submit, FrameTypes
  <2>2. \A g \in Frames \ {c} : frame'[g] = frame[g]
    BY <1>0, <1>l DEF Submit, FrameTypes
  <2> QED BY <2>1, <2>2, <1>0 DEF Created, Grows, Fresh
<1>a. PICK at1 : at1 = [at EXCEPT ![c] = "submit"]
  OBVIOUS
<1>b. PICK who1 : who1 = [who EXCEPT ![c] = w]
  OBVIOUS
<1>2. Shifts(at, who, at1, who1, c, "submit", w)
  BY <1>a, <1>b, <1>l DEF Placed, PlaceTypes, Shifts
<1>3. Placed(at1, who1, pos)'
  <2>1. PlaceTypes(at1, who1)'
    BY <1>a, <1>b, <1>l DEF Placed, PlaceTypes
  <2>2. LiveIsPlaced(at1)'
    BY <1>2, <1>1, <1>l DEF Placed, LiveIsPlaced, Grows, Shifts
  <2>3. RunPlaces(at1, who1)'
    BY <1>0, <1>2, <1>p, <1>l DEF Placed, RunPlaces, Shifts
  <2>4. CallPlaces(at1, who1)'
    BY <1>0, <1>2, <1>1, <1>l DEF Placed, CallPlaces, Grows, Shifts
  <2>5. ParkPlaces(at1)' /\ DequePlaces(at1, who1, pos)'
    BY <1>0, <1>2, <1>p, <1>l, SameQueues
  <2>6. SubmitPlaces(at1, who1)'
    <3> SUFFICES ASSUME NEW v \in Workers, NEW g \in Frames
                 PROVE  g \in submit'[v] <=> at1[g] = "submit" /\ who1[g] = v
      BY DEF SubmitPlaces
    <3>1. g \in submit[v] <=> at[g] = "submit" /\ who[g] = v
      BY <1>l DEF Placed, SubmitPlaces
    <3>2. submit'[v] = IF v = w THEN submit[v] \union {c} ELSE submit[v]
      BY <1>0, <1>l DEF ControlTypes, Submit
    <3> QED BY <3>1, <3>2, <1>0, <1>2 DEF Shifts
  <2> QED BY <2>1, <2>2, <2>3, <2>4, <2>5, <2>6 DEF Placed
<1>4. Accounted(at1)
  <2> SUFFICES ASSUME NEW g \in Frames
               PROVE  CountedAt(at1, g)' /\ ScopeAt(at1, g)' /\ LastForkAt(at1, g)'
    BY DEF Accounted
  <2>1. Reporters(g)' = Reporters(g)
    BY <1>p DEF Reporters
  <2>2. CASE g = c
    <3>1. None # c /\ at1[c] # "deque" /\ at1[c] # "parked"
      BY <1>2 DEF None, Frames, Shifts
    <3> QED BY <2>1, <2>2, <3>1, <1>1, NewFrame
  <2>3. CASE g # c
    <3>1. Kept(g) /\ SameSpot(at, at1, g)
      BY <2>3, <1>1, <1>2 DEF Kept, SameSpot, Shifts
    <3> QED BY <2>1, <2>3, <3>1, <1>1, UntouchedByNew
  <2> QED BY <2>2, <2>3
<1>c. PICK base1 : base1 = BaseOf(base, c, None, "root")
  OBVIOUS
<1>5. \A x \in Frames : frame[x].st = "live" =>
                /\ x # c /\ base1[x] = base[x] /\ base[x] \in Frames /\ base[x] # c
                /\ frame'[base[x]].kind = frame[base[x]].kind
                /\ frame'[base[x]].parent = frame[base[x]].parent
  BY <1>1, <1>c, <1>l, LinksGrow
<1>6. \A q \in Frames : at[q] = "deque" => frame'[q].last = frame[q].last
  BY <1>0, <1>1
<1>7. Chained(base1)'
  <2>1. Others(w) /\ Cut(w)
    BY <1>p DEF Others, Cut
  <2>2. worker'[w].f # None /\ deque'[w] # <<>> => ForkedBy(base1, worker[w].f, deque[w][Len(deque[w])])'
    <3> SUFFICES ASSUME worker[w].f # None, deque[w] # <<>>
                 PROVE  ForkedBy(base1, worker[w].f, deque[w][Len(deque[w])])'
      BY <1>p
    <3>1. PICK x \in Frames, q \in Frames : x = worker[w].f /\ q = deque[w][Len(deque[w])]
      BY <1>e DEF Whereabouts, None
    <3>2. ForkedBy(base, x, q) /\ at[q] = "deque" /\ frame[x].st = "live"
      BY <3>1, <1>l, <1>e DEF Chained, Whereabouts
    <3>3. ForkedBy(base1, x, q)'
      BY <3>2, <1>5, <1>6, LinkKept
    <3> QED BY <3>1, <3>3, <1>p DEF ForkedBy
  <2> QED BY <2>1, <2>2, <1>5, <1>6, <1>e, <1>l, ChainedCut
<1>8. Creates(at, who, w)
  <2>1. \A q \in Frames : at[q] = "run" => frame'[q].open = frame[q].open
    BY <1>0, <1>1
  <2> QED BY <2>1, <1>p DEF Others, Creates
<1> QED BY <1>1, <1>3, <1>4, <1>c, <1>7, <1>8, CreatedLinks

(* A call: the child runs, the caller waits for it.                        *)
LEMMA CallLinks ==
    ASSUME NEW at, NEW who, NEW pos, NEW base, Linked(at, who, pos, base), FrameTypes', ControlTypes',
           NEW w \in Workers, Call(w)
    PROVE  JoinInv'
<1>l. /\ FrameTypes /\ ControlTypes /\ Control /\ Family /\ Placed(at, who, pos) /\ Bases(base) /\ Chained(base)
  BY DEF Linked
<1>e. Whereabouts(at, who, pos)
  BY <1>l, Here
<1>w. worker \in [Workers -> [pc : Labels, f : 0..MaxFrames, arg : Nat, stack : 0..MaxFrames]]
  BY <1>l DEF ControlTypes
<1>p. deque' = deque /\ parked' = parked /\ submit' = submit /\ worker[w].pc = "run"
  BY DEF Call
<1>0. PICK c \in Frames : c = created + 1 /\ frame[c].st = "none" /\ at[c] = "none"
  BY <1>e, <1>l DEF Call, Whereabouts, Family, Placed, LiveIsPlaced
<1>q. PICK p \in Frames : p = worker[w].f /\ frame[p].st = "live" /\ at[p] = "run" /\ who[p] = w /\ p # c
  BY <1>e, <1>p, <1>0 DEF Whereabouts, Executing
<1>1. /\ Created(c, p, "call") /\ Grows(c, p, "call")
      /\ \A g \in Frames \ {c} : frame'[g] = frame[g]
  <2>1. frame'[c] = Fresh(p, "call", StackFor(w, c)) /\ created' = c
    BY <1>0, <1>q, <1>l DEF Call, FrameTypes
  <2>2. \A g \in Frames \ {c} : frame'[g] = frame[g]
    BY <1>0, <1>l DEF Call, FrameTypes
  <2> QED BY <2>1, <2>2, <1>0 DEF Created, Grows, Fresh
<1>o. worker'[w].pc = "run" /\ worker'[w].f = c /\ Others(w)
  BY <1>w, <1>0 DEF Call, RunOn, Others
<1>a. PICK at1 : at1 = [at EXCEPT ![c] = "run", ![p] = "call"]
  OBVIOUS
<1>b. PICK who1 : who1 = [who EXCEPT ![c] = w, ![p] = c]
  OBVIOUS
<1>2. /\ \A g \in Frames \ {c, p} : at1[g] = at[g] /\ who1[g] = who[g]
      /\ at1[c] = "run" /\ who1[c] = w /\ at1[p] = "call" /\ who1[p] = c
  BY <1>a, <1>b, <1>q, <1>l DEF Placed, PlaceTypes
<1>3. Placed(at1, who1, pos)'
  <2>1. PlaceTypes(at1, who1)'
    BY <1>a, <1>b, <1>q, <1>l DEF Placed, PlaceTypes
  <2>2. LiveIsPlaced(at1)'
    BY <1>2, <1>1, <1>q, <1>l DEF Placed, LiveIsPlaced, Grows
  <2>3. RunPlaces(at1, who1)'
    <3> SUFFICES ASSUME NEW v \in Workers, NEW g \in Frames
                 PROVE  worker'[v].f = g <=> at1[g] = "run" /\ who1[g] = v
      BY DEF RunPlaces
    <3>1. worker[v].f = g <=> at[g] = "run" /\ who[g] = v
      BY <1>l DEF Placed, RunPlaces
    <3>2. CASE v = w
      BY <3>1, <3>2, <1>o, <1>0, <1>q, <1>2
    <3>3. CASE v # w
      <4>1. worker'[v].f = worker[v].f
        BY <3>3, <1>o DEF Others
      <4>2. CASE g = c \/ g = p
        BY <3>1, <3>3, <4>1, <4>2, <1>0, <1>q, <1>2
      <4>3. CASE g # c /\ g # p
        BY <3>1, <4>1, <4>3, <1>2
      <4> QED BY <4>2, <4>3
    <3> QED BY <3>2, <3>3
  <2>4. CallPlaces(at1, who1)'
    <3> SUFFICES ASSUME NEW x \in Frames, NEW d \in Frames
                 PROVE  (frame'[d].st = "live" /\ frame'[d].kind = "call" /\ frame'[d].parent = x)
                        <=> (at1[x] = "call" /\ who1[x] = d)
      BY DEF CallPlaces
    <3>1. /\ (frame[d].st = "live" /\ frame[d].kind = "call" /\ frame[d].parent = x)
             <=> (at[x] = "call" /\ who[x] = d)
          /\ (frame[c].st = "live" /\ frame[c].kind = "call" /\ frame[c].parent = x)
             <=> (at[x] = "call" /\ who[x] = c)
      BY <1>l DEF Placed, CallPlaces
    <3>2. CASE d = c
      <4>1. frame'[d].st = "live" /\ frame'[d].kind = "call" /\ frame'[d].parent = p
        BY <3>2, <1>1 DEF Grows
      <4> QED BY <3>1, <3>2, <4>1, <1>0, <1>2
    <3>3. CASE d # c
      <4>1. frame'[d] = frame[d]
        BY <3>3, <1>1
      <4> QED BY <3>1, <3>3, <4>1, <1>0, <1>q, <1>2
    <3> QED BY <3>2, <3>3
  <2>5. ParkPlaces(at1)' /\ SubmitPlaces(at1, who1)'
    BY <1>0, <1>p, <1>q, <1>2, <1>l DEF Placed, ParkPlaces, SubmitPlaces
  <2>6. DequePlaces(at1, who1, pos)'
    <3>1. SameOnDeque(at, who, pos, at1, who1, pos, Frames)
      BY <1>0, <1>q, <1>2 DEF SameOnDeque
    <3> QED BY <3>1, <1>p, <1>l, DequeSame DEF Placed
  <2> QED BY <2>1, <2>2, <2>3, <2>4, <2>5, <2>6 DEF Placed
<1>4. Accounted(at1)
  <2> SUFFICES ASSUME NEW g \in Frames
               PROVE  CountedAt(at1, g)' /\ ScopeAt(at1, g)' /\ LastForkAt(at1, g)'
    BY DEF Accounted
  <2>1. Reporters(g)' = Reporters(g)
    BY <1>p, <1>o, SameReporters
  <2>2. CASE g = c
    <3>1. at1[c] # "deque" /\ at1[c] # "parked"
      BY <1>2
    <3> QED BY <2>1, <2>2, <3>1, <1>1, <1>q, NewFrame
  <2>3. CASE g # c
    <3>1. Kept(g) /\ SameSpot(at, at1, g)
      BY <2>3, <1>1, <1>2, <1>q DEF Kept, SameSpot
    <3> QED BY <2>1, <2>3, <3>1, <1>1, UntouchedByNew
  <2> QED BY <2>2, <2>3
<1>c. PICK base1 : base1 = BaseOf(base, c, p, "call")
  OBVIOUS
<1>5. /\ base1[c] = base[p]
      /\ \A x \in Frames : frame[x].st = "live" =>
                /\ x # c /\ base1[x] = base[x] /\ base[x] \in Frames /\ base[x] # c
                /\ frame'[base[x]].kind = frame[base[x]].kind
                /\ frame'[base[x]].parent = frame[base[x]].parent
  BY <1>1, <1>c, <1>l, LinksGrow
<1>6. \A q \in Frames : at[q] = "deque" => frame'[q].last = frame[q].last
  BY <1>0, <1>1
<1>7. Chained(base1)'
  <2>1. Cut(w)
    BY <1>p DEF Cut
  <2>2. worker'[w].f # None /\ deque'[w] # <<>> => ForkedBy(base1, worker[w].f, deque[w][Len(deque[w])])'
    <3> SUFFICES ASSUME deque[w] # <<>> PROVE ForkedBy(base1, worker[w].f, deque[w][Len(deque[w])])'
      BY <1>p
    <3>1. PICK q \in Frames : q = deque[w][Len(deque[w])] /\ at[q] = "deque"
      BY <1>e DEF Whereabouts
    <3>2. worker[w].f = p /\ p # None /\ Chained(base)
      BY <1>q, <1>l DEF None, Frames
    <3>3. ForkedBy(base, p, q)
      BY <3>1, <3>2 DEF Chained
    <3>4. ForkedBy(base1, c, q)'
      BY <3>1, <3>3, <1>5, <1>6, <1>q DEF ForkedBy
    <3> QED BY <3>1, <3>4, <1>p, <1>o DEF ForkedBy
  <2> QED BY <2>1, <2>2, <1>o, <1>5, <1>6, <1>e, <1>l, ChainedCut
<1>8. Creates(at, who, w)
  <2>1. \A q \in Frames : at[q] = "run" => frame'[q].open = frame[q].open
    BY <1>0, <1>1
  <2> QED BY <2>1, <1>p, <1>o DEF Creates
<1> QED BY <1>q, <1>1, <1>3, <1>4, <1>c, <1>7, <1>8, CreatedLinks

(* A fork lengthens the chain of its worker by one link.                   *)
LEMMA ForkChains ==
    ASSUME NEW at, NEW who, NEW pos, Whereabouts(at, who, pos), ControlTypes, ControlTypes', NEW base, Chained(base),
           NEW w \in Workers, NEW p \in Frames, NEW c \in Frames, ForkFlow(w, p, c), frame[p].st = "live",
           NEW base1, base1[c] = c,
           \A x \in Frames : frame[x].st = "live" =>
                /\ x # c /\ base1[x] = base[x] /\ base[x] \in Frames /\ base[x] # c
                /\ frame'[base[x]].kind = frame[base[x]].kind
                /\ frame'[base[x]].parent = frame[base[x]].parent,
           \A q \in Frames : at[q] = "deque" => frame'[q].last = frame[q].last
    PROVE  Chained(base1)'
<1>k. ASSUME NEW x \in Frames, NEW q \in Frames, frame[x].st = "live", at[q] = "deque", ForkedBy(base, x, q)
      PROVE  ForkedBy(base1, x, q)'
  BY <1>k, LinkKept
<1>d. /\ \A v \in Workers : deque[v] \in Seq(Frames) /\ Len(deque[v]) \in Nat
      /\ \A v \in Workers \ {w} : deque'[v] = deque[v] /\ worker'[v] = worker[v]
      /\ Len(deque'[w]) = Len(deque[w]) + 1 /\ deque'[w][Len(deque[w]) + 1] = p
      /\ \A i \in 1..Len(deque[w]) : deque'[w][i] = deque[w][i]
      /\ worker'[w].f = c /\ worker[w].f = p /\ p # None
  BY DEF ForkFlow, ControlTypes, None, Frames
<1>h. \A v \in Workers : \A i \in 1..Len(deque[v]) :
        deque[v][i] \in Frames /\ frame[deque[v][i]].st = "live" /\ at[deque[v][i]] = "deque"
  BY DEF Whereabouts
<1>r. \A v \in Workers : worker[v].f # None /\ deque[v] # <<>> =>
        /\ worker[v].f \in Frames /\ frame[worker[v].f].st = "live"
        /\ Len(deque[v]) \in 1..Len(deque[v])
  BY DEF Whereabouts, None
<1>o. ASSUME NEW v \in Workers, NEW i \in 1..(Len(deque[v]) - 1)
      PROVE  ForkedBy(base1, deque[v][i + 1], deque[v][i])'
             \/ ~(deque'[v][i] = deque[v][i] /\ deque'[v][i + 1] = deque[v][i + 1])
  <2>1. i \in 1..Len(deque[v]) /\ i + 1 \in 1..Len(deque[v])
    BY <1>d
  <2>2. ForkedBy(base, deque[v][i + 1], deque[v][i])
    BY DEF Chained
  <2>3. PICK x \in Frames, q \in Frames : x = deque[v][i + 1] /\ q = deque[v][i]
    BY <2>1, <1>h
  <2>4. ForkedBy(base1, x, q)'
    BY <2>1, <2>2, <2>3, <1>h, <1>k
  <2> QED BY <2>3, <2>4 DEF ForkedBy
<1>1. ASSUME NEW v \in Workers, NEW i \in 1..(Len(deque'[v]) - 1)
      PROVE  ForkedBy(base1, deque[v][i + 1], deque[v][i])'
  <2>1. CASE v # w
    <3>1. deque'[v] = deque[v] /\ i \in 1..(Len(deque[v]) - 1)
      BY <2>1, <1>d
    <3> QED BY <3>1, <1>o
  <2>2. CASE v = w /\ i # Len(deque[w])
    <3>1. i \in 1..(Len(deque[w]) - 1) /\ i \in 1..Len(deque[w]) /\ i + 1 \in 1..Len(deque[w])
      BY <2>2, <1>d
    <3>2. deque'[w][i] = deque[w][i] /\ deque'[w][i + 1] = deque[w][i + 1]
      BY <3>1, <1>d
    <3> QED BY <2>2, <3>1, <3>2, <1>o
  <2>3. CASE v = w /\ i = Len(deque[w])
    <3>1. i \in 1..Len(deque[w]) /\ deque[w] # <<>>
      BY <2>3, <1>d
    <3>2. PICK q \in Frames : q = deque[w][i] /\ at[q] = "deque"
      BY <3>1, <1>h
    <3>3. ForkedBy(base, worker[w].f, deque[w][Len(deque[w])])
      BY <3>1, <1>d DEF Chained
    <3>4. ForkedBy(base1, p, q)'
      BY <3>2, <3>3, <2>3, <1>d, <1>k
    <3>5. deque'[w][i + 1] = p /\ deque'[w][i] = q
      BY <3>1, <3>2, <2>3, <1>d
    <3> QED BY <2>3, <3>4, <3>5 DEF ForkedBy
  <2> QED BY <2>1, <2>2, <2>3
<1>2. ASSUME NEW v \in Workers, worker'[v].f # None, deque'[v] # <<>>
      PROVE  ForkedBy(base1, worker[v].f, deque[v][Len(deque[v])])'
  <2>1. CASE v # w
    <3>1. deque'[v] = deque[v] /\ worker'[v] = worker[v]
      BY <2>1, <1>d
    <3>2. PICK x \in Frames, q \in Frames : x = worker[v].f /\ q = deque[v][Len(deque[v])] /\ at[q] = "deque"
      BY <1>2, <3>1, <1>h, <1>r
    <3>3. ForkedBy(base, x, q) /\ frame[x].st = "live"
      BY <1>2, <3>1, <3>2, <1>r DEF Chained
    <3>4. ForkedBy(base1, x, q)'
      BY <3>2, <3>3, <1>k
    <3> QED BY <3>1, <3>2, <3>4 DEF ForkedBy
  <2>2. CASE v = w
    <3>1. deque'[w][Len(deque'[w])] = p /\ worker'[w].f = c
      BY <1>d
    <3>2. ForkedBy(base1, c, p)'
      BY DEF ForkedBy, ForkFlow
    <3> QED BY <2>2, <3>1, <3>2 DEF ForkedBy
  <2> QED BY <2>1, <2>2
<1> QED BY <1>1, <1>2 DEF Chained

(* A fork: the child runs, the continuation is pushed.                     *)
LEMMA ForkLinks ==
    ASSUME NEW at, NEW who, NEW pos, NEW base, Linked(at, who, pos, base), FrameTypes', ControlTypes',
           NEW w \in Workers, Fork(w)
    PROVE  JoinInv'
<1>l. /\ FrameTypes /\ ControlTypes /\ Control /\ Family /\ Placed(at, who, pos) /\ Bases(base) /\ Chained(base)
  BY DEF Linked
<1>e. Whereabouts(at, who, pos)
  BY <1>l, Here
<1>0. PICK p \in Frames, c \in Frames :
        ForkFlow(w, p, c) /\ frame'[c].open = FALSE /\ frame'[p].open = TRUE
  BY <1>l, ForkFlows
<1>q. /\ worker[w].pc = "run" /\ p = worker[w].f /\ frame[p].st = "live" /\ at[p] = "run" /\ who[p] = w /\ p # c
      /\ c = created + 1 /\ frame[c].st = "none" /\ at[c] = "none"
  BY <1>0, <1>e, <1>l DEF Whereabouts, Executing, ForkFlow, Family, Placed, LiveIsPlaced
<1>o. worker'[w].pc = "run" /\ worker'[w].f = c /\ Others(w)
  BY <1>0 DEF ForkFlow, Others
<1>1. Created(c, p, "fork") /\ Grows(c, p, "fork")
  BY <1>0, <1>q DEF Created, Grows, ForkFlow
<1>n. \A g \in Frames \ {p, c} : frame'[g] = frame[g]
  BY <1>0 DEF ForkFlow
<1>a. PICK at1 : at1 = [g \in Frames |-> IF g = c THEN "run" ELSE IF g = p THEN "deque" ELSE at[g]]
  OBVIOUS
<1>b. PICK who1 : who1 = [g \in Frames |-> IF g = c THEN w ELSE who[g]]
  OBVIOUS
<1>d. PICK pos1 : pos1 = [g \in Frames |-> IF g = p THEN Len(deque[w]) + 1 ELSE pos[g]]
  OBVIOUS
<1>3. Placed(at1, who1, pos1)'
  BY <1>0, <1>a, <1>b, <1>d, <1>l, ForkKeepsPlaces
<1>2. at1[c] = "run" /\ at1[p] = "deque" /\ \A g \in Frames \ {p, c} : at1[g] = at[g]
  BY <1>a, <1>q
<1>4. Accounted(at1)
  <2> SUFFICES ASSUME NEW g \in Frames
               PROVE  CountedAt(at1, g)' /\ ScopeAt(at1, g)' /\ LastForkAt(at1, g)'
    BY DEF Accounted
  <2>1. Reporters(g)' = Reporters(g)
    BY <1>q, <1>o, SameReporters
  <2>2. CASE g = c
    <3>1. at1[c] # "deque" /\ at1[c] # "parked"
      BY <1>2
    <3> QED BY <2>1, <2>2, <3>1, <1>1, <1>q, NewFrame
  <2>3. CASE g = p
    <3>1. CountedAt(at, p)
      BY DEF Linked, Counted
    <3>2. LiveForks(p)' = LiveForks(p) \union {c} /\ c \notin LiveForks(p)
      BY <1>1, GrowsForks
    <3>3. Outstanding(p)' = Outstanding(p) + 1
      BY <3>2, <2>1, <2>3, OutMoves
    <3>4. frame[p].steal \in Nat /\ frame[p].join \in Nat /\ CounterMax \in Nat
      BY <1>l, FieldTypes
    <3>5. /\ frame'[p].steal = frame[p].steal /\ frame'[p].join = frame[p].join
          /\ frame'[p].last = c /\ frame'[p].pre = frame[p].steal /\ created' = c
      BY <1>0 DEF ForkFlow
    <3>6. CountedAt(at1, p)'
      <4>1. Outstanding(p) = frame[p].steal - (CounterMax - frame[p].join)
        BY <3>1, <3>4, <1>q DEF CountedAt
      <4> QED BY <4>1, <3>3, <3>4, <3>5, <1>2 DEF CountedAt
    <3>7. ScopeAt(at1, p)'
      BY <1>0 DEF ScopeAt
    <3>8. LastForkAt(at1, p)'
      BY <3>5, <1>2, <1>e DEF LastForkAt, Whereabouts
    <3> QED BY <2>3, <3>6, <3>7, <3>8
  <2>4. CASE g # c /\ g # p
    <3>1. Kept(g) /\ SameSpot(at, at1, g)
      BY <2>4, <1>n, <1>2 DEF Kept, SameSpot
    <3> QED BY <2>1, <2>4, <3>1, <1>1, UntouchedByNew
  <2> QED BY <2>2, <2>3, <2>4
<1>c. PICK base1 : base1 = BaseOf(base, c, p, "fork")
  OBVIOUS
<1>5. /\ base1[c] = c
      /\ \A x \in Frames : frame[x].st = "live" =>
                /\ x # c /\ base1[x] = base[x] /\ base[x] \in Frames /\ base[x] # c
                /\ frame'[base[x]].kind = frame[base[x]].kind
                /\ frame'[base[x]].parent = frame[base[x]].parent
  BY <1>1, <1>c, <1>l, LinksGrow
<1>6. \A q \in Frames : at[q] = "deque" => frame'[q].last = frame[q].last
  BY <1>q, <1>n
<1>7. Chained(base1)'
  BY <1>0, <1>5, <1>6, <1>e, <1>l, <1>q, ForkChains
<1>8. Creates(at, who, w)
  <2>1. \A q \in Frames : at[q] = "run" /\ who[q] # w => frame'[q].open = frame[q].open
    BY <1>q, <1>n
  <2>2. worker' # worker
    BY <1>o, <1>q
  <2>3. \A v \in Workers : deque'[v] = deque[v] \/ worker[v].pc \notin {"idle", "report", "release"}
    <3>1. \A v \in Workers \ {w} : deque'[v] = deque[v]
      BY <1>0, <1>l DEF ForkFlow, ControlTypes
    <3> QED BY <3>1, <1>q
  <2> QED BY <2>1, <2>2, <2>3, <1>q, <1>o DEF Creates
<1> QED BY <1>q, <1>1, <1>3, <1>4, <1>c, <1>7, <1>8, CreatedLinks

-----------------------------------------------------------------------------
(* At first no frame exists.                                               *)
LEMMA InitLinks == Init => JoinInv
<1> SUFFICES ASSUME Init PROVE JoinInv
  OBVIOUS
<1>a. PICK at : at = [f \in Frames |-> "none"]
  OBVIOUS
<1>b. PICK who : who = [f \in Frames |-> 0]
  OBVIOUS
<1>c. PICK base : base = [f \in Frames |-> f]
  OBVIOUS
<1>i. /\ frame = [f \in Frames |-> Unused] /\ worker = [w \in Workers |-> IdleOn(None)]
      /\ deque = [w \in Workers |-> <<>>] /\ submit = [w \in Workers |-> {}]
      /\ parked = {} /\ created = 0
  BY DEF Init
<1>u. \A f \in Frames : frame[f].st = "none"
  BY <1>i DEF Unused, Fresh
<1>w. \A w \in Workers : worker[w].pc = "idle" /\ worker[w].f = 0 /\ deque[w] = <<>>
  BY <1>i DEF IdleOn, None
<1>1. FrameTypes
  <2>1. Unused \in FrameRec
    <3>1. Fresh(None, "root", None) \in FrameRec
      BY ConstantsAssumption, FreshType DEF None, Kinds
    <3>2. \A r \in FrameRec : [r EXCEPT !.st = "none"] \in FrameRec
      BY DEF FrameRec
    <3> QED BY <3>1, <3>2 DEF Unused
  <2> QED BY <2>1, <1>i DEF FrameTypes
<1>2. ControlTypes
  <2>1. IdleOn(None) \in [pc : Labels, f : 0..MaxFrames, arg : Nat, stack : 0..MaxFrames]
    BY ConstantsAssumption DEF IdleOn, None, Labels
  <2> QED BY <2>1, <1>i, ConstantsAssumption DEF ControlTypes
<1>3. Control /\ Family
  BY <1>u, <1>w DEF Control, Family, Executing, None
<1>4. Placed(at, who, who)
  <2>1. PlaceTypes(at, who) /\ LiveIsPlaced(at)
    BY <1>a, <1>b, <1>u DEF PlaceTypes, LiveIsPlaced
  <2>2. RunPlaces(at, who) /\ ParkPlaces(at) /\ CallPlaces(at, who)
    BY <1>a, <1>b, <1>u, <1>w, <1>i DEF RunPlaces, ParkPlaces, CallPlaces, Frames
  <2>3. SubmitPlaces(at, who) /\ DequePlaces(at, who, who)
    BY <1>a, <1>w, <1>i DEF SubmitPlaces, DequePlaces
  <2> QED BY <2>1, <2>2, <2>3 DEF Placed
<1>5. Bases(base) /\ Chained(base)
  BY <1>c, <1>u, <1>w DEF Bases, Chained
<1>6. Counted(at) /\ Scopes(at) /\ LastForks(at) /\ FlagIsSet
  BY <1>u, <1>w DEF Counted, CountedAt, Scopes, ScopeAt, LastForks, LastForkAt, FlagIsSet
<1> QED BY <1>1, <1>2, <1>3, <1>4, <1>5, <1>6 DEF Linked, JoinInv

(* Every step keeps the invariant, while the steals fit the counters.      *)
LEMMA StepKeepsLinks == JoinInv /\ StealsFit /\ [Next]_vars => JoinInv'
<1> SUFFICES ASSUME JoinInv, StealsFit, [Next]_vars PROVE JoinInv'
  OBVIOUS
<1>0. PICK at, who, pos, base : Linked(at, who, pos, base)
  BY DEF JoinInv
<1>t. FrameTypes' /\ ControlTypes'
  BY <1>0, FrameTypesStep, ControlTypesStep DEF Linked
<1>1. CASE UNCHANGED vars
  <2> USE <1>1 DEF vars
  <2>1. Control' /\ Family' /\ Placed(at, who, pos)'
    BY <1>0 DEF Linked, Control, Family, Placed, PlaceTypes, LiveIsPlaced, RunPlaces, DequePlaces,
                SubmitPlaces, ParkPlaces, CallPlaces
  <2>2. Bases(base)' /\ Chained(base)' /\ Counted(at)' /\ Scopes(at)' /\ LastForks(at)' /\ FlagIsSet'
    BY <1>0 DEF Linked, Bases, Chained, ForkedBy, Counted, CountedAt, Scopes, ScopeAt, LastForks,
                LastForkAt, FlagIsSet, Outstanding, Reporters, Live
  <2> QED BY <1>t, <2>1, <2>2 DEF Linked, JoinInv
<1>2. ASSUME NEW w \in Workers, Submit(w) PROVE JoinInv'
  BY <1>0, <1>t, <1>2, SubmitLinks
<1>3. ASSUME NEW w \in Workers, FindWork(w) PROVE JoinInv'
  <2>1. ASSUME NEW f \in submit[w], ResumeSubmitted(w, f) PROVE JoinInv'
    BY <1>0, <1>t, <2>1, ResumeLinks
  <2>2. ASSUME NEW v \in Workers, Steal(w, v) PROVE JoinInv'
    BY <1>0, <1>t, <2>2, StealLinks
  <2> QED BY <1>3, <2>1, <2>2 DEF FindWork
<1>4. ASSUME NEW w \in Workers, Proceed(w) PROVE JoinInv'
  <2>1. CASE Fork(w)
    BY <1>0, <1>t, <2>1, ForkLinks
  <2>2. CASE Call(w)
    BY <1>0, <1>t, <2>2, CallLinks
  <2>3. CASE CaptureException(w) \/ ConstructException(w)
    BY <1>0, <1>t, <2>3, ExceptionLinks
  <2>4. CASE FinalRoot(w)
    BY <1>0, <1>t, <2>4, FinalRootLinks
  <2>5. CASE FinalCall(w)
    BY <1>0, <1>t, <2>5, FinalCallLinks
  <2>6. CASE FinalForkPop(w)
    BY <1>0, <1>t, <2>6, FinalForkPopLinks
  <2>7. CASE FinalForkStolen(w)
    BY <1>0, <1>t, <2>7, FinalForkStolenLinks
  <2>8. CASE ReportWins(w)
    BY <1>0, <1>t, <2>8, ReportWinsLinks
  <2>9. CASE ReportLoses(w)
    BY <1>0, <1>t, <2>9, ReportLosesLinks
  <2>10. CASE JoinReady(w) \/ JoinWins(w)
    BY <1>0, <1>t, <2>10, JoinLinks
  <2>11. CASE JoinParks(w)
    BY <1>0, <1>t, <2>11, JoinParksLinks
  <2>12. CASE SelfSteal(w) /\ deque[w] # <<>>
    BY <1>0, <1>t, <2>12, SelfStealLinks
  <2>13. CASE Return(w) \/ JoinNotReady(w) \/ ReportReleases(w) \/ SwitchReleases(w)
              \/ (SelfSteal(w) /\ deque[w] = <<>>)
    BY <1>0, <1>t, <2>13, IdlesSteps
  <2>14. ASSUME NEW v \in Workers, Switch(w, v) PROVE JoinInv'
    BY <1>0, <1>t, <2>14, SwitchLinks
  <2> QED BY <1>4, <2>1, <2>2, <2>3, <2>4, <2>5, <2>6, <2>7, <2>8, <2>9, <2>10, <2>11, <2>12, <2>13, <2>14
          DEF Proceed
<1> QED BY <1>1, <1>2, <1>3, <1>4 DEF Next

(* Every reachable state is as the invariant says, until the counters wrap. *)
LEMMA LinksAlways == Spec /\ []StealsFit => []JoinInv
BY InitLinks, StepKeepsLinks, PTL DEF Spec

-----------------------------------------------------------------------------
(* No deque holds more continuations than there are frames.                *)
LEMMA DequeFits ==
    ASSUME NEW at, NEW who, NEW pos, Whereabouts(at, who, pos), ControlTypes, NEW w \in Workers
    PROVE  Len(deque[w]) <= MaxFrames
<1>1. deque[w] \in Seq(Frames) /\ Len(deque[w]) \in Nat /\ MaxFrames \in Nat
  BY DEF ControlTypes, Whereabouts
<1>2. \A i \in 1..Len(deque[w]) : deque[w][i] \in 1..MaxFrames /\ pos[deque[w][i]] = i
  BY DEF Whereabouts
<1>3. PICK n \in Nat : n = Len(deque[w])
  BY <1>1
<1>4. PICK h : h = [i \in 1..n |-> deque[w][i]]
  OBVIOUS
<1>5. h \in [1..n -> 1..MaxFrames] /\ \A i, j \in 1..n : h[i] = h[j] => i = j
  BY <1>2, <1>3, <1>4
<1>6. /\ IsFiniteSet(1..n) /\ Cardinality(1..n) = n
      /\ IsFiniteSet(1..MaxFrames) /\ Cardinality(1..MaxFrames) = MaxFrames
  <2>1. /\ 1 \in Int /\ n \in Int /\ MaxFrames \in Int
        /\ n - 1 + 1 = n /\ MaxFrames - 1 + 1 = MaxFrames
        /\ (1 > n => n = 0) /\ (1 > MaxFrames => MaxFrames = 0)
    BY <1>1
  <2> QED BY <2>1, FS_Interval
<1>7. ~(n > MaxFrames)
  <2> SUFFICES ASSUME n > MaxFrames PROVE FALSE
    OBVIOUS
  <2>1. Cardinality(1..MaxFrames) < Cardinality(1..n)
    BY <1>1, <1>6
  <2>2. \E x, y \in 1..n : x # y /\ h[x] = h[y]
    BY <2>1, <1>5, <1>6, FS_PigeonHole
  <2> QED BY <2>2, <1>5
<1> QED BY <1>1, <1>3, <1>7

(* The sets that OnePlace and CountersAccountForChildren look at.          *)
LEMMA PlacesSeen ==
    ASSUME NEW at, NEW who, NEW pos, NEW base, Linked(at, who, pos, base), NEW f \in Live
    PROVE  /\ RunnersOf(f) = IF at[f] = "run" THEN {who[f]} ELSE {}
           /\ DequesOf(f) = IF at[f] = "deque" THEN {<<who[f], pos[f]>>} ELSE {}
           /\ SubmittedTo(f) = IF at[f] = "submit" THEN {who[f]} ELSE {}
           /\ {f} \intersect parked = IF at[f] = "parked" THEN {f} ELSE {}
           /\ Callees(f) = IF at[f] = "call" THEN {who[f]} ELSE {}
           /\ at[f] \in {"run", "deque", "submit", "parked", "call"}
<1>l. /\ FrameTypes /\ ControlTypes /\ Control /\ Family /\ Placed(at, who, pos)
  BY DEF Linked
<1>e. Whereabouts(at, who, pos)
  BY <1>l, Here
<1>f. f \in Frames /\ frame[f].st = "live"
  BY DEF Live
<1>p. /\ PlaceTypes(at, who) /\ LiveIsPlaced(at) /\ RunPlaces(at, who) /\ DequePlaces(at, who, pos)
      /\ SubmitPlaces(at, who) /\ ParkPlaces(at) /\ CallPlaces(at, who)
  BY <1>l DEF Placed
<1>1. at[f] \in {"run", "deque", "submit", "parked", "call"}
  BY <1>f, <1>p DEF PlaceTypes, LiveIsPlaced
<1>2. RunnersOf(f) = IF at[f] = "run" THEN {who[f]} ELSE {}
  BY <1>f, <1>p DEF PlaceTypes, RunPlaces, RunnersOf
<1>3. SubmittedTo(f) = IF at[f] = "submit" THEN {who[f]} ELSE {}
  BY <1>f, <1>p DEF PlaceTypes, SubmitPlaces, SubmittedTo
<1>4. {f} \intersect parked = IF at[f] = "parked" THEN {f} ELSE {}
  BY <1>f, <1>p DEF ParkPlaces
<1>5. Callees(f) = IF at[f] = "call" THEN {who[f]} ELSE {}
  BY <1>f, <1>p DEF PlaceTypes, CallPlaces, Callees, Live
<1>6. DequesOf(f) = IF at[f] = "deque" THEN {<<who[f], pos[f]>>} ELSE {}
  <2>1. ASSUME NEW w \in Workers, NEW i \in 1..MaxFrames
        PROVE  i <= Len(deque[w]) /\ deque[w][i] = f <=> at[f] = "deque" /\ who[f] = w /\ pos[f] = i
    <3>1. Len(deque[w]) \in Nat
      BY <1>e DEF Whereabouts
    <3>2. CASE i \in 1..Len(deque[w])
      BY <3>1, <3>2, <1>f, <1>p DEF DequePlaces
    <3>3. CASE i \notin 1..Len(deque[w])
      BY <3>1, <3>3, <1>f, <1>p DEF DequePlaces
    <3> QED BY <3>2, <3>3
  <2>2. at[f] = "deque" => who[f] \in Workers /\ pos[f] \in 1..MaxFrames
    <3> SUFFICES ASSUME at[f] = "deque" PROVE who[f] \in Workers /\ pos[f] \in 1..MaxFrames
      OBVIOUS
    <3>1. who[f] \in Workers /\ pos[f] \in 1..Len(deque[who[f]])
      BY <1>f, <1>p DEF PlaceTypes, DequePlaces
    <3>2. Len(deque[who[f]]) <= MaxFrames
      BY <3>1, <1>e, <1>l, DequeFits
    <3>3. Len(deque[who[f]]) \in Nat /\ MaxFrames \in Nat
      BY <3>1, <1>e DEF Whereabouts
    <3> QED BY <3>1, <3>2, <3>3
  <2>3. ASSUME NEW q PROVE q \in DequesOf(f) <=> at[f] = "deque" /\ q = <<who[f], pos[f]>>
    <3>1. q \in DequesOf(f) => at[f] = "deque" /\ q = <<who[f], pos[f]>>
      BY <2>1 DEF DequesOf
    <3>2. at[f] = "deque" => <<who[f], pos[f]>> \in DequesOf(f)
      BY <2>1, <2>2 DEF DequesOf
    <3> QED BY <3>1, <3>2
  <2> QED BY <2>3
<1> QED BY <1>1, <1>2, <1>3, <1>4, <1>5, <1>6

(* The one place, as OnePlace counts it.                                   *)
LEMMA LinksOnePlace == JoinInv => OnePlace
<1> SUFFICES ASSUME JoinInv, NEW f \in Live
             PROVE  Cardinality(RunnersOf(f)) + Cardinality(DequesOf(f)) + Cardinality(SubmittedTo(f))
                    + Cardinality({f} \intersect parked) + Cardinality(Callees(f)) = 1
  BY DEF OnePlace
<1>0. PICK at, who, pos, base : Linked(at, who, pos, base)
  BY DEF JoinInv
<1>1. Cardinality({}) = 0 /\ \A x : Cardinality({x}) = 1
  BY FS_EmptySet, FS_Singleton
<1>2. /\ RunnersOf(f) = IF at[f] = "run" THEN {who[f]} ELSE {}
      /\ DequesOf(f) = IF at[f] = "deque" THEN {<<who[f], pos[f]>>} ELSE {}
      /\ SubmittedTo(f) = IF at[f] = "submit" THEN {who[f]} ELSE {}
      /\ {f} \intersect parked = IF at[f] = "parked" THEN {f} ELSE {}
      /\ Callees(f) = IF at[f] = "call" THEN {who[f]} ELSE {}
      /\ at[f] \in {"run", "deque", "submit", "parked", "call"}
  BY <1>0, PlacesSeen
<1>3. /\ Cardinality(RunnersOf(f)) = IF at[f] = "run" THEN 1 ELSE 0
      /\ Cardinality(DequesOf(f)) = IF at[f] = "deque" THEN 1 ELSE 0
      /\ Cardinality(SubmittedTo(f)) = IF at[f] = "submit" THEN 1 ELSE 0
      /\ Cardinality({f} \intersect parked) = IF at[f] = "parked" THEN 1 ELSE 0
      /\ Cardinality(Callees(f)) = IF at[f] = "call" THEN 1 ELSE 0
  BY <1>1, <1>2
<1> QED BY <1>2, <1>3

(* The counters, as CountersAccountForChildren reads them.                 *)
LEMMA LinksCounters == JoinInv => CountersAccountForChildren
<1> SUFFICES ASSUME JoinInv, NEW f \in Live
             PROVE  Outstanding(f) = IF f \in parked THEN frame[f].join
                         ELSE IF DequesOf(f) # {} THEN frame[f].steal - (CounterMax - frame[f].join) + 1
                         ELSE frame[f].steal - (CounterMax - frame[f].join)
  BY DEF CountersAccountForChildren
<1>0. PICK at, who, pos, base : Linked(at, who, pos, base)
  BY DEF JoinInv
<1>1. f \in Frames /\ frame[f].st = "live" /\ FrameTypes /\ CountedAt(at, f)
  BY <1>0 DEF Live, Linked, Counted
<1>2. /\ DequesOf(f) # {} <=> at[f] = "deque"
      /\ f \in parked <=> at[f] = "parked"
  BY <1>0, PlacesSeen
<1>3. frame[f].steal \in Nat /\ frame[f].join \in Nat /\ CounterMax \in Nat
  BY <1>1, FieldTypes
<1> QED BY <1>1, <1>2, <1>3 DEF CountedAt

(* The newest continuation is the parent of the fork that runs.            *)
LEMMA LinksPop == JoinInv => PopFindsParent
<1> SUFFICES ASSUME JoinInv, NEW w \in Workers, worker[w].pc = "final",
                    frame[worker[w].f].kind = "fork", deque[w] # <<>>
             PROVE  Last(deque[w]) = frame[worker[w].f].parent
  BY DEF PopFindsParent
<1>0. PICK at, who, pos, base : Linked(at, who, pos, base)
  BY DEF JoinInv
<1>l. FrameTypes /\ ControlTypes /\ Control /\ Family /\ Placed(at, who, pos) /\ Bases(base) /\ Chained(base)
  BY <1>0 DEF Linked
<1>e. Whereabouts(at, who, pos)
  BY <1>l, Here
<1>1. PICK f \in Frames : f = worker[w].f /\ frame[f].st = "live"
  BY <1>e DEF Whereabouts, Executing
<1>2. Last(deque[w]) = deque[w][Len(deque[w])]
  BY <1>e DEF Whereabouts
<1>3. base[f] = f
  BY <1>1, <1>l DEF Bases
<1>4. ForkedBy(base, f, deque[w][Len(deque[w])])
  BY <1>1, <1>l DEF Chained, None, Frames
<1> QED BY <1>1, <1>2, <1>3, <1>4 DEF ForkedBy

(* A frame with no open scope has no child left.                           *)
LEMMA LinksWait == JoinInv => JoinWaitsForChildren
<1> SUFFICES ASSUME JoinInv, NEW w \in Workers, worker[w].pc \in Executing, ~frame[worker[w].f].open
             PROVE  Outstanding(worker[w].f) = 0
  BY DEF JoinWaitsForChildren
<1>0. PICK at, who, pos, base : Linked(at, who, pos, base)
  BY DEF JoinInv
<1>l. FrameTypes /\ ControlTypes /\ Control /\ Family /\ Placed(at, who, pos) /\ Counted(at) /\ Scopes(at)
  BY <1>0 DEF Linked
<1>1. PICK f \in Frames : f = worker[w].f /\ frame[f].st = "live" /\ at[f] = "run"
  BY <1>l, Here DEF Whereabouts
<1>2. frame[f].open \in BOOLEAN
  BY <1>l DEF FrameTypes, FrameRec
<1>3. frame[f].open = FALSE
  BY <1>1, <1>2
<1>4. frame[f].steal = 0 /\ frame[f].join = CounterMax /\ CounterMax \in Nat
  BY <1>1, <1>3, <1>l, ConstantsAssumption DEF Scopes, ScopeAt
<1> QED BY <1>1, <1>4, <1>l DEF Counted, CountedAt

(* Before the join m_join is at least 2 when a child reports.              *)
LEMMA LinksLastChild == JoinInv /\ StealsFit => LastChildResumesParkedParent
<1> SUFFICES ASSUME JoinInv, StealsFit, NEW w \in Workers, worker[w].pc = "report", LastToJoin(worker[w].arg)
             PROVE  worker[w].arg \in parked
  BY DEF LastChildResumesParkedParent
<1>0. PICK at, who, pos, base : Linked(at, who, pos, base)
  BY DEF JoinInv
<1>1. worker[w].arg \in Frames /\ (at[worker[w].arg] # "parked" => frame[worker[w].arg].join >= 2)
  BY <1>0, Reported
<1> QED BY <1>0, <1>1 DEF LastToJoin, Linked, Placed, ParkPlaces

(* An unchanged m_steal means that the child popped its parent.            *)
LEMMA LinksSyncFork == JoinInv => SyncForkHasCompleted
<1> SUFFICES ASSUME JoinInv, NEW w \in Workers, worker[w].pc = "run", frame[worker[w].f].last # None,
                    frame[worker[w].f].steal = frame[worker[w].f].pre
             PROVE  frame[frame[worker[w].f].last].st = "done"
  BY DEF SyncForkHasCompleted
<1>0. PICK at, who, pos, base : Linked(at, who, pos, base)
  BY DEF JoinInv
<1>l. FrameTypes /\ ControlTypes /\ Control /\ Family /\ Placed(at, who, pos) /\ LastForks(at)
  BY <1>0 DEF Linked
<1>1. PICK f \in Frames : f = worker[w].f /\ frame[f].st = "live" /\ at[f] = "run"
  BY <1>l, Here DEF Whereabouts, Executing
<1>2. frame[f].steal \in Nat /\ frame[f].pre \in Nat
  BY <1>l, FieldTypes
<1> QED BY <1>1, <1>2, <1>l DEF LastForks, LastForkAt

(* While m_eptr is constructed the frame waits for that child, in one way  *)
(* or another, and nobody who could rethrow it takes it for complete.      *)
LEMMA LinksException == JoinInv /\ StealsFit => ExceptionIsSafeToTouch
<1> SUFFICES ASSUME JoinInv, StealsFit, NEW f \in Live, frame[f].exc = "flag", NEW w \in Workers, MayRethrow(w, f)
             PROVE  FALSE
  BY DEF ExceptionIsSafeToTouch
<1>0. PICK at, who, pos, base : Linked(at, who, pos, base)
  BY DEF JoinInv
<1>l. /\ FrameTypes /\ ControlTypes /\ Control /\ Family /\ Placed(at, who, pos) /\ FlagIsSet /\ Counted(at)
      /\ PopFindsParent
  BY <1>0, LinksPop DEF Linked
<1>e. Whereabouts(at, who, pos)
  BY <1>l, Here
<1>f. f \in Frames /\ frame[f].st = "live"
  BY DEF Live
<1>1. PICK u \in Workers : worker[u].pc = "construct" /\ frame[worker[u].f].parent = f
  BY <1>f, <1>l DEF FlagIsSet
<1>2. PICK x \in Frames :
        /\ x = worker[u].f /\ frame[x].st = "live" /\ at[x] = "run" /\ who[x] = u
        /\ frame[x].kind \in {"fork", "call"} /\ frame[x].parent = f
  <2>1. worker[u].f \in Frames /\ frame[worker[u].f].st = "live" /\ at[worker[u].f] = "run" /\ who[worker[u].f] = u
    BY <1>1, <1>e DEF Whereabouts, Executing
  <2>2. frame[worker[u].f].kind # "root"
    BY <1>1, <1>l DEF Control
  <2>3. frame[worker[u].f].kind \in Kinds
    BY <2>1, <1>l, FieldTypes
  <2> QED BY <1>1, <2>1, <2>2, <2>3 DEF Kinds
<1>3. frame[x].kind = "fork" => x \in LiveForks(f) /\ Outstanding(f) >= 1
  <2>1. frame[x].kind = "fork" => x \in LiveForks(f)
    BY <1>2 DEF LiveForks, Live
  <2> QED BY <2>1, OutSome
<1>4. frame[x].kind = "call" => at[f] = "call" /\ who[f] = x
  BY <1>2, <1>f, <1>l DEF Placed, CallPlaces
<1>5. /\ frame[f].steal \in Nat /\ frame[f].join \in Nat /\ CounterMax \in Nat
      /\ frame[f].join <= CounterMax
  BY <1>f, <1>l, FieldTypes
<1>6. Outstanding(f) = IF at[f] = "parked" THEN frame[f].join
                       ELSE frame[f].steal - (CounterMax - frame[f].join) + IF at[f] = "deque" THEN 1 ELSE 0
  BY <1>f, <1>l DEF Counted, CountedAt
<1>7. CASE worker[w].pc \in {"run", "suspend"} /\ worker[w].f = f /\ (frame[f].steal = 0 \/ AllReported(f))
  <2>1. at[f] = "run"
    BY <1>7, <1>e, <1>f DEF Whereabouts
  <2> QED BY <2>1, <1>2, <1>3, <1>4, <1>5, <1>6, <1>7 DEF AllReported
<1>8. CASE worker[w].pc = "final" /\ frame[worker[w].f].kind = "call"
           /\ frame[worker[w].f].parent = f /\ Rethrows(w, f, TRUE)
  <2>1. PICK y \in Frames : y = worker[w].f /\ frame[y].st = "live" /\ at[y] = "run" /\ who[y] = w
    BY <1>8, <1>e DEF Whereabouts, Executing
  <2>2. at[f] = "call" /\ who[f] = y
    BY <2>1, <1>8, <1>f, <1>l DEF Placed, CallPlaces
  <2>3. frame[x].kind # "call"
    BY <2>1, <2>2, <1>1, <1>2, <1>4, <1>8
  <2> QED BY <2>2, <2>3, <1>2, <1>3, <1>5, <1>6, <1>8 DEF Rethrows
<1>9. CASE worker[w].pc = "final" /\ frame[worker[w].f].kind = "fork" /\ deque[w] # <<>>
           /\ Last(deque[w]) = f /\ Rethrows(w, f, TRUE)
  <2>1. PICK y \in Frames : y = worker[w].f /\ frame[y].st = "live" /\ at[y] = "run" /\ who[y] = w
    BY <1>9, <1>e DEF Whereabouts, Executing
  <2>2. frame[y].parent = f /\ at[f] = "deque"
    BY <2>1, <1>9, <1>e, <1>l DEF Whereabouts, PopFindsParent
  <2>3. y # x
    BY <2>1, <1>1, <1>2, <1>9
  <2>4. y \in LiveForks(f) /\ x \in LiveForks(f)
    BY <2>1, <2>2, <1>2, <1>3, <1>4, <1>9 DEF LiveForks, Live
  <2>5. Outstanding(f) >= 2
    BY <2>3, <2>4, OutSome
  <2> QED BY <2>2, <2>5, <1>5, <1>6, <1>9 DEF Rethrows
<1>10. CASE worker[w].pc = "report" /\ worker[w].arg = f /\ LastToJoin(f)
  <2>1. at[f] = "parked"
    <3>1. at[f] # "parked" => frame[f].join >= 2
      BY <1>0, <1>10, Reported
    <3> QED BY <3>1, <1>10 DEF LastToJoin
  <2>2. w \in Reporters(f) /\ x \in LiveForks(f)
    BY <2>1, <1>2, <1>3, <1>4, <1>10 DEF Reporters
  <2>3. Outstanding(f) >= 2
    BY <2>2, OutSome
  <2> QED BY <2>1, <2>3, <1>5, <1>6, <1>10 DEF LastToJoin
<1> QED BY <1>7, <1>8, <1>9, <1>10 DEF MayRethrow

-----------------------------------------------------------------------------
(***************************************************************************)
(* How many steals can there be?  A frame can only be stolen from a deque  *)
(* it was pushed on when it forked, so a scope never sees more steals than *)
(* frames were created.                                                    *)
(***************************************************************************)
OnDeque(f) == \E w \in Workers : \E i \in 1..Len(deque[w]) : deque[w][i] = f

FewSteals ==
    \A f \in Frames : frame[f].steal + (IF OnDeque(f) THEN 1 ELSE 0) <= created

(* So the counters hold them, if they can hold the number of frames.       *)
LEMMA FewStealsFit ==
    ASSUME MaxFrames + 1 < CounterMax, JoinInv, FewSteals
    PROVE  StealsFit
<1>1. FrameTypes /\ ControlTypes
  BY DEF JoinInv, Linked
<1>2. created \in Nat /\ created <= MaxFrames /\ MaxFrames \in Nat /\ CounterMax \in Nat
  BY <1>1, ConstantsAssumption DEF ControlTypes
<1>3. \A f \in Frames : frame[f].steal \in Nat
  BY <1>1, FieldTypes
<1> QED BY <1>2, <1>3 DEF FewSteals, StealsFit

(* Steps that neither push nor steal.                                      *)
LEMMA FewStealsCalm ==
    ASSUME FewSteals, FrameTypes, ControlTypes, created' \in Nat, created' >= created,
           \A g \in Frames : frame'[g].steal = frame[g].steal \/ frame'[g].steal = 0,
           \A g \in Frames : OnDeque(g)' => OnDeque(g)
    PROVE  FewSteals'
<1>1. created \in Nat
  BY ConstantsAssumption DEF ControlTypes
<1>2. \A g \in Frames : frame[g].steal \in Nat
  BY FieldTypes
<1> SUFFICES ASSUME NEW g \in Frames
             PROVE  frame'[g].steal + (IF OnDeque(g)' THEN 1 ELSE 0) <= created'
  BY DEF FewSteals
<1>3. frame[g].steal + (IF OnDeque(g) THEN 1 ELSE 0) <= created
  BY DEF FewSteals
<1> QED BY <1>1, <1>2, <1>3

(* Steps that take a continuation off a deque and count it as stolen.      *)
LEMMA FewStealsTaken ==
    ASSUME FewSteals, StealsFit, FrameTypes, ControlTypes, created' = created, NEW f \in Frames,
           frame' = [frame EXCEPT ![f].steal = Wrap(@ + 1)], OnDeque(f),
           ~OnDeque(f)', \A g \in Frames : OnDeque(g)' => OnDeque(g)
    PROVE  FewSteals'
<1>1. created \in Nat
  BY ConstantsAssumption DEF ControlTypes
<1>2. \A g \in Frames : frame[g].steal \in Nat
  BY FieldTypes
<1>3. frame'[f].steal = frame[f].steal + 1
  <2>1. frame[f].steal + 1 \in 0..CounterMax
    BY <1>2, ConstantsAssumption DEF StealsFit
  <2>2. Wrap(frame[f].steal + 1) = frame[f].steal + 1
    BY <2>1, WrapType
  <2> QED BY <2>2 DEF FrameTypes, FrameRec
<1>4. \A g \in Frames \ {f} : frame'[g] = frame[g]
  BY DEF FrameTypes
<1> SUFFICES ASSUME NEW g \in Frames
             PROVE  frame'[g].steal + (IF OnDeque(g)' THEN 1 ELSE 0) <= created'
  BY DEF FewSteals
<1>5. frame[g].steal + (IF OnDeque(g) THEN 1 ELSE 0) <= created
  BY DEF FewSteals
<1>6. CASE g = f
  BY <1>1, <1>2, <1>3, <1>5, <1>6
<1>7. CASE g # f
  BY <1>1, <1>2, <1>4, <1>5, <1>7
<1> QED BY <1>6, <1>7

(* What is left on the deques when one loses an end.                       *)
LEMMA FewerOnDeque ==
    ASSUME NEW at, NEW who, NEW pos, Whereabouts(at, who, pos), NEW v \in Workers, deque[v] # <<>>,
           \A u \in Workers \ {v} : deque'[u] = deque[u], NEW f \in Frames,
           \/ LosesHead(v) /\ f = deque[v][1]
           \/ LosesLast(v) /\ f = deque[v][Len(deque[v])]
    PROVE  /\ OnDeque(f) /\ ~OnDeque(f)'
           /\ \A g \in Frames : OnDeque(g)' => OnDeque(g)
<1>e. /\ Len(deque[v]) \in Nat /\ 1 \in 1..Len(deque[v]) /\ Len(deque[v]) \in 1..Len(deque[v])
      /\ \A u \in Workers : \A i \in 1..Len(deque[u]) : who[deque[u][i]] = u /\ pos[deque[u][i]] = i
  BY DEF Whereabouts
<1>1. OnDeque(f)
  BY <1>e DEF OnDeque
<1>2. ASSUME NEW u \in Workers, NEW i \in 1..Len(deque'[u])
      PROVE  deque'[u][i] # f /\ \E j \in 1..Len(deque[u]) : deque'[u][i] = deque[u][j]
  <2>1. CASE u # v
    BY <2>1, <1>e
  <2>2. CASE u = v /\ LosesHead(v) /\ f = deque[v][1]
    <3>1. i + 1 \in 1..Len(deque[v]) /\ deque'[v][i] = deque[v][i + 1] /\ i + 1 # 1
      BY <2>2, <1>e DEF LosesHead
    <3> QED BY <2>2, <3>1, <1>e
  <2>3. CASE u = v /\ LosesLast(v) /\ f = deque[v][Len(deque[v])]
    <3>1. i \in 1..Len(deque[v]) /\ deque'[v][i] = deque[v][i] /\ i # Len(deque[v])
      BY <2>3, <1>e DEF LosesLast
    <3> QED BY <2>3, <3>1, <1>e
  <2> QED BY <2>1, <2>2, <2>3
<1>3. ~OnDeque(f)'
  BY <1>2 DEF OnDeque
<1>4. ASSUME NEW g \in Frames, OnDeque(g)' PROVE OnDeque(g)
  <2>1. PICK u \in Workers : \E i \in 1..Len(deque'[u]) : deque'[u][i] = g
    BY <1>4 DEF OnDeque
  <2>2. PICK i \in 1..Len(deque'[u]) : deque'[u][i] = g
    BY <2>1
  <2>3. PICK j \in 1..Len(deque[u]) : deque'[u][i] = deque[u][j]
    BY <1>2
  <2> QED BY <2>2, <2>3 DEF OnDeque
<1> QED BY <1>1, <1>3, <1>4

(* No step steals more than was forked.                                    *)
LEMMA FewStealsStep ==
    ASSUME JoinInv, StealsFit, FewSteals, [Next]_vars
    PROVE  FewSteals'
<1>0. PICK at, who, pos, base : Linked(at, who, pos, base)
  BY DEF JoinInv
<1>l. FrameTypes /\ ControlTypes /\ Control /\ Family /\ Placed(at, who, pos)
  BY <1>0 DEF Linked
<1>e. Whereabouts(at, who, pos)
  BY <1>l, Here
<1>c. created \in Nat
  BY <1>e DEF Whereabouts
<1>w. deque \in [Workers -> Seq(Frames)]
  BY <1>l DEF ControlTypes
<1>s. ASSUME deque' = deque, created' = created \/ created' = created + 1,
             \A g \in Frames : frame'[g].steal = frame[g].steal \/ frame'[g].steal = 0
      PROVE  FewSteals'
  <2>1. \A g \in Frames : OnDeque(g)' => OnDeque(g)
    BY <1>s DEF OnDeque
  <2> QED BY <1>s, <2>1, <1>c, <1>l, FewStealsCalm
<1>k. /\ \A w \in Workers : worker[w].pc \in Executing => worker[w].f \in Frames /\ frame[worker[w].f].st = "live"
      /\ \A w \in Workers : worker[w].pc = "report" => worker[w].arg \in Frames
      /\ created < MaxFrames => created + 1 \in Frames
  BY <1>e DEF Whereabouts
<1>1. CASE UNCHANGED vars
  BY <1>1, <1>s DEF vars
<1>2. ASSUME NEW w \in Workers, Submit(w) PROVE FewSteals'
  BY <1>2, <1>k, <1>l, <1>s DEF Submit, Fresh, FrameTypes
<1>3. ASSUME NEW w \in Workers, NEW f \in submit[w], ResumeSubmitted(w, f) PROVE FewSteals'
  BY <1>3, <1>s DEF ResumeSubmitted
<1>4. ASSUME NEW w \in Workers, NEW v \in Workers, Steal(w, v) PROVE FewSteals'
  <2>1. deque[v] # <<>> /\ deque' = [deque EXCEPT ![v] = Tail(@)] /\ created' = created
    BY <1>4 DEF Steal
  <2>2. PICK f \in Frames : f = deque[v][1] /\ f = Head(deque[v])
    BY <2>1, <1>e DEF Whereabouts
  <2>3. frame' = [frame EXCEPT ![f].steal = Wrap(@ + 1)]
    BY <1>4, <2>2 DEF Steal
  <2>4. LosesHead(v) /\ \A u \in Workers \ {v} : deque'[u] = deque[u]
    <3>1. deque'[v] = Tail(deque[v]) /\ deque[v] \in Seq(Frames)
      BY <2>1, <1>w
    <3> QED BY <3>1, <2>1, <1>w DEF LosesHead
  <2>5. OnDeque(f) /\ ~OnDeque(f)' /\ \A g \in Frames : OnDeque(g)' => OnDeque(g)
    BY <2>1, <2>2, <2>4, <1>e, FewerOnDeque
  <2> QED BY <2>1, <2>3, <2>5, <1>l, FewStealsTaken
<1>5. ASSUME NEW w \in Workers, SelfSteal(w) PROVE FewSteals'
  <2>0. CASE deque[w] = <<>>
    BY <1>5, <2>0, <1>s DEF SelfSteal
  <2>n. CASE deque[w] # <<>>
    <3>1. deque[w] # <<>> /\ deque' = [deque EXCEPT ![w] = Front(@)] /\ created' = created
      BY <1>5, <2>n DEF SelfSteal
    <3>2. PICK f \in Frames : f = deque[w][Len(deque[w])] /\ f = Last(deque[w])
      BY <3>1, <1>e DEF Whereabouts
    <3>3. frame' = [frame EXCEPT ![f].steal = Wrap(@ + 1)]
      BY <1>5, <2>n, <3>2 DEF SelfSteal
    <3>4. LosesLast(w) /\ \A u \in Workers \ {w} : deque'[u] = deque[u]
      <4>1. deque'[w] = Front(deque[w]) /\ deque[w] \in Seq(Frames)
        BY <3>1, <1>w
      <4> QED BY <4>1, <3>1, <1>w, FrontOf DEF LosesLast
    <3>5. OnDeque(f) /\ ~OnDeque(f)' /\ \A g \in Frames : OnDeque(g)' => OnDeque(g)
      BY <3>1, <3>2, <3>4, <1>e, FewerOnDeque
    <3> QED BY <3>1, <3>3, <3>5, <1>l, FewStealsTaken
  <2> QED BY <2>0, <2>n
<1>6. ASSUME NEW w \in Workers, FinalForkPop(w) PROVE FewSteals'
  <2>1. deque[w] # <<>> /\ deque' = [deque EXCEPT ![w] = Front(@)] /\ created' = created
    BY <1>6 DEF FinalForkPop
  <2>2. PICK f \in Frames : f = deque[w][Len(deque[w])] /\ f = Last(deque[w])
    BY <2>1, <1>e DEF Whereabouts
  <2>3. LosesLast(w) /\ \A u \in Workers \ {w} : deque'[u] = deque[u]
    <3>1. deque'[w] = Front(deque[w]) /\ deque[w] \in Seq(Frames)
      BY <2>1, <1>w
    <3> QED BY <3>1, <2>1, <1>w, FrontOf DEF LosesLast
  <2>4. \A g \in Frames : OnDeque(g)' => OnDeque(g)
    BY <2>1, <2>2, <2>3, <1>e, FewerOnDeque
  <2>5. \A g \in Frames : frame'[g].steal = frame[g].steal
    <3>1. PICK e : frame' = [frame EXCEPT ![worker[w].f].st = "done", ![f].exc = e]
      BY <1>6, <2>2 DEF FinalForkPop
    <3> QED BY <3>1, <1>l DEF FrameTypes, FrameRec
  <2> QED BY <2>1, <2>4, <2>5, <1>c, <1>l, FewStealsCalm
<1>7. ASSUME NEW w \in Workers, Fork(w) PROVE FewSteals'
  <2>1. PICK p \in Frames, c \in Frames : ForkFlow(w, p, c)
    BY <1>7, <1>l, ForkFlows
  <2>2. /\ c = created + 1 /\ created' = c /\ c # p /\ frame'[c].steal = 0
        /\ \A g \in Frames \ {c} : frame'[g].steal = frame[g].steal
        /\ deque' = [deque EXCEPT ![w] = Append(@, p)]
    BY <2>1 DEF ForkFlow
  <2>3. ~OnDeque(p)
    <3>1. at[p] = "run"
      BY <2>1, <1>e DEF ForkFlow, Whereabouts
    <3> QED BY <3>1, <1>e DEF OnDeque, Whereabouts
  <2>4. \A g \in Frames \ {p} : OnDeque(g)' => OnDeque(g)
    <3>1. ASSUME NEW u \in Workers, NEW i \in 1..Len(deque'[u])
          PROVE  deque'[u][i] = p \/ \E j \in 1..Len(deque[u]) : deque'[u][i] = deque[u][j]
      BY <2>2, <1>w
    <3> QED BY <3>1 DEF OnDeque
  <2>5. \A g \in Frames : frame[g].steal \in Nat
    BY <1>l, FieldTypes
  <2> SUFFICES ASSUME NEW g \in Frames
               PROVE  frame'[g].steal + (IF OnDeque(g)' THEN 1 ELSE 0) <= created'
    BY DEF FewSteals
  <2>6. frame[g].steal + (IF OnDeque(g) THEN 1 ELSE 0) <= created
    BY DEF FewSteals
  <2>7. CASE g = p
    BY <2>2, <2>3, <2>5, <2>6, <2>7, <1>c
  <2>8. CASE g = c
    BY <2>2, <2>8, <1>c
  <2>9. CASE g # p /\ g # c
    BY <2>2, <2>4, <2>5, <2>6, <2>9, <1>c
  <2> QED BY <2>7, <2>8, <2>9
<1>8. ASSUME NEW w \in Workers, Call(w) PROVE FewSteals'
  BY <1>8, <1>k, <1>l, <1>s DEF Call, Fresh, FrameTypes
<1>9. ASSUME NEW w \in Workers, CaptureException(w) \/ ConstructException(w) PROVE FewSteals'
  <2>1. deque' = deque /\ created' = created
    BY <1>9, Zenon DEF CaptureException, ConstructException
  <2>2. \A g \in Frames : frame'[g].steal = frame[g].steal
    <3>1. CASE CaptureException(w)
      BY <3>1, <1>l DEF CaptureException, FrameTypes, FrameRec
    <3>2. CASE ConstructException(w)
      BY <3>2, <1>l DEF ConstructException, FrameTypes, FrameRec
    <3> QED BY <1>9, <3>1, <3>2, Zenon
  <2> QED BY <2>1, <2>2, <1>s
<1>10. ASSUME NEW w \in Workers, FinalRoot(w) \/ FinalForkStolen(w) PROVE FewSteals'
  <2>1. /\ deque' = deque /\ created' = created
        /\ frame' = [frame EXCEPT ![worker[w].f].st = "done"]
    BY <1>10 DEF FinalRoot, FinalForkStolen
  <2>2. \A g \in Frames : frame'[g].steal = frame[g].steal
    BY <2>1, <1>l DEF FrameTypes, FrameRec
  <2> QED BY <2>1, <2>2, <1>s
<1>11. ASSUME NEW w \in Workers, FinalCall(w) PROVE FewSteals'
  <2>1. deque' = deque /\ created' = created
    BY <1>11, Zenon DEF FinalCall
  <2>2. PICK eager \in BOOLEAN :
          frame' = [frame EXCEPT
                      ![worker[w].f].st = "done",
                      ![frame[worker[w].f].parent].exc =
                          IF Rethrows(w, frame[worker[w].f].parent, eager) THEN "none" ELSE @]
    BY <1>11, Zenon DEF FinalCall
  <2>3. PICK f, p, e : frame' = [frame EXCEPT ![f].st = "done", ![p].exc = e]
    BY <2>2, Zenon
  <2>4. \A g \in Frames : frame'[g].steal = frame[g].steal
    BY <2>3, <1>l DEF FrameTypes, FrameRec
  <2> QED BY <2>1, <2>4, <1>s
<1>12. ASSUME NEW w \in Workers, ReportWins(w) PROVE FewSteals'
  BY <1>12, <1>k, <1>l, <1>s DEF ReportWins, AfterJoin, Reset, FrameTypes, FrameRec
<1>13. ASSUME NEW w \in Workers, ReportLoses(w) \/ JoinParks(w) PROVE FewSteals'
  <2>1. CASE ReportLoses(w)
    BY <2>1, <1>k, <1>l, <1>s DEF ReportLoses, FrameTypes, FrameRec
  <2>2. CASE JoinParks(w)
    BY <2>2, <1>k, <1>l, <1>s DEF JoinParks, FrameTypes, FrameRec
  <2> QED BY <1>13, <2>1, <2>2
<1>14. ASSUME NEW w \in Workers, JoinReady(w) \/ JoinWins(w) PROVE FewSteals'
  <2>1. CASE JoinReady(w)
    <3>1. CASE frame' = [frame EXCEPT ![worker[w].f] = AfterJoin(@)]
      BY <2>1, <3>1, <1>l, <1>s DEF JoinReady, AfterJoin, FrameTypes, FrameRec
    <3>2. CASE frame' = [frame EXCEPT ![worker[w].f] = AfterJoin(Reset(@))]
      BY <2>1, <3>2, <1>l, <1>s DEF JoinReady, AfterJoin, Reset, FrameTypes, FrameRec
    <3> QED BY <2>1, <3>1, <3>2 DEF JoinReady, TakeStackResetFrame
  <2>2. CASE JoinWins(w)
    BY <2>2, <1>k, <1>l, <1>s DEF JoinWins, TakeStackResetFrame, AfterJoin, Reset, FrameTypes, FrameRec
  <2> QED BY <1>14, <2>1, <2>2
<1>15. ASSUME NEW w \in Workers, Return(w) \/ JoinNotReady(w) \/ ReportReleases(w) \/ SwitchReleases(w)
       PROVE  FewSteals'
  <2>1. deque' = deque /\ created' = created /\ frame' = frame
    BY <1>15 DEF Return, JoinNotReady, ReportReleases, SwitchReleases
  <2> QED BY <2>1, <1>s
<1>16. ASSUME NEW w \in Workers, NEW v \in Workers, Switch(w, v) PROVE FewSteals'
  BY <1>16, <1>s DEF Switch
<1> QED BY <1>1, <1>2, <1>3, <1>4, <1>5, <1>6, <1>7, <1>8, <1>9, <1>10, <1>11, <1>12, <1>13, <1>14, <1>15, <1>16
        DEF Next, Proceed, FindWork

-----------------------------------------------------------------------------
(***************************************************************************)
(* The stacks.  What is on a stack is live and was allocated by the frame  *)
(* below it; the stack is named after the first one.                       *)
(***************************************************************************)
Top(s) == mem[s][Len(mem[s])]

(* f is the topmost frame of its stack.                                    *)
OnTop(f) == mem[frame[f].stack] # <<>> /\ Top(frame[f].stack) = f

StackTypes == mem \in [Frames -> Seq(Frames)]

StackShape ==
    /\ \A s \in Frames : \A i \in 1..Len(mem[s]) :
         /\ frame[mem[s][i]].st = "live" /\ frame[mem[s][i]].stack = s
         /\ mem[s][i] = s <=> i = 1
         /\ i > 1 => frame[mem[s][i]].parent = mem[s][i - 1]
    /\ \A s \in Frames : \A i, k \in 1..Len(mem[s]) : mem[s][i] = mem[s][k] => i = k
    /\ \A f \in Frames : frame[f].st = "live" =>
         /\ frame[f].stack \in Frames
         /\ \E i \in 1..Len(mem[frame[f].stack]) : mem[frame[f].stack][i] = f
         /\ frame[f].kind = "root" => frame[f].stack = f

(* The child that p waits for is on p's stack unless p was stolen before.  *)
Beside(p, c) ==
    IF frame[p].steal = 0 THEN frame[c].stack = frame[p].stack /\ frame[c].stack # c
                          ELSE frame[c].stack = c

Children ==
    /\ \A c \in Frames : frame[c].st = "live" /\ frame[c].kind = "call" =>
         Beside(frame[c].parent, c)
    /\ \A w \in Workers : \A i \in 1..Len(deque[w]) :
         frame[deque[w][i]].last \in Frames /\ Beside(deque[w][i], frame[deque[w][i]].last)

(* Whose stack a worker has.                                               *)
Owners ==
    /\ \A w \in Workers : worker[w].pc \in Executing =>
         IF frame[worker[w].f].steal = 0
         THEN worker[w].stack = frame[worker[w].f].stack /\ OnTop(worker[w].f)
         ELSE worker[w].stack = None
    /\ \A w \in Workers : worker[w].pc = "report" /\ worker[w].stack # None =>
         worker[w].stack = frame[worker[w].arg].stack /\ OnTop(worker[w].arg)
    /\ \A w \in Workers : worker[w].pc \in {"idle", "selfsteal"} => worker[w].stack = None
    /\ \A w \in Workers : worker[w].pc = "switch" /\ worker[w].arg # 0 => worker[w].stack = None
    /\ \A w \in Workers : \A f \in submit[w] : frame[f].steal = 0 => OnTop(f)

OneReporter ==
    \A v, w \in Workers :
        /\ worker[v].pc = "report" /\ worker[w].pc = "report"
        /\ worker[v].stack = worker[w].stack /\ worker[v].stack # None
        => v = w

StackInv == StackTypes /\ StackShape /\ Children /\ Owners /\ OneReporter

-----------------------------------------------------------------------------
(***************************************************************************)
(* What JoinInv says of the frames, without the functions it speaks of.    *)
(***************************************************************************)
Busy ==
    /\ \A w \in Workers : worker[w].pc \in Executing =>
         worker[w].f \in Frames /\ frame[worker[w].f].st = "live"
    /\ \A v, w \in Workers :
         worker[v].pc \in Executing /\ worker[w].pc \in Executing /\ worker[v].f = worker[w].f => v = w
    /\ \A w \in Workers : worker[w].pc = "report" =>
         worker[w].arg \in Frames /\ frame[worker[w].arg].st = "live"

Runs(f) == \E w \in Workers : worker[w].pc \in Executing /\ worker[w].f = f

Queues ==
    /\ \A w \in Workers : \A f \in submit[w] :
         f \in Frames /\ frame[f].st = "live" /\ ~Runs(f) /\ f \notin parked
    /\ \A w \in Workers : \A i \in 1..Len(deque[w]) :
         /\ deque[w][i] \in Frames /\ frame[deque[w][i]].st = "live"
         /\ ~Runs(deque[w][i]) /\ deque[w][i] \notin parked
         /\ \A v \in Workers : deque[w][i] \notin submit[v]
    /\ \A v, w \in Workers : \A i \in 1..Len(deque[v]) : \A k \in 1..Len(deque[w]) :
         deque[v][i] = deque[w][k] => v = w /\ i = k

Calls(f) == \E c \in Frames : frame[c].st = "live" /\ frame[c].kind = "call" /\ frame[c].parent = f

Kin ==
    /\ \A c \in Frames : frame[c].st = "live" /\ frame[c].kind # "root" =>
         frame[c].parent \in Frames /\ frame[frame[c].parent].st = "live"
    /\ \A f \in Frames : Calls(f) =>
         /\ ~Runs(f) /\ f \notin parked
         /\ \A w \in Workers : f \notin submit[w] /\ \A i \in 1..Len(deque[w]) : deque[w][i] # f
    /\ \A f \in Frames : f > created => frame[f].st = "none"

(* Nobody is left that f created, except w if it still has to report.      *)
Alone(f, w) ==
    /\ \A c \in Frames : frame[c].st = "live" /\ frame[c].kind # "root" => frame[c].parent # f
    /\ \A v \in Workers \ {w} : worker[v].pc = "report" => worker[v].arg # f

Joins ==
    /\ \A w \in Workers :
         /\ worker[w].pc \in Executing
         /\ frame[worker[w].f].steal = 0 \/ AllReported(worker[w].f)
         => Alone(worker[w].f, w) /\ AllReported(worker[w].f)
    /\ \A w \in Workers : worker[w].pc = "report" /\ LastToJoin(worker[w].arg) =>
         Alone(worker[w].arg, w) /\ worker[w].arg \in parked
    /\ \A w \in Workers : worker[w].pc \in {"construct", "final"} => frame[worker[w].f].steal = 0
    /\ \A f \in Frames : f \in parked => ~Runs(f)

Parents ==
    \A w \in Workers : worker[w].pc = "final" /\ frame[worker[w].f].kind = "fork" /\ deque[w] # <<>> =>
        /\ Last(deque[w]) = frame[worker[w].f].parent
        /\ frame[frame[worker[w].f].parent].last = worker[w].f

Settled == Busy /\ Queues /\ Kin /\ Joins /\ Parents

(* Outstanding at 0 or, for w that reports, at 1.                          *)
LEMMA OutAlone ==
    ASSUME NEW at, NEW who, NEW pos, NEW base, Linked(at, who, pos, base), NEW f \in Frames, at[f] # "call",
           NEW w \in Workers, Outstanding(f) = 0 \/ (Outstanding(f) = 1 /\ w \in Reporters(f))
    PROVE  Alone(f, w)
<1>l. FrameTypes /\ Placed(at, who, pos)
  BY DEF Linked
<1>1. LiveForks(f) = {} /\ Reporters(f) \subseteq {w}
  <2>1. /\ \A c \in LiveForks(f) : Outstanding(f) >= 1
        /\ \A v \in Reporters(f) : Outstanding(f) >= 1
        /\ \A c \in LiveForks(f) : \A v \in Reporters(f) : Outstanding(f) >= 2
    BY OutSome
  <2>2. CASE Outstanding(f) = 0
    BY <2>1, <2>2
  <2>3. CASE Outstanding(f) = 1 /\ w \in Reporters(f)
    <3>1. LiveForks(f) = {}
      BY <2>1, <2>3
    <3>2. Cardinality(LiveForks(f)) = 0
      BY <3>1, FS_EmptySet
    <3>3. Cardinality(Reporters(f)) = 1 /\ IsFiniteSet(Reporters(f))
      BY <3>2, <2>3, OutFinite
    <3>4. \E x : Reporters(f) = {x}
      BY <3>3, FS_Singleton
    <3> QED BY <3>1, <3>4, <2>3
  <2> QED BY <2>2, <2>3
<1>2. ASSUME NEW c \in Frames, frame[c].st = "live", frame[c].kind # "root" PROVE frame[c].parent # f
  <2>1. frame[c].kind = "fork" \/ frame[c].kind = "call"
    BY <1>2, <1>l, FieldTypes DEF Kinds
  <2>2. CASE frame[c].kind = "fork"
    BY <1>1, <1>2, <2>2 DEF LiveForks, Live
  <2>3. CASE frame[c].kind = "call"
    BY <1>2, <2>3, <1>l DEF Placed, CallPlaces
  <2> QED BY <2>1, <2>2, <2>3
<1> QED BY <1>1, <1>2 DEF Alone, Reporters

(* All that holds of every reachable state.                                *)
LEMMA Settles == ASSUME JoinInv, StealsFit PROVE Settled
<1>0. PICK at, who, pos, base : Linked(at, who, pos, base)
  BY DEF JoinInv
<1>l. /\ FrameTypes /\ ControlTypes /\ Control /\ Family /\ Placed(at, who, pos)
      /\ Bases(base) /\ Chained(base) /\ Counted(at) /\ Scopes(at)
  BY <1>0 DEF Linked
<1>e. Whereabouts(at, who, pos)
  BY <1>l, Here
<1>r. \A f : Runs(f) => f \in Frames /\ at[f] = "run"
  BY <1>e DEF Runs, Whereabouts
<1>p. \A f \in Frames : f \in parked <=> at[f] = "parked"
  BY <1>l DEF Placed, ParkPlaces
<1>s. \A w \in Workers : \A f \in submit[w] : f \in Frames /\ at[f] = "submit"
  BY <1>l DEF Placed, SubmitPlaces, ControlTypes
<1>d. \A w \in Workers : \A i \in 1..Len(deque[w]) :
        /\ deque[w][i] \in Frames /\ frame[deque[w][i]].st = "live" /\ at[deque[w][i]] = "deque"
        /\ who[deque[w][i]] = w /\ pos[deque[w][i]] = i
  BY <1>e DEF Whereabouts
<1>f. \A f \in Frames : /\ frame[f].steal \in Nat /\ frame[f].join \in Nat /\ frame[f].join <= CounterMax
                        /\ CounterMax \in Nat /\ frame[f].steal + 1 < CounterMax
  BY <1>l, FieldTypes DEF StealsFit
<1>1. Busy
  <2>1. ASSUME NEW v \in Workers, NEW w \in Workers, worker[v].pc \in Executing,
               worker[w].pc \in Executing, worker[v].f = worker[w].f
        PROVE  v = w
    <3>1. worker[v].f \in Frames /\ who[worker[v].f] = v /\ who[worker[w].f] = w
      BY <2>1, <1>e DEF Whereabouts
    <3> QED BY <3>1, <2>1
  <2>2. /\ \A w \in Workers : worker[w].pc \in Executing =>
              worker[w].f \in Frames /\ frame[worker[w].f].st = "live"
        /\ \A w \in Workers : worker[w].pc = "report" =>
              worker[w].arg \in Frames /\ frame[worker[w].arg].st = "live"
    BY <1>e DEF Whereabouts
  <2>3. \A v, w \in Workers :
          worker[v].pc \in Executing /\ worker[w].pc \in Executing /\ worker[v].f = worker[w].f => v = w
    BY <2>1
  <2> QED BY <2>2, <2>3 DEF Busy
<1>2. Queues
  <2>1. \A w \in Workers : \A f \in submit[w] :
         f \in Frames /\ frame[f].st = "live" /\ ~Runs(f) /\ f \notin parked
    BY <1>s, <1>r, <1>p, <1>l DEF Placed, LiveIsPlaced
  <2>2. \A w \in Workers : \A i \in 1..Len(deque[w]) :
         /\ deque[w][i] \in Frames /\ frame[deque[w][i]].st = "live"
         /\ ~Runs(deque[w][i]) /\ deque[w][i] \notin parked
         /\ \A v \in Workers : deque[w][i] \notin submit[v]
    BY <1>d, <1>r, <1>p, <1>s
  <2>3. \A v, w \in Workers : \A i \in 1..Len(deque[v]) : \A k \in 1..Len(deque[w]) :
         deque[v][i] = deque[w][k] => v = w /\ i = k
    BY <1>d
  <2> QED BY <2>1, <2>2, <2>3 DEF Queues
<1>3. Kin
  <2>1. \A f \in Frames : Calls(f) => at[f] = "call"
    BY <1>l DEF Calls, Placed, CallPlaces
  <2>2. \A f \in Frames : Calls(f) =>
         /\ ~Runs(f) /\ f \notin parked
         /\ \A w \in Workers : f \notin submit[w] /\ \A i \in 1..Len(deque[w]) : deque[w][i] # f
    BY <2>1, <1>r, <1>p, <1>s, <1>d
  <2> QED BY <2>2, <1>l DEF Family, Kin
<1>4. Joins
  <2>1. ASSUME NEW w \in Workers, worker[w].pc \in Executing,
               frame[worker[w].f].steal = 0 \/ AllReported(worker[w].f)
        PROVE  Alone(worker[w].f, w) /\ AllReported(worker[w].f)
    <3>1. PICK f \in Frames : f = worker[w].f /\ at[f] = "run" /\ frame[f].st = "live"
      BY <2>1, <1>e DEF Whereabouts
    <3>2. Outstanding(f) = frame[f].steal - (CounterMax - frame[f].join) + 0
      BY <3>1, <1>l DEF Counted, CountedAt
    <3>3. Outstanding(f) \in Nat
      BY OutFinite
    <3>4. Outstanding(f) = 0
      BY <3>1, <3>2, <3>3, <2>1, <1>f DEF AllReported
    <3>5. AllReported(f)
      BY <3>2, <3>4, <1>f DEF AllReported
    <3> QED BY <3>1, <3>4, <3>5, <1>0, OutAlone
  <2>2. ASSUME NEW w \in Workers, worker[w].pc = "report", LastToJoin(worker[w].arg)
        PROVE  Alone(worker[w].arg, w) /\ worker[w].arg \in parked
    <3>1. PICK p \in Frames : p = worker[w].arg
      BY <2>2, <1>e DEF Whereabouts
    <3>2. frame[p].join = 1 /\ (at[p] # "parked" => frame[p].join >= 2)
          /\ (at[p] = "parked" => frame[p].join = Outstanding(p))
      BY <2>2, <3>1, <1>0, Reported DEF LastToJoin
    <3>3. at[p] = "parked" /\ Outstanding(p) = 1 /\ w \in Reporters(p)
      BY <2>2, <3>1, <3>2 DEF Reporters
    <3>4. Alone(p, w)
      BY <3>3, <1>0, OutAlone
    <3> QED BY <3>1, <3>3, <3>4, <1>p
  <2>3. ASSUME NEW w \in Workers, worker[w].pc \in {"construct", "final"}
        PROVE  frame[worker[w].f].steal = 0
    <3>1. worker[w].f \in Frames /\ frame[worker[w].f].st = "live"
      BY <2>3, <1>e DEF Whereabouts, Executing
    <3> QED BY <2>3, <3>1, <1>l DEF Scopes, ScopeAt
  <2>4. \A f \in Frames : f \in parked => ~Runs(f)
    BY <1>r, <1>p
  <2> QED BY <2>1, <2>2, <2>3, <2>4 DEF Joins
<1>5. Parents
  <2> SUFFICES ASSUME NEW w \in Workers, worker[w].pc = "final", frame[worker[w].f].kind = "fork",
                      deque[w] # <<>>
               PROVE  /\ Last(deque[w]) = frame[worker[w].f].parent
                      /\ frame[frame[worker[w].f].parent].last = worker[w].f
    BY DEF Parents
  <2>1. PICK f \in Frames : f = worker[w].f /\ frame[f].st = "live"
    BY <1>e DEF Whereabouts, Executing
  <2>2. Last(deque[w]) = deque[w][Len(deque[w])]
    BY <1>e DEF Whereabouts
  <2>3. base[f] = f
    BY <2>1, <1>l DEF Bases
  <2>4. ForkedBy(base, f, deque[w][Len(deque[w])])
    BY <2>1, <1>l DEF Chained, None, Frames
  <2> QED BY <2>1, <2>2, <2>3, <2>4 DEF ForkedBy
<1> QED BY <1>1, <1>2, <1>3, <1>4, <1>5 DEF Settled

-----------------------------------------------------------------------------
(* Steps that leave all stacks as they are.                                *)
Fixed ==
    \A g \in Frames : /\ frame'[g].st = frame[g].st /\ frame'[g].parent = frame[g].parent
                      /\ frame'[g].kind = frame[g].kind /\ frame'[g].stack = frame[g].stack

Unstolen(g) == frame'[g].steal = frame[g].steal /\ frame'[g].last = frame[g].last

(* What a step may do to one frame without touching the stacks.            *)
LEMMA FieldsKept ==
    ASSUME FrameTypes, NEW f \in Frames,
           \/ \E n : frame' = [frame EXCEPT ![f].steal = n]
           \/ \E n : frame' = [frame EXCEPT ![f].join = n]
           \/ \E e : frame' = [frame EXCEPT ![f].exc = e]
           \/ frame' = [frame EXCEPT ![f] = AfterJoin(@)]
           \/ frame' = [frame EXCEPT ![f] = AfterJoin(Reset(@))]
    PROVE  Fixed /\ \A g \in Frames \ {f} : frame'[g] = frame[g]
<1>1. \A g \in Frames \ {f} : frame'[g] = frame[g]
  BY DEF FrameTypes
<1>2. frame[f] \in FrameRec
  BY DEF FrameTypes
<1>3. /\ frame'[f].st = frame[f].st /\ frame'[f].parent = frame[f].parent
      /\ frame'[f].kind = frame[f].kind /\ frame'[f].stack = frame[f].stack
  <2>1. CASE \E n : frame' = [frame EXCEPT ![f].steal = n]
    BY <2>1, <1>2 DEF FrameTypes, FrameRec
  <2>2. CASE \E n : frame' = [frame EXCEPT ![f].join = n]
    BY <2>2, <1>2 DEF FrameTypes, FrameRec
  <2>3. CASE \E e : frame' = [frame EXCEPT ![f].exc = e]
    BY <2>3, <1>2 DEF FrameTypes, FrameRec
  <2>4. CASE frame' = [frame EXCEPT ![f] = AfterJoin(@)]
    BY <2>4, <1>2 DEF FrameTypes, FrameRec, AfterJoin
  <2>5. CASE frame' = [frame EXCEPT ![f] = AfterJoin(Reset(@))]
    BY <2>5, <1>2 DEF FrameTypes, FrameRec, AfterJoin, Reset
  <2> QED BY <2>1, <2>2, <2>3, <2>4, <2>5
<1> QED BY <1>1, <1>3 DEF Fixed

(* What Owners says of one worker.                                         *)
OwnerAt(w) ==
    /\ worker[w].pc \in Executing =>
         IF frame[worker[w].f].steal = 0
         THEN worker[w].stack = frame[worker[w].f].stack /\ OnTop(worker[w].f)
         ELSE worker[w].stack = None
    /\ worker[w].pc = "report" /\ worker[w].stack # None =>
         worker[w].stack = frame[worker[w].arg].stack /\ OnTop(worker[w].arg)
    /\ worker[w].pc \in {"idle", "selfsteal"} => worker[w].stack = None
    /\ worker[w].pc = "switch" /\ worker[w].arg # 0 => worker[w].stack = None

SubmittedAt == \A w \in Workers : \A f \in submit[w] : frame[f].steal = 0 => OnTop(f)

(* Owners, worker by worker.                                               *)
LEMMA OwnersAre == Owners <=> (\A w \in Workers : OwnerAt(w)) /\ SubmittedAt
BY DEF Owners, OwnerAt, SubmittedAt

(* In the next state, too.                                                 *)
LEMMA OwnersNext == Owners' <=> (\A w \in Workers : OwnerAt(w)') /\ SubmittedAt'
BY DEF Owners, OwnerAt, SubmittedAt

(* The stacks and their topmost frames.                                    *)
LEMMA StacksStay ==
    ASSUME StackTypes, StackShape, Fixed, mem' = mem
    PROVE  /\ StackTypes' /\ StackShape'
           /\ \A g \in Frames : OnTop(g)' = OnTop(g)
<1>1. StackTypes'
  BY DEF StackTypes
<1>2. \A s \in Frames : \A i \in 1..Len(mem[s]) : mem[s][i] \in Frames
  BY DEF StackTypes
<1>3. StackShape'
  <2>1. \A g \in Frames : /\ frame'[g].st = frame[g].st /\ frame'[g].stack = frame[g].stack
                          /\ frame'[g].parent = frame[g].parent /\ frame'[g].kind = frame[g].kind
    BY DEF Fixed
  <2>2. \A s \in Frames : \A i \in 1..Len(mem[s]) :
           /\ frame'[mem[s][i]].st = "live" /\ frame'[mem[s][i]].stack = s
           /\ mem[s][i] = s <=> i = 1
           /\ i > 1 => frame'[mem[s][i]].parent = mem[s][i - 1]
    <3> SUFFICES ASSUME NEW s \in Frames, NEW i \in 1..Len(mem[s])
                 PROVE  /\ frame'[mem[s][i]].st = "live" /\ frame'[mem[s][i]].stack = s
                        /\ mem[s][i] = s <=> i = 1
                        /\ i > 1 => frame'[mem[s][i]].parent = mem[s][i - 1]
      OBVIOUS
    <3>1. PICK g \in Frames : g = mem[s][i]
      BY <1>2
    <3>2. /\ frame[g].st = "live" /\ frame[g].stack = s
          /\ g = s <=> i = 1
          /\ i > 1 => frame[g].parent = mem[s][i - 1]
      BY <3>1 DEF StackShape
    <3> QED BY <3>1, <3>2, <2>1
  <2>3. \A s \in Frames : \A i, k \in 1..Len(mem[s]) : mem[s][i] = mem[s][k] => i = k
    BY DEF StackShape
  <2>4. \A f \in Frames : frame'[f].st = "live" =>
           /\ frame'[f].stack \in Frames
           /\ \E i \in 1..Len(mem[frame'[f].stack]) : mem[frame'[f].stack][i] = f
           /\ frame'[f].kind = "root" => frame'[f].stack = f
    BY <2>1 DEF StackShape
  <2> QED BY <2>2, <2>3, <2>4 DEF StackShape
<1>4. \A g \in Frames : OnTop(g)' = OnTop(g)
  BY DEF OnTop, Top, Fixed
<1> QED BY <1>1, <1>3, <1>4

StaysBeside(q, p) == q = p /\ p \in Frames /\ Unstolen(p)

(* The children on the stacks of their parents.                            *)
LEMMA ChildrenStay ==
    ASSUME Children, Kin, Fixed,
           \A c \in Frames : frame[c].st = "live" /\ frame[c].kind = "call" => Unstolen(frame[c].parent),
           \A v \in Workers : \A i \in 1..Len(deque'[v]) :
             \E u \in Workers : \E k \in 1..Len(deque[u]) : StaysBeside(deque'[v][i], deque[u][k])
    PROVE  Children'
<1>1. ASSUME NEW p \in Frames, NEW c \in Frames, Beside(p, c), frame'[p].steal = frame[p].steal
      PROVE  Beside(p, c)'
  BY <1>1 DEF Beside, Fixed
<1>2. ASSUME NEW c \in Frames, frame'[c].st = "live", frame'[c].kind = "call"
      PROVE  Beside(frame[c].parent, c)'
  <2>1. /\ frame[c].st = "live" /\ frame[c].kind = "call" /\ frame'[c].parent = frame[c].parent
        /\ frame[c].parent \in Frames
    BY <1>2 DEF Fixed, Kin
  <2>2. Beside(frame[c].parent, c) /\ frame'[frame[c].parent].steal = frame[frame[c].parent].steal
    BY <2>1 DEF Children, Unstolen
  <2>3. PICK p \in Frames : p = frame[c].parent
    BY <2>1
  <2>4. Beside(p, c)'
    BY <2>2, <2>3, <1>1
  <2>5. frame'[c].parent = p
    BY <2>1, <2>3
  <2> QED BY <2>4, <2>5
<1>3. ASSUME NEW v \in Workers, NEW i \in 1..Len(deque'[v])
      PROVE  (frame[deque[v][i]].last \in Frames)' /\ Beside(deque[v][i], frame[deque[v][i]].last)'
  <2>1. PICK u \in Workers : \E k \in 1..Len(deque[u]) : StaysBeside(deque'[v][i], deque[u][k])
    OBVIOUS
  <2>2. PICK k \in 1..Len(deque[u]) : StaysBeside(deque'[v][i], deque[u][k])
    BY <2>1
  <2>3. PICK p \in Frames : p = deque[u][k]
    BY <2>2 DEF StaysBeside
  <2>4. PICK c \in Frames : c = frame[p].last
    BY <2>2, <2>3 DEF Children
  <2>5. Beside(p, c)
    BY <2>3, <2>4 DEF Children
  <2>6. frame'[p].steal = frame[p].steal /\ frame'[p].last = c
    BY <2>2, <2>3, <2>4 DEF StaysBeside, Unstolen
  <2>7. Beside(p, c)'
    BY <2>5, <2>6, <1>1
  <2>8. deque'[v][i] = p
    BY <2>2, <2>3 DEF StaysBeside
  <2> QED BY <2>6, <2>7, <2>8
<1> QED BY <1>2, <1>3 DEF Children

(* A step that leaves the stacks as they are and moves one worker.         *)
LEMMA SteadyStep ==
    ASSUME StackInv, Settled, NEW w \in Workers, Fixed, mem' = mem, Others(w),
           \A c \in Frames : frame[c].st = "live" /\ frame[c].kind = "call" => Unstolen(frame[c].parent),
           \A v \in Workers : \A i \in 1..Len(deque'[v]) :
             \E u \in Workers : \E k \in 1..Len(deque[u]) : StaysBeside(deque'[v][i], deque[u][k]),
           \A v \in Workers \ {w} : worker[v].pc \in Executing =>
             frame'[worker[v].f].steal = frame[worker[v].f].steal,
           SubmittedAt', OwnerAt(w)', worker'[w].pc # "report"
    PROVE  StackInv'
<1>i. /\ StackTypes /\ StackShape /\ Children /\ Owners /\ OneReporter
      /\ Busy /\ Kin
  BY DEF StackInv, Settled
<1>1. StackTypes' /\ StackShape' /\ \A g \in Frames : OnTop(g)' = OnTop(g)
  BY <1>i, StacksStay
<1>2. Children'
  BY <1>i, ChildrenStay
<1>3. ASSUME NEW v \in Workers, v # w PROVE OwnerAt(v)'
  <2>1. OwnerAt(v) /\ worker'[v] = worker[v]
    BY <1>3, <1>i, OwnersAre DEF Others
  <2>2. worker[v].pc \in Executing => /\ worker[v].f \in Frames
                                      /\ frame'[worker[v].f].steal = frame[worker[v].f].steal
                                      /\ frame'[worker[v].f].stack = frame[worker[v].f].stack
                                      /\ OnTop(worker[v].f)' = OnTop(worker[v].f)
    <3> SUFFICES ASSUME worker[v].pc \in Executing
                 PROVE  /\ worker[v].f \in Frames
                        /\ frame'[worker[v].f].steal = frame[worker[v].f].steal
                        /\ frame'[worker[v].f].stack = frame[worker[v].f].stack
                        /\ OnTop(worker[v].f)' = OnTop(worker[v].f)
      OBVIOUS
    <3>1. PICK f \in Frames : f = worker[v].f
      BY <1>i DEF Busy
    <3>2. OnTop(f)' = OnTop(f) /\ frame'[f].stack = frame[f].stack
      BY <1>1 DEF Fixed
    <3>3. worker'[v].f = f
      BY <2>1, <3>1
    <3>4. OnTop(worker[v].f)' = OnTop(f)'
      BY <3>1, <3>3 DEF OnTop
    <3>5. frame'[f].steal = frame[f].steal
      BY <1>3, <3>1
    <3> QED BY <3>1, <3>2, <3>4, <3>5
  <2>3. worker[v].pc = "report" => /\ frame'[worker[v].arg].stack = frame[worker[v].arg].stack
                                   /\ OnTop(worker[v].arg)' = OnTop(worker[v].arg)
    <3> SUFFICES ASSUME worker[v].pc = "report"
                 PROVE  /\ frame'[worker[v].arg].stack = frame[worker[v].arg].stack
                        /\ OnTop(worker[v].arg)' = OnTop(worker[v].arg)
      OBVIOUS
    <3>1. PICK f \in Frames : f = worker[v].arg
      BY <1>i DEF Busy
    <3>2. OnTop(f)' = OnTop(f) /\ frame'[f].stack = frame[f].stack
      BY <1>1 DEF Fixed
    <3>3. worker'[v].arg = f
      BY <2>1, <3>1
    <3>4. OnTop(worker[v].arg)' = OnTop(f)'
      BY <3>1, <3>3 DEF OnTop
    <3> QED BY <3>1, <3>2, <3>4
  <2> QED BY <2>1, <2>2, <2>3 DEF OwnerAt
<1>4. Owners'
  <2>1. \A v \in Workers : OwnerAt(v)'
    BY <1>3
  <2> QED BY <2>1, OwnersNext
<1>5. OneReporter'
  BY <1>i DEF OneReporter, Others
<1> QED BY <1>1, <1>2, <1>4, <1>5 DEF StackInv

(* It changes no m_steal.                                                  *)
LEMMA CalmStep ==
    ASSUME StackInv, Settled, NEW w \in Workers, Fixed, mem' = mem, Others(w), deque' = deque,
           NEW f, ~Calls(f), \A v \in Workers : \A i \in 1..Len(deque[v]) : deque[v][i] # f,
           \A g \in Frames \ {f} : Unstolen(g),
           \A v \in Workers \ {w} : worker[v].pc \in Executing => worker[v].f # f,
           \A v \in Workers : \A g \in submit'[v] :
             (g # f /\ \E u \in Workers : g \in submit[u]) \/ (frame'[g].steal = 0 => g \in Frames /\ OnTop(g)),
           OwnerAt(w)', worker'[w].pc # "report"
    PROVE  StackInv'
<1>i. /\ StackTypes /\ StackShape /\ Children /\ Owners /\ OneReporter
      /\ Busy /\ Kin /\ Queues
  BY DEF StackInv, Settled
<1>1. \A g \in Frames : OnTop(g)' = OnTop(g)
  BY <1>i, StacksStay
<1>2. \A c \in Frames : frame[c].st = "live" /\ frame[c].kind = "call" => Unstolen(frame[c].parent)
  BY <1>i DEF Kin, Calls
<1>3. \A v \in Workers : \A i \in 1..Len(deque'[v]) :
        \E u \in Workers : \E k \in 1..Len(deque[u]) : StaysBeside(deque'[v][i], deque[u][k])
  BY <1>i DEF Queues, StaysBeside
<1>4. \A v \in Workers \ {w} : worker[v].pc \in Executing =>
        frame'[worker[v].f].steal = frame[worker[v].f].steal
  BY <1>i DEF Busy, Unstolen
<1>5. SubmittedAt'
  <2> SUFFICES ASSUME NEW v \in Workers, NEW g \in submit'[v], frame'[g].steal = 0
               PROVE  OnTop(g)'
    BY DEF SubmittedAt
  <2>1. CASE g # f /\ \E u \in Workers : g \in submit[u]
    <3>1. g \in Frames /\ frame[g].steal = 0
      BY <2>1, <1>i DEF Queues, Unstolen
    <3>2. OnTop(g)
      BY <2>1, <3>1, <1>i DEF Owners
    <3> QED BY <3>1, <3>2, <1>1
  <2>2. CASE g \in Frames /\ OnTop(g)
    BY <2>2, <1>1
  <2> QED BY <2>1, <2>2
<1> QED BY <1>2, <1>3, <1>4, <1>5, SteadyStep

-----------------------------------------------------------------------------
(* A frame without children is the topmost one of its stack.               *)
LEMMA AloneIsOnTop ==
    ASSUME StackTypes, StackShape, NEW f \in Frames, frame[f].st = "live", NEW w, Alone(f, w)
    PROVE  OnTop(f)
<1>1. PICK s \in Frames : s = frame[f].stack
  BY DEF StackShape
<1>2. PICK i \in 1..Len(mem[s]) : mem[s][i] = f
  BY <1>1 DEF StackShape
<1>3. mem[s] \in Seq(Frames) /\ Len(mem[s]) \in Nat
  BY DEF StackTypes
<1>4. CASE i = Len(mem[s])
  BY <1>1, <1>2, <1>3, <1>4 DEF OnTop, Top
<1>5. CASE i # Len(mem[s])
  <2>1. i + 1 \in 1..Len(mem[s]) /\ i + 1 > 1 /\ i + 1 - 1 = i
    BY <1>2, <1>3, <1>5
  <2>2. PICK g \in Frames : g = mem[s][i + 1]
    BY <2>1, <1>3
  <2>3. frame[g].st = "live" /\ frame[g].stack = s /\ g # s /\ frame[g].parent = f
    BY <1>2, <2>1, <2>2 DEF StackShape
  <2>4. frame[g].kind # "root"
    BY <2>3 DEF StackShape
  <2> QED BY <2>3, <2>4 DEF Alone
<1> QED BY <1>4, <1>5

(* A worker that keeps running its frame.                                  *)
LEMMA GoesOn ==
    ASSUME StackInv, Settled, ControlTypes, NEW w \in Workers, Fixed, mem' = mem, Others(w), deque' = deque,
           submit' = submit, \A g \in Frames : Unstolen(g), worker[w].pc \in Executing,
           worker'[w].pc \in Executing, worker'[w].f = worker[w].f, worker'[w].stack = worker[w].stack
    PROVE  StackInv'
<1>i. StackTypes /\ StackShape /\ Owners /\ Busy /\ Kin /\ Queues
  BY DEF StackInv, Settled
<1>1. PICK f \in Frames : f = worker[w].f
  BY <1>i DEF Busy
<1>2. OnTop(f)' = OnTop(f)
  BY <1>i, StacksStay
<1>3. OwnerAt(w)'
  <2>1. OwnerAt(w)
    BY <1>i, OwnersAre
  <2>2. OnTop(worker[w].f)' = OnTop(f)'
    BY <1>1 DEF OnTop
  <2>3. frame'[f].steal = frame[f].steal /\ frame'[f].stack = frame[f].stack /\ worker'[w].f = f
    BY <1>1 DEF Fixed, Unstolen
  <2>4. worker'[w].pc \notin {"report", "idle", "selfsteal", "switch"}
    BY DEF Executing
  <2> QED BY <1>1, <1>2, <2>1, <2>2, <2>3, <2>4 DEF OwnerAt
<1>4. Runs(f)
  BY <1>1 DEF Runs
<1>5. ~Calls(f) /\ \A v \in Workers : \A i \in 1..Len(deque[v]) : deque[v][i] # f
  BY <1>1, <1>4, <1>i DEF Kin, Queues
<1>6. \A v \in Workers \ {w} : worker[v].pc \in Executing => worker[v].f # f
  BY <1>1, <1>i DEF Busy
<1>7. \A v \in Workers : \A g \in submit'[v] : g # f /\ \E u \in Workers : g \in submit[u]
  BY <1>4, <1>i DEF Queues
<1> QED BY <1>3, <1>5, <1>6, <1>7, CalmStep DEF Executing

(* The end of a task up to final_awaitable, and a join that has to wait.   *)
LEMMA GoesOnSteps ==
    ASSUME JoinInv, StackInv, Settled, NEW w \in Workers,
           Return(w) \/ CaptureException(w) \/ ConstructException(w) \/ JoinNotReady(w)
    PROVE  StackInv'
<1>t. FrameTypes /\ ControlTypes
  BY DEF JoinInv, Linked
<1>i. Busy /\ Kin
  BY DEF Settled
<1>w. DOMAIN worker = Workers /\ worker[w] \in [pc : Labels, f : 0..MaxFrames, arg : Nat, stack : 0..MaxFrames]
  BY <1>t DEF ControlTypes
<1>1. CASE Return(w) \/ JoinNotReady(w)
  <2>1. /\ mem' = mem /\ frame' = frame /\ deque' = deque /\ submit' = submit /\ worker[w].pc = "run"
        /\ \E l \in {"final", "suspend"} : worker' = [worker EXCEPT ![w].pc = l]
    BY <1>1 DEF Return, JoinNotReady
  <2>2. PICK l \in {"final", "suspend"} : worker' = [worker EXCEPT ![w].pc = l]
    BY <2>1
  <2>3. Others(w) /\ worker'[w].pc = l /\ worker'[w].f = worker[w].f /\ worker'[w].stack = worker[w].stack
    BY <2>2, <1>w DEF Others
  <2>4. Fixed /\ \A g \in Frames : Unstolen(g)
    BY <2>1 DEF Fixed, Unstolen
  <2> QED BY <2>1, <2>3, <2>4, <1>t, GoesOn DEF Executing
<1>2. CASE CaptureException(w) \/ ConstructException(w)
  <2>1. /\ mem' = mem /\ deque' = deque /\ submit' = submit /\ worker[w].pc \in {"run", "construct"}
        /\ created' = created
    BY <1>2, Zenon DEF CaptureException, ConstructException
  <2>2. PICK p \in Frames : p = frame[worker[w].f].parent
    <3>1. worker[w].f \in Frames /\ frame[worker[w].f].st = "live"
      BY <2>1, <1>i DEF Busy, Executing
    <3>2. frame[worker[w].f].kind # "root"
      <4>1. CASE CaptureException(w)
        BY <4>1 DEF CaptureException
      <4>2. CASE ConstructException(w)
        BY <4>2 DEF ConstructException, JoinInv, Linked, Control
      <4> QED BY <1>2, <4>1, <4>2
    <3> QED BY <3>1, <3>2, <1>i DEF Kin
  <2>3. \E e : frame' = [frame EXCEPT ![p].exc = e]
    BY <1>2, <2>2 DEF CaptureException, ConstructException
  <2>4. \E l \in {"construct", "final"}, a \in Nat :
          worker' = [worker EXCEPT ![w].pc = l, ![w].arg = a]
    <3>1. CASE CaptureException(w)
      <4>1. worker' = [worker EXCEPT ![w].pc = IF frame[p].exc = "none" THEN "construct" ELSE "final",
                                     ![w].arg = p]
        BY <3>1, <2>2 DEF CaptureException
      <4>2. p \in Nat
        BY DEF Frames
      <4> QED BY <4>1, <4>2
    <3>2. CASE ConstructException(w)
      <4>1. worker' = [worker EXCEPT ![w].pc = "final"] /\ worker[w].arg \in Nat
        BY <3>2, <1>w DEF ConstructException
      <4>2. worker' = [worker EXCEPT ![w].pc = "final", ![w].arg = worker[w].arg]
        BY <4>1, <1>t DEF ControlTypes
      <4> QED BY <4>1, <4>2
    <3> QED BY <1>2, <3>1, <3>2
  <2>5. PICK l \in {"construct", "final"}, a \in Nat :
          worker' = [worker EXCEPT ![w].pc = l, ![w].arg = a]
    BY <2>4
  <2>6. Others(w) /\ worker'[w].pc = l /\ worker'[w].f = worker[w].f /\ worker'[w].stack = worker[w].stack
    BY <2>5, <1>w DEF Others
  <2>7. Fixed
    BY <2>3, <1>t, FieldsKept
  <2>8. \A g \in Frames : Unstolen(g)
    BY <2>1, <2>3, <1>t, SetsExc DEF Unstolen, Kept
  <2> QED BY <2>1, <2>6, <2>7, <2>8, <1>t, GoesOn DEF Executing
<1> QED BY <1>1, <1>2

(* A frame that passes its join takes its stack, or still has it.          *)
LEMMA TakesItsStack ==
    ASSUME StackInv, Settled, NEW w \in Workers, mem' = mem, Others(w), deque' = deque, submit' = submit,
           NEW f \in Frames, Runs(f) \/ f \in parked, frame[f].st = "live",
           \A v \in Workers \ {w} : worker[v].pc \in Executing => worker[v].f # f,
           Fixed, \A g \in Frames \ {f} : frame'[g] = frame[g], frame'[f].steal = 0, OnTop(f),
           worker'[w] = RunOn(f, frame[f].stack)
    PROVE  StackInv'
<1>i. StackTypes /\ StackShape /\ Owners /\ Busy /\ Kin /\ Queues
  BY DEF StackInv, Settled
<1>1. OnTop(f)'
  BY <1>i, StacksStay
<1>2. OwnerAt(w)' /\ worker'[w].pc # "report"
  <2>1. worker'[w].pc = "run" /\ worker'[w].f = f /\ worker'[w].stack = frame[f].stack
    BY DEF RunOn
  <2>2. OnTop(worker[w].f)' = OnTop(f)'
    BY <2>1 DEF OnTop
  <2>3. frame'[f].stack = frame[f].stack
    BY DEF Fixed
  <2> QED BY <2>1, <2>2, <2>3, <1>1 DEF OwnerAt
<1>3. ~Calls(f) /\ \A v \in Workers : \A i \in 1..Len(deque[v]) : deque[v][i] # f
  BY <1>i DEF Kin, Queues
<1>4. \A v \in Workers : \A g \in submit'[v] : g # f /\ \E u \in Workers : g \in submit[u]
  BY <1>i DEF Queues
<1>5. \A g \in Frames \ {f} : Unstolen(g)
  BY DEF Unstolen
<1> QED BY <1>2, <1>3, <1>4, <1>5, CalmStep

(* The three ways to pass a join.                                          *)
LEMMA JoinSteps ==
    ASSUME JoinInv, StackInv, Settled, NEW w \in Workers,
           JoinReady(w) \/ JoinWins(w) \/ ReportWins(w)
    PROVE  StackInv'
<1>t. FrameTypes /\ ControlTypes
  BY DEF JoinInv, Linked
<1>i. /\ Busy /\ Joins /\ StackTypes /\ StackShape /\ Owners
  BY DEF Settled, StackInv
<1>w. DOMAIN worker = Workers /\ worker[w] \in [pc : Labels, f : 0..MaxFrames, arg : Nat, stack : 0..MaxFrames]
  BY <1>t DEF ControlTypes
<1>c. CounterMax \in Nat
  BY ConstantsAssumption
<1>r. ASSUME NEW f \in Frames, frame[f].st = "live", frame' = [frame EXCEPT ![f] = AfterJoin(Reset(@))]
      PROVE  Fixed /\ (\A g \in Frames \ {f} : frame'[g] = frame[g]) /\ frame'[f].steal = 0
  <2>1. Fixed /\ \A g \in Frames \ {f} : frame'[g] = frame[g]
    BY <1>r, <1>t, FieldsKept
  <2>2. frame[f] \in FrameRec /\ frame'[f] = AfterJoin(Reset(frame[f]))
    BY <1>r, <1>t DEF FrameTypes
  <2>3. frame'[f].steal = 0
    BY <2>2 DEF AfterJoin, Reset, FrameRec
  <2> QED BY <2>1, <2>3
<1>1. CASE JoinReady(w) \/ JoinWins(w)
  <2>1. PICK f \in Frames : f = worker[w].f /\ frame[f].st = "live" /\ worker[w].pc \in Executing
    BY <1>1, <1>i DEF Busy, JoinReady, JoinWins, Executing
  <2>2. mem' = mem /\ deque' = deque /\ submit' = submit
    BY <1>1, Zenon DEF JoinReady, JoinWins
  <2>3. Runs(f) /\ \A v \in Workers \ {w} : worker[v].pc \in Executing => worker[v].f # f
    BY <2>1, <1>i DEF Runs, Busy
  <2>4. CASE frame' = [frame EXCEPT ![f] = AfterJoin(Reset(@))]
             /\ worker' = [worker EXCEPT ![w] = RunOn(f, frame[f].stack)]
             /\ AllReported(f)
    <3>1. Alone(f, w)
      BY <2>1, <2>4, <1>i DEF Joins
    <3>2. OnTop(f)
      BY <3>1, <2>1, <1>i, AloneIsOnTop
    <3>3. Others(w) /\ worker'[w] = RunOn(f, frame[f].stack)
      BY <2>4, <1>w DEF Others
    <3>4. Fixed /\ (\A g \in Frames \ {f} : frame'[g] = frame[g]) /\ frame'[f].steal = 0
      BY <2>1, <2>4, <1>r
    <3> QED BY <2>1, <2>2, <2>3, <3>2, <3>3, <3>4, TakesItsStack
  <2>5. CASE frame[f].steal = 0 /\ frame' = [frame EXCEPT ![f] = AfterJoin(@)] /\ worker' = worker
    <3>1. Fixed /\ \A g \in Frames \ {f} : frame'[g] = frame[g]
      BY <2>5, <1>t, FieldsKept
    <3>2. frame'[f].steal = 0
      <4>1. frame[f] \in FrameRec /\ frame'[f] = AfterJoin(frame[f])
        BY <2>5, <1>t DEF FrameTypes
      <4> QED BY <4>1, <2>5 DEF AfterJoin, FrameRec
    <3>3. OnTop(f) /\ worker[w].stack = frame[f].stack
      BY <2>1, <2>5, <1>i DEF Owners
    <3>4. OwnerAt(w)' /\ worker'[w].pc # "report"
      <4>1. worker'[w].pc \in Executing /\ worker'[w].f = f /\ worker'[w].stack = frame[f].stack
        BY <2>1, <2>5, <3>3
      <4>2. OnTop(f)' /\ OnTop(worker[w].f)' = OnTop(f)'
        BY <4>1, <3>1, <3>3, <2>2, <1>i, StacksStay DEF OnTop
      <4>3. frame'[f].stack = frame[f].stack
        BY <3>1 DEF Fixed
      <4>4. worker'[w].pc \notin {"report", "idle", "selfsteal", "switch"}
        BY <4>1 DEF Executing
      <4> QED BY <4>1, <4>2, <4>3, <4>4, <3>2 DEF OwnerAt
    <3>5. ~Calls(f) /\ \A v \in Workers : \A i \in 1..Len(deque[v]) : deque[v][i] # f
      BY <2>3 DEF Settled, Kin, Queues
    <3>6. \A v \in Workers : \A g \in submit'[v] : g # f /\ \E u \in Workers : g \in submit[u]
      BY <2>2, <2>3 DEF Settled, Queues
    <3>7. Others(w) /\ \A g \in Frames \ {f} : Unstolen(g)
      BY <2>5, <3>1 DEF Others, Unstolen
    <3> QED BY <2>2, <2>3, <3>1, <3>4, <3>5, <3>6, <3>7, CalmStep
  <2>6. \/ /\ frame' = [frame EXCEPT ![f] = AfterJoin(Reset(@))]
           /\ worker' = [worker EXCEPT ![w] = RunOn(f, frame[f].stack)] /\ AllReported(f)
        \/ frame[f].steal = 0 /\ frame' = [frame EXCEPT ![f] = AfterJoin(@)] /\ worker' = worker
    BY <1>1, <2>1 DEF JoinReady, JoinWins, TakeStackResetFrame
  <2> QED BY <2>4, <2>5, <2>6
<1>2. CASE ReportWins(w)
  <2>1. worker[w].pc = "report" /\ LastToJoin(worker[w].arg) /\ mem' = mem /\ deque' = deque /\ submit' = submit
    BY <1>2 DEF ReportWins
  <2>2. PICK p \in Frames : p = worker[w].arg /\ frame[p].st = "live"
    BY <2>1, <1>i DEF Busy
  <2>3. /\ frame' = [frame EXCEPT ![p] = AfterJoin(Reset(@))]
        /\ worker' = [worker EXCEPT ![w] = RunOn(p, frame[p].stack)]
    BY <1>2, <2>2 DEF ReportWins
  <2>4. Alone(p, w) /\ p \in parked
    BY <2>1, <2>2, <1>i DEF Joins
  <2>5. OnTop(p)
    BY <2>2, <2>4, <1>i, AloneIsOnTop
  <2>6. \A v \in Workers \ {w} : worker[v].pc \in Executing => worker[v].f # p
    BY <2>4, <1>i DEF Joins, Runs
  <2>7. Others(w) /\ worker'[w] = RunOn(p, frame[p].stack)
    BY <2>3, <1>w DEF Others
  <2>8. Fixed /\ (\A g \in Frames \ {p} : frame'[g] = frame[g]) /\ frame'[p].steal = 0
    BY <2>2, <2>3, <1>r
  <2> QED BY <2>1, <2>2, <2>4, <2>5, <2>6, <2>7, <2>8, TakesItsStack
<1> QED BY <1>1, <1>2

(* A worker that lets go of its stack, or has none.                        *)
LEMMA LetsGo ==
    ASSUME StackInv, Settled, NEW w \in Workers, Fixed, mem' = mem, Others(w), deque' = deque,
           \A g \in Frames : Unstolen(g), \A v \in Workers : submit'[v] = submit[v],
           worker'[w].pc \in {"release", "idle", "selfsteal"},
           worker'[w].pc = "release" \/ worker'[w].stack = None
    PROVE  StackInv'
<1>i. Busy /\ Kin /\ Queues
  BY DEF Settled
<1>1. OwnerAt(w)' /\ worker'[w].pc # "report"
  BY DEF OwnerAt, Executing
<1>2. ~Calls(0) /\ \A v \in Workers : \A i \in 1..Len(deque[v]) : deque[v][i] # 0
  BY <1>i DEF Calls, Kin, Queues, Frames
<1>3. \A v \in Workers \ {w} : worker[v].pc \in Executing => worker[v].f # 0
  BY <1>i DEF Busy, Frames
<1>4. \A v \in Workers : \A g \in submit'[v] : g # 0 /\ \E u \in Workers : g \in submit[u]
  BY <1>i DEF Queues, Frames
<1> QED BY <1>1, <1>2, <1>3, <1>4, CalmStep

(* After a lost join race, at a join that has to wait, and without work.   *)
LEMMA LetsGoSteps ==
    ASSUME JoinInv, StackInv, Settled, NEW w \in Workers,
           \/ ReportLoses(w) \/ ReportReleases(w) \/ JoinParks(w) \/ SwitchReleases(w)
           \/ SelfSteal(w) /\ deque[w] = <<>>
    PROVE  StackInv'
<1>t. FrameTypes /\ ControlTypes
  BY DEF JoinInv, Linked
<1>i. /\ Busy /\ Joins /\ Owners
  BY DEF Settled, StackInv
<1>w. DOMAIN worker = Workers /\ worker[w] \in [pc : Labels, f : 0..MaxFrames, arg : Nat, stack : 0..MaxFrames]
  BY <1>t DEF ControlTypes
<1>q. deque' = deque /\ submit' = submit /\ mem' = mem
  BY DEF ReportLoses, ReportReleases, JoinParks, SwitchReleases, SelfSteal
<1>s. ASSUME frame' = frame PROVE Fixed /\ \A g \in Frames : Unstolen(g)
  BY <1>s DEF Fixed, Unstolen
<1>j. ASSUME NEW f \in Frames, NEW n, frame' = [frame EXCEPT ![f].join = n]
      PROVE  Fixed /\ \A g \in Frames : Unstolen(g)
  <2>1. Fixed /\ \A g \in Frames \ {f} : frame'[g] = frame[g]
    BY <1>j, <1>t, FieldsKept
  <2>2. Unstolen(f)
    BY <1>j, <1>t DEF Unstolen, FrameTypes, FrameRec
  <2> QED BY <2>1, <2>2 DEF Unstolen
<1>1. CASE ReportLoses(w)
  <2>1. PICK p \in Frames : p = worker[w].arg /\ worker[w].pc = "report"
    BY <1>1, <1>i DEF ReportLoses, Busy
  <2>2. /\ frame' = [frame EXCEPT ![p].join = Wrap(@ - 1)]
        /\ worker' = [worker EXCEPT ![w] = IF frame[p].stack = worker[w].stack
                                           THEN [@ EXCEPT !.pc = "release"] ELSE IdleOn(@.stack)]
    BY <1>1, <2>1 DEF ReportLoses
  <2>3. Others(w)
    BY <2>2, <1>w DEF Others
  <2>4. worker[w].stack # None => worker[w].stack = frame[p].stack
    BY <2>1, <1>i DEF Owners
  <2>5. /\ worker'[w].pc \in {"release", "idle", "selfsteal"}
        /\ worker'[w].pc = "release" \/ worker'[w].stack = None
    <3>1. CASE frame[p].stack = worker[w].stack
      <4>1. worker'[w] = [worker[w] EXCEPT !.pc = "release"]
        BY <3>1, <2>2, <1>w
      <4> QED BY <4>1, <1>w
    <3>2. CASE frame[p].stack # worker[w].stack
      <4>1. worker'[w] = IdleOn(worker[w].stack)
        BY <3>2, <2>2, <1>w
      <4> QED BY <4>1, <3>2, <2>4 DEF IdleOn
    <3> QED BY <3>1, <3>2
  <2>6. \E n : frame' = [frame EXCEPT ![p].join = n]
    BY <2>2
  <2> QED BY <1>q, <1>j, <2>3, <2>5, <2>6, LetsGo
<1>2. CASE ReportReleases(w)
  <2>1. frame' = frame /\ worker' = [worker EXCEPT ![w] = IdleOn(None)]
    BY <1>2 DEF ReportReleases
  <2>2. Others(w) /\ worker'[w].pc = "idle" /\ worker'[w].stack = None
    BY <2>1, <1>w DEF Others, IdleOn
  <2> QED BY <1>q, <1>s, <2>1, <2>2, LetsGo
<1>3. CASE JoinParks(w)
  <2>1. PICK f \in Frames : f = worker[w].f /\ worker[w].pc = "suspend"
    BY <1>3, <1>i DEF JoinParks, Busy, Executing
  <2>2. /\ frame' = [frame EXCEPT ![f].join = Wrap(@ - (CounterMax - frame[f].steal))]
        /\ worker' = [worker EXCEPT ![w] = [@ EXCEPT !.pc = "selfsteal", !.f = None]]
        /\ ~AllReported(f)
    BY <1>3, <2>1 DEF JoinParks
  <2>3. frame[f].steal # 0
    BY <2>1, <2>2, <1>i DEF Joins, Executing
  <2>4. worker[w].stack = None
    BY <2>1, <2>3, <1>i DEF Owners, Executing
  <2>5. Others(w)
    BY <2>2, <1>w DEF Others
  <2>6. worker'[w] = [worker[w] EXCEPT !.pc = "selfsteal", !.f = None]
    BY <2>2, <1>w
  <2>7. worker'[w].pc = "selfsteal" /\ worker'[w].stack = None
    BY <2>4, <2>6, <1>w
  <2>8. \E n : frame' = [frame EXCEPT ![f].join = n]
    BY <2>2
  <2> QED BY <1>q, <1>j, <2>5, <2>7, <2>8, LetsGo
<1>4. CASE SwitchReleases(w)
  <2>1. /\ frame' = frame /\ worker[w].pc = "switch"
        /\ worker' = [worker EXCEPT ![w] = [pc |-> "selfsteal", f |-> None, arg |-> None,
                                            stack |-> IF @.arg = 0 THEN None ELSE @.stack]]
    BY <1>4 DEF SwitchReleases
  <2>2. worker[w].arg # 0 => worker[w].stack = None
    BY <2>1, <1>i DEF Owners
  <2>3. /\ worker'[w].pc = "selfsteal"
        /\ worker'[w].stack = IF worker[w].arg = 0 THEN None ELSE worker[w].stack
    BY <2>1, <1>w
  <2>4. Others(w)
    BY <2>1, <1>w DEF Others
  <2> QED BY <1>q, <1>s, <2>1, <2>2, <2>3, <2>4, LetsGo
<1>5. CASE SelfSteal(w) /\ deque[w] = <<>>
  <2>1. frame' = frame /\ worker[w].pc = "selfsteal" /\ worker' = [worker EXCEPT ![w] = IdleOn(@.stack)]
    BY <1>5 DEF SelfSteal
  <2>2. worker[w].stack = None
    BY <2>1, <1>i DEF Owners
  <2>3. Others(w) /\ worker'[w].pc = "idle" /\ worker'[w].stack = None
    BY <2>1, <2>2, <1>w DEF Others, IdleOn
  <2> QED BY <1>q, <1>s, <2>1, <2>3, LetsGo
<1> QED BY <1>1, <1>2, <1>3, <1>4, <1>5

-----------------------------------------------------------------------------
(* A continuation is taken off a deque: its stack stays where it is.       *)
LEMMA StolenStep ==
    ASSUME StackInv, Settled, FrameTypes, NEW w \in Workers, NEW u \in Workers, mem' = mem, Others(w),
           submit' = submit,
           NEW k \in 1..Len(deque[u]), NEW f \in Frames, f = deque[u][k], Taken(f), Fixed,
           \A v \in Workers : \A i \in 1..Len(deque'[v]) :
             \E x \in Workers : \E j \in 1..Len(deque[x]) : deque'[v][i] = deque[x][j] /\ deque[x][j] # f,
           worker'[w] = RunOn(f, None)
    PROVE  StackInv'
<1>i. Busy /\ Kin /\ Queues /\ Children /\ Owners /\ StackTypes /\ StackShape
  BY DEF Settled, StackInv
<1>f. /\ frame[f].st = "live" /\ ~Runs(f) /\ ~Calls(f) /\ \A v \in Workers : f \notin submit[v]
  BY <1>i DEF Queues, Kin
<1>u. \A g \in Frames \ {f} : Unstolen(g)
  BY DEF Taken, Unstolen
<1>1. \A c \in Frames : frame[c].st = "live" /\ frame[c].kind = "call" => Unstolen(frame[c].parent)
  BY <1>f, <1>u, <1>i DEF Calls, Kin
<1>2. ASSUME NEW v \in Workers, NEW i \in 1..Len(deque'[v])
      PROVE  \E x \in Workers : \E j \in 1..Len(deque[x]) : StaysBeside(deque'[v][i], deque[x][j])
  <2>1. PICK x \in Workers : \E j \in 1..Len(deque[x]) : deque'[v][i] = deque[x][j] /\ deque[x][j] # f
    OBVIOUS
  <2>2. PICK j \in 1..Len(deque[x]) : deque'[v][i] = deque[x][j] /\ deque[x][j] # f
    BY <2>1
  <2>3. deque[x][j] \in Frames
    BY <1>i DEF Queues
  <2>4. StaysBeside(deque'[v][i], deque[x][j])
    BY <2>2, <2>3, <1>u DEF StaysBeside
  <2> QED BY <2>4
<1>3. \A v \in Workers \ {w} : worker[v].pc \in Executing =>
        frame'[worker[v].f].steal = frame[worker[v].f].steal
  BY <1>f, <1>u, <1>i DEF Busy, Runs, Unstolen
<1>4. SubmittedAt'
  <2> SUFFICES ASSUME NEW v \in Workers, NEW g \in submit[v], frame'[g].steal = 0 PROVE OnTop(g)'
    BY DEF SubmittedAt
  <2>1. g \in Frames /\ g # f
    BY <1>f, <1>i DEF Queues
  <2>2. OnTop(g)
    BY <2>1, <1>u, <1>i DEF Owners, Unstolen
  <2> QED BY <2>1, <2>2, <1>i, StacksStay
<1>5. OwnerAt(w)' /\ worker'[w].pc # "report"
  <2>1. worker'[w].pc = "run" /\ worker'[w].f = f /\ worker'[w].stack = None
    BY DEF RunOn
  <2>2. frame'[f].steal # 0
    <3>1. frame[f].steal \in Nat
      BY FieldTypes
    <3> QED BY <3>1 DEF Taken
  <2> QED BY <2>1, <2>2 DEF OwnerAt
<1> QED BY <1>1, <1>2, <1>3, <1>4, <1>5, SteadyStep

(* Others and oneself may steal.                                           *)
LEMMA StealSteps ==
    ASSUME JoinInv, StealsFit, StackInv, Settled, NEW w \in Workers, NEW v \in Workers,
           Steal(w, v) \/ (SelfSteal(w) /\ v = w /\ deque[w] # <<>>)
    PROVE  StackInv'
<1>t. FrameTypes /\ ControlTypes
  BY DEF JoinInv, Linked
<1>i. Owners /\ Queues
  BY DEF Settled, StackInv
<1>w. DOMAIN worker = Workers /\ deque \in [Workers -> Seq(Frames)]
  BY <1>t DEF ControlTypes
<1>o. worker[w].stack = None
  BY <1>i DEF Owners, Steal, SelfSteal
<1>d. deque[v] # <<>> /\ deque[v] \in Seq(Frames) /\ Len(deque[v]) \in Nat \ {0}
  BY <1>w DEF Steal, SelfSteal
<1>q. mem' = mem /\ submit' = submit /\ created' = created
  BY Zenon DEF Steal, SelfSteal
<1>r. ASSUME NEW k \in 1..Len(deque[v]), NEW f \in Frames, f = deque[v][k],
             frame' = [frame EXCEPT ![f].steal = Wrap(@ + 1)],
             worker' = [worker EXCEPT ![w] = RunOn(f, @.stack)],
             \A i \in 1..Len(deque'[v]) : \E j \in 1..Len(deque[v]) : deque'[v][i] = deque[v][j] /\ j # k,
             \A x \in Workers \ {v} : deque'[x] = deque[x]
      PROVE  StackInv'
  <2>1. Taken(f)
    BY <1>r, <1>t, <1>q, TakesFrame
  <2>2. Fixed
    <3>1. \E n : frame' = [frame EXCEPT ![f].steal = n]
      BY <1>r
    <3> QED BY <3>1, <1>t, FieldsKept
  <2>3. Others(w) /\ worker'[w] = RunOn(f, None)
    BY <1>r, <1>w, <1>o DEF Others
  <2>4. ASSUME NEW y \in Workers, NEW i \in 1..Len(deque'[y])
        PROVE  \E x \in Workers : \E j \in 1..Len(deque[x]) : deque'[y][i] = deque[x][j] /\ deque[x][j] # f
    <3>1. CASE y = v
      <4>1. PICK j \in 1..Len(deque[v]) : deque'[v][i] = deque[v][j] /\ j # k
        BY <3>1, <1>r
      <4>2. deque[v][j] # f
        BY <4>1, <1>r, <1>i DEF Queues
      <4> QED BY <3>1, <4>1, <4>2
    <3>2. CASE y # v
      <4>1. deque'[y] = deque[y] /\ i \in 1..Len(deque[y])
        BY <3>2, <1>r
      <4>2. deque[y][i] # f
        BY <3>2, <4>1, <1>r, <1>i DEF Queues
      <4> QED BY <4>1, <4>2
    <3> QED BY <3>1, <3>2
  <2>5. mem' = mem /\ submit' = submit /\ f = deque[v][k] /\ FrameTypes
    BY <1>r, <1>q, <1>t
  <2> QED BY <2>1, <2>2, <2>3, <2>4, <2>5, StolenStep
<1>1. CASE Steal(w, v)
  <2>1. PICK f \in Frames : f = deque[v][1] /\ f = Head(deque[v])
    BY <1>d
  <2>2. /\ frame' = [frame EXCEPT ![f].steal = Wrap(@ + 1)]
        /\ worker' = [worker EXCEPT ![w] = RunOn(f, @.stack)]
        /\ deque' = [deque EXCEPT ![v] = Tail(@)]
    BY <1>1, <2>1 DEF Steal
  <2>3. /\ deque'[v] = Tail(deque[v]) /\ \A x \in Workers \ {v} : deque'[x] = deque[x]
    BY <2>2, <1>w
  <2>4. ASSUME NEW i \in 1..Len(deque'[v])
        PROVE  \E j \in 1..Len(deque[v]) : deque'[v][i] = deque[v][j] /\ j # 1
    <3>1. i + 1 \in 1..Len(deque[v]) /\ deque'[v][i] = deque[v][i + 1] /\ i + 1 # 1
      BY <2>3, <1>d
    <3> QED BY <3>1
  <2>5. 1 \in 1..Len(deque[v])
    BY <1>d
  <2> QED BY <2>1, <2>2, <2>3, <2>4, <2>5, <1>r
<1>2. CASE SelfSteal(w) /\ v = w /\ deque[w] # <<>>
  <2>1. PICK f \in Frames : f = deque[v][Len(deque[v])] /\ f = Last(deque[v])
    BY <1>d DEF Last
  <2>2. /\ frame' = [frame EXCEPT ![f].steal = Wrap(@ + 1)]
        /\ worker' = [worker EXCEPT ![w] = RunOn(f, @.stack)]
        /\ deque' = [deque EXCEPT ![v] = Front(@)]
    BY <1>2, <2>1 DEF SelfSteal
  <2>3. /\ deque'[v] = Front(deque[v]) /\ \A x \in Workers \ {v} : deque'[x] = deque[x]
    BY <2>2, <1>w
  <2>4. ASSUME NEW i \in 1..Len(deque'[v])
        PROVE  \E j \in 1..Len(deque[v]) : deque'[v][i] = deque[v][j] /\ j # Len(deque[v])
    <3>1. i \in 1..Len(deque[v]) /\ deque'[v][i] = deque[v][i] /\ i # Len(deque[v])
      BY <2>3, <1>d, FrontOf
    <3> QED BY <3>1
  <2>5. Len(deque[v]) \in 1..Len(deque[v])
    BY <1>d
  <2> QED BY <2>1, <2>2, <2>3, <2>4, <2>5, <1>r
<1> QED BY <1>1, <1>2

(* A frame that moves takes its stack along if it has it.                  *)
LEMMA SwitchStep ==
    ASSUME JoinInv, StackInv, Settled, NEW w \in Workers, NEW v \in Workers, Switch(w, v)
    PROVE  StackInv'
<1>t. FrameTypes /\ ControlTypes
  BY DEF JoinInv, Linked
<1>i. Busy /\ Kin /\ Queues /\ Owners
  BY DEF Settled, StackInv
<1>1. PICK f \in Frames : f = worker[w].f /\ worker[w].pc = "run"
  BY <1>i DEF Busy, Switch, Executing
<1>2. /\ frame' = frame /\ mem' = mem /\ deque' = deque
      /\ submit' = [submit EXCEPT ![v] = @ \union {f}]
      /\ worker' = [worker EXCEPT ![w] = [pc |-> "switch", f |-> None,
                                          arg |-> frame[f].steal, stack |-> @.stack]]
  BY <1>1 DEF Switch
<1>3. Fixed /\ \A g \in Frames : Unstolen(g)
  BY <1>2 DEF Fixed, Unstolen
<1>4. /\ Others(w) /\ worker'[w].pc = "switch" /\ worker'[w].arg = frame[f].steal
      /\ worker'[w].stack = worker[w].stack
  BY <1>2, <1>t DEF ControlTypes, Others
<1>5. /\ frame[f].steal = 0 => OnTop(f)
      /\ frame[f].steal # 0 => worker[w].stack = None
  BY <1>1, <1>i DEF Owners, Executing
<1>6. OwnerAt(w)'
  BY <1>4, <1>5 DEF OwnerAt, Executing
<1>7. ~Calls(f) /\ \A x \in Workers : \A i \in 1..Len(deque[x]) : deque[x][i] # f
  BY <1>1, <1>i DEF Kin, Queues, Runs, Executing
<1>8. \A x \in Workers \ {w} : worker[x].pc \in Executing => worker[x].f # f
  BY <1>1, <1>i DEF Busy, Executing
<1>9. ASSUME NEW x \in Workers, NEW g \in submit'[x]
      PROVE  (g # f /\ \E u \in Workers : g \in submit[u]) \/ (frame'[g].steal = 0 => g \in Frames /\ OnTop(g))
  <2>1. g = f \/ g \in submit[x]
    BY <1>2, <1>t DEF ControlTypes
  <2> QED BY <2>1, <1>2, <1>5
<1> QED BY <1>2, <1>3, <1>4, <1>6, <1>7, <1>8, <1>9, CalmStep

(* resume(submit_handle): take the stack unless the frame has been stolen. *)
LEMMA ResumeStep ==
    ASSUME JoinInv, StackInv, Settled, NEW w \in Workers, NEW f \in submit[w], ResumeSubmitted(w, f)
    PROVE  StackInv'
<1>t. FrameTypes /\ ControlTypes
  BY DEF JoinInv, Linked
<1>i. Busy /\ Kin /\ Queues /\ Owners /\ StackTypes /\ StackShape
  BY DEF Settled, StackInv
<1>1. f \in Frames /\ ~Runs(f) /\ ~Calls(f) /\ \A x \in Workers : \A i \in 1..Len(deque[x]) : deque[x][i] # f
  BY <1>i DEF Queues, Kin
<1>2. /\ frame' = frame /\ mem' = mem /\ deque' = deque /\ worker[w].pc = "idle"
      /\ submit' = [submit EXCEPT ![w] = @ \ {f}]
      /\ worker' = [worker EXCEPT ![w] = RunOn(f, IF frame[f].steal = 0 THEN frame[f].stack ELSE @.stack)]
  BY DEF ResumeSubmitted
<1>3. Fixed /\ \A g \in Frames : Unstolen(g)
  BY <1>2 DEF Fixed, Unstolen
<1>4. /\ Others(w) /\ worker'[w].pc = "run" /\ worker'[w].f = f
      /\ worker'[w].stack = IF frame[f].steal = 0 THEN frame[f].stack ELSE worker[w].stack
  BY <1>2, <1>t DEF ControlTypes, Others, RunOn
<1>5. worker[w].stack = None /\ (frame[f].steal = 0 => OnTop(f))
  BY <1>2, <1>i DEF Owners
<1>6. OwnerAt(w)'
  <2>1. OnTop(f)' = OnTop(f) /\ OnTop(worker[w].f)' = OnTop(f)'
    BY <1>1, <1>2, <1>3, <1>4, <1>i, StacksStay DEF OnTop
  <2> QED BY <1>2, <1>4, <1>5, <2>1 DEF OwnerAt
<1>8. \A x \in Workers \ {w} : worker[x].pc \in Executing => worker[x].f # f
  BY <1>1 DEF Runs
<1>9. ASSUME NEW x \in Workers, NEW g \in submit'[x]
      PROVE  (g # f /\ \E u \in Workers : g \in submit[u]) \/ (frame'[g].steal = 0 => g \in Frames /\ OnTop(g))
  <2>1. g \in submit[x]
    BY <1>2, <1>t DEF ControlTypes
  <2> QED BY <2>1, <1>2, <1>1, <1>5
<1> QED BY <1>1, <1>2, <1>3, <1>4, <1>6, <1>8, <1>9, CalmStep

-----------------------------------------------------------------------------
(* c is created on the stack s: on top of p, or as the first frame of it.  *)
Stacked(c, p, k, s) ==
    /\ frame[c].st = "none" /\ frame'[c].st = "live" /\ frame'[c].parent = p
    /\ frame'[c].kind = k /\ frame'[c].stack = s /\ frame'[c].steal = 0
    /\ \A g \in Frames \ {c} :
         /\ frame'[g].st = frame[g].st /\ frame'[g].parent = frame[g].parent
         /\ frame'[g].kind = frame[g].kind /\ frame'[g].stack = frame[g].stack
         /\ frame'[g].steal = frame[g].steal
    /\ mem' = [mem EXCEPT ![s] = Append(@, c)]
    /\ s = c \/ (k # "root" /\ mem[s] # <<>> /\ Top(s) = p)

(* It is the top of its stack, and no other frame but p is covered.        *)
LEMMA StacksGrow ==
    ASSUME StackTypes, StackShape, NEW c \in Frames, NEW s \in Frames, NEW p, NEW k, Stacked(c, p, k, s)
    PROVE  /\ StackTypes' /\ StackShape' /\ OnTop(c)'
           /\ \A g \in Frames : frame[g].st = "live" /\ OnTop(g) /\ (s = c \/ g # p) => OnTop(g)'
<1>m. mem \in [Frames -> Seq(Frames)]
  BY DEF StackTypes
<1>n. PICK n \in Nat : n = Len(mem[s])
  BY <1>m
<1>1. /\ \A t \in Frames \ {s} : mem'[t] = mem[t]
      /\ mem'[s] = Append(mem[s], c) /\ mem'[s] \in Seq(Frames) /\ Len(mem'[s]) = n + 1
      /\ mem'[s][n + 1] = c /\ \A i \in 1..n : mem'[s][i] = mem[s][i]
  BY <1>m, <1>n DEF Stacked
<1>2. StackTypes'
  BY <1>m DEF Stacked, StackTypes
<1>3. \A t \in Frames : \A i \in 1..Len(mem[t]) : mem[t][i] \in Frames \ {c}
  BY <1>m DEF StackShape, Stacked
<1>4. (s = c => n = 0) /\ (s # c => n # 0 /\ mem[s][n] = p)
  <2>1. ASSUME s = c, n # 0 PROVE FALSE
    <3>1. 1 \in 1..Len(mem[s])
      BY <2>1, <1>n
    <3>2. mem[s][1] = s
      BY <3>1 DEF StackShape
    <3> QED BY <2>1, <3>1, <3>2, <1>3
  <2>2. ASSUME s # c PROVE n # 0 /\ mem[s][n] = p
    BY <2>2, <1>m, <1>n DEF Stacked, Top
  <2> QED BY <2>1, <2>2
<1>f. /\ frame'[c].st = "live" /\ frame'[c].stack = s /\ frame'[c].parent = p
      /\ (frame'[c].kind = "root" => s = c)
      /\ \A g \in Frames \ {c} : /\ frame'[g].st = frame[g].st /\ frame'[g].parent = frame[g].parent
                                 /\ frame'[g].kind = frame[g].kind /\ frame'[g].stack = frame[g].stack
      /\ frame[c].st # "live"
  BY DEF Stacked
<1>a. ASSUME NEW t \in Frames, NEW i \in 1..Len(mem'[t])
      PROVE  \/ i \in 1..Len(mem[t]) /\ mem'[t][i] = mem[t][i] /\ mem[t][i] \in Frames \ {c}
             \/ t = s /\ i = n + 1 /\ mem'[t][i] = c
  <2>1. CASE t # s
    BY <2>1, <1>1, <1>3
  <2>2. CASE t = s
    <3>1. i \in 1..(n + 1)
      BY <2>2, <1>1
    <3>2. CASE i = n + 1
      BY <2>2, <3>2, <1>1
    <3>3. CASE i # n + 1
      <4>1. i \in 1..n
        BY <3>1, <3>3
      <4> QED BY <4>1, <2>2, <1>1, <1>n, <1>3
    <3> QED BY <3>2, <3>3
  <2> QED BY <2>1, <2>2
<1>5. ASSUME NEW t \in Frames, NEW i \in 1..Len(mem'[t])
      PROVE  /\ frame'[mem'[t][i]].st = "live" /\ frame'[mem'[t][i]].stack = t
             /\ mem'[t][i] = t <=> i = 1
             /\ i > 1 => frame'[mem'[t][i]].parent = mem'[t][i - 1]
  <2>1. CASE i \in 1..Len(mem[t]) /\ mem'[t][i] = mem[t][i] /\ mem[t][i] \in Frames \ {c}
    <3>1. PICK g \in Frames \ {c} : g = mem[t][i]
      BY <2>1
    <3>2. frame[g].st = "live" /\ frame[g].stack = t /\ (g = t <=> i = 1)
          /\ (i > 1 => frame[g].parent = mem[t][i - 1])
      BY <2>1, <3>1 DEF StackShape
    <3>3. i > 1 => mem'[t][i - 1] = mem[t][i - 1]
      <4> SUFFICES ASSUME i > 1 PROVE mem'[t][i - 1] = mem[t][i - 1]
        OBVIOUS
      <4>1. i - 1 \in 1..Len(mem[t])
        BY <2>1, <1>m
      <4>2. CASE t # s
        BY <4>2, <1>1
      <4>3. CASE t = s
        BY <4>1, <4>3, <1>1, <1>n
      <4> QED BY <4>2, <4>3
    <3> QED BY <2>1, <3>1, <3>2, <3>3, <1>f
  <2>2. CASE t = s /\ i = n + 1 /\ mem'[t][i] = c
    <3>1. i > 1 => mem'[t][i - 1] = p
      <4> SUFFICES ASSUME i > 1 PROVE mem'[t][i - 1] = p
        OBVIOUS
      <4>1. n # 0 /\ s # c /\ i - 1 = n /\ n \in 1..n
        BY <2>2, <1>4
      <4> QED BY <4>1, <2>2, <1>1, <1>4
    <3>2. c = t <=> i = 1
      BY <2>2, <1>4
    <3> QED BY <2>2, <3>1, <3>2, <1>f
  <2> QED BY <2>1, <2>2, <1>a
<1>6. ASSUME NEW t \in Frames, NEW i \in 1..Len(mem'[t]), NEW k2 \in 1..Len(mem'[t]), mem'[t][i] = mem'[t][k2]
      PROVE  i = k2
  BY <1>6, <1>a DEF StackShape
<1>7. ASSUME NEW g \in Frames, frame'[g].st = "live"
      PROVE  /\ frame'[g].stack \in Frames
             /\ \E i \in 1..Len(mem'[frame'[g].stack]) : mem'[frame'[g].stack][i] = g
             /\ frame'[g].kind = "root" => frame'[g].stack = g
  <2>1. CASE g = c
    <3>1. n + 1 \in 1..Len(mem'[s]) /\ mem'[s][n + 1] = c
      BY <1>1
    <3> QED BY <2>1, <3>1, <1>f
  <2>2. CASE g # c
    <3>1. frame[g].st = "live" /\ frame'[g].stack = frame[g].stack /\ frame'[g].kind = frame[g].kind
      BY <2>2, <1>7, <1>f
    <3>2. PICK t \in Frames : t = frame[g].stack
      BY <3>1 DEF StackShape
    <3>3. PICK i \in 1..Len(mem[t]) : mem[t][i] = g
      BY <3>1, <3>2 DEF StackShape
    <3>4. i \in 1..Len(mem'[t]) /\ mem'[t][i] = g
      <4>1. CASE t = s
        BY <3>3, <4>1, <1>1, <1>n
      <4>2. CASE t # s
        BY <3>3, <4>2, <1>1
      <4> QED BY <4>1, <4>2
    <3>5. frame[g].kind = "root" => frame[g].stack = g
      BY <3>1 DEF StackShape
    <3> QED BY <3>1, <3>2, <3>4, <3>5
  <2> QED BY <2>1, <2>2
<1>8. StackShape'
  BY <1>5, <1>6, <1>7 DEF StackShape
<1>9. OnTop(c)'
  BY <1>1, <1>f DEF OnTop, Top
<1>10. ASSUME NEW g \in Frames, frame[g].st = "live", OnTop(g), s = c \/ g # p PROVE OnTop(g)'
  <2>1. g # c /\ frame'[g].stack = frame[g].stack
    BY <1>10, <1>f
  <2>2. PICK t \in Frames : t = frame[g].stack
    BY <1>10 DEF StackShape
  <2>3. mem[t] # <<>> /\ mem[t][Len(mem[t])] = g
    BY <1>10, <2>2 DEF OnTop, Top
  <2>4. t # s
    <3> SUFFICES ASSUME t = s PROVE FALSE
      OBVIOUS
    <3>1. n # 0 /\ mem[s][n] = g
      BY <2>3, <1>n, <1>m
    <3> QED BY <3>1, <1>4, <1>10
  <2> QED BY <2>1, <2>2, <2>3, <2>4, <1>1 DEF OnTop, Top
<1> QED BY <1>2, <1>8, <1>9, <1>10

(* Who has which stack, when a frame is created.                           *)
LEMMA GrownStep ==
    ASSUME StackInv, Settled, NEW c \in Frames, NEW s \in Frames, NEW p, NEW k, Stacked(c, p, k, s), Children',
           \A v \in Workers : \/ OwnerAt(v)'
                              \/ /\ worker'[v] = worker[v]
                                 /\ worker[v].pc \in Executing => s = c \/ worker[v].f # p
                                 /\ worker[v].pc = "report" => s = c \/ worker[v].arg # p,
           \A v \in Workers : \A g \in submit'[v] : g = c \/ (g \in submit[v] /\ (s = c \/ g # p)),
           \A v \in Workers : worker'[v].pc = "report" => worker'[v] = worker[v]
    PROVE  StackInv'
<1>i. /\ StackTypes /\ StackShape /\ Owners /\ OneReporter
      /\ Busy /\ Queues
  BY DEF StackInv, Settled
<1>1. /\ StackTypes' /\ StackShape' /\ OnTop(c)'
      /\ \A g \in Frames : frame[g].st = "live" /\ OnTop(g) /\ (s = c \/ g # p) => OnTop(g)'
  BY <1>i, StacksGrow
<1>f. \A g \in Frames : frame[g].st = "live" =>
        frame'[g].stack = frame[g].stack /\ frame'[g].steal = frame[g].steal
  BY DEF Stacked
<1>2. ASSUME NEW v \in Workers, worker'[v] = worker[v],
             worker[v].pc \in Executing => s = c \/ worker[v].f # p,
             worker[v].pc = "report" => s = c \/ worker[v].arg # p
      PROVE  OwnerAt(v)'
  <2>1. OwnerAt(v)
    BY <1>i, OwnersAre
  <2>2. ASSUME NEW g \in Frames, frame[g].st = "live", s = c \/ g # p, OnTop(g) PROVE OnTop(g)'
    BY <2>2, <1>1
  <2>3. worker[v].pc \in Executing =>
          IF frame'[worker[v].f].steal = 0
          THEN worker[v].stack = frame'[worker[v].f].stack /\ OnTop(worker[v].f)'
          ELSE worker[v].stack = None
    <3> SUFFICES ASSUME worker[v].pc \in Executing
                 PROVE  IF frame'[worker[v].f].steal = 0
                        THEN worker[v].stack = frame'[worker[v].f].stack /\ OnTop(worker[v].f)'
                        ELSE worker[v].stack = None
      OBVIOUS
    <3>1. PICK g \in Frames : g = worker[v].f /\ frame[g].st = "live" /\ (s = c \/ g # p)
      BY <1>2, <1>i DEF Busy
    <3>2. IF frame[g].steal = 0 THEN worker[v].stack = frame[g].stack /\ OnTop(g) ELSE worker[v].stack = None
      BY <2>1, <3>1 DEF OwnerAt
    <3>3. OnTop(worker[v].f)' = OnTop(g)'
      BY <1>2, <3>1 DEF OnTop
    <3> QED BY <3>1, <3>2, <3>3, <2>2, <1>f
  <2>4. worker[v].pc = "report" /\ worker[v].stack # None =>
          worker[v].stack = frame'[worker[v].arg].stack /\ OnTop(worker[v].arg)'
    <3> SUFFICES ASSUME worker[v].pc = "report", worker[v].stack # None
                 PROVE  worker[v].stack = frame'[worker[v].arg].stack /\ OnTop(worker[v].arg)'
      OBVIOUS
    <3>1. PICK g \in Frames : g = worker[v].arg /\ frame[g].st = "live" /\ (s = c \/ g # p)
      BY <1>2, <1>i DEF Busy
    <3>2. worker[v].stack = frame[g].stack /\ OnTop(g)
      BY <2>1, <3>1 DEF OwnerAt
    <3>3. OnTop(worker[v].arg)' = OnTop(g)'
      BY <1>2, <3>1 DEF OnTop
    <3> QED BY <3>1, <3>2, <3>3, <2>2, <1>f
  <2>5. /\ worker[v].pc \in {"idle", "selfsteal"} => worker[v].stack = None
        /\ worker[v].pc = "switch" /\ worker[v].arg # 0 => worker[v].stack = None
    BY <2>1 DEF OwnerAt
  <2> QED BY <1>2, <2>3, <2>4, <2>5 DEF OwnerAt
<1>3. \A v \in Workers : OwnerAt(v)'
  BY <1>2
<1>4. SubmittedAt'
  <2> SUFFICES ASSUME NEW v \in Workers, NEW g \in submit'[v], frame'[g].steal = 0 PROVE OnTop(g)'
    BY DEF SubmittedAt
  <2>1. CASE g = c
    BY <2>1, <1>1
  <2>2. CASE g \in submit[v] /\ (s = c \/ g # p)
    <3>1. g \in Frames /\ frame[g].st = "live"
      BY <2>2, <1>i DEF Queues
    <3>2. OnTop(g)
      BY <2>2, <3>1, <1>f, <1>i DEF Owners
    <3> QED BY <2>2, <3>1, <3>2, <1>1
  <2> QED BY <2>1, <2>2
<1>5. Owners'
  BY <1>3, <1>4, OwnersNext
<1>6. OneReporter'
  BY <1>i DEF OneReporter
<1> QED BY <1>1, <1>5, <1>6 DEF StackInv

(* w runs p, which creates c as its child; c is on p's stack, or it founds *)
(* one if p's is not here.                                                 *)
ChildMade(w, p, c, k, s) ==
    /\ worker[w].pc = "run" /\ p = worker[w].f /\ c \in Frames /\ c = created + 1 /\ s = StackFor(w, c)
    /\ frame'[c] = Fresh(p, k, s) /\ mem' = [mem EXCEPT ![s] = Append(@, c)]
    /\ \A g \in Frames \ {c} :
         /\ frame'[g].st = frame[g].st /\ frame'[g].parent = frame[g].parent
         /\ frame'[g].kind = frame[g].kind /\ frame'[g].stack = frame[g].stack
         /\ frame'[g].steal = frame[g].steal /\ (g # p => frame'[g].last = frame[g].last)
    /\ Others(w) /\ worker'[w] = RunOn(c, s) /\ submit' = submit
    /\ \A v \in Workers : \A i \in 1..Len(deque'[v]) :
         \/ deque'[v][i] = p /\ frame'[p].last = c
         \/ \E u \in Workers : \E j \in 1..Len(deque[u]) : deque'[v][i] = deque[u][j]

(* The parent was on top of its stack, the child is, and nobody else was.  *)
LEMMA ChildStep ==
    ASSUME JoinInv, StackInv, Settled, NEW w \in Workers, NEW p, NEW c, NEW k \in {"fork", "call"}, NEW s,
           ChildMade(w, p, c, k, s)
    PROVE  StackInv'
<1>h. /\ worker[w].pc = "run" /\ p = worker[w].f /\ c \in Frames /\ c = created + 1 /\ s = StackFor(w, c)
      /\ frame'[c] = Fresh(p, k, s) /\ mem' = [mem EXCEPT ![s] = Append(@, c)]
      /\ Others(w) /\ worker'[w] = RunOn(c, s) /\ submit' = submit
  BY DEF ChildMade
<1>d. \A v \in Workers : \A i \in 1..Len(deque'[v]) :
         \/ deque'[v][i] = p /\ frame'[p].last = c
         \/ \E u \in Workers : \E j \in 1..Len(deque[u]) : deque'[v][i] = deque[u][j]
  BY DEF ChildMade
<1>i. /\ StackTypes /\ StackShape /\ Owners /\ Children
      /\ Busy /\ Queues /\ Kin /\ Joins
  BY DEF StackInv, Settled
<1>p. p \in Frames /\ frame[p].st = "live" /\ Runs(p)
  BY <1>h, <1>i DEF Busy, Runs, Executing
<1>c. frame[c].st = "none" /\ p # c
  <2>1. created \in 0..MaxFrames
    BY DEF JoinInv, Linked, ControlTypes
  <2>2. c > created
    BY <2>1, <1>h
  <2> QED BY <2>1, <2>2, <1>h, <1>p, <1>i DEF Kin
<1>o. IF frame[p].steal = 0 THEN worker[w].stack = frame[p].stack /\ OnTop(p) ELSE worker[w].stack = None
  BY <1>h, <1>i DEF Owners, Executing
<1>s. /\ s \in Frames
      /\ frame[p].steal = 0 => s = frame[p].stack /\ s # c /\ mem[s] # <<>> /\ Top(s) = p
      /\ frame[p].steal # 0 => s = c
  <2>1. CASE frame[p].steal = 0
    <3>1. frame[p].stack \in Frames /\ frame[p].stack # None
      BY <1>p, <1>i DEF StackShape, Frames, None
    <3>2. s = frame[p].stack /\ mem[s] # <<>> /\ Top(s) = p
      BY <2>1, <3>1, <1>h, <1>o DEF StackFor, OnTop
    <3>3. s # c
      <4> SUFFICES ASSUME s = c PROVE FALSE
        OBVIOUS
      <4>1. mem[s] \in Seq(Frames)
        BY <3>1, <3>2, <1>i DEF StackTypes
      <4>2. 1 \in 1..Len(mem[s])
        BY <4>1, <3>2
      <4>3. frame[mem[s][1]].st = "live" /\ mem[s][1] = s
        BY <4>2, <3>1, <3>2, <1>i DEF StackShape
      <4> QED BY <4>3, <1>c
    <3> QED BY <2>1, <3>1, <3>2, <3>3
  <2>2. CASE frame[p].steal # 0
    BY <2>2, <1>h, <1>o DEF StackFor
  <2> QED BY <2>1, <2>2
<1>n. /\ frame'[c].st = "live" /\ frame'[c].parent = p /\ frame'[c].kind = k
      /\ frame'[c].stack = s /\ frame'[c].steal = 0
  BY <1>h DEF Fresh
<1>f. \A g \in Frames \ {c} :
         /\ frame'[g].st = frame[g].st /\ frame'[g].parent = frame[g].parent
         /\ frame'[g].kind = frame[g].kind /\ frame'[g].stack = frame[g].stack
         /\ frame'[g].steal = frame[g].steal /\ (g # p => frame'[g].last = frame[g].last)
  BY DEF ChildMade
<1>1. Stacked(c, p, k, s)
  BY <1>h, <1>c, <1>s, <1>n, <1>f DEF Stacked
<1>2. Beside(p, c)'
  BY <1>c, <1>p, <1>s, <1>n, <1>f DEF Beside
<1>3. Children'
  <2>1. ASSUME NEW b \in Frames, frame'[b].st = "live", frame'[b].kind = "call"
        PROVE  Beside(frame[b].parent, b)'
    <3>1. CASE b = c
      <4>1. frame'[b].parent = p
        BY <3>1, <1>n
      <4> QED BY <3>1, <4>1, <1>2
    <3>2. CASE b # c
      <4>1. frame[b].st = "live" /\ frame[b].kind = "call" /\ frame'[b].parent = frame[b].parent
            /\ frame'[b].stack = frame[b].stack
        BY <2>1, <3>2, <1>f
      <4>2. PICK q \in Frames : q = frame[b].parent /\ frame[q].st = "live"
        BY <4>1, <1>i DEF Kin
      <4>3. Beside(q, b)
        BY <4>1, <4>2, <1>i DEF Children
      <4>4. q # c
        BY <4>2, <1>c
      <4>5. Beside(q, b)'
        BY <4>1, <4>3, <4>4, <1>f DEF Beside
      <4>6. frame'[b].parent = q
        BY <4>1, <4>2
      <4> QED BY <4>5, <4>6
    <3> QED BY <3>1, <3>2
  <2>2. ASSUME NEW v \in Workers, NEW i \in 1..Len(deque'[v])
        PROVE  (frame[deque[v][i]].last \in Frames)' /\ Beside(deque[v][i], frame[deque[v][i]].last)'
    <3>1. CASE deque'[v][i] = p /\ frame'[p].last = c
      BY <3>1, <1>h, <1>2
    <3>2. ASSUME NEW u \in Workers, NEW j \in 1..Len(deque[u]), deque'[v][i] = deque[u][j]
          PROVE  (frame[deque[v][i]].last \in Frames)' /\ Beside(deque[v][i], frame[deque[v][i]].last)'
      <4>1. PICK q \in Frames : q = deque[u][j] /\ frame[q].st = "live" /\ ~Runs(q)
        BY <1>i DEF Queues
      <4>2. PICK x \in Frames : x = frame[q].last
        BY <4>1, <1>i DEF Children
      <4>3. Beside(q, x)
        BY <4>1, <4>2, <1>i DEF Children
      <4>4. q # c /\ q # p
        BY <4>1, <1>c, <1>p
      <4>5. x # c
        <5>1. PICK at, who, pos, base : Linked(at, who, pos, base)
          BY DEF JoinInv
        <5>2. LastForkAt(at, q) /\ created \in 0..MaxFrames
          BY <5>1 DEF Linked, LastForks, ControlTypes
        <5>3. x <= created
          BY <4>1, <4>2, <5>2 DEF LastForkAt, None, Frames
        <5> QED BY <5>2, <5>3, <1>h
      <4>6. Beside(q, x)'
        BY <4>3, <4>4, <4>5, <1>f DEF Beside
      <4>7. frame'[q].last = x /\ deque'[v][i] = q
        BY <3>2, <4>1, <4>2, <4>4, <1>f
      <4> QED BY <4>6, <4>7
    <3> QED BY <3>1, <3>2, <1>d
  <2> QED BY <2>1, <2>2 DEF Children
<1>4. worker'[w].pc = "run" /\ worker'[w].f = c /\ worker'[w].stack = s
  BY <1>h DEF RunOn
<1>5. OwnerAt(w)'
  <2>1. OnTop(c)'
    BY <1>1, <1>h, <1>s, <1>i, StacksGrow
  <2>2. OnTop(worker[w].f)' = OnTop(c)'
    BY <1>4 DEF OnTop
  <2> QED BY <2>1, <2>2, <1>4, <1>n DEF OwnerAt
<1>6. frame[p].steal = 0 => Alone(p, w)
  BY <1>h, <1>i DEF Joins, Executing
<1>7. ASSUME NEW v \in Workers, v # w
      PROVE  /\ worker'[v] = worker[v]
             /\ worker[v].pc \in Executing => s = c \/ worker[v].f # p
             /\ worker[v].pc = "report" => s = c \/ worker[v].arg # p
  BY <1>6, <1>7, <1>h, <1>s, <1>i DEF Others, Busy, Alone, Executing
<1>8. \A v \in Workers : \A g \in submit'[v] : g = c \/ (g \in submit[v] /\ (s = c \/ g # p))
  BY <1>h, <1>p, <1>i DEF Queues
<1>9. \A v \in Workers : worker'[v].pc = "report" => worker'[v] = worker[v]
  BY <1>h, <1>4 DEF Others
<1>10. \A v \in Workers : \/ OwnerAt(v)'
                          \/ /\ worker'[v] = worker[v]
                             /\ worker[v].pc \in Executing => s = c \/ worker[v].f # p
                             /\ worker[v].pc = "report" => s = c \/ worker[v].arg # p
  BY <1>5, <1>7
<1> QED BY <1>1, <1>3, <1>h, <1>s, <1>8, <1>9, <1>10, GrownStep

(* fork and call.                                                          *)
LEMMA ForkCallSteps ==
    ASSUME JoinInv, StackInv, Settled, NEW w \in Workers, Fork(w) \/ Call(w)
    PROVE  StackInv'
<1>t. FrameTypes /\ ControlTypes /\ MaxFrames \in Nat
  BY ConstantsAssumption DEF JoinInv, Linked
<1>i. Busy /\ Kin /\ Queues
  BY DEF Settled
<1>w. DOMAIN worker = Workers /\ deque \in [Workers -> Seq(Frames)]
  BY <1>t DEF ControlTypes
<1>c. PICK c : c = created + 1
  OBVIOUS
<1>p. PICK p \in Frames : p = worker[w].f /\ worker[w].pc = "run" /\ frame[p].st = "live"
  BY <1>i DEF Busy, Fork, Call, Executing
<1>s. PICK s : s = StackFor(w, c)
  OBVIOUS
<1>0. c \in Frames /\ c # p
  <2>1. created \in 0..MaxFrames /\ created < MaxFrames
    BY <1>t DEF ControlTypes, Fork, Call
  <2>2. c \in Frames /\ c > created
    BY <2>1, <1>c, <1>t DEF Frames
  <2> QED BY <2>2, <1>p, <1>i DEF Kin
<1>1. /\ mem' = [mem EXCEPT ![s] = Append(@, c)] /\ submit' = submit
      /\ worker' = [worker EXCEPT ![w] = RunOn(c, s)]
  <2>1. CASE Fork(w)
    BY <2>1, <1>c, <1>s, Zenon DEF Fork, Allocate
  <2>2. CASE Call(w)
    BY <2>2, <1>c, <1>s, Zenon DEF Call, Allocate
  <2> QED BY <2>1, <2>2
<1>2. Others(w) /\ worker'[w] = RunOn(c, s)
  BY <1>1, <1>w DEF Others
<1>3. CASE Call(w)
  <2>1. frame' = [frame EXCEPT ![c] = Fresh(p, "call", s)] /\ deque' = deque
    BY <1>3, <1>c, <1>p, <1>s DEF Call
  <2>2. frame'[c] = Fresh(p, "call", s) /\ \A g \in Frames \ {c} : frame'[g] = frame[g]
    BY <2>1, <1>0, <1>t DEF FrameTypes
  <2>3. \A v \in Workers : \A i \in 1..Len(deque'[v]) :
          \E u \in Workers : \E j \in 1..Len(deque[u]) : deque'[v][i] = deque[u][j]
    BY <2>1
  <2>4. ChildMade(w, p, c, "call", s)
    BY <1>c, <1>p, <1>s, <1>0, <1>1, <1>2, <2>2, <2>3 DEF ChildMade
  <2> QED BY <2>4, ChildStep
<1>4. CASE Fork(w)
  <2>1. /\ frame' = [frame EXCEPT ![c] = Fresh(p, "fork", s), ![p].open = TRUE, ![p].last = c,
                                  ![p].pre = frame[p].steal]
        /\ deque' = [deque EXCEPT ![w] = Append(@, p)]
    BY <1>4, <1>c, <1>p, <1>s, Zenon DEF Fork
  <2>2. /\ \A g \in Frames \ {p, c} : frame'[g] = frame[g]
        /\ frame'[c] = Fresh(p, "fork", s)
        /\ frame'[p] = [frame[p] EXCEPT !.open = TRUE, !.last = c, !.pre = frame[p].steal]
        /\ frame[p] \in FrameRec
    BY <2>1, <1>0, <1>t, Zenon DEF FrameTypes
  <2>3. /\ frame'[p].st = frame[p].st /\ frame'[p].parent = frame[p].parent
        /\ frame'[p].kind = frame[p].kind /\ frame'[p].stack = frame[p].stack
        /\ frame'[p].steal = frame[p].steal /\ frame'[p].last = c
    BY <2>2 DEF FrameRec
  <2>4. \A g \in Frames \ {c} :
         /\ frame'[g].st = frame[g].st /\ frame'[g].parent = frame[g].parent
         /\ frame'[g].kind = frame[g].kind /\ frame'[g].stack = frame[g].stack
         /\ frame'[g].steal = frame[g].steal /\ (g # p => frame'[g].last = frame[g].last)
    BY <2>2, <2>3
  <2>5. ASSUME NEW v \in Workers, NEW i \in 1..Len(deque'[v])
        PROVE  \/ deque'[v][i] = p /\ frame'[p].last = c
               \/ \E u \in Workers : \E j \in 1..Len(deque[u]) : deque'[v][i] = deque[u][j]
    <3>1. CASE v # w
      <4>1. deque'[v] = deque[v]
        BY <2>1, <3>1, <1>w
      <4> QED BY <4>1
    <3>2. CASE v = w
      <4>1. deque'[w] = Append(deque[w], p) /\ deque[w] \in Seq(Frames) /\ Len(deque[w]) \in Nat
        BY <2>1, <1>w
      <4>2. i \in 1..(Len(deque[w]) + 1)
        BY <3>2, <4>1
      <4>3. CASE i = Len(deque[w]) + 1
        BY <3>2, <4>1, <4>3, <2>3
      <4>4. CASE i # Len(deque[w]) + 1
        <5>1. i \in 1..Len(deque[w]) /\ deque'[v][i] = deque[w][i]
          BY <3>2, <4>1, <4>2, <4>4
        <5> QED BY <5>1
      <4> QED BY <4>3, <4>4
    <3> QED BY <3>1, <3>2
  <2>6. frame'[c] = Fresh(p, "fork", s)
    BY <2>2
  <2>7. ChildMade(w, p, c, "fork", s)
    BY <1>c, <1>p, <1>s, <1>0, <1>1, <1>2, <2>4, <2>5, <2>6 DEF ChildMade
  <2> QED BY <2>7, ChildStep
<1> QED BY <1>3, <1>4

(* schedule(): a stack of its own.                                         *)
LEMMA SubmitStep ==
    ASSUME JoinInv, StackInv, Settled, NEW w \in Workers, Submit(w)
    PROVE  StackInv'
<1>t. FrameTypes /\ ControlTypes /\ MaxFrames \in Nat
  BY ConstantsAssumption DEF JoinInv, Linked
<1>i. /\ StackTypes /\ StackShape /\ Children /\ Kin /\ Queues
  BY DEF Settled, StackInv
<1>0. PICK c \in Frames : c = created + 1 /\ frame[c].st = "none"
  <2>1. created \in 0..MaxFrames /\ created < MaxFrames
    BY <1>t DEF ControlTypes, Submit
  <2>2. created + 1 \in Frames /\ created + 1 > created
    BY <2>1, <1>t DEF Frames
  <2> QED BY <2>2, <1>i DEF Kin
<1>1. /\ frame' = [frame EXCEPT ![c] = Fresh(None, "root", c)] /\ mem' = [mem EXCEPT ![c] = <<c>>]
      /\ submit' = [submit EXCEPT ![w] = @ \union {c}] /\ worker' = worker /\ deque' = deque
  BY <1>0 DEF Submit
<1>2. frame'[c] = Fresh(None, "root", c) /\ \A g \in Frames \ {c} : frame'[g] = frame[g]
  BY <1>1, <1>t DEF FrameTypes
<1>3. mem[c] = <<>>
  <2> SUFFICES ASSUME mem[c] # <<>> PROVE FALSE
    OBVIOUS
  <2>1. mem[c] \in Seq(Frames)
    BY <1>i DEF StackTypes
  <2>2. 1 \in 1..Len(mem[c])
    BY <2>1
  <2>3. frame[mem[c][1]].st = "live" /\ mem[c][1] = c
    BY <2>2, <1>i DEF StackShape
  <2> QED BY <2>3, <1>0
<1>4. mem' = [mem EXCEPT ![c] = Append(@, c)]
  <2>1. Append(mem[c], c) = <<c>>
    BY <1>3
  <2> QED BY <2>1, <1>1, <1>i DEF StackTypes
<1>n. /\ frame'[c].st = "live" /\ frame'[c].parent = None /\ frame'[c].kind = "root"
      /\ frame'[c].stack = c /\ frame'[c].steal = 0
  BY <1>2 DEF Fresh
<1>5. Stacked(c, None, "root", c)
  BY <1>0, <1>2, <1>4, <1>n DEF Stacked
<1>6. Children'
  <2>1. ASSUME NEW b \in Frames, frame'[b].st = "live", frame'[b].kind = "call"
        PROVE  Beside(frame[b].parent, b)'
    <3>1. b # c /\ frame'[b] = frame[b]
      BY <2>1, <1>2, <1>n
    <3>2. PICK q \in Frames : q = frame[b].parent /\ frame[q].st = "live"
      BY <2>1, <3>1, <1>i DEF Kin
    <3>3. frame'[q] = frame[q]
      BY <3>2, <1>0, <1>2
    <3>4. Beside(q, b)
      BY <2>1, <3>1, <3>2, <1>i DEF Children
    <3>5. Beside(q, b)'
      BY <3>1, <3>3, <3>4 DEF Beside
    <3>6. frame'[b].parent = q
      BY <3>1, <3>2
    <3> QED BY <3>5, <3>6
  <2>2. ASSUME NEW v \in Workers, NEW i \in 1..Len(deque'[v])
        PROVE  (frame[deque[v][i]].last \in Frames)' /\ Beside(deque[v][i], frame[deque[v][i]].last)'
    <3>0. deque'[v] = deque[v] /\ i \in 1..Len(deque[v])
      BY <1>1
    <3>1. PICK q \in Frames : q = deque[v][i] /\ frame[q].st = "live"
      BY <3>0, <1>i DEF Queues
    <3>2. PICK x \in Frames : x = frame[q].last
      BY <3>0, <3>1, <1>i DEF Children
    <3>3. Beside(q, x)
      BY <3>0, <3>1, <3>2, <1>i DEF Children
    <3>4. x # c
      <4>1. PICK at, who, pos, base : Linked(at, who, pos, base)
        BY DEF JoinInv
      <4>2. LastForkAt(at, q) /\ created \in 0..MaxFrames
        BY <4>1 DEF Linked, LastForks, ControlTypes
      <4>3. x <= created
        BY <3>1, <3>2, <4>2 DEF LastForkAt, None, Frames
      <4> QED BY <4>2, <4>3, <1>0
    <3>5. frame'[q] = frame[q] /\ frame'[x] = frame[x]
      BY <3>1, <3>4, <1>0, <1>2
    <3>6. Beside(q, x)'
      BY <3>3, <3>5 DEF Beside
    <3> QED BY <3>0, <3>1, <3>2, <3>5, <3>6
  <2> QED BY <2>1, <2>2 DEF Children
<1>7. \A v \in Workers : \A g \in submit'[v] : g = c \/ g \in submit[v]
  BY <1>1, <1>t DEF ControlTypes
<1>8. \A v \in Workers : worker'[v] = worker[v]
  BY <1>1
<1> QED BY <1>5, <1>6, <1>7, <1>8, GrownStep

-----------------------------------------------------------------------------
(* f, on top of the stack s, is destroyed.                                 *)
Unstacked(f, s) ==
    /\ frame[f].st = "live" /\ frame'[f].st = "done" /\ s = frame[f].stack /\ OnTop(f)
    /\ \A g \in Frames :
         /\ frame'[g].parent = frame[g].parent /\ frame'[g].kind = frame[g].kind
         /\ frame'[g].stack = frame[g].stack /\ frame'[g].steal = frame[g].steal
         /\ frame'[g].last = frame[g].last /\ (g # f => frame'[g].st = frame[g].st)
    /\ mem' = [mem EXCEPT ![s] = Front(@)]

(* Its parent, if that is on s too, is on top now; and nobody else's top   *)
(* is gone.                                                                *)
LEMMA StacksShrink ==
    ASSUME StackTypes, StackShape, NEW f \in Frames, NEW s \in Frames, Unstacked(f, s)
    PROVE  /\ StackTypes' /\ StackShape' /\ (Len(mem[s]) = 1 <=> f = s)
           /\ \A g \in Frames : frame[g].st = "live" /\ OnTop(g) /\ g # f =>
                frame[g].stack # s /\ OnTop(g)'
           /\ f # s => \E p \in Frames : p = frame[f].parent /\ frame[p].stack = s /\ OnTop(p)'
<1>m. mem \in [Frames -> Seq(Frames)]
  BY DEF StackTypes
<1>n. PICK n \in Nat : n = Len(mem[s])
  BY <1>m
<1>f. /\ frame[f].st = "live" /\ frame'[f].st = "done" /\ s = frame[f].stack
      /\ \A g \in Frames : /\ frame'[g].parent = frame[g].parent /\ frame'[g].kind = frame[g].kind
                           /\ frame'[g].stack = frame[g].stack /\ (g # f => frame'[g].st = frame[g].st)
  BY DEF Unstacked
<1>1. n # 0 /\ mem[s][n] = f /\ mem[s] # <<>>
  BY <1>m, <1>n DEF Unstacked, OnTop, Top
<1>2. /\ \A t \in Frames \ {s} : mem'[t] = mem[t]
      /\ mem'[s] \in Seq(Frames) /\ Len(mem'[s]) = n - 1
      /\ \A i \in 1..(n - 1) : mem'[s][i] = mem[s][i]
  <2>1. mem'[s] = Front(mem[s]) /\ \A t \in Frames \ {s} : mem'[t] = mem[t]
    BY <1>m DEF Unstacked
  <2>2. mem[s] \in Seq(Frames)
    BY <1>m
  <2> QED BY <2>1, <2>2, <1>1, <1>n, FrontOf
<1>3. StackTypes'
  <2>1. DOMAIN mem' = Frames /\ mem' = [t \in Frames |-> mem'[t]]
    BY <1>m DEF Unstacked
  <2>2. \A t \in Frames : mem'[t] \in Seq(Frames)
    BY <1>2, <1>m
  <2> QED BY <2>1, <2>2 DEF StackTypes
<1>a. ASSUME NEW t \in Frames, NEW i \in 1..Len(mem'[t])
      PROVE  /\ i \in 1..Len(mem[t]) /\ mem'[t][i] = mem[t][i] /\ mem[t][i] \in Frames \ {f}
             /\ i > 1 => mem'[t][i - 1] = mem[t][i - 1]
  <2>1. CASE t # s
    <3>1. mem'[t] = mem[t]
      BY <2>1, <1>2
    <3>2. i \in 1..Len(mem[t]) /\ mem[t][i] \in Frames
      BY <3>1, <1>m
    <3>3. frame[mem[t][i]].stack = t
      BY <3>2 DEF StackShape
    <3> QED BY <2>1, <3>1, <3>2, <3>3, <1>f
  <2>2. CASE t = s
    <3>1. i \in 1..(n - 1) /\ i \in 1..n /\ i # n /\ n \in 1..n
      BY <2>2, <1>2, <1>1
    <3>2. mem'[s][i] = mem[s][i] /\ mem[s][i] \in Frames
      BY <3>1, <1>2, <1>n, <1>m
    <3>3. mem[s][i] # mem[s][n]
      BY <3>1, <1>n DEF StackShape
    <3>4. i > 1 => mem'[s][i - 1] = mem[s][i - 1]
      <4> SUFFICES ASSUME i > 1 PROVE mem'[s][i - 1] = mem[s][i - 1]
        OBVIOUS
      <4>1. i - 1 \in 1..(n - 1)
        BY <3>1
      <4> QED BY <4>1, <1>2
    <3> QED BY <2>2, <3>1, <3>2, <3>3, <3>4, <1>1, <1>n
  <2> QED BY <2>1, <2>2
<1>5. ASSUME NEW t \in Frames, NEW i \in 1..Len(mem'[t])
      PROVE  /\ frame'[mem'[t][i]].st = "live" /\ frame'[mem'[t][i]].stack = t
             /\ mem'[t][i] = t <=> i = 1
             /\ i > 1 => frame'[mem'[t][i]].parent = mem'[t][i - 1]
  <2>1. PICK g \in Frames \ {f} : g = mem[t][i] /\ g = mem'[t][i]
    BY <1>a
  <2>2. i \in 1..Len(mem[t]) /\ (i > 1 => mem'[t][i - 1] = mem[t][i - 1])
    BY <1>a
  <2>3. /\ frame[mem[t][i]].st = "live" /\ frame[mem[t][i]].stack = t
        /\ mem[t][i] = t <=> i = 1
        /\ i > 1 => frame[mem[t][i]].parent = mem[t][i - 1]
    BY <2>2 DEF StackShape
  <2>4. /\ frame[g].st = "live" /\ frame[g].stack = t /\ (g = t <=> i = 1)
        /\ i > 1 => frame[g].parent = mem[t][i - 1]
    BY <2>1, <2>3
  <2> QED BY <2>1, <2>2, <2>4, <1>f
<1>6. ASSUME NEW t \in Frames, NEW i \in 1..Len(mem'[t]), NEW k \in 1..Len(mem'[t]), mem'[t][i] = mem'[t][k]
      PROVE  i = k
  BY <1>6, <1>a DEF StackShape
<1>7. ASSUME NEW g \in Frames, frame'[g].st = "live"
      PROVE  /\ frame'[g].stack \in Frames
             /\ \E i \in 1..Len(mem'[frame'[g].stack]) : mem'[frame'[g].stack][i] = g
             /\ frame'[g].kind = "root" => frame'[g].stack = g
  <2>1. g # f /\ frame[g].st = "live" /\ frame'[g].stack = frame[g].stack /\ frame'[g].kind = frame[g].kind
    BY <1>7, <1>f
  <2>2. PICK t \in Frames : t = frame[g].stack
    BY <2>1 DEF StackShape
  <2>3. PICK i \in 1..Len(mem[t]) : mem[t][i] = g
    BY <2>1, <2>2 DEF StackShape
  <2>4. i \in 1..Len(mem'[t]) /\ mem'[t][i] = g
    <3>1. CASE t # s
      BY <2>3, <3>1, <1>2
    <3>2. CASE t = s
      <4>1. i # n /\ i \in 1..n
        BY <2>1, <2>3, <3>2, <1>1, <1>n
      <4>2. i \in 1..(n - 1)
        BY <4>1
      <4> QED BY <2>3, <3>2, <4>2, <1>2
    <3> QED BY <3>1, <3>2
  <2>5. frame[g].kind = "root" => frame[g].stack = g
    BY <2>1 DEF StackShape
  <2> QED BY <2>1, <2>2, <2>4, <2>5
<1>8. StackShape'
  BY <1>5, <1>6, <1>7 DEF StackShape
<1>9. n = 1 <=> f = s
  <2>1. n \in 1..Len(mem[s])
    BY <1>1, <1>n
  <2>2. mem[s][n] = s <=> n = 1
    BY <2>1 DEF StackShape
  <2> QED BY <2>2, <1>1
<1>10. ASSUME NEW g \in Frames, frame[g].st = "live", OnTop(g), g # f
       PROVE  frame[g].stack # s /\ OnTop(g)'
  <2>1. PICK t \in Frames : t = frame[g].stack /\ mem[t] # <<>> /\ mem[t][Len(mem[t])] = g
    BY <1>10 DEF OnTop, Top, StackShape
  <2>2. t # s
    BY <2>1, <1>10, <1>1, <1>n
  <2>3. mem'[t] = mem[t] /\ frame'[g].stack = t
    BY <2>1, <2>2, <1>2, <1>f
  <2> QED BY <2>1, <2>2, <2>3 DEF OnTop, Top
<1>11. ASSUME f # s PROVE \E p \in Frames : p = frame[f].parent /\ frame[p].stack = s /\ OnTop(p)'
  <2>1. n > 1 /\ n \in 1..n /\ n - 1 \in 1..n /\ n - 1 \in 1..(n - 1) /\ n - 1 # 0
    BY <1>11, <1>9, <1>1
  <2>2. frame[f].parent = mem[s][n - 1]
    <3>1. n \in 1..Len(mem[s])
      BY <2>1, <1>n
    <3>2. frame[mem[s][n]].parent = mem[s][n - 1]
      BY <3>1, <2>1 DEF StackShape
    <3> QED BY <3>2, <1>1
  <2>3. PICK p \in Frames : p = mem[s][n - 1]
    BY <2>1, <1>n, <1>m
  <2>4. frame[p].stack = s
    BY <2>1, <2>3, <1>n DEF StackShape
  <2>5. mem'[s] # <<>> /\ mem'[s][Len(mem'[s])] = p /\ frame'[p].stack = s
    BY <2>1, <2>3, <2>4, <1>2, <1>f
  <2>6. OnTop(p)'
    BY <2>5 DEF OnTop, Top
  <2> QED BY <2>2, <2>3, <2>4, <2>6
<1> QED BY <1>3, <1>8, <1>9, <1>10, <1>11, <1>n

(* What the worker of a task that ends knows of it.                        *)
LEMMA EndsOnTop ==
    ASSUME StackInv, Settled, NEW w \in Workers, worker[w].pc = "final"
    PROVE  \E f, s \in Frames :
             /\ f = worker[w].f /\ frame[f].st = "live" /\ Alone(f, w)
             /\ s = frame[f].stack /\ s = worker[w].stack /\ OnTop(f)
<1>1. PICK f \in Frames : f = worker[w].f /\ frame[f].st = "live"
  BY DEF Settled, Busy, Executing
<1>2. frame[f].steal = 0
  BY <1>1 DEF Settled, Joins
<1>3. Alone(f, w)
  BY <1>1, <1>2 DEF Settled, Joins, Executing
<1>4. worker[w].stack = frame[f].stack /\ OnTop(f)
  BY <1>1, <1>2 DEF StackInv, Owners, Executing
<1>5. frame[f].stack \in Frames
  BY <1>1 DEF StackInv, StackShape
<1> QED BY <1>1, <1>3, <1>4, <1>5

(* Who has which stack, when a frame is destroyed.                         *)
LEMMA ShrunkStep ==
    ASSUME StackInv, Settled, NEW w \in Workers, NEW f \in Frames, NEW s \in Frames, Unstacked(f, s),
           worker[w].pc = "final", worker[w].f = f, Alone(f, w), Others(w), submit' = submit,
           \A v \in Workers : \A i \in 1..Len(deque'[v]) :
             \E u \in Workers : \E j \in 1..Len(deque[u]) : deque'[v][i] = deque[u][j],
           OwnerAt(w)', worker'[w].stack \in {s, None}, s # None
    PROVE  StackInv'
<1>i. /\ StackTypes /\ StackShape /\ Children /\ Owners /\ OneReporter
      /\ Busy /\ Queues /\ Kin
  BY DEF StackInv, Settled
<1>f. /\ \A g \in Frames :
           /\ frame'[g].parent = frame[g].parent /\ frame'[g].kind = frame[g].kind
           /\ frame'[g].stack = frame[g].stack /\ frame'[g].steal = frame[g].steal
           /\ frame'[g].last = frame[g].last /\ (g # f => frame'[g].st = frame[g].st)
      /\ frame'[f].st = "done"
  BY DEF Unstacked
<1>1. /\ StackTypes' /\ StackShape'
      /\ \A g \in Frames : frame[g].st = "live" /\ OnTop(g) /\ g # f => frame[g].stack # s /\ OnTop(g)'
  BY <1>i, StacksShrink
<1>2. Children'
  <2>1. ASSUME NEW b \in Frames, frame'[b].st = "live", frame'[b].kind = "call"
        PROVE  Beside(frame[b].parent, b)'
    <3>1. b # f /\ frame[b].st = "live" /\ frame[b].kind = "call"
      BY <2>1, <1>f
    <3>2. PICK q \in Frames : q = frame[b].parent
      BY <3>1, <1>i DEF Kin
    <3>3. Beside(q, b)
      BY <3>1, <3>2, <1>i DEF Children
    <3>4. Beside(q, b)'
      BY <3>3, <1>f DEF Beside
    <3>5. frame'[b].parent = q
      BY <3>2, <1>f
    <3> QED BY <3>4, <3>5
  <2>2. ASSUME NEW v \in Workers, NEW i \in 1..Len(deque'[v])
        PROVE  (frame[deque[v][i]].last \in Frames)' /\ Beside(deque[v][i], frame[deque[v][i]].last)'
    <3>1. PICK u \in Workers : \E j \in 1..Len(deque[u]) : deque'[v][i] = deque[u][j]
      OBVIOUS
    <3>2. PICK j \in 1..Len(deque[u]) : deque'[v][i] = deque[u][j]
      BY <3>1
    <3>3. PICK q \in Frames : q = deque[u][j]
      BY <1>i DEF Queues
    <3>4. PICK x \in Frames : x = frame[q].last
      BY <3>3, <1>i DEF Children
    <3>5. Beside(q, x)
      BY <3>3, <3>4, <1>i DEF Children
    <3>6. Beside(q, x)'
      BY <3>5, <1>f DEF Beside
    <3>7. frame'[q].last = x /\ deque'[v][i] = q
      BY <3>2, <3>3, <3>4, <1>f
    <3> QED BY <3>6, <3>7
  <2> QED BY <2>1, <2>2 DEF Children
<1>3. ASSUME NEW v \in Workers, v # w
      PROVE  OwnerAt(v)' /\ (worker[v].pc = "report" => worker[v].stack # s)
  <2>1. worker'[v] = worker[v] /\ OwnerAt(v)
    BY <1>3, <1>i, OwnersAre DEF Others
  <2>2. worker[v].pc \in Executing =>
          IF frame'[worker[v].f].steal = 0
          THEN worker[v].stack = frame'[worker[v].f].stack /\ OnTop(worker[v].f)'
          ELSE worker[v].stack = None
    <3> SUFFICES ASSUME worker[v].pc \in Executing
                 PROVE  IF frame'[worker[v].f].steal = 0
                        THEN worker[v].stack = frame'[worker[v].f].stack /\ OnTop(worker[v].f)'
                        ELSE worker[v].stack = None
      OBVIOUS
    <3>1. PICK g \in Frames : g = worker[v].f /\ frame[g].st = "live" /\ g # f
      BY <1>3, <1>i DEF Busy, Executing
    <3>2. IF frame[g].steal = 0 THEN worker[v].stack = frame[g].stack /\ OnTop(g) ELSE worker[v].stack = None
      BY <2>1, <3>1 DEF OwnerAt
    <3>3. OnTop(worker[v].f)' = OnTop(g)'
      BY <2>1, <3>1 DEF OnTop
    <3> QED BY <3>1, <3>2, <3>3, <1>1, <1>f
  <2>3. worker[v].pc = "report" /\ worker[v].stack # None =>
          /\ worker[v].stack = frame'[worker[v].arg].stack /\ OnTop(worker[v].arg)'
          /\ worker[v].stack # s
    <3> SUFFICES ASSUME worker[v].pc = "report", worker[v].stack # None
                 PROVE  /\ worker[v].stack = frame'[worker[v].arg].stack /\ OnTop(worker[v].arg)'
                        /\ worker[v].stack # s
      OBVIOUS
    <3>1. PICK g \in Frames : g = worker[v].arg /\ frame[g].st = "live" /\ g # f
      BY <1>3, <1>i DEF Busy, Alone
    <3>2. worker[v].stack = frame[g].stack /\ OnTop(g)
      BY <2>1, <3>1 DEF OwnerAt
    <3>3. OnTop(worker[v].arg)' = OnTop(g)'
      BY <2>1, <3>1 DEF OnTop
    <3> QED BY <3>1, <3>2, <3>3, <1>1, <1>f
  <2>4. /\ worker[v].pc \in {"idle", "selfsteal"} => worker[v].stack = None
        /\ worker[v].pc = "switch" /\ worker[v].arg # 0 => worker[v].stack = None
    BY <2>1 DEF OwnerAt
  <2> QED BY <2>1, <2>2, <2>3, <2>4 DEF OwnerAt
<1>4. Owners'
  <2>1. \A v \in Workers : OwnerAt(v)'
    BY <1>3
  <2>2. ASSUME NEW v \in Workers, NEW g \in submit[v], frame'[g].steal = 0 PROVE OnTop(g)'
    <3>1. g \in Frames /\ frame[g].st = "live" /\ g # f
      BY <1>i DEF Queues, Runs, Executing
    <3>2. OnTop(g)
      BY <2>2, <3>1, <1>f, <1>i DEF Owners
    <3> QED BY <3>1, <3>2, <1>1
  <2>3. SubmittedAt'
    BY <2>2 DEF SubmittedAt
  <2> QED BY <2>1, <2>3, OwnersNext
<1>5. OneReporter'
  <2> SUFFICES ASSUME NEW u \in Workers, NEW v \in Workers, worker'[u].pc = "report", worker'[v].pc = "report",
                      worker'[u].stack = worker'[v].stack, worker'[u].stack # None
               PROVE  u = v
    BY DEF OneReporter
  <2>1. \A x \in Workers \ {w} : worker'[x] = worker[x]
    BY DEF Others
  <2>2. CASE u # w /\ v # w
    BY <2>1, <2>2, <1>i DEF OneReporter
  <2>3. CASE u = w /\ v # w
    BY <2>1, <2>3, <1>3
  <2>4. CASE u # w /\ v = w
    BY <2>1, <2>4, <1>3
  <2> QED BY <2>2, <2>3, <2>4
<1> QED BY <1>1, <1>2, <1>4, <1>5 DEF StackInv

-----------------------------------------------------------------------------
(* The ends of a task leave the frames on their stacks.                    *)
LEMMA EndsFields ==
    ASSUME FrameTypes, NEW f \in Frames, NEW p, Ends(f, p)
    PROVE  \A g \in Frames : frame'[g].stack = frame[g].stack
<1>1. \A g \in Frames : frame[g] \in FrameRec
  BY DEF FrameTypes
<1>2. CASE frame' = [frame EXCEPT ![f].st = "done"]
  BY <1>1, <1>2 DEF FrameTypes, FrameRec
<1>3. ASSUME NEW e, p \in Frames, frame' = [frame EXCEPT ![f].st = "done", ![p].exc = e]
      PROVE  \A g \in Frames : frame'[g].stack = frame[g].stack
  <2>1. \A g \in Frames \ {f, p} : frame'[g] = frame[g]
    BY <1>3 DEF FrameTypes
  <2>2. CASE p = f
    <3>1. frame'[f] = [frame[f] EXCEPT !.st = "done", !.exc = e]
      BY <1>3, <2>2 DEF FrameTypes
    <3>2. frame[f] \in FrameRec
      BY <1>1
    <3>3. frame'[f].stack = frame[f].stack
      BY <3>1, <3>2 DEF FrameRec
    <3> QED BY <2>1, <2>2, <3>3
  <2>3. CASE p # f
    <3>1. frame'[f] = [frame[f] EXCEPT !.st = "done"] /\ frame'[p] = [frame[p] EXCEPT !.exc = e]
      BY <1>3, <2>3 DEF FrameTypes
    <3> QED BY <2>1, <2>3, <3>1, <1>1 DEF FrameRec
  <2> QED BY <2>2, <2>3
<1> QED BY <1>2, <1>3 DEF Ends

(* The frame of w's task is destroyed.                                     *)
LEMMA EndUnstacks ==
    ASSUME StackInv, Settled, FrameTypes, created' = created, NEW w \in Workers, worker[w].pc = "final",
           NEW p, Ends(worker[w].f, p), Deallocate(w)
    PROVE  \E f, s \in Frames :
             /\ f = worker[w].f /\ Alone(f, w) /\ s = frame[f].stack /\ Unstacked(f, s)
             /\ StackLeft(w) = IF f = s THEN None ELSE s
<1>1. PICK f, s \in Frames :
        /\ f = worker[w].f /\ frame[f].st = "live" /\ Alone(f, w)
        /\ s = frame[f].stack /\ s = worker[w].stack /\ OnTop(f)
  BY EndsOnTop
<1>2. Ended(f) /\ \A g \in Frames : frame'[g].stack = frame[g].stack
  <2>1. Ends(f, p)
    BY <1>1
  <2> QED BY <2>1, <1>1, EndsFrame, EndsFields
<1>3. mem' = [mem EXCEPT ![s] = Front(@)]
  BY <1>1 DEF Deallocate
<1>4. Unstacked(f, s)
  BY <1>1, <1>2, <1>3 DEF Unstacked, Ended, Shrinks, Kept
<1>5. Len(mem[s]) = 1 <=> f = s
  BY <1>4, StacksShrink DEF StackInv
<1>6. StackLeft(w) = IF f = s THEN None ELSE s
  BY <1>1, <1>5 DEF StackLeft
<1> QED BY <1>1, <1>4, <1>6

(* The parent goes on where the child was.                                 *)
LEMMA BackToParent ==
    ASSUME StackInv, Settled, NEW w \in Workers, NEW f \in Frames, NEW s \in Frames, Unstacked(f, s),
           NEW p \in Frames, p = frame[f].parent, Beside(p, f),
           worker'[w] = RunOn(p, IF f = s THEN None ELSE s)
    PROVE  OwnerAt(w)'
<1>1. /\ f # s => \E q \in Frames : q = frame[f].parent /\ frame[q].stack = s /\ OnTop(q)'
  BY StacksShrink DEF StackInv
<1>2. frame'[p].steal = frame[p].steal /\ frame'[p].stack = frame[p].stack /\ s = frame[f].stack
  BY DEF Unstacked
<1>3. worker'[w].pc = "run" /\ worker'[w].f = p /\ worker'[w].stack = IF f = s THEN None ELSE s
  BY DEF RunOn
<1>4. OnTop(worker[w].f)' = OnTop(p)'
  BY <1>3 DEF OnTop
<1>5. CASE frame[p].steal = 0
  <2>1. f # s /\ frame[p].stack = s /\ OnTop(p)'
    BY <1>1, <1>2, <1>5 DEF Beside
  <2> QED BY <2>1, <1>2, <1>3, <1>4, <1>5 DEF OwnerAt
<1>6. CASE frame[p].steal # 0
  <2>1. f = s
    BY <1>2, <1>6 DEF Beside
  <2> QED BY <2>1, <1>2, <1>3, <1>6 DEF OwnerAt, Executing
<1> QED BY <1>5, <1>6

(* The four ways for a task to end.                                        *)
LEMMA FinalSteps ==
    ASSUME JoinInv, StackInv, Settled, NEW w \in Workers,
           FinalRoot(w) \/ FinalCall(w) \/ FinalForkPop(w) \/ FinalForkStolen(w)
    PROVE  StackInv'
<1>t. FrameTypes /\ ControlTypes
  BY DEF JoinInv, Linked
<1>i. /\ StackTypes /\ StackShape /\ Children /\ Kin /\ Queues /\ Parents
  BY DEF StackInv, Settled
<1>w. DOMAIN worker = Workers /\ deque \in [Workers -> Seq(Frames)]
  BY <1>t DEF ControlTypes
<1>q. worker[w].pc = "final" /\ Deallocate(w) /\ submit' = submit /\ created' = created
  BY Zenon DEF FinalRoot, FinalCall, FinalForkPop, FinalForkStolen
<1>0. PICK f \in Frames : f = worker[w].f /\ frame[f].st = "live"
  BY <1>q, EndsOnTop
<1>r. ASSUME NEW p, Ends(f, p),
             ASSUME NEW s \in Frames, s = frame[f].stack, Unstacked(f, s),
                    StackLeft(w) = IF f = s THEN None ELSE s
             PROVE  Others(w) /\ OwnerAt(w)' /\ worker'[w].stack = StackLeft(w),
             \A v \in Workers : \A i \in 1..Len(deque'[v]) :
               \E u \in Workers : \E j \in 1..Len(deque[u]) : deque'[v][i] = deque[u][j]
      PROVE  StackInv'
  <2>1. PICK s \in Frames : /\ Alone(f, w) /\ s = frame[f].stack /\ Unstacked(f, s)
                            /\ StackLeft(w) = IF f = s THEN None ELSE s
    BY <1>r, <1>q, <1>0, <1>t, EndUnstacks
  <2>2. Others(w) /\ OwnerAt(w)' /\ worker'[w].stack = StackLeft(w)
    BY <1>r, <2>1
  <2>3. worker'[w].stack \in {s, None} /\ s # None
    BY <2>1, <2>2 DEF Frames, None
  <2>4. \A v \in Workers : \A i \in 1..Len(deque'[v]) :
          \E u \in Workers : \E j \in 1..Len(deque[u]) : deque'[v][i] = deque[u][j]
    BY <1>r
  <2> QED BY <1>q, <1>0, <2>1, <2>2, <2>3, <2>4, ShrunkStep
<1>s. ASSUME deque' = deque
      PROVE  \A v \in Workers : \A i \in 1..Len(deque'[v]) :
               \E u \in Workers : \E j \in 1..Len(deque[u]) : deque'[v][i] = deque[u][j]
  BY <1>s
<1>1. CASE FinalRoot(w)
  <2>1. /\ Ends(f, f) /\ frame[f].kind = "root" /\ deque' = deque
        /\ worker' = [worker EXCEPT ![w] = IdleOn(StackLeft(w))]
    BY <1>1, <1>0 DEF FinalRoot, Ends
  <2>2. ASSUME NEW s \in Frames, s = frame[f].stack, StackLeft(w) = IF f = s THEN None ELSE s
        PROVE  Others(w) /\ OwnerAt(w)' /\ worker'[w].stack = StackLeft(w)
    <3>1. f = s
      BY <1>0, <2>1, <2>2, <1>i DEF StackShape
    <3>2. Others(w) /\ worker'[w].pc = "idle" /\ worker'[w].stack = None /\ StackLeft(w) = None
      BY <2>1, <2>2, <3>1, <1>w DEF Others, IdleOn
    <3> QED BY <3>2 DEF OwnerAt, Executing
  <2> QED BY <2>1, <2>2, <1>s, <1>r
<1>p. ASSUME frame[f].kind # "root"
      PROVE  \E p \in Frames : p = frame[f].parent /\ frame[p].st = "live"
  BY <1>p, <1>0, <1>i DEF Kin
<1>b. ASSUME NEW p \in Frames, p = frame[f].parent, Beside(p, f),
             worker' = [worker EXCEPT ![w] = RunOn(p, StackLeft(w))],
             NEW s \in Frames, s = frame[f].stack, Unstacked(f, s),
             StackLeft(w) = IF f = s THEN None ELSE s
      PROVE  Others(w) /\ OwnerAt(w)' /\ worker'[w].stack = StackLeft(w)
  <2>1. Others(w) /\ worker'[w] = RunOn(p, IF f = s THEN None ELSE s)
    BY <1>b, <1>w DEF Others
  <2>2. worker'[w].stack = StackLeft(w)
    BY <1>b, <2>1 DEF RunOn
  <2>3. OwnerAt(w)'
    BY <1>b, <2>1, BackToParent
  <2> QED BY <2>1, <2>2, <2>3
<1>e. ASSUME NEW p \in Frames, NEW x \in BOOLEAN,
             frame' = [frame EXCEPT ![f].st = "done", ![p].exc = IF x THEN "none" ELSE @]
      PROVE  Ends(f, p)
  <2>1. PICK e : e = IF x THEN "none" ELSE frame[p].exc
    OBVIOUS
  <2>2. e = frame[p].exc \/ e = "none"
    BY <2>1
  <2>3. CASE p # f
    <3>1. frame' = [frame EXCEPT ![f].st = "done", ![p].exc = e]
      BY <1>e, <2>1, <2>3, <1>t DEF FrameTypes
    <3> QED BY <2>2, <3>1, Zenon DEF Ends
  <2>4. CASE p = f
    <3>1. frame[f] \in FrameRec
      BY <1>t DEF FrameTypes
    <3>2. [frame[f] EXCEPT !.st = "done"].exc = frame[f].exc
      BY <3>1 DEF FrameRec
    <3>3. frame' = [frame EXCEPT ![f].st = "done", ![p].exc = e]
      BY <1>e, <2>1, <2>4, <3>2, <1>t DEF FrameTypes
    <3> QED BY <2>2, <3>3, Zenon DEF Ends
  <2> QED BY <2>3, <2>4
<1>2. CASE FinalCall(w)
  <2>0. frame[f].kind = "call" /\ deque' = deque
    BY <1>2, <1>0 DEF FinalCall
  <2>1. PICK p \in Frames : p = frame[f].parent /\ frame[p].st = "live"
    BY <2>0, <1>p
  <2>2. worker' = [worker EXCEPT ![w] = RunOn(p, StackLeft(w))]
    BY <1>2, <1>0, <2>1 DEF FinalCall
  <2>3. Ends(f, p)
    <3>1. PICK eager \in BOOLEAN :
            frame' = [frame EXCEPT ![f].st = "done", ![p].exc = IF Rethrows(w, p, eager) THEN "none" ELSE @]
      BY <1>2, <1>0, <2>1, Zenon DEF FinalCall
    <3>2. Rethrows(w, p, eager) \in BOOLEAN
      BY DEF Rethrows
    <3> QED BY <3>1, <3>2, <1>e
  <2>4. Beside(p, f)
    BY <1>0, <2>0, <2>1, <1>i DEF Children
  <2>5. ASSUME NEW s \in Frames, s = frame[f].stack, Unstacked(f, s),
               StackLeft(w) = IF f = s THEN None ELSE s
        PROVE  Others(w) /\ OwnerAt(w)' /\ worker'[w].stack = StackLeft(w)
    BY <2>1, <2>2, <2>4, <2>5, <1>b
  <2> QED BY <2>0, <2>3, <2>5, <1>s, <1>r
<1>3. CASE FinalForkPop(w)
  <2>0. /\ frame[f].kind = "fork" /\ deque[w] # <<>> /\ deque[w] \in Seq(Frames)
        /\ deque' = [deque EXCEPT ![w] = Front(@)]
    BY <1>3, <1>0, <1>w DEF FinalForkPop
  <2>1. PICK p \in Frames : p = frame[f].parent /\ frame[p].st = "live"
    BY <2>0, <1>p
  <2>2. p = Last(deque[w]) /\ frame[p].last = f
    BY <2>0, <2>1, <1>0, <1>q, <1>i DEF Parents
  <2>3. p = deque[w][Len(deque[w])] /\ Len(deque[w]) \in 1..Len(deque[w])
    BY <2>0, <2>2 DEF Last
  <2>4. worker' = [worker EXCEPT ![w] = RunOn(p, StackLeft(w))]
    BY <1>3, <2>2 DEF FinalForkPop
  <2>5. Ends(f, p)
    <3>1. PICK sync \in BOOLEAN :
            frame' = [frame EXCEPT ![f].st = "done", ![p].exc = IF Rethrows(w, p, sync) THEN "none" ELSE @]
      BY <1>3, <1>0, <2>2, Zenon DEF FinalForkPop
    <3>2. Rethrows(w, p, sync) \in BOOLEAN
      BY DEF Rethrows
    <3> QED BY <3>1, <3>2, <1>e
  <2>6. Beside(p, f)
    <3>1. Beside(deque[w][Len(deque[w])], frame[deque[w][Len(deque[w])]].last)
      BY <2>3, <1>i DEF Children
    <3> QED BY <3>1, <2>2, <2>3
  <2>7. ASSUME NEW s \in Frames, s = frame[f].stack, Unstacked(f, s),
               StackLeft(w) = IF f = s THEN None ELSE s
        PROVE  Others(w) /\ OwnerAt(w)' /\ worker'[w].stack = StackLeft(w)
    BY <2>1, <2>4, <2>6, <2>7, <1>b
  <2>8. ASSUME NEW v \in Workers, NEW i \in 1..Len(deque'[v])
        PROVE  \E u \in Workers : \E j \in 1..Len(deque[u]) : deque'[v][i] = deque[u][j]
    <3>1. CASE v = w
      <4>1. deque'[w] = Front(deque[w]) /\ Len(deque[w]) \in Nat
        BY <2>0, <1>w
      <4>2. Len(deque'[w]) = Len(deque[w]) - 1 /\ \A j \in 1..(Len(deque[w]) - 1) : deque'[w][j] = deque[w][j]
        BY <4>1, <2>0, FrontOf
      <4>3. i \in 1..Len(deque[w]) /\ deque'[w][i] = deque[w][i]
        BY <3>1, <4>1, <4>2
      <4> QED BY <3>1, <4>3
    <3>2. CASE v # w
      <4>1. deque'[v] = deque[v]
        BY <3>2, <2>0, <1>w
      <4> QED BY <4>1
    <3> QED BY <3>1, <3>2
  <2> QED BY <2>5, <2>7, <2>8, <1>r
<1>4. CASE FinalForkStolen(w)
  <2>1. frame[f].kind = "fork" /\ deque' = deque /\ Ends(f, f)
    BY <1>4, <1>0 DEF FinalForkStolen, Ends
  <2>2. PICK p \in Frames : p = frame[f].parent /\ frame[p].st = "live"
    BY <2>1, <1>p
  <2>3. worker' = [worker EXCEPT ![w] = [pc |-> "report", f |-> None, arg |-> p, stack |-> StackLeft(w)]]
    BY <1>4, <1>0, <2>2 DEF FinalForkStolen
  <2>4. ASSUME NEW s \in Frames, s = frame[f].stack, Unstacked(f, s),
               StackLeft(w) = IF f = s THEN None ELSE s
        PROVE  Others(w) /\ OwnerAt(w)' /\ worker'[w].stack = StackLeft(w)
    <3>1. /\ Others(w) /\ worker'[w].pc = "report" /\ worker'[w].arg = p
          /\ worker'[w].stack = StackLeft(w)
      BY <2>3, <1>w DEF Others
    <3>2. f # s => frame[p].stack = s /\ OnTop(p)'
      BY <2>2, <2>4, <1>i, StacksShrink
    <3>3. frame'[p].stack = frame[p].stack
      BY <2>4 DEF Unstacked
    <3>4. OnTop(worker[w].arg)' = OnTop(p)'
      BY <3>1 DEF OnTop
    <3>5. OwnerAt(w)'
      BY <2>4, <3>1, <3>2, <3>3, <3>4 DEF OwnerAt, Executing
    <3> QED BY <3>1, <3>5
  <2> QED BY <2>1, <2>4, <1>s, <1>r
<1> QED BY <1>1, <1>2, <1>3, <1>4

-----------------------------------------------------------------------------
(* Nothing is on a stack yet.                                              *)
LEMMA InitStacks == Init => StackInv
<1> SUFFICES ASSUME Init PROVE StackInv
  OBVIOUS
<1>1. /\ \A f \in Frames : frame[f].st = "none" /\ mem[f] = <<>>
      /\ \A w \in Workers : worker[w].pc = "idle" /\ worker[w].stack = None
      /\ \A w \in Workers : deque[w] = <<>> /\ submit[w] = {}
      /\ mem = [f \in Frames |-> <<>>]
  BY DEF Init, Unused, Fresh, IdleOn
<1>2. StackTypes
  BY <1>1 DEF StackTypes
<1>3. StackShape /\ Children
  BY <1>1 DEF StackShape, Children
<1>4. Owners /\ OneReporter
  BY <1>1 DEF Owners, OneReporter, Executing
<1> QED BY <1>2, <1>3, <1>4 DEF StackInv

(* Every step keeps the stacks in order.                                   *)
LEMMA StepKeepsStacks == JoinInv /\ StealsFit /\ StackInv /\ [Next]_vars => StackInv'
<1> SUFFICES ASSUME JoinInv, StealsFit, StackInv, [Next]_vars PROVE StackInv'
  OBVIOUS
<1>s. Settled
  BY Settles
<1>1. CASE UNCHANGED vars
  <2> USE <1>1 DEF vars
  <2>1. StackTypes' /\ StackShape' /\ OneReporter'
    BY DEF StackInv, StackTypes, StackShape, OneReporter
  <2>2. \A g \in Frames : OnTop(g)' = OnTop(g)
    BY DEF OnTop, Top
  <2>3. Children'
    BY DEF StackInv, Children, Beside
  <2>4. Owners'
    BY <2>2 DEF StackInv, Owners, OnTop, Top
  <2> QED BY <2>1, <2>3, <2>4 DEF StackInv
<1>2. ASSUME NEW w \in Workers, Submit(w) PROVE StackInv'
  BY <1>s, <1>2, SubmitStep
<1>3. ASSUME NEW w \in Workers, FindWork(w) PROVE StackInv'
  <2>1. ASSUME NEW f \in submit[w], ResumeSubmitted(w, f) PROVE StackInv'
    BY <1>s, <2>1, ResumeStep
  <2>2. ASSUME NEW v \in Workers, Steal(w, v) PROVE StackInv'
    BY <1>s, <2>2, StealSteps
  <2> QED BY <1>3, <2>1, <2>2 DEF FindWork
<1>4. ASSUME NEW w \in Workers, Proceed(w) PROVE StackInv'
  <2>1. CASE Fork(w) \/ Call(w)
    BY <1>s, <2>1, ForkCallSteps
  <2>2. CASE Return(w) \/ CaptureException(w) \/ ConstructException(w) \/ JoinNotReady(w)
    BY <1>s, <2>2, GoesOnSteps
  <2>3. CASE FinalRoot(w) \/ FinalCall(w) \/ FinalForkPop(w) \/ FinalForkStolen(w)
    BY <1>s, <2>3, FinalSteps
  <2>4. CASE JoinReady(w) \/ JoinWins(w) \/ ReportWins(w)
    BY <1>s, <2>4, JoinSteps
  <2>5. CASE ReportLoses(w) \/ ReportReleases(w) \/ JoinParks(w) \/ SwitchReleases(w)
             \/ (SelfSteal(w) /\ deque[w] = <<>>)
    BY <1>s, <2>5, LetsGoSteps
  <2>6. CASE SelfSteal(w) /\ deque[w] # <<>>
    BY <1>s, <2>6, StealSteps
  <2>7. ASSUME NEW v \in Workers, Switch(w, v) PROVE StackInv'
    BY <1>s, <2>7, SwitchStep
  <2> QED BY <1>4, <2>1, <2>2, <2>3, <2>4, <2>5, <2>6, <2>7 DEF Proceed
<1> QED BY <1>1, <1>2, <1>3, <1>4 DEF Next

(* The stacks are always in order, until the counters wrap.                *)
LEMMA StacksAlways == Spec /\ []StealsFit => []StackInv
BY InitStacks, StepKeepsStacks, LinksAlways, PTL DEF Spec

(* What the workers find on their stacks and deques.                       *)
LEMMA StacksDiscipline == JoinInv /\ StealsFit /\ StackInv => WorkerDiscipline
<1> SUFFICES ASSUME JoinInv, StealsFit, StackInv PROVE WorkerDiscipline
  OBVIOUS
<1>s. Settled
  BY Settles
<1>i. Owners /\ OneReporter /\ Busy /\ Joins /\ StackTypes /\ StackShape
  BY <1>s DEF StackInv, Settled
<1>c. Control /\ ControlTypes
  BY DEF JoinInv, Linked
<1>1. OwnsStackUnlessStolen
  BY <1>i DEF OwnsStackUnlessStolen, Owners
<1>2. IdleWorkerIsClean
  BY <1>i, <1>c DEF IdleWorkerIsClean, Owners, Control
<1>3. StackHasOneUser
  <2> SUFFICES ASSUME NEW w \in Workers, NEW v \in Workers, w # v,
                      worker[w].stack = worker[v].stack, worker[w].stack # None,
                      worker[w].pc \notin {"release", "switch"}, worker[v].pc \notin {"release", "switch"}
               PROVE  FALSE
    BY DEF StackHasOneUser
  <2>1. \A u \in {w, v} : worker[u].pc \in Executing \/ worker[u].pc = "report"
    <3>1. \A u \in {w, v} : worker[u].pc \in Labels
      BY <1>c DEF ControlTypes
    <3>2. \A u \in {w, v} : worker[u].pc \notin {"idle", "selfsteal"}
      BY <1>i DEF Owners
    <3> QED BY <3>1, <3>2 DEF Labels, Executing
  <2>2. ASSUME NEW u \in Workers, worker[u].pc \in Executing, worker[u].stack # None
        PROVE  \E f \in Frames : /\ f = worker[u].f /\ frame[f].stack = worker[u].stack
                                 /\ Top(worker[u].stack) = f /\ Alone(f, u)
    <3>1. PICK f \in Frames : f = worker[u].f
      BY <2>2, <1>i DEF Busy
    <3>2. frame[f].steal = 0 /\ worker[u].stack = frame[f].stack /\ OnTop(f)
      BY <2>2, <3>1, <1>i DEF Owners
    <3>3. Alone(f, u)
      BY <2>2, <3>1, <3>2, <1>i DEF Joins
    <3> QED BY <3>1, <3>2, <3>3 DEF OnTop
  <2>3. ASSUME NEW u \in Workers, worker[u].pc = "report", worker[u].stack # None
        PROVE  Top(worker[u].stack) = worker[u].arg
    BY <2>3, <1>i DEF Owners, OnTop
  <2>4. ASSUME NEW x \in Workers, NEW y \in Workers, x # y, worker[x].pc \in Executing, worker[y].pc = "report",
               worker[x].stack = worker[y].stack, worker[x].stack # None
        PROVE  FALSE
    <3>1. PICK f \in Frames : Top(worker[x].stack) = f /\ Alone(f, x)
      BY <2>4, <2>2
    <3>2. worker[y].arg = f
      BY <2>3, <2>4, <3>1
    <3> QED BY <2>4, <3>1, <3>2 DEF Alone
  <2>5. CASE worker[w].pc \in Executing /\ worker[v].pc \in Executing
    <3>1. worker[w].f = Top(worker[w].stack) /\ worker[v].f = Top(worker[v].stack)
      BY <2>2, <2>5
    <3> QED BY <2>5, <3>1, <1>i DEF Busy
  <2>6. CASE worker[w].pc = "report" /\ worker[v].pc = "report"
    BY <2>6, <1>i DEF OneReporter
  <2> QED BY <2>1, <2>4, <2>5, <2>6
<1>4. FramesEndOnTop
  <2> SUFFICES ASSUME NEW w \in Workers, worker[w].pc \in {"construct", "final"}
               PROVE  /\ worker[w].stack # None /\ mem[worker[w].stack] # <<>>
                      /\ Last(mem[worker[w].stack]) = worker[w].f
    BY DEF FramesEndOnTop
  <2>1. PICK f \in Frames : f = worker[w].f /\ frame[f].st = "live"
    BY <1>i DEF Busy, Executing
  <2>2. worker[w].stack = frame[f].stack /\ OnTop(f)
    BY <2>1, <1>i DEF Owners, Joins, Executing
  <2>3. frame[f].stack \in Frames
    BY <2>1, <1>i DEF StackShape
  <2> QED BY <2>1, <2>2, <2>3 DEF OnTop, Top, Last, Frames, None
<1>5. PopFindsParent
  BY LinksPop
<1> QED BY <1>1, <1>2, <1>3, <1>4, <1>5 DEF WorkerDiscipline

(* The types, with what the queues and the stacks hold.                    *)
LEMMA StacksTypes == JoinInv /\ StealsFit /\ StackInv => TypeOK
<1> SUFFICES ASSUME JoinInv, StealsFit, StackInv PROVE TypeOK
  OBVIOUS
<1>0. PICK at, who, pos, base : Linked(at, who, pos, base)
  BY DEF JoinInv
<1>t. FrameTypes /\ ControlTypes /\ Placed(at, who, pos)
  BY <1>0 DEF Linked
<1>i. Queues /\ StackTypes /\ StackShape
  BY Settles DEF StackInv, Settled
<1>1. frame \in [Frames -> [st : {"none", "live", "done"}, parent : 0..MaxFrames,
                             kind : {"root", "fork", "call"}, stack : 0..MaxFrames,
                             steal : 0..CounterMax, join : 0..CounterMax,
                             exc : {"none", "flag", "set"}, open : BOOLEAN,
                             last : 0..MaxFrames, pre : 0..CounterMax]]
  BY <1>t DEF FrameTypes, FrameRec, Kinds
<1>2. worker \in [Workers -> [pc : Executing \union {"idle", "report", "release", "selfsteal", "switch"},
                              f : 0..MaxFrames, arg : Nat, stack : 0..MaxFrames]]
  <2>1. Labels = Executing \union {"idle", "report", "release", "selfsteal", "switch"}
    BY DEF Labels, Executing
  <2> QED BY <2>1, <1>t DEF ControlTypes
<1>3. ASSUME NEW w \in Workers PROVE IsInjective(deque[w]) /\ ToSet(deque[w]) \subseteq Live
  <2>1. deque[w] \in Seq(Frames) /\ DOMAIN deque[w] = 1..Len(deque[w])
    BY <1>t DEF ControlTypes
  <2>2. \A i, k \in 1..Len(deque[w]) : deque[w][i] = deque[w][k] => i = k
    BY <1>i DEF Queues
  <2>3. \A i \in 1..Len(deque[w]) : deque[w][i] \in Live
    BY <1>i DEF Queues, Live
  <2> QED BY <2>1, <2>2, <2>3 DEF IsInjective, ToSet
<1>4. submit \in [Workers -> SUBSET Live]
  BY <1>t, <1>i DEF ControlTypes, Queues, Live
<1>5. ASSUME NEW s \in Frames PROVE IsInjective(mem[s]) /\ ToSet(mem[s]) \subseteq Live
  <2>1. mem[s] \in Seq(Frames) /\ DOMAIN mem[s] = 1..Len(mem[s])
    BY <1>i DEF StackTypes
  <2>2. \A i, k \in 1..Len(mem[s]) : mem[s][i] = mem[s][k] => i = k
    BY <1>i DEF StackShape
  <2>3. \A i \in 1..Len(mem[s]) : mem[s][i] \in Live
    BY <2>1, <1>i DEF StackShape, Live
  <2> QED BY <2>1, <2>2, <2>3 DEF IsInjective, ToSet
<1>6. parked \subseteq Live
  BY <1>t DEF ControlTypes, Placed, ParkPlaces, LiveIsPlaced, Live
<1>7. created \in 0..MaxFrames
  BY <1>t DEF ControlTypes
<1> QED BY <1>1, <1>2, <1>3, <1>4, <1>5, <1>6, <1>7 DEF TypeOK

(***************************************************************************)
(* The theorems.                                                           *)
(***************************************************************************)
(* A program that creates fewer frames than the 16 bit counters can count  *)
(* (MaxFrames of them at most) never wraps them: the hypothesis of the     *)
(* theorems below is one about very large scopes only.                     *)
THEOREM SmallProgramsFit ==
    ASSUME MaxFrames + 1 < CounterMax
    PROVE  Spec => []StealsFit
<1>1. Init => JoinInv /\ FewSteals
  <2> SUFFICES ASSUME Init PROVE FewSteals
    BY InitLinks
  <2>1. /\ created = 0 /\ \A w \in Workers : deque[w] = <<>>
        /\ \A f \in Frames : frame[f].steal = 0
    BY DEF Init, Unused, Fresh
  <2>2. \A f \in Frames : ~OnDeque(f)
    BY <2>1 DEF OnDeque
  <2> QED BY <2>1, <2>2 DEF FewSteals
<1>2. JoinInv /\ FewSteals /\ [Next]_vars => (JoinInv /\ FewSteals)'
  <2> SUFFICES ASSUME JoinInv, FewSteals, [Next]_vars PROVE JoinInv' /\ FewSteals'
    OBVIOUS
  <2>1. StealsFit
    BY FewStealsFit
  <2> QED BY <2>1, StepKeepsLinks, FewStealsStep
<1>3. JoinInv /\ FewSteals => StealsFit
  BY FewStealsFit
<1> QED BY <1>1, <1>2, <1>3, PTL DEF Spec

(* OnePlace: a frame that has not ended is in exactly one place, whoever   *)
(* forks, steals, joins, switches or throws: it is never resumed twice and *)
(* never forgotten.                                                        *)
THEOREM FramesHaveOnePlace == Spec /\ []StealsFit => []OnePlace
BY LinksAlways, LinksOnePlace, PTL

(* CountersAccountForChildren: m_steal and m_join always say how many      *)
(* children are missing, before the join, at it and while it is awaited.   *)
THEOREM CountersAreRight == Spec /\ []StealsFit => []CountersAccountForChildren
BY LinksAlways, LinksCounters, PTL

(* JoinIsSafe: past its join a frame has no child left, the child that     *)
(* sees m_join at 1 resumes a parent that waits, a sync fork that saw no   *)
(* steal has its result, and no exception is rethrown while it is being    *)
(* stored.                                                                 *)
THEOREM JoinsAreSafe == Spec /\ []StealsFit => []JoinIsSafe
<1>1. JoinInv /\ StealsFit => JoinIsSafe
  BY LinksWait, LinksLastChild, LinksSyncFork, LinksException DEF JoinIsSafe
<1> QED BY <1>1, LinksAlways, PTL

(* PopFindsParent: LF_ASSERT(parent_task == parent) in final_await_suspend *)
(* never fails.                                                            *)
THEOREM PopsFindTheParent == Spec /\ []StealsFit => []PopFindsParent
BY LinksAlways, LinksPop, PTL

(* WorkerDiscipline: a worker has the stack of the frame it runs exactly   *)
(* if that frame has not been stolen since its last join (the assertions   *)
(* of context_switch_awaitable and take_stack_reset_frame), an idle worker *)
(* has neither a stack nor continuations (those of resume()), no two       *)
(* workers work on one stack, and every frame is destroyed by the worker   *)
(* on whose stack it is the top.                                           *)
THEOREM WorkersKeepDiscipline == Spec /\ []StealsFit => []WorkerDiscipline
BY LinksAlways, StacksAlways, StacksDiscipline, PTL

(* TypeOK: the fields have their values, and only frames that have not     *)
(* ended are queued, parked or on a stack, each once.                      *)
THEOREM TypesAreRight == Spec /\ []StealsFit => []TypeOK
BY LinksAlways, StacksAlways, StacksTypes, PTL
=============================================================================

----------------------------- MODULE Algorithms -----------------------------
(***************************************************************************)
(* The parallel algorithms of libfork/algorithm: for_each, map, fold and   *)
(* the two sweeps of scan, as trees of tasks.                              *)
(*                                                                         *)
(* A task that forks either goes on when its child has ended (nobody stole *)
(* its continuation) or goes on at once, next to the child (somebody did). *)
(* For scan the difference decides which algorithm the rest uses. Chunks   *)
(* and combinations are single steps; whether two of them that may run at  *)
(* the same time touch the same element is a property of its own.          *)
(*                                                                         *)
(* What the user's functions compute is abstracted to what may be said of  *)
(* any associative operation: a value is a range of elements, in order,    *)
(* and whether the projection was applied; combining two is defined for    *)
(* adjacent ranges only.                                                   *)
(***************************************************************************)
EXTENDS Integers, Sequences, FiniteSets

CONSTANTS
    MaxLen,    \* bound: length of the input
    MaxChunk,  \* bound: chunk size n
    MaxThrow   \* bound: calls of user functions that throw

ASSUME BoundAssumption == MaxLen \in Nat /\ MaxChunk \in Nat \ {0} /\ MaxThrow \in Nat

VARIABLES
    alg,      \* "for_each", "map", "fold" or "scan"
    len,      \* length of the input
    n,        \* chunk size
    inplace,  \* the output is the input
    async,    \* the binary operation is a task
    unset,    \* an iterator that was not assigned may equal any other (a pointer)
    mem,      \* the elements: cells <<"in", i>> and <<"out", i>>
    frames,   \* the tasks that have been created and have not ended
    thrown,   \* how often a user function has thrown
    outcome   \* what the root task returned

config == <<alg, len, n, inplace, async, unset>>
vars == <<config, mem, frames, thrown, outcome>>

-----------------------------------------------------------------------------
(* Values.                                                                 *)
Bad == [lo |-> 0, hi |-> 0, proj |-> 2]
None == [lo |-> 0, hi |-> 0, proj |-> 3]
Thrown == [lo |-> 0, hi |-> 0, proj |-> 4]
Element(i) == [lo |-> i, hi |-> i + 1, proj |-> 0]

Apply(v) == IF v.proj = 0 THEN [v EXCEPT !.proj = 1] ELSE Bad
Bop(a, b) == IF a.proj = 1 /\ b.proj = 1 /\ a.hi = b.lo
             THEN [lo |-> a.lo, hi |-> b.hi, proj |-> 1] ELSE Bad

InCell(i) == <<"in", i>>
OutCell(i) == IF inplace THEN <<"in", i>> ELSE <<"out", i>>
In(i) == mem[InCell(i)]
Out(i) == mem[OutCell(i)]
Cells(Cell(_), b, e) == {Cell(i) : i \in b..(e - 1)}

(* acc = bop(acc, proj( *beg )) up to and including element i.               *)
Accumulate(init, b, i) ==
    LET acc[k \in (b - 1)..i] == IF k < b THEN init ELSE Bop(acc[k - 1], Apply(In(k)))
    IN  acc[i]
FoldOf(b, i) == Accumulate(Apply(In(b)), b + 1, i)

-----------------------------------------------------------------------------
(* A task is known by its function and its range. It has the frame that    *)
(* created it and how (fork, call or just), its template arguments, where  *)
(* it is, what its children returned and whether its frame holds an        *)
(* exception.                                                              *)
Task(fn, b, e) == [fn |-> fn, beg |-> b, end |-> e]
NoTask == Task("none", 0, 0)

Frame(par, how, ival, op, scan_end) ==
    [par |-> par, how |-> how, ival |-> ival, op |-> op, scan_end |-> scan_end,
     pc |-> "start", ready |-> FALSE, left |-> None, right |-> None, exc |-> FALSE]

Size(t) == t.end - t.beg
Mid(t) == t.beg + Size(t) \div 2

l_child_of(ival) == IF ival \in {"all", "lhs"} THEN "lhs" ELSE "mid"
r_child_of(ival) == IF ival \in {"all", "rhs"} THEN "rhs" ELSE "mid"

(* MUTANT of IsLeaf: divides a range of the size of a chunk.               *)
BugStrictChunk(t) == t.fn \in {"tree", "rise", "fall_impl"} /\ Size(t) < n

IsLeaf(t) == t.fn \in {"tree", "rise", "fall_impl"} /\ Size(t) <= n

(* The children: fall_sweep recurses to the left and starts the actual     *)
(* sweep on the right; the others recurse on both sides.                   *)
LeftOf(t) == Task(t.fn, t.beg, Mid(t))
RightOf(t) == Task(IF t.fn = "fall" THEN "fall_impl" ELSE t.fn, Mid(t), t.end)

-----------------------------------------------------------------------------
(* Chunks. Those of rise_sweep: a fold writes its result where its right   *)
(* sibling looks for it; the rightmost one has no such sibling.            *)
RiseLeaf(t, f) ==
    LET b == t.beg
        last == t.end - 1
        fromLeft == f.ival \in {"mid", "rhs"}
    IN  IF f.op = "fold"
        THEN IF f.ival = "mid" THEN [mem EXCEPT ![OutCell(last)] = FoldOf(b, last)] ELSE mem
        ELSE [c \in DOMAIN mem |->
                IF c \in Cells(OutCell, b, t.end)
                THEN IF fromLeft THEN Accumulate(Out(b - 1), b, c[2]) ELSE FoldOf(b, c[2])
                ELSE mem[c]]

(* MUTANT of FallEnd: also goes over the last element of an inner chunk.   *)
BugSweepsLast(t, f) == t.end

(* fall_sweep_impl: the last element of a chunk already is what it is to   *)
(* be, except in the rightmost chunk.                                      *)
FallEnd(t, f) == IF f.ival = "rhs" THEN t.end ELSE t.end - 1
FallLeaf(t, f) ==
    [c \in DOMAIN mem |->
        IF c \in Cells(OutCell, t.beg, FallEnd(t, f))
        THEN Accumulate(Out(t.beg - 1), t.beg, c[2]) ELSE mem[c]]

(* for_each and map; fold keeps its result to itself.                      *)
TreeLeaf(t) ==
    IF alg = "fold" THEN mem
    ELSE [c \in DOMAIN mem |->
            IF c \in Cells(OutCell, t.beg, t.end) THEN Apply(In(c[2])) ELSE mem[c]]

Leaf(t, f) == CASE t.fn = "rise"      -> RiseLeaf(t, f)
                [] t.fn = "fall_impl" -> FallLeaf(t, f)
                [] t.fn = "tree"      -> TreeLeaf(t)

(* What a chunk returns: the end of the range scanned, or the fold.        *)
ScanEnd(i) == [lo |-> 0, hi |-> i, proj |-> 0]
LeafValue(t, f) ==
    IF t.fn = "rise" /\ f.op = "scan" THEN ScanEnd(t.end)
    ELSE IF t.fn = "tree" /\ alg = "fold" THEN FoldOf(t.beg, t.end - 1)
    ELSE None

(* After the join: rise_sweep combines into the right child's last         *)
(* element, for its own right sibling.                                     *)
Combines(t, f) == t.fn = "rise" /\ f.ival \in {"lhs", "mid"}
Combine(t, f) ==
    IF Combines(t, f)
    THEN [mem EXCEPT ![OutCell(t.end - 1)] = Bop(Out(Mid(t) - 1), @)]
    ELSE mem
JoinValue(t, f) ==
    IF t.fn = "rise" /\ f.op = "scan" THEN f.left
    ELSE IF t.fn = "tree" /\ alg = "fold" THEN Bop(f.left, f.right)
    ELSE None

-----------------------------------------------------------------------------
(* A task returns, or throws: its frame goes and its parent's takes note.  *)
(* The exception of a forked or called child is captured in the parent's   *)
(* frame until the join, whatever the modifier of the fork or the call;    *)
(* just() rethrows it.                                                     *)
Return(t, val) ==
    LET f == frames[t]
        rest == [u \in DOMAIN frames \ {t} |-> frames[u]]
        p == f.par
        exc == val = Thrown
        Noted(g) ==
            CASE f.how = "fork" ->
                   [g EXCEPT !.left = IF exc THEN None ELSE val, !.exc = @ \/ exc,
                             !.ready = g.pc = "forked",
                             !.pc = IF g.pc = "forked" THEN "call" ELSE @]
              [] f.how = "call" -> [g EXCEPT !.right = val, !.exc = @ \/ exc, !.pc = "join"]
              [] f.how = "just" -> [g EXCEPT !.right = val, !.pc = "return"]
    IN  IF p = NoTask
        THEN frames' = rest /\ outcome' = val
        ELSE /\ frames' = IF p \in DOMAIN rest THEN [rest EXCEPT ![p] = Noted(@)] ELSE rest
             /\ UNCHANGED outcome

Start(t, f, child, g) == frames' = [u \in DOMAIN frames \union {child} |->
                                       IF u = child THEN g ELSE IF u = t THEN f ELSE frames[u]]

LeftEnded(t) == LeftOf(t) \notin DOMAIN frames

-----------------------------------------------------------------------------
Init ==
    /\ alg \in {"for_each", "map", "fold", "scan"}
    /\ len \in 0..MaxLen /\ n \in 1..MaxChunk
    /\ inplace \in (IF alg \in {"map", "scan"} THEN BOOLEAN ELSE {alg = "for_each"})
    /\ async \in (IF alg \in {"fold", "scan"} THEN BOOLEAN ELSE {FALSE})
    /\ unset \in (IF alg = "scan" THEN BOOLEAN ELSE {FALSE})
    /\ mem = [c \in {"in", "out"} \X (0..(len - 1)) |-> IF c[1] = "in" THEN Element(c[2]) ELSE None]
    /\ frames = [t \in {Task(IF alg = "scan" THEN "scan" ELSE "tree", 0, len)} |->
                    Frame(NoTask, "just", "all", "scan", 0)]
    /\ thrown = 0
    /\ outcome = Bad

(* An empty input.                                                         *)
EarlyExit(t) ==
    /\ frames[t].pc = "start" /\ t.fn \in {"tree", "scan"} /\ Size(t) = 0
    /\ Return(t, None)
    /\ UNCHANGED <<config, mem, thrown>>

RunChunk(t) ==
    /\ frames[t].pc = "start" /\ IsLeaf(t) /\ Size(t) > 0
    /\ mem' = Leaf(t, frames[t])
    /\ Return(t, LeafValue(t, frames[t]))
    /\ UNCHANGED <<config, thrown>>

(* fall_sweep_impl adds what is to the left of the range to the left       *)
(* child's reduction before it divides.                                    *)
Propagate(t) ==
    /\ frames[t].pc = "start" /\ t.fn = "fall_impl" /\ ~IsLeaf(t)
    /\ mem' = [mem EXCEPT ![OutCell(Mid(t) - 1)] = Bop(Out(t.beg - 1), @)]
    /\ frames' = [frames EXCEPT ![t].pc = "fork"]
    /\ UNCHANGED <<config, thrown, outcome>>

(* Where a task comes to its fork: fall_sweep only if the scan stopped in  *)
(* the left half.                                                          *)
Divides(t, f) ==
    \/ f.pc = "start" /\ t.fn \in {"tree", "rise"} /\ ~IsLeaf(t)
    \/ f.pc = "fork"
    \/ f.pc = "start" /\ t.fn = "fall" /\ f.scan_end < Mid(t)

Fork(t, stolen) ==
    LET f == frames[t] IN
    /\ Divides(t, f)
    /\ Start(t, [f EXCEPT !.pc = IF stolen THEN "call" ELSE "forked"],
             LeftOf(t), Frame(t, "fork", l_child_of(f.ival), f.op, f.scan_end))
    /\ UNCHANGED <<config, mem, thrown, outcome>>

(* The fork of a scan tells whether the child has ended. It does not tell  *)
(* whether it threw: left_out may not have been assigned.                  *)
SyncFork(t, f) == t.fn = "rise" /\ f.op = "scan" /\ f.ready

(* MUTANT of Fuses: does not ask how far the left child has scanned.       *)
BugFusesWhenReady(t, f, stale) == SyncFork(t, f)

(* The left half is scanned to its end, so the right one can be a scan.    *)
Fuses(t, f, stale) ==
    SyncFork(t, f) /\ IF f.left = None THEN stale ELSE f.left = ScanEnd(Mid(t))

Call(t, stale) ==
    LET f == frames[t] IN
    /\ f.pc = "call"
    /\ IF Fuses(t, f, stale)
       THEN Start(t, [f EXCEPT !.pc = "just"], RightOf(t),
                  Frame(t, "just", r_child_of(f.ival), "scan", 0))
       ELSE Start(t, [f EXCEPT !.pc = "right"], RightOf(t),
                  Frame(t, "call", r_child_of(f.ival), "fold", 0))
    /\ UNCHANGED <<config, mem, thrown, outcome>>

(* MUTANT of Join: an exception of the right child is not kept for later.  *)
BugNoCatch(t) ==
    LET f == frames[t] IN
    /\ f.pc = "join"
    /\ LeftEnded(t) \/ f.exc
    /\ mem' = IF f.exc THEN mem ELSE Combine(t, f)
    /\ Return(t, IF f.exc THEN Thrown ELSE JoinValue(t, f))
    /\ UNCHANGED <<config, thrown>>

(* co_await join, with the combination after it.                           *)
Join(t) ==
    LET f == frames[t] IN
    /\ f.pc = "join" /\ LeftEnded(t)
    /\ mem' = IF f.exc THEN mem ELSE Combine(t, f)
    /\ Return(t, IF f.exc THEN Thrown ELSE JoinValue(t, f))
    /\ UNCHANGED <<config, thrown>>

(* fall_sweep when the left half is all scanned: the right half is swept,  *)
(* or the scan stopped in it.                                              *)
FallRight(t) ==
    LET f == frames[t] IN
    /\ f.pc = "start" /\ t.fn = "fall" /\ f.scan_end >= Mid(t)
    /\ Start(t, [f EXCEPT !.pc = "just"],
             IF f.scan_end = Mid(t) THEN RightOf(t) ELSE Task("fall", Mid(t), t.end),
             Frame(t, "just", r_child_of(f.ival), "fold", f.scan_end))
    /\ UNCHANGED <<config, mem, thrown, outcome>>

(* co_return co_await just(...): what else the frame holds is dropped.      *)
ReturnJust(t) ==
    /\ frames[t].pc = "return" /\ t.fn # "scan"
    /\ Return(t, frames[t].right)
    /\ UNCHANGED <<config, mem, thrown>>

(* scan_impl: rise_sweep, then fall_sweep if that did not scan everything. *)
RiseSweep(t) ==
    /\ t.fn = "scan" /\ Size(t) > 0 /\ frames[t].pc = "start"
    /\ Start(t, [frames[t] EXCEPT !.pc = "just"], Task("rise", t.beg, t.end),
             Frame(t, "just", "all", "scan", 0))
    /\ UNCHANGED <<config, mem, thrown, outcome>>

Scanned(f) == f.right \in {Thrown, None, ScanEnd(len)}

FallSweep(t) ==
    /\ t.fn = "scan" /\ frames[t].pc = "return" /\ ~Scanned(frames[t])
    /\ Start(t, [frames[t] EXCEPT !.pc = "just"], Task("fall", t.beg, t.end),
             Frame(t, "just", "all", "fold", frames[t].right.hi))
    /\ UNCHANGED <<config, mem, thrown, outcome>>

ScanReturns(t) ==
    /\ t.fn = "scan" /\ frames[t].pc = "return" /\ Scanned(frames[t])
    /\ Return(t, IF frames[t].right = Thrown THEN Thrown ELSE None)
    /\ UNCHANGED <<config, mem, thrown>>

-----------------------------------------------------------------------------
(* A task about to call user functions, with the cells it reads and writes. *)
Reads(t, f) ==
    LET Chunk == Cells(InCell, t.beg, t.end)
        Before == IF f.ival \in {"mid", "rhs"} THEN {OutCell(t.beg - 1)} ELSE {}
    IN  CASE f.pc = "start" /\ IsLeaf(t) /\ t.fn = "tree" -> Chunk
          [] f.pc = "start" /\ IsLeaf(t) /\ t.fn = "rise" ->
               IF f.op = "scan" THEN Chunk \union Before
               ELSE IF f.ival = "mid" THEN Chunk ELSE {}
          [] f.pc = "start" /\ IsLeaf(t) /\ t.fn = "fall_impl" ->
               Cells(InCell, t.beg, FallEnd(t, f)) \union Before
          [] f.pc = "start" /\ ~IsLeaf(t) /\ t.fn = "fall_impl" ->
               {OutCell(t.beg - 1), OutCell(Mid(t) - 1)}
          [] f.pc = "join" /\ LeftEnded(t) /\ ~f.exc /\ Combines(t, f) ->
               {OutCell(Mid(t) - 1), OutCell(t.end - 1)}
          [] OTHER -> {}

Writes(t, f) ==
    CASE f.pc = "start" /\ IsLeaf(t) /\ t.fn = "tree" ->
           IF alg = "fold" THEN {} ELSE Cells(OutCell, t.beg, t.end)
      [] f.pc = "start" /\ IsLeaf(t) /\ t.fn = "rise" ->
           IF f.op = "scan" THEN Cells(OutCell, t.beg, t.end)
           ELSE IF f.ival = "mid" THEN {OutCell(t.end - 1)} ELSE {}
      [] f.pc = "start" /\ IsLeaf(t) /\ t.fn = "fall_impl" ->
           Cells(OutCell, t.beg, FallEnd(t, f))
      [] f.pc = "start" /\ ~IsLeaf(t) /\ t.fn = "fall_impl" -> {OutCell(Mid(t) - 1)}
      [] f.pc = "join" /\ LeftEnded(t) /\ ~f.exc /\ Combines(t, f) -> {OutCell(t.end - 1)}
      [] OTHER -> {}

(* A user function throws and the task ends with its exception: the        *)
(* projection, or a binary operation that is no task or is called through  *)
(* just().                                                                 *)
Combining(t, f) == f.pc = "join" /\ LeftEnded(t) /\ ~f.exc

Throw(t) ==
    LET f == frames[t] IN
    /\ thrown < MaxThrow
    /\ \/ Reads(t, f) # {} /\ (async => IsLeaf(t) /\ f.pc = "start")
       \/ alg = "fold" /\ Combining(t, f)
    /\ thrown' = thrown + 1
    /\ Return(t, Thrown)
    /\ UNCHANGED <<config, mem>>

(* A binary operation that is a task throws. The call does not rethrow, so *)
(* the task goes on, with a moved-from accumulator, and the exception      *)
(* stays in its frame: for a join, or for good. The results that took a    *)
(* call of bop are spoilt.                                                 *)
Spoilt(m) == [c \in DOMAIN m |-> IF m[c] \in {mem[c], Apply(In(c[2]))} THEN m[c] ELSE Bad]

ChunkDropsException(t) ==
    LET f == frames[t]
        after == Leaf(t, f)
    IN
    /\ async /\ thrown < MaxThrow
    /\ f.pc = "start" /\ IsLeaf(t) /\ Size(t) > 0
    /\ (alg = "fold" /\ Size(t) > 1) \/ Spoilt(after) # after
    /\ mem' = Spoilt(after)
    /\ Return(t, IF alg = "fold" THEN Bad ELSE LeafValue(t, f))
    /\ thrown' = thrown + 1
    /\ UNCHANGED config

PropagateKeepsException(t) ==
    /\ async /\ thrown < MaxThrow
    /\ frames[t].pc = "start" /\ t.fn = "fall_impl" /\ ~IsLeaf(t)
    /\ mem' = [mem EXCEPT ![OutCell(Mid(t) - 1)] = Bad]
    /\ frames' = [frames EXCEPT ![t].pc = "fork", ![t].exc = TRUE]
    /\ thrown' = thrown + 1
    /\ UNCHANGED <<config, outcome>>

CombineDropsException(t) ==
    LET f == frames[t] IN
    /\ async /\ thrown < MaxThrow
    /\ Combining(t, f) /\ Combines(t, f)
    /\ mem' = [mem EXCEPT ![OutCell(t.end - 1)] = Bad]
    /\ Return(t, JoinValue(t, f))
    /\ thrown' = thrown + 1
    /\ UNCHANGED config

Step(t) ==
    \/ EarlyExit(t) \/ RunChunk(t) \/ Propagate(t)
    \/ \E stolen \in BOOLEAN : Fork(t, stolen)
    \/ \E stale \in {FALSE, unset} : Call(t, stale)
    \/ Join(t) \/ FallRight(t) \/ ReturnJust(t)
    \/ RiseSweep(t) \/ FallSweep(t) \/ ScanReturns(t)

Failure(t) ==
    \/ Throw(t) \/ ChunkDropsException(t)
    \/ PropagateKeepsException(t) \/ CombineDropsException(t)

Next == \E t \in DOMAIN frames : Step(t) \/ Failure(t)

(* Tasks make progress as ForkJoin shows.                                  *)
Spec == Init /\ [][Next]_vars /\ WF_vars(Next)

-----------------------------------------------------------------------------
Ended == DOMAIN frames = {}

(* The result is that of the sequential algorithm, for every division into *)
(* chunks and every pattern of steals: each element is projected or        *)
(* visited exactly once, in-place or not, and combined in order without    *)
(* relying on commutativity.                                               *)
ResultIsSequential ==
    Ended /\ thrown = 0 =>
        CASE alg = "fold" -> outcome = IF len = 0 THEN None
                                           ELSE [lo |-> 0, hi |-> len, proj |-> 1]
          [] alg = "scan" -> \A i \in 0..(len - 1) : Out(i) = [lo |-> 0, hi |-> i + 1, proj |-> 1]
          [] OTHER        -> \A i \in 0..(len - 1) : Out(i) = [lo |-> i, hi |-> i + 1, proj |-> 1]

(* No two tasks that may run at the same time touch the same element       *)
(* unless both only read it. (The sweeps leave the last element of a chunk *)
(* to the tasks on its right.)                                             *)
NoRace ==
    \A t, u \in DOMAIN frames :
        t # u => Writes(t, frames[t]) \intersect
                    (Reads(u, frames[u]) \union Writes(u, frames[u])) = {}

(* A task's frame outlives its children, also when one of them or a chunk  *)
(* of its own throws: the references they have to the parent's locals and  *)
(* to the user's functions stay valid, and when the algorithm returns      *)
(* nothing of it is still running.                                         *)
ChildrenEndFirst == \A t \in DOMAIN frames : frames[t].par \in DOMAIN frames \union {NoTask}

(* "the child's exception will be rethrown" (control_flow.hpp, of the      *)
(* modifiers the algorithms use): the algorithm throws exactly if a user   *)
(* function has thrown.                                                    *)
ExceptionsArrive == Ended => (outcome = Thrown <=> thrown > 0)

(* What exceptions may never do: end a task early or, as long as the       *)
(* binary operation is no task and iterators have a value of their own,    *)
(* get lost.                                                               *)
ExceptionsAreContained == ChildrenEndFirst /\ (async \/ unset \/ ExceptionsArrive)

(* Every algorithm comes to its end.                                       *)
Terminates == <>Ended
=============================================================================

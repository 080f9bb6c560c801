------------------------------ MODULE WorkDeque ------------------------------
(***************************************************************************)
(* What a work-stealing deque of libfork promises, whichever of the three  *)
(* implementations `deque.hpp' selects (Chase-Lev, Lace or the lock-based  *)
(* one).  There is one owner, which pushes and pops at the back, and any   *)
(* number of thieves, which steal at the front.  The n-th push carries the *)
(* item n, so items are pairwise distinct.                                 *)
(*                                                                         *)
(*  - A push makes its item the newest one of the deque.                   *)
(*  - A pop takes the newest item, and may report `when_empty' only in a   *)
(*    state in which there is nothing left to take.                        *)
(*  - A steal takes the oldest item, or fails and takes nothing (it may    *)
(*    fail although there are items: err::lost, err::empty).               *)
(*                                                                         *)
(* Nothing else may happen to an item: none is lost, duplicated or made    *)
(* up.                                                                     *)
(***************************************************************************)
EXTENDS Naturals, Bags, Sequences, SequencesExt

VARIABLES
    items,    \* the items in the deque, oldest first
    pushed,   \* the number of items pushed so far
    taken,    \* the items handed to a popper or a thief, as often as they were
    popped    \* what the last pop returned: an item, or Empty

Empty == 0

vars == <<items, pushed, taken, popped>>

Init ==
    /\ items = <<>>
    /\ pushed = 0
    /\ taken = EmptyBag
    /\ popped = Empty

Push ==
    /\ pushed' = pushed + 1
    /\ items' = Append(items, pushed + 1)
    /\ UNCHANGED <<taken, popped>>

Pop ==
    /\ items # <<>>
    /\ items' = Front(items)
    /\ popped' = Last(items)
    /\ taken' = taken (+) SetToBag({Last(items)})
    /\ UNCHANGED pushed

PopEmpty ==
    /\ items = <<>>
    /\ popped' = Empty
    /\ UNCHANGED <<items, pushed, taken>>

Steal ==
    /\ items # <<>>
    /\ items' = Tail(items)
    /\ taken' = taken (+) SetToBag({Head(items)})
    /\ UNCHANGED <<pushed, popped>>

Next == Push \/ Pop \/ PopEmpty \/ Steal

Spec == Init /\ [][Next]_vars
=============================================================================

------------------------------ MODULE BlockPool -----------------------------
(***************************************************************************)
(* What the calculator may expect of its memory, with no free list in it:  *)
(* whoever asks for n blocks gets n consecutive blocks nobody else has,    *)
(* wherever they are, and is refused only when there is no such run; what  *)
(* is given back is available at once.  The process may end at any call.   *)
(***************************************************************************)
EXTENDS Integers, FiniteSets

CONSTANTS Ram, Heap, Sizes

VARIABLES owned,     \* first block -> size
          border,    \* first block of the program area
          refused,   \* the last request was refused
          ended

poolVars == <<owned, border, refused, ended>>

Extent(a, n) == a..(a + (IF n = 0 THEN 1 ELSE n) - 1)
Taken == UNION {Extent(a, owned[a]) : a \in DOMAIN owned}
Fits(a, n) == Extent(a, n) \subseteq Heap..(border - 1) /\ Extent(a, n) \cap Taken = {}

With(sizes, a, n) == [b \in {a} \cup DOMAIN sizes |-> IF b = a THEN n ELSE sizes[b]]
Without(sizes, a) == [b \in DOMAIN sizes \ {a} |-> sizes[b]]

PoolInit ==
    /\ owned = <<>> /\ border = Ram - 1 /\ refused = FALSE /\ ended = FALSE

Grant(a, n) ==
    /\ Fits(a, n)
    /\ owned' = With(owned, a, n)
    /\ refused' = FALSE
    /\ UNCHANGED <<border, ended>>

Refuse(n) ==
    /\ \A a \in Heap..(Ram - 1) : ~Fits(a, n)
    /\ refused' = TRUE
    /\ UNCHANGED <<owned, border, ended>>

GiveBack(a) ==
    /\ owned' = Without(owned, a)
    /\ UNCHANGED <<border, refused>>

ShrinkInPlace(a, n) ==
    /\ n \in 1..(owned[a] - 1)
    /\ owned' = [owned EXCEPT ![a] = n]
    /\ UNCHANGED <<border, refused>>

Move(a, b, n) ==
    /\ Fits(b, n)
    /\ owned' = With(Without(owned, a), b, n)
    /\ refused' = FALSE
    /\ UNCHANGED border

(* The program area takes blocks only of the heap's free ones. *)
MoveBorder(b) ==
    /\ Heap..(Ram - 1) \cap Taken \subseteq 0..(b - 1)
    /\ border' = b
    /\ UNCHANGED <<owned, refused, ended>>

PoolNext ==
    /\ ~ended
    /\ \/ \E a \in Heap..(Ram - 1), n \in Sizes : Grant(a, n)
       \/ \E n \in Sizes : Refuse(n)
       \/ /\ ended' \in BOOLEAN
          /\ \E a \in DOMAIN owned :
               \/ GiveBack(a)
               \/ \E n \in Sizes : ShrinkInPlace(a, n)
               \/ \E b \in Heap..(Ram - 1), n \in Sizes : Move(a, b, n)
       \/ \E b \in Heap..(Ram - 1) : MoveBorder(b)
       \/ ended' = TRUE /\ UNCHANGED <<owned, border, refused>>

PoolSpec == PoolInit /\ [][PoolNext]_poolVars
=============================================================================

------------------------------ MODULE CallStack ------------------------------
(***************************************************************************)
(* What the program engine promises of its subroutines: a stack of return  *)
(* places.  A call remembers the place it is made at, and a return goes on *)
(* right after it.  The solver remembers, besides, the place it is at when *)
(* it takes a sample of its function, and afterwards the program is there  *)
(* again, whatever the function did, without the levels it left.           *)
(***************************************************************************)
EXTENDS Naturals, Sequences

CONSTANTS
    Places,      \* the steps of the programs, [program, step] records
    After(_, _)  \* the place a number of steps after a place

VARIABLES
    place,       \* the step to execute next
    returns,     \* the places to return to, the latest call last
    callers      \* the solvers that wait for a sample: the depth each is at
                 \* in the C stack -> the place of its step

vars == <<place, returns, callers>>

Init == place \in Places /\ returns = <<>> /\ DOMAIN callers = {}

Move == place' \in Places /\ UNCHANGED <<returns, callers>>

Call == place' \in Places /\ returns' = Append(returns, place) /\ UNCHANGED callers

(* One level only, and one step further for RTN+1. *)
Return ==
    /\ returns # <<>>
    /\ returns' = SubSeq(returns, 1, Len(returns) - 1)
    /\ \E skipped \in {1, 2} : place' = After(returns[Len(returns)], skipped)
    /\ UNCHANGED callers

(* A sample is a call, but for the level that may be refused. *)
Sample ==
    /\ place' \in Places
    /\ returns' \in {returns, Append(returns, place)}
    /\ \E depth \in DOMAIN callers' :
          /\ \A d \in DOMAIN callers : d < depth
          /\ callers' = [d \in DOMAIN callers \cup {depth} |->
                            IF d = depth THEN place ELSE callers[d]]

(* It is the latest one that ends. *)
Sampled ==
    /\ \E depth \in DOMAIN callers :
          /\ \A d \in DOMAIN callers : d <= depth
          /\ place' = callers[depth]
          /\ callers' = [d \in DOMAIN callers \ {depth} |-> callers[d]]
    /\ \E n \in 0 .. Len(returns) : returns' = SubSeq(returns, 1, n)

(* A program started or ended by hand, or ended by FINISH, leaves no level. *)
Reset == place' \in Places /\ returns' = <<>> /\ UNCHANGED callers

Next == Move \/ Call \/ Return \/ Sample \/ Sampled \/ Reset

Spec == Init /\ [][Next]_vars
==============================================================================

----------------------------- MODULE Subroutines -----------------------------
(***************************************************************************)
(* The subroutine levels of the running program and the blocks of the pool *)
(* they live in: fnExecute, fnReturn and fnGoto of lblGtoXeq.c,            *)
(* allocateLocalRegisters of registers.c, and the step pointer.            *)
(*                                                                         *)
(* A machine is a record                                                   *)
(*   levels  the chain of level headers, the current one last              *)
(*   owned   the pool's view: the blocks allocated here, with their sizes  *)
(*   number  allSubroutineLevels.numberOfSubroutineLevels                  *)
(*   place   currentProgramNumber and currentLocalStepNumber               *)
(* A block goes by the name of what it was allocated for, a level's header *)
(* or one of its local registers, and keeps it for as long as the pool     *)
(* counts it, even when its owner has forgotten it.                        *)
(* Every function that may ask the pool for memory yields the set of the   *)
(* machines it may leave, since the rest of the calculator uses the same   *)
(* pool and any request may be refused.                                    *)
(***************************************************************************)
EXTENDS Integers, Sequences, SequencesExt, FiniteSets, FiniteSetsExt, Functions

CONSTANTS
    PROGRAMS,   \* the number of programs
    STEPS,      \* the steps of each, the last one its END
    Labels,     \* the programs that have a label, which begins them
    REFUSALS    \* bound: levels the pool refuses between two resets

ASSUME ProgramsAssumption ==
    /\ PROGRAMS \in Nat \ {0}
    /\ STEPS \in Nat \ {0}
    /\ Labels \subseteq 1 .. PROGRAMS
    /\ REFUSALS \in Nat

SizeOfHeader         == 3   \* blocks of a subroutineLevelHeader_t
SizeOfLocalFlags     == 1   \* blocks of the local flags
SizeOfRegisterHeader == 1   \* blocks of each local register's header
SizeOfRegisterData   == 4   \* blocks of the number in a new local register

NoLabel == 0   \* a label no program has

Places == [program : 1 .. PROGRAMS, step : 1 .. STEPS]

Begin(p) == [program |-> p, step |-> 1]

IsAtEndOfProgram(place) == place.step = STEPS

(* Mutant: the loop does not look for the END of the program. *)
SkipPastEnd(place, n) == [place EXCEPT !.step = @ + n]

(* The step pointer never leaves the program: it stays at its END. *)
Skip(place, n) == [place EXCEPT !.step = IF @ + n < STEPS THEN @ + n ELSE STEPS]

Back(place, n) == [place EXCEPT !.step = IF n >= @ - 1 THEN 1 ELSE @ - n]

-----------------------------------------------------------------------------
(* The pool *)

HeaderOf(level)      == [level |-> level, register |-> 0]
RegisterOf(level, r) == [level |-> level, register |-> r]

Registers(level, from, to) == {RegisterOf(level, r) : r \in from .. to}

(* Freed with another size than it was allocated with, a block stays owned *)
(* in part, or the pool is given blocks it did not hand out.               *)
FreeC47Blocks(owned, b, size) ==
    IF owned[b] = size THEN Restrict(owned, DOMAIN owned \ {b})
                       ELSE [owned EXCEPT ![b] = @ - size]

AllocC47Blocks(owned, new, size) ==
    [b \in DOMAIN owned \cup new |-> IF b \in DOMAIN owned THEN owned[b] ELSE size]

ReduceC47Blocks(owned, b, old, new) == [owned EXCEPT ![b] = @ - (old - new)]

GrowC47Blocks(owned, b, old, new) == [owned EXCEPT ![b] = @ + (new - old)]

Given(owned, registers) == AllocC47Blocks(owned, registers, SizeOfRegisterData)

(* Mutant: the last of the deleted registers is left out. *)
FreeRegisterDataShort(owned, registers) ==
    LET freed == {b \in registers : \E c \in registers : c.register > b.register}
    IN Restrict(owned, DOMAIN owned \ freed)

FreeRegisterData(owned, registers) ==
    Restrict(owned, DOMAIN owned \ registers)

-----------------------------------------------------------------------------
(* The local flags and registers of the current level *)

Current(m) == Last(m.levels)

LevelSize(flags, n) ==
    SizeOfHeader
        + (IF flags THEN SizeOfLocalFlags + n * SizeOfRegisterHeader ELSE 0)

WithCurrent(m, level, owned) ==
    [levels |-> Append(Front(m.levels), level), owned |-> owned,
     number |-> m.number, place |-> m.place]

(* First locals of a level, or more of them: all of them or none.  The     *)
(* pool may refuse the larger header, or the data of any new register;     *)
(* then the ones before it are freed and the header shrinks again.  The    *)
(* links from a level to the next, which a refusal leaves as they were,    *)
(* are no part of a machine: they are written and never read.              *)
GrowLocalRegisters(m, n) ==
    LET cur   == Current(m)
        k     == cur.registers
        old   == LevelSize(cur.flags, k)
        new   == LevelSize(TRUE, n)
        block == HeaderOf(cur.level)
        larger == [level |-> cur.level, return |-> cur.return, flags |-> TRUE, registers |-> n]
        grown == GrowC47Blocks(m.owned, block, old, new)
        given(i) == Given(grown, Registers(cur.level, k + 1, i))
        undone(i) == ReduceC47Blocks(
                        FreeRegisterData(given(i), Registers(cur.level, k + 1, i)),
                        block, new, old)
    IN {[machine |-> m, failed |-> TRUE]}
       \cup {[machine |-> WithCurrent(m, cur, undone(i)), failed |-> TRUE] : i \in k .. n - 1}
       \cup {[machine |-> WithCurrent(m, larger, given(n)), failed |-> FALSE]}

ShrinkLocalRegisters(m, n) ==
    LET cur   == Current(m)
        freed == FreeRegisterData(m.owned, Registers(cur.level, n + 1, cur.registers))
    IN WithCurrent(m, [cur EXCEPT !.registers = n],
           ReduceC47Blocks(freed, HeaderOf(cur.level),
                           LevelSize(TRUE, cur.registers), LevelSize(TRUE, n)))

AllocateLocalRegisters(m, n) ==
    LET k == Current(m).registers
    IN IF ~Current(m).flags \/ n > k THEN GrowLocalRegisters(m, n)
       ELSE {[machine |-> IF n < k THEN ShrinkLocalRegisters(m, n) ELSE m,
              failed  |-> FALSE]}

WithoutRegisters(m) ==
    IF Current(m).registers = 0 THEN m ELSE ShrinkLocalRegisters(m, 0)

CleanLocalFlagsAndRegisters(m) ==
    LET n   == WithoutRegisters(m)
        cur == Current(n)
    IN IF ~cur.flags THEN n
       ELSE WithCurrent(n, [cur EXCEPT !.flags = FALSE],
                ReduceC47Blocks(n.owned, HeaderOf(cur.level),
                                LevelSize(TRUE, 0), LevelSize(FALSE, 0)))

-----------------------------------------------------------------------------
(* Calls and returns *)

Level(m) == Current(m).level

(* Right after the call, one step further for RTN+1. *)
FnReturn(m, skip) ==
    LET cur == Current(m)
        n   == WithoutRegisters(m)
    IN IF cur.level > 0
       THEN [levels |-> Front(n.levels),
             owned  |-> FreeC47Blocks(n.owned, HeaderOf(cur.level),
                                      LevelSize(cur.flags, 0)),
             number |-> n.number - 1,
             place  |-> Skip([cur.return EXCEPT !.step = @ + 1], skip)]
       ELSE CleanLocalFlagsAndRegisters([m EXCEPT !.place = Begin(@.program)])

(* while(currentSubroutineLevel > level) fnReturn(0); *)
UnwindTo(m, level) ==
    LET returned[n \in 0 .. Len(m.levels)] ==
            IF n = 0 THEN m ELSE FnReturn(returned[n - 1], 0)
        done == CHOOSE n \in 0 .. Len(m.levels) :
                    /\ Level(returned[n]) <= level
                    /\ \A k \in 0 .. n - 1 : Level(returned[k]) > level
    IN returned[done]

(* Every subroutine is left and the locals of level 0 are given up. *)
UnwindAll(m) == CleanLocalFlagsAndRegisters(UnwindTo(m, 0))

(* Mutant: fnExecute stores the step after the call, as fnExecutePlusSkip  *)
(* does after it.                                                          *)
NewLevelPlusSkip(m) ==
    [level |-> m.number, return |-> Skip(m.place, 1), flags |-> FALSE, registers |-> 0]

(* The count is raised before the block is asked for, so the new level's   *)
(* number is the count it found.                                           *)
NewLevel(m) ==
    [level |-> m.number, return |-> m.place, flags |-> FALSE, registers |-> 0]

(* The levels counted that do not exist: one for each refused before. *)
Refused(m) == m.number - Len(m.levels)

(* fnExecute in a running program.  When the pool refuses the level, the   *)
(* count stays raised.  When a level is pushed but an error is set, one    *)
(* the label caused or one that was set before, the level is popped and    *)
(* the step pointer is back at the call.                                   *)
FnExecuteRunning(m, label, error) ==
    LET called == [m EXCEPT !.number = @ + 1]
        pushed(place) == [levels |-> Append(m.levels, NewLevel(m)),
                          owned  |-> AllocC47Blocks(m.owned, {HeaderOf(m.number)}, SizeOfHeader),
                          number |-> m.number + 1,
                          place  |-> place]
        back   == FnReturn(pushed(m.place), 0)
    IN (IF Refused(m) < REFUSALS
        THEN {[machine |-> called, error |-> "ERROR", pushed |-> FALSE]} ELSE {})
       \cup
       {IF label = NoLabel \/ error # "NONE"
        THEN [machine |-> [back EXCEPT !.place = Back(@, 1)],
              error   |-> IF error # "NONE" THEN error ELSE "ERROR",
              pushed  |-> FALSE]
        ELSE [machine |-> pushed(Begin(label)),
              error   |-> "NONE", pushed |-> TRUE]}

-----------------------------------------------------------------------------
(* doFnReset: level 0 only, at the beginning of the first program. *)
InitialMachine ==
    [levels |-> <<[level |-> 0, return |-> Begin(1), flags |-> FALSE, registers |-> 0]>>,
     owned  |-> [b \in {HeaderOf(0)} |-> SizeOfHeader],
     number |-> 1,
     place  |-> Begin(1)]

(* The blocks a level says it has, with the sizes it will free them with. *)
ClaimedBy(l) ==
    [b \in Registers(l.level, 0, l.registers) |->
        IF b = HeaderOf(l.level) THEN LevelSize(l.flags, l.registers)
                                 ELSE SizeOfRegisterData]
==============================================================================

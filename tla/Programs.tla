------------------------------ MODULE Programs -------------------------------
(***************************************************************************)
(* The program engine: runProgram and what it calls again from inside      *)
(* itself.  One core thread runs it, on one C stack: a step of a program   *)
(* may start the solver, the solver runs its function with a nested        *)
(* engine, and PAUSE waits in a loop.  Between two steps, and in the loop  *)
(* of PAUSE, the core yields and handles the keys that wait; a key may     *)
(* start another engine there, on top of the C stack.                      *)
(*                                                                         *)
(* The text of the programs is not fixed: each step but the END of a       *)
(* program may turn out to be any operation, so what holds here holds for  *)
(* every text, data-dependent jumps included.                              *)
(***************************************************************************)
EXTENDS Subroutines

CONSTANTS
    MAX_ENGINE_NESTING_DEPTH,
    MAX_LEVELS,      \* bound: levels when a program calls a subroutine
    MAX_LOCALS,      \* bound: local registers of all levels together
    MAX_SAMPLES      \* bound: samples of a function a solver takes

ASSUME EngineAssumption ==
    /\ MAX_ENGINE_NESTING_DEPTH \in Nat
    /\ MAX_LEVELS \in Nat /\ MAX_LOCALS \in Nat /\ MAX_SAMPLES \in Nat

VARIABLES
    machine,              \* subroutine levels, their memory, the step pointer
    programRunStop,
    lastErrorCode,
    engineNestingDepth,   \* solvers at work; FLAG_SOLVING is set when not zero
    exitKeyWaiting,       \* the key pressed last, since the solver at work
                          \* began, is R/S or EXIT
    frames,               \* the C stack, the running function last
    reentered,            \* a key ran a function inside a yield of this run
    astray                \* in this run a sample had no level of its own, or
                          \* FINISH took the levels of the callers away

vars == <<machine, programRunStop, lastErrorCode, engineNestingDepth,
          exitKeyWaiting, frames, reentered, astray>>

Statuses == {"STOPPED", "RUNNING", "WAITING", "PAUSED", "KEY_PRESSED", "RESUMING"}
Errors   == {"NONE", "ERROR", "ABORT"}

(* The frames of runProgram, execProgram, fnSolve and fnPause *)
EngineFrame == [kind : {"engine"}, nested : BOOLEAN, single : BOOLEAN,
                start : Nat, sub : Nat, adv : -1 .. 2,
                at : {"fetch", "called", "yield"}]
ExecFrame   == [kind : {"exec"}, level : Nat, place : Places]
SolveFrame  == [kind : {"solve"}, target : Labels,
                evals : 0 .. MAX_SAMPLES, bad : BOOLEAN]
PauseFrame  == [kind : {"pause"}, previous : Statuses]

Frames == EngineFrame \cup ExecFrame \cup SolveFrame \cup PauseFrame

Top   == Last(frames)
Below == Front(frames)
On(kind) == frames # <<>> /\ Top.kind = kind

WithTop(f) == Append(Below, f)

(* A function called by an engine's step returns to it, the number of      *)
(* steps to advance in hand.  A function run by a key returns to the yield *)
(* or to nothing.                                                          *)
ReturnWith(adv) ==
    IF Below # <<>> /\ Last(Below).kind = "engine" /\ Last(Below).at = "called"
    THEN Append(Front(Below), [Last(Below) EXCEPT !.at = "yield", !.adv = adv])
    ELSE Below

CalledByStep ==
    Below # <<>> /\ Last(Below).kind = "engine" /\ Last(Below).at = "called"

Init ==
    /\ machine = InitialMachine
    /\ programRunStop = "STOPPED" /\ lastErrorCode = "NONE"
    /\ engineNestingDepth = 0 /\ exitKeyWaiting = FALSE
    /\ frames = <<>> /\ reentered = FALSE /\ astray = FALSE

-----------------------------------------------------------------------------
(* runProgram: its entry, the end of a step, its exit *)

(* Mutant: an engine always runs down to level 0. *)
StartingSubLevelZero(m, nested) == 0

(* A nested engine ends with the level it is started in. *)
StartingSubLevel(m, nested) == IF nested THEN Level(m) ELSE 0

RunProgram(m, status, single) ==
    LET nested == status = "RUNNING"
    IN [kind |-> "engine", nested |-> nested, single |-> single,
        start |-> StartingSubLevel(m, nested),
        at |-> "fetch", sub |-> 0, adv |-> 0]

(* Mutant: the outermost engine leaves the status to the one inside it. *)
RunEndedNested(status, nested) ==
    IF status = "RUNNING" /\ nested THEN "STOPPED" ELSE status

RunEnded(status, nested) ==
    IF status = "RUNNING" /\ ~nested THEN "STOPPED" ELSE status

Advanced(m, adv) ==
    IF adv > 0 THEN [m EXCEPT !.place = Skip(@, adv)] ELSE m

(* FLAG_IGN1ER may be set, which has an error forgotten. *)
StepDone ==
    /\ On("engine") /\ Top.at = "yield"
    /\ lastErrorCode' \in {lastErrorCode, "NONE"}
    /\ LET ended == Top.adv = 0 /\ Top.sub = Top.start
       IN /\ machine' = IF lastErrorCode' = "NONE" THEN Advanced(machine, Top.adv)
                        ELSE machine
          /\ IF \/ lastErrorCode' # "NONE" \/ ended
                \/ programRunStop # "RUNNING" \/ Top.single
             THEN /\ frames' = Below
                  /\ programRunStop' = RunEnded(programRunStop, Top.nested)
             ELSE /\ frames' = WithTop([Top EXCEPT !.sub = 0, !.adv = 0, !.at = "fetch"])
                  /\ UNCHANGED programRunStop
    /\ UNCHANGED <<engineNestingDepth, exitKeyWaiting, reentered, astray>>

-----------------------------------------------------------------------------
(* executeOneStep *)

Fetched == On("engine") /\ Top.at = "fetch"
Operation == Fetched /\ ~IsAtEndOfProgram(machine.place)

Stepped(adv, at) == [Top EXCEPT !.sub = Level(machine), !.adv = adv, !.at = at]

Placed(adv) ==
    /\ frames' = WithTop(Stepped(adv, "yield"))
    /\ UNCHANGED <<engineNestingDepth, exitKeyWaiting, reentered>>

Executed(adv) == Placed(adv) /\ UNCHANGED astray

Plain ==
    /\ Operation
    /\ \E adv \in {1, 2} : Executed(adv)
    /\ UNCHANGED <<machine, programRunStop, lastErrorCode>>

Fails ==
    /\ Operation /\ Executed(1)
    /\ lastErrorCode' = "ERROR"
    /\ UNCHANGED <<machine, programRunStop>>

Gto ==
    /\ Operation /\ Executed(-1)
    /\ \E p \in Labels : machine' = [machine EXCEPT !.place = Begin(p)]
    /\ UNCHANGED <<programRunStop, lastErrorCode>>

Xeq ==
    /\ Operation /\ Executed(-1)
    /\ Len(machine.levels) < MAX_LEVELS
    /\ \E label \in Labels \cup {NoLabel} :
           \E x \in FnExecuteRunning(machine, label, "NONE") :
               machine' = x.machine /\ lastErrorCode' = x.error
    /\ UNCHANGED programRunStop

Rtn(skip) ==
    /\ Executed(0)
    /\ machine' = FnReturn(machine, skip)
    /\ UNCHANGED <<programRunStop, lastErrorCode>>

LocalRegisters(m) == FoldLeft(LAMBDA n, l : n + l.registers, 0, m.levels)

LocR ==
    /\ Operation /\ Executed(1)
    /\ \E n \in {k \in {0, 2} : LocalRegisters(machine) + k <= MAX_LOCALS} :
       \E r \in AllocateLocalRegisters(machine, n) :
           /\ machine' = r.machine
           /\ lastErrorCode' = IF r.failed THEN "ERROR" ELSE "NONE"
    /\ UNCHANGED programRunStop

(* STOP, and INPUT, which stops for the value to be keyed in. *)
Stop ==
    /\ Operation /\ Executed(1)
    /\ programRunStop' = "WAITING"
    /\ UNCHANGED <<machine, lastErrorCode>>

Finish ==
    /\ Operation /\ Placed(-1)
    /\ machine' = [UnwindAll(machine) EXCEPT !.place = Begin(machine.place.program)]
    /\ programRunStop' = "STOPPED"
    /\ astray' = (astray \/ engineNestingDepth > 0)
    /\ UNCHANGED lastErrorCode

PauseStep ==
    /\ Operation
    /\ frames' = Append(WithTop(Stepped(1, "called")),
                        [kind |-> "pause", previous |-> programRunStop])
    /\ programRunStop' = "PAUSED"
    /\ UNCHANGED <<machine, lastErrorCode, engineNestingDepth, exitKeyWaiting,
                   reentered, astray>>

Solver(p) == [kind |-> "solve", target |-> p, evals |-> 0, bad |-> FALSE]

(* The solver forgets the key pressed last; one nested too deep is refused *)
(* and stops the program.                                                  *)
SolveStep ==
    /\ Operation
    /\ IF engineNestingDepth < MAX_ENGINE_NESTING_DEPTH
       THEN /\ \E p \in Labels :
                   frames' = Append(WithTop(Stepped(1, "called")), Solver(p))
            /\ engineNestingDepth' = engineNestingDepth + 1
            /\ exitKeyWaiting' = FALSE
            /\ UNCHANGED programRunStop
       ELSE /\ frames' = WithTop(Stepped(1, "yield"))
            /\ programRunStop' = "WAITING"
            /\ UNCHANGED <<engineNestingDepth, exitKeyWaiting>>
    /\ UNCHANGED <<machine, lastErrorCode, reentered, astray>>

ExecuteOneStep ==
    \/ Plain \/ Fails \/ Gto \/ Xeq \/ LocR \/ Stop \/ Finish
    \/ PauseStep \/ SolveStep
    \/ Operation /\ \E skip \in {0, 1} : Rtn(skip)
    \/ Fetched /\ IsAtEndOfProgram(machine.place) /\ Rtn(0)

-----------------------------------------------------------------------------
(* fnPause: waits until its time is up or the status is another *)

(* Mutant: the status from before the pause is put back whatever happened. *)
AfterPauseAlways(status, previous) == previous

AfterPause(status, previous) == IF status = "WAITING" THEN "WAITING" ELSE previous

PauseEnds ==
    /\ On("pause")
    /\ frames' = ReturnWith(1)
    /\ programRunStop' = AfterPause(programRunStop, Top.previous)
    /\ UNCHANGED <<machine, lastErrorCode, engineNestingDepth, exitKeyWaiting,
                   reentered, astray>>

-----------------------------------------------------------------------------
(* solver and execProgram *)

(* An error of either of the first two samples makes the guesses bad, but *)
(* the second is taken all the same.                                      *)
BadGuess == Top.bad \/ (Top.evals \in {1, 2} /\ lastErrorCode # "NONE")

Sampled == [Top EXCEPT !.evals = @ + 1, !.bad = BadGuess]

(* In a running program: fnExecute pushes a level, a nested engine runs the *)
(* function from where the step pointer then is.                            *)
SampleNested ==
    /\ \E x \in FnExecuteRunning(machine, Top.target, lastErrorCode) :
           /\ machine' = x.machine
           /\ frames' = WithTop(Sampled) \o
                <<[kind |-> "exec", level |-> Level(machine), place |-> machine.place],
                  RunProgram(x.machine, programRunStop, FALSE)>>
           /\ astray' = (astray \/ ~x.pushed)
    /\ lastErrorCode' = "NONE"
    /\ UNCHANGED programRunStop

(* Otherwise fnExecute itself runs the function, as from the keyboard. *)
SampleTopLevel ==
    /\ machine' = [machine EXCEPT !.place = Begin(Top.target)]
    /\ IF lastErrorCode = "NONE"
       THEN /\ frames' = Append(WithTop(Sampled),
                                RunProgram(machine, programRunStop, FALSE))
            /\ programRunStop' = "RUNNING"
       ELSE /\ frames' = WithTop(Sampled)
            /\ UNCHANGED programRunStop
    /\ astray' = (astray \/ \E i \in DOMAIN frames : frames[i].kind = "engine")
    /\ UNCHANGED lastErrorCode

(* After an abort, of a solver that the sample before ran, the function is *)
(* not run.  The solver looks for an abort after its first two samples, and *)
(* then before every iteration: one takes up to three samples, so a later   *)
(* one may come with a look or without.                                     *)
Sample ==
    /\ On("solve") /\ Top.evals < MAX_SAMPLES
    /\ Top.evals >= 2 => ~BadGuess
    /\ Top.evals = 2 => ~exitKeyWaiting /\ programRunStop # "WAITING"
    /\ IF lastErrorCode = "ABORT"
       THEN /\ frames' = WithTop(Sampled)
            /\ UNCHANGED <<machine, programRunStop, lastErrorCode, astray>>
       ELSE IF programRunStop = "RUNNING" THEN SampleNested ELSE SampleTopLevel
    /\ UNCHANGED <<engineNestingDepth, exitKeyWaiting, reentered>>

(* Mutant: the levels the function left are not popped. *)
RestoredCallerLeft(m, f) == [m EXCEPT !.place = f.place]

RestoredCaller(m, f) == [UnwindTo(m, f.level) EXCEPT !.place = f.place]

(* The nested engine has returned to execProgram. *)
ExecReturns ==
    /\ On("exec")
    /\ machine' = RestoredCaller(machine, Top)
    /\ frames' = Below
    /\ UNCHANGED <<programRunStop, lastErrorCode, engineNestingDepth,
                   exitKeyWaiting, reentered, astray>>

(* A result, or none: executeOneStep skips the step after a SOLVE that did *)
(* not find one and forgets its error.                                     *)
SolveEnds ==
    /\ On("solve") /\ Top.evals >= 2
    /\ lastErrorCode = "ABORT" => BadGuess
    /\ engineNestingDepth' = engineNestingDepth - 1
    /\ \/ /\ ~BadGuess
          /\ frames' = ReturnWith(1) /\ lastErrorCode' = "NONE"
       \/ /\ frames' = ReturnWith(2)
          /\ lastErrorCode' = IF CalledByStep THEN "NONE" ELSE "ERROR"
    /\ exitKeyWaiting' = (exitKeyWaiting /\ engineNestingDepth' > 0)
    /\ UNCHANGED <<machine, programRunStop, reentered, astray>>

(* R/S or EXIT, or a stop that came out of a sample.  R/S is used up, EXIT *)
(* is not.                                                                *)
SolveAborted ==
    /\ On("solve") /\ Top.evals >= 2 /\ ~BadGuess
    /\ exitKeyWaiting \/ programRunStop = "WAITING" \/ lastErrorCode = "ABORT"
    /\ engineNestingDepth' = engineNestingDepth - 1
    /\ frames' = ReturnWith(0)
    /\ lastErrorCode' = "ABORT" /\ programRunStop' = "WAITING"
    /\ exitKeyWaiting' \in {FALSE, exitKeyWaiting /\ engineNestingDepth' > 0}
    /\ UNCHANGED <<machine, reentered, astray>>

-----------------------------------------------------------------------------
(* Keys: handled while the calculator is idle, between two steps of the    *)
(* running engine, and in the loop of PAUSE                                *)

Idle == frames = <<>>

Yielding == Idle \/ On("pause") \/ (On("engine") /\ Top.at = "yield")

(* The key is only looked at by a solver, which forgets it when it begins. *)
Pressed(stopKey) ==
    /\ Yielding
    /\ exitKeyWaiting' = (stopKey /\ engineNestingDepth > 0)

(* R/S and EXIT stop a program, except while it solves. *)
KeyWhileRunning ==
    /\ programRunStop \in {"RUNNING", "PAUSED"}
    /\ \E stopKey \in BOOLEAN :
           /\ Pressed(stopKey)
           /\ programRunStop' =
                IF stopKey /\ engineNestingDepth = 0 THEN "WAITING"
                ELSE IF programRunStop = "PAUSED" THEN "KEY_PRESSED"
                ELSE programRunStop
    /\ UNCHANGED <<machine, lastErrorCode, engineNestingDepth, frames, reentered, astray>>

KeyReleased ==
    /\ Yielding /\ programRunStop = "KEY_PRESSED"
    /\ programRunStop' = "RESUMING"
    /\ UNCHANGED <<machine, lastErrorCode, engineNestingDepth, exitKeyWaiting,
                   frames, reentered, astray>>

(* In any other status a key runs its function, inside a yield as well     *)
(* (bound: once in a run).                                                 *)
Runs(stopKey) ==
    /\ programRunStop \in {"STOPPED", "WAITING", "RESUMING"}
    /\ Pressed(stopKey)
    /\ Idle \/ ~reentered
    /\ reentered' = ~Idle
    /\ astray' = (astray /\ ~Idle)

(* A key takes the status of a stopped program back before its function    *)
(* runs; one that was picked from a list runs with the status as it is.    *)
Awake == IF programRunStop = "WAITING" THEN "STOPPED" ELSE programRunStop
StatusBefore == {programRunStop, Awake}

KeyRS ==
    /\ Runs(TRUE)
    /\ frames' = Append(frames, RunProgram(machine, programRunStop, FALSE))
    /\ programRunStop' = "RUNNING" /\ lastErrorCode' = "NONE"
    /\ UNCHANGED <<machine, engineNestingDepth>>

KeySST ==
    /\ Runs(FALSE)
    /\ frames' = Append(frames, RunProgram(machine, "STOPPED", TRUE))
    /\ programRunStop' = "RUNNING" /\ lastErrorCode' = "NONE"
    /\ UNCHANGED <<machine, engineNestingDepth>>

(* EXIT clears the error, or makes one that aborts the solver at work. *)
KeyEXIT ==
    /\ Runs(TRUE)
    /\ programRunStop' = Awake
    /\ lastErrorCode' = IF engineNestingDepth > 0 THEN "ABORT" ELSE "NONE"
    /\ UNCHANGED <<machine, engineNestingDepth, frames>>

KeyXEQ ==
    /\ Runs(FALSE)
    /\ \E p \in Labels :
           /\ machine' = [UnwindAll(machine) EXCEPT !.place = Begin(p)]
           /\ frames' = Append(frames, RunProgram(machine', programRunStop, FALSE))
    /\ programRunStop' = "RUNNING" /\ lastErrorCode' = "NONE"
    /\ UNCHANGED engineNestingDepth

(* GTO . goes to any program. *)
KeyGTO ==
    /\ Runs(FALSE)
    /\ \E p \in 1 .. PROGRAMS :
           machine' = [UnwindAll(machine) EXCEPT !.place = Begin(p)]
    /\ programRunStop' \in StatusBefore /\ lastErrorCode' = "NONE"
    /\ UNCHANGED <<engineNestingDepth, frames>>

KeyRTN ==
    /\ Runs(FALSE)
    /\ machine' = FnReturn(machine, 0)
    /\ programRunStop' \in StatusBefore /\ lastErrorCode' = "NONE"
    /\ UNCHANGED <<engineNestingDepth, frames>>

KeyPAUSE ==
    /\ Runs(FALSE)
    /\ \E before \in StatusBefore :
           frames' = Append(frames, [kind |-> "pause", previous |-> before])
    /\ programRunStop' = "PAUSED" /\ lastErrorCode' = "NONE"
    /\ UNCHANGED <<machine, engineNestingDepth>>

KeySOLVE ==
    /\ Runs(FALSE)
    /\ IF engineNestingDepth < MAX_ENGINE_NESTING_DEPTH
       THEN /\ \E p \in Labels : frames' = Append(frames, Solver(p))
            /\ engineNestingDepth' = engineNestingDepth + 1
            /\ programRunStop' \in StatusBefore
       ELSE /\ programRunStop' = "WAITING"
            /\ UNCHANGED <<frames, engineNestingDepth>>
    /\ lastErrorCode' = "NONE"
    /\ UNCHANGED machine

Key == \/ KeyWhileRunning \/ KeyReleased
       \/ KeyRS \/ KeySST \/ KeyEXIT \/ KeyXEQ \/ KeyGTO \/ KeyRTN
       \/ KeyPAUSE \/ KeySOLVE

Engine == StepDone \/ ExecuteOneStep \/ PauseEnds
Solve  == Sample \/ ExecReturns \/ SolveEnds \/ SolveAborted

Next == Engine \/ Solve \/ Key

Spec == Init /\ [][Next]_vars

-----------------------------------------------------------------------------
(* Correctness *)

(* Every variable has the values its C type and its use allow; there is    *)
(* always a level, and the step pointer is on a step of a program.         *)
TypeOK ==
    /\ machine.place \in Places /\ machine.number \in Nat
    /\ machine.levels # <<>>
    /\ \A i \in DOMAIN machine.levels :
           machine.levels[i] \in [level : Nat, return : Places, flags : BOOLEAN,
                                  registers : 0 .. 99]
    /\ programRunStop \in Statuses /\ lastErrorCode \in Errors
    /\ engineNestingDepth \in 0 .. MAX_ENGINE_NESTING_DEPTH
    /\ exitKeyWaiting \in BOOLEAN
    /\ frames \in Seq(Frames)
    /\ reentered \in BOOLEAN /\ astray \in BOOLEAN

(* The pool's blocks are exactly those of the levels that are there, each  *)
(* with the size its level will free it with, and no block is in two       *)
(* places: whatever was refused half-way, and however the levels went away *)
(* (RTN, FINISH, the solver's or a key's unwinding), nothing leaks and     *)
(* nothing is freed twice or with a wrong size.                            *)
LevelsOwnTheirBlocks ==
    LET levels == machine.levels
        blocks(i) == DOMAIN ClaimedBy(levels[i])
    IN /\ DOMAIN machine.owned = UNION {blocks(i) : i \in DOMAIN levels}
       /\ \A i \in DOMAIN levels :
              /\ \A b \in blocks(i) : machine.owned[b] = ClaimedBy(levels[i])[b]
              /\ \A j \in DOMAIN levels \ {i} : blocks(i) \cap blocks(j) = {}

(* The statuses in which btnPressed swallows the keys are left again: they *)
(* are only there while an engine, or a PAUSE that will put another status *)
(* back, is on the C stack.  Otherwise the calculator would be deaf.       *)
NeverDeaf ==
    programRunStop \in {"RUNNING", "PAUSED", "KEY_PRESSED", "RESUMING"} =>
        \E i \in DOMAIN frames : frames[i].kind \in {"engine", "pause"}

(* The solver's nested engine runs its function and nothing of the program *)
(* that called it: whenever it is about to execute a step, the level is    *)
(* above the caller's.  It does run the caller's own steps when fnExecute  *)
(* could push no level (refused, or an error of the sample before still    *)
(* set), when a FINISH or STOP inside the function made the next samples   *)
(* runs of their own, and after a key ran a function inside a yield.       *)
NestedRunStaysAbove ==
    \A i \in DOMAIN frames :
        Fetched /\ frames[i].kind = "exec" /\ ~reentered /\ ~astray
        => Level(machine) > frames[i].level

(* What the comment in execProgram promises of the loop that pops: after a *)
(* sample the calling program is at its level and at its step, so that its *)
(* own RTN still matches.                                                  *)
SolveReturnsToCaller ==
    [][ /\ On("exec") /\ frames' = Below
        /\ ~reentered /\ ~astray
        => Level(machine') = Top.level /\ machine'.place = Top.place ]_vars

(* A stop is not lost: once the program is told to wait (R/S, STOP, INPUT, *)
(* an aborted or refused SOLVE), only a key makes it run again, in         *)
(* particular not the end of a PAUSE.  Except while a solver is at work:   *)
(* its next sample runs the function whatever the status.                  *)
StopSurvives ==
    [][ programRunStop = "WAITING" /\ programRunStop' = "RUNNING"
        => engineNestingDepth > 0 \/ reentered' # reentered \/ Idle ]_vars

-----------------------------------------------------------------------------
(* The levels above level 0, by the place each returns to, are the stack   *)
(* of CallStack; its solvers are the frames of execProgram.                *)
ReturnPlaces == [i \in 1 .. Len(machine.levels) - 1 |-> machine.levels[i + 1].return]
Callers == [i \in {k \in DOMAIN frames : frames[k].kind = "exec"} |-> frames[i].place]

Calls == INSTANCE CallStack WITH
             Places <- Places, After <- Skip,
             place <- machine.place, returns <- ReturnPlaces, callers <- Callers

(* Calls and returns nest: whatever the programs do, however a run ends    *)
(* and whatever the pool refuses, a level is only added by a call, with    *)
(* the caller's place to return to, and goes away from the top; a sample   *)
(* of a solved function ends at the step that asked for it.                *)
CallsNest == Calls!Spec
==============================================================================

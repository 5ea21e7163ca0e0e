----------------------------- MODULE CallsProofs ------------------------------
(***************************************************************************)
(* Theorems about the subroutine levels in Programs: their types, the      *)
(* blocks of the pool they own, that calls and returns nest, and that a    *)
(* function the solver samples runs above its caller.  They hold for any   *)
(* programs, any number of levels and of local registers, and whatever the *)
(* pool refuses.                                                           *)
(***************************************************************************)
EXTENDS ProgramsProofs

(* The machine is sane, and the C stack holds frames of the right types. *)
Typed ==
    /\ Sane(machine)
    /\ programRunStop \in Statuses /\ lastErrorCode \in Errors
    /\ engineNestingDepth <= MAX_ENGINE_NESTING_DEPTH
    /\ exitKeyWaiting \in BOOLEAN
    /\ frames \in Seq(Frames)
    /\ reentered \in BOOLEAN /\ astray \in BOOLEAN

(* How a step may change a machine m into n. *)
Stays(m, n) ==
    /\ Len(n.levels) = Len(m.levels)
    /\ \A i \in 1 .. Len(m.levels) : n.levels[i].return = m.levels[i].return
                                     /\ n.levels[i].level = m.levels[i].level

Adds(m, n) == SameLevels(Append(m.levels, NewLevel(m)), n.levels)

Drops(m, n, skip) ==
    /\ Len(m.levels) > 1 /\ Len(n.levels) = Len(m.levels) - 1
    /\ \A i \in 1 .. Len(m.levels) - 1 : n.levels[i] = m.levels[i]
    /\ n.place = Skip(m.levels[Len(m.levels)].return, skip + 1)

Cuts(m, n) ==
    /\ Len(n.levels) \in 1 .. Len(m.levels)
    /\ \A i \in 1 .. Len(n.levels) : n.levels[i] = m.levels[i]

Clears(n) == Len(n.levels) = 1

-----------------------------------------------------------------------------
(* Frames *)

LEMMA FrameKinds ==
    ASSUME NEW x \in Frames
    PROVE  /\ x.kind = "engine" => x \in EngineFrame
           /\ x.kind = "exec"   => x \in ExecFrame
           /\ x.kind = "solve"  => x \in SolveFrame
           /\ x.kind = "pause"  => x \in PauseFrame
           /\ x.kind \in {"engine", "exec", "solve", "pause"}
BY DEF Frames, EngineFrame, ExecFrame, SolveFrame, PauseFrame

LEMMA TopTyped ==
    ASSUME frames \in Seq(Frames), frames # <<>>
    PROVE  /\ Top \in Frames /\ Below \in Seq(Frames)
           /\ \A x \in Frames : WithTop(x) \in Seq(Frames)
<1>1. Front(frames) \in Seq(Frames) /\ Len(frames) \in Nat \ {0} /\ Top = frames[Len(frames)]
  BY FrontLast DEF Top
<1> QED BY <1>1 DEF Below, WithTop

LEMMA EngineTyped ==
    ASSUME NEW x \in EngineFrame, NEW sub \in Nat, NEW adv \in -1 .. 2,
           NEW at \in {"fetch", "called", "yield"}
    PROVE  /\ [x EXCEPT !.sub = sub, !.adv = adv, !.at = at] \in EngineFrame
           /\ [x EXCEPT !.at = at, !.adv = adv] \in EngineFrame
BY DEF EngineFrame

LEMMA ReturnTyped ==
    ASSUME frames \in Seq(Frames), frames # <<>>, NEW adv \in -1 .. 2
    PROVE  ReturnWith(adv) \in Seq(Frames)
<1>1. Below \in Seq(Frames)
  BY TopTyped
<1>2. CASE CalledByStep
  <2>1. Below # <<>> /\ Last(Below).kind = "engine"
    BY <1>2 DEF CalledByStep
  <2>2. Front(Below) \in Seq(Frames) /\ Last(Below) = Below[Len(Below)]
        /\ Len(Below) \in Nat \ {0}
    BY <1>1, <2>1, FrontLast
  <2>3. Last(Below) \in EngineFrame
    <3>1. Last(Below) \in Frames
      BY <1>1, <2>2
    <3> QED BY <3>1, <2>1, FrameKinds
  <2>4. [Last(Below) EXCEPT !.at = "yield", !.adv = adv] \in Frames
    <3>1. "yield" \in {"fetch", "called", "yield"}
      OBVIOUS
    <3>2. PICK x \in EngineFrame : x = Last(Below)
      BY <2>3
    <3>3. [x EXCEPT !.at = "yield", !.adv = adv] \in EngineFrame
      BY <3>1, EngineTyped
    <3> QED BY <3>2, <3>3 DEF Frames
  <2>5. ReturnWith(adv) = Append(Front(Below), [Last(Below) EXCEPT !.at = "yield", !.adv = adv])
    BY <1>2 DEF ReturnWith, CalledByStep
  <2> QED BY <2>2, <2>4, <2>5
<1>3. CASE ~CalledByStep
  BY <1>1, <1>3 DEF ReturnWith, CalledByStep
<1> QED BY <1>2, <1>3

LEMMA NewEngineTyped ==
    ASSUME NEW m, Sane(m), NEW status, NEW single \in BOOLEAN
    PROVE  RunProgram(m, status, single) \in EngineFrame
<1>1. PICK nested \in BOOLEAN : nested = (status = "RUNNING")
  OBVIOUS
<1>2. PICK start \in Nat : start = StartingSubLevel(m, nested)
  BY LevelsOf DEF StartingSubLevel
<1>3. RunProgram(m, status, single) =
        [kind |-> "engine", nested |-> nested, single |-> single, start |-> start,
         at |-> "fetch", sub |-> 0, adv |-> 0]
  BY <1>1, <1>2 DEF RunProgram
<1>4. 0 \in Nat /\ 0 \in -1 .. 2
  OBVIOUS
<1> QED BY <1>3, <1>4 DEF EngineFrame

LEMMA NewFramesTyped ==
    /\ \A s \in Statuses : [kind |-> "pause", previous |-> s] \in Frames
    /\ \A l \in Nat, p \in Places : [kind |-> "exec", level |-> l, place |-> p] \in Frames
    /\ \A p \in Labels : Solver(p) \in Frames
<1>1. 0 \in 0 .. MAX_SAMPLES
  BY EngineAssumption
<1> QED BY <1>1 DEF Frames, PauseFrame, ExecFrame, SolveFrame, Solver

-----------------------------------------------------------------------------
(* What each step makes of the machine. *)

LEMMA AdvancedMachine ==
    ASSUME NEW m, Sane(m), NEW adv \in -1 .. 2
    PROVE  Sane(Advanced(m, adv)) /\ Stays(m, Advanced(m, adv))
<1>1. CASE adv > 0
  <2>1. adv \in Nat \ {0}
    BY <1>1
  <2>2. Skip(m.place, adv) \in Places
    BY <2>1, LevelsOf, StepPointer
  <2>3. Advanced(m, adv) = [m EXCEPT !.place = Skip(m.place, adv)]
    BY <1>1 DEF Advanced
  <2> QED BY <2>2, <2>3, PlaceChanged DEF Stays
<1>2. CASE ~(adv > 0)
  BY <1>2 DEF Advanced, Stays
<1> QED BY <1>1, <1>2

LEMMA JumpedMachine ==
    ASSUME NEW m, Sane(m), NEW p \in Places
    PROVE  Sane([m EXCEPT !.place = p]) /\ Stays(m, [m EXCEPT !.place = p])
           /\ [m EXCEPT !.place = p].place = p
BY PlaceChanged DEF Stays

LEMMA ClearedMachine ==
    ASSUME NEW m, Sane(m), NEW p \in Places
    PROVE  /\ Sane([UnwindAll(m) EXCEPT !.place = p])
           /\ Clears([UnwindAll(m) EXCEPT !.place = p])
<1>1. Sane(UnwindAll(m)) /\ Len(UnwindAll(m).levels) = 1
  BY UnwoundAll
<1> QED BY <1>1, PlaceChanged DEF Clears

LEMMA ReturnedMachine ==
    ASSUME NEW m, Sane(m), NEW skip \in {0, 1}
    PROVE  /\ Sane(FnReturn(m, skip))
           /\ Drops(m, FnReturn(m, skip), skip) \/ Clears(FnReturn(m, skip))
<1>1. CASE Level(m) > 0
  BY <1>1, Returned DEF Drops
<1>2. CASE Level(m) = 0
  BY <1>2, ReturnedAtBottom DEF Clears
<1> QED BY <1>1, <1>2, LevelsOf

LEMMA RestoredMachine ==
    ASSUME NEW m, Sane(m), NEW f \in ExecFrame
    PROVE  /\ Sane(RestoredCaller(m, f))
           /\ Cuts(m, RestoredCaller(m, f))
           /\ RestoredCaller(m, f).place = f.place
           /\ RestoredCaller(m, f).levels = UnwindTo(m, f.level).levels
<1>1. f.level \in Nat /\ f.place \in Places
  BY DEF ExecFrame
<1>2. Sane(UnwindTo(m, f.level)) /\ Cuts(m, UnwindTo(m, f.level))
  BY <1>1, Unwound DEF Cuts
<1> QED BY <1>1, <1>2, PlaceChanged DEF RestoredCaller, Cuts

LEMMA LocalsMachine ==
    ASSUME NEW m, Sane(m), NEW n \in 0 .. 99, NEW r \in AllocateLocalRegisters(m, n)
    PROVE  Sane(r.machine) /\ Stays(m, r.machine)
<1>1. Sane(r.machine) /\ SameButLocals(m, r.machine)
  BY Allocated
<1> DEFINE o == r.machine
           k == Len(m.levels)
<1> HIDE DEF o
<1>2. m.levels \in Seq(Headers) /\ o.levels \in Seq(Headers) /\ Len(o.levels) = k
      /\ k \in Nat \ {0}
  BY <1>1, LevelsOf DEF SameButLocals, o
<1>3. \A i \in 1 .. k - 1 : o.levels[i] = m.levels[i]
  <2>1. Front(o.levels) = Front(m.levels)
    BY <1>1 DEF SameButLocals, o
  <2> QED BY <2>1, <1>2, FrontOf
<1>4. o.levels[k].return = m.levels[k].return /\ o.levels[k].level = m.levels[k].level
  <2>1. Current(o) = o.levels[k] /\ Current(m) = m.levels[k]
    BY <1>1, <1>2, CurrentLevel DEF o
  <2> QED BY <2>1, <1>1 DEF SameButLocals, o
<1>5. \A i \in 1 .. k : i = k \/ i \in 1 .. k - 1
  BY <1>2
<1> QED BY <1>1, <1>2, <1>3, <1>4, <1>5 DEF Stays, o

-----------------------------------------------------------------------------
(* Types *)

LEMMA InitTyped == Init => Typed
<1> SUFFICES ASSUME Init PROVE Typed
  OBVIOUS
<1>1. frames \in Seq(Frames)
  BY DEF Init
<1>2. 0 <= MAX_ENGINE_NESTING_DEPTH
  BY EngineAssumption
<1> QED BY <1>1, <1>2, InitiallySane DEF Init, Typed, Statuses, Errors

LEMMA TypedStepDone == Typed /\ StepDone => Typed'
<1> SUFFICES ASSUME Typed, StepDone PROVE Typed'
  OBVIOUS
<1>1. frames # <<>> /\ Top.kind = "engine" /\ frames \in Seq(Frames)
  BY DEF StepDone, On, Typed
<1>2. Top \in EngineFrame /\ Below \in Seq(Frames) /\ Top.adv \in -1 .. 2
  <2>1. Top \in EngineFrame /\ Below \in Seq(Frames)
    BY <1>1, TopTyped, FrameKinds
  <2> QED BY <2>1 DEF EngineFrame
<1>3. WithTop([Top EXCEPT !.sub = 0, !.adv = 0, !.at = "fetch"]) \in Seq(Frames)
  <2>1. 0 \in Nat /\ 0 \in -1 .. 2 /\ "fetch" \in {"fetch", "called", "yield"}
    OBVIOUS
  <2>2. PICK x \in EngineFrame : x = Top
    BY <1>2
  <2>3. [x EXCEPT !.sub = 0, !.adv = 0, !.at = "fetch"] \in Frames
    BY <2>1, EngineTyped DEF Frames
  <2> QED BY <2>2, <2>3, <1>1, TopTyped
<1>4. Sane(machine')
  <2>1. machine' = Advanced(machine, Top.adv) \/ machine' = machine
    BY DEF StepDone
  <2> QED BY <2>1, <1>2, AdvancedMachine DEF Typed
<1>5. frames' \in Seq(Frames) /\ programRunStop' \in Statuses
  BY <1>2, <1>3 DEF StepDone, RunEnded, Typed, Statuses
<1> QED BY <1>4, <1>5 DEF StepDone, Typed, Errors

(* The frame of the engine whose step is executed. *)
LEMMA TypedStepped ==
    ASSUME Typed, Fetched, NEW adv \in -1 .. 2, NEW at \in {"called", "yield"}
    PROVE  WithTop(Stepped(adv, at)) \in Seq(Frames)
<1>1. frames # <<>> /\ Top.kind = "engine" /\ frames \in Seq(Frames)
  BY DEF Fetched, On, Typed
<1>2. PICK x \in EngineFrame : x = Top
  BY <1>1, TopTyped, FrameKinds
<1>3. PICK sub \in Nat : sub = Level(machine)
  BY LevelsOf DEF Typed
<1>4. [x EXCEPT !.sub = sub, !.adv = adv, !.at = at] \in Frames
  BY EngineTyped DEF Frames
<1> QED BY <1>1, <1>2, <1>3, <1>4, TopTyped DEF Stepped

LEMMA TypedPlaced ==
    ASSUME Typed, Fetched, NEW adv \in -1 .. 2, Placed(adv), Sane(machine'),
           programRunStop' \in Statuses, lastErrorCode' \in Errors, astray' \in BOOLEAN
    PROVE  Typed'
<1>1. WithTop(Stepped(adv, "yield")) \in Seq(Frames)
  BY TypedStepped
<1> QED BY <1>1 DEF Placed, Typed

LEMMA TypedExecuteOneStep == Typed /\ Inv /\ ExecuteOneStep => Typed'
<1> SUFFICES ASSUME Typed, Inv, ExecuteOneStep PROVE Typed'
  OBVIOUS
<1>0. Fetched
  BY DEF ExecuteOneStep, Plain, Fails, Gto, Xeq, LocR, Stop, Finish, PauseStep, SolveStep, Operation
<1>1. /\ Sane(machine) /\ programRunStop \in Statuses /\ lastErrorCode \in Errors
      /\ astray \in BOOLEAN /\ exitKeyWaiting \in BOOLEAN /\ reentered \in BOOLEAN
      /\ engineNestingDepth <= MAX_ENGINE_NESTING_DEPTH
  BY DEF Typed
<1>2. -1 \in -1 .. 2 /\ 0 \in -1 .. 2 /\ 1 \in -1 .. 2 /\ 2 \in -1 .. 2
  OBVIOUS
<1>3. CASE Plain
  BY <1>0, <1>1, <1>2, <1>3, TypedPlaced DEF Plain, Executed
<1>4. CASE Fails
  BY <1>0, <1>1, <1>2, <1>4, TypedPlaced DEF Fails, Executed, Errors
<1>5. CASE Gto
  <2>1. Sane(machine')
    BY <1>1, <1>5, LabelsArePlaces, JumpedMachine DEF Gto
  <2> QED BY <2>1, <1>0, <1>1, <1>2, <1>5, TypedPlaced DEF Gto, Executed
<1>6. CASE Xeq
  <2>1. PICK label \in Labels \cup {NoLabel} :
          \E x \in FnExecuteRunning(machine, label, "NONE") :
              machine' = x.machine /\ lastErrorCode' = x.error
    BY <1>6 DEF Xeq
  <2>2. Sane(machine') /\ lastErrorCode' \in {"NONE", "ERROR"}
    BY <2>1, <1>1, Called
  <2> QED BY <2>2, <1>0, <1>1, <1>2, <1>6, TypedPlaced DEF Xeq, Executed, Errors
<1>7. CASE \E skip \in {0, 1} : Rtn(skip)
  <2>1. Sane(machine')
    BY <1>1, <1>7, ReturnedMachine DEF Rtn
  <2> QED BY <2>1, <1>0, <1>1, <1>2, <1>7, TypedPlaced DEF Rtn, Executed
<1>8. CASE LocR
  <2>1. PICK n \in {0, 2} : \E r \in AllocateLocalRegisters(machine, n) :
            /\ machine' = r.machine
            /\ lastErrorCode' = IF r.failed THEN "ERROR" ELSE "NONE"
    BY <1>8 DEF LocR
  <2>2. n \in 0 .. 99
    BY <2>1
  <2>3. Sane(machine') /\ lastErrorCode' \in Errors
    BY <2>1, <2>2, <1>1, LocalsMachine DEF Errors
  <2> QED BY <2>3, <1>0, <1>1, <1>2, <1>8, TypedPlaced DEF LocR, Executed
<1>9. CASE Stop
  BY <1>0, <1>1, <1>2, <1>9, TypedPlaced DEF Stop, Executed, Statuses
<1>10. CASE Finish
  <2>1. Begin(machine.place.program) \in Places
    BY <1>1, LevelsOf, StepPointer
  <2>2. Sane(machine')
    BY <2>1, <1>1, <1>10, ClearedMachine DEF Finish
  <2>3. astray' \in BOOLEAN /\ programRunStop' \in Statuses /\ lastErrorCode' \in Errors
    BY <1>1, <1>10 DEF Finish, Statuses
  <2> QED BY <2>2, <2>3, <1>0, <1>2, <1>10, TypedPlaced DEF Finish
<1>11. WithTop(Stepped(1, "called")) \in Seq(Frames) /\ WithTop(Stepped(1, "yield")) \in Seq(Frames)
  BY <1>0, <1>2, TypedStepped
<1>12. CASE PauseStep
  <2>1. [kind |-> "pause", previous |-> programRunStop] \in Frames
    BY <1>1, NewFramesTyped
  <2>2. frames' \in Seq(Frames)
    BY <2>1, <1>11, <1>12 DEF PauseStep
  <2> QED BY <2>2, <1>1, <1>12 DEF PauseStep, Typed, Statuses
<1>13. CASE SolveStep
  <2>1. frames' \in Seq(Frames)
    <3>1. CASE frames' = WithTop(Stepped(1, "yield"))
      BY <1>11, <3>1
    <3>2. CASE \E p \in Labels : frames' = Append(WithTop(Stepped(1, "called")), Solver(p))
      <4>1. PICK p \in Labels : frames' = Append(WithTop(Stepped(1, "called")), Solver(p))
        BY <3>2
      <4>2. Solver(p) \in Frames
        BY NewFramesTyped
      <4> QED BY <4>1, <4>2, <1>11
    <3> QED BY <3>1, <3>2, <1>13 DEF SolveStep
  <2>2. exitKeyWaiting' \in BOOLEAN /\ programRunStop' \in Statuses
    BY <1>1, <1>13 DEF SolveStep, Statuses
  <2>3. engineNestingDepth' <= MAX_ENGINE_NESTING_DEPTH
    BY <1>1, <1>13, EngineAssumption, DepthIsNat DEF SolveStep, Inv
  <2> QED BY <2>1, <2>2, <2>3, <1>1, <1>13 DEF SolveStep, Typed
<1>14. CASE Fetched /\ IsAtEndOfProgram(machine.place) /\ Rtn(0)
  BY <1>7, <1>14
<1> QED BY <1>3, <1>4, <1>5, <1>6, <1>7, <1>8, <1>9, <1>10, <1>12, <1>13, <1>14 DEF ExecuteOneStep

LEMMA TypedPauseEnds == Typed /\ PauseEnds => Typed'
<1> SUFFICES ASSUME Typed, PauseEnds PROVE Typed'
  OBVIOUS
<1>1. frames # <<>> /\ Top.kind = "pause" /\ frames \in Seq(Frames) /\ 1 \in -1 .. 2
  BY DEF PauseEnds, On, Typed
<1>2. frames' \in Seq(Frames)
  BY <1>1, ReturnTyped DEF PauseEnds
<1>3. Top.previous \in Statuses
  <2>1. Top \in PauseFrame
    BY <1>1, TopTyped, FrameKinds
  <2> QED BY <2>1 DEF PauseFrame
<1>4. programRunStop' \in Statuses
  BY <1>3 DEF PauseEnds, AfterPause, Statuses
<1> QED BY <1>2, <1>4 DEF PauseEnds, Typed

LEMMA TypedSampled ==
    ASSUME Typed, On("solve"), Top.evals < MAX_SAMPLES
    PROVE  WithTop(Sampled) \in Seq(Frames) /\ Top.target \in Labels
<1>1. frames # <<>> /\ Top.kind = "solve" /\ frames \in Seq(Frames)
  BY DEF On, Typed
<1>2. Top \in SolveFrame
  BY <1>1, TopTyped, FrameKinds
<1>3. Top.evals + 1 \in 0 .. MAX_SAMPLES
  BY <1>2, EngineAssumption DEF SolveFrame
<1>4. BadGuess \in BOOLEAN
  BY <1>2 DEF BadGuess, SolveFrame
<1>5. Sampled \in Frames
  <2>1. PICK x \in SolveFrame : x = Top
    BY <1>2
  <2>2. PICK e \in 0 .. MAX_SAMPLES : e = x.evals + 1
    BY <1>3, <2>1
  <2>3. PICK b \in BOOLEAN : b = BadGuess
    BY <1>4
  <2>4. [x EXCEPT !.evals = e, !.bad = b] \in SolveFrame
    BY DEF SolveFrame
  <2>5. Sampled = [x EXCEPT !.evals = e, !.bad = b]
    BY <2>1, <2>2, <2>3 DEF Sampled
  <2> QED BY <2>4, <2>5 DEF Frames
<1> QED BY <1>1, <1>2, <1>5, TopTyped DEF SolveFrame

LEMMA TypedSample == Typed /\ Sample => Typed'
<1> SUFFICES ASSUME Typed, Sample PROVE Typed'
  OBVIOUS
<1>1. /\ Sane(machine) /\ programRunStop \in Statuses /\ lastErrorCode \in Errors
      /\ astray \in BOOLEAN /\ exitKeyWaiting \in BOOLEAN /\ reentered \in BOOLEAN
      /\ engineNestingDepth <= MAX_ENGINE_NESTING_DEPTH
  BY DEF Typed
<1>2. WithTop(Sampled) \in Seq(Frames) /\ Top.target \in Labels
  BY TypedSampled DEF Sample
<1>3. UNCHANGED <<engineNestingDepth, exitKeyWaiting, reentered>>
  BY DEF Sample
<1>4. CASE frames' = WithTop(Sampled) /\ UNCHANGED <<machine, programRunStop, lastErrorCode, astray>>
  BY <1>1, <1>2, <1>3, <1>4 DEF Typed
<1>5. CASE SampleNested
  <2>1. PICK x \in FnExecuteRunning(machine, Top.target, lastErrorCode) :
          /\ machine' = x.machine
          /\ frames' = WithTop(Sampled) \o
               <<[kind |-> "exec", level |-> Level(machine), place |-> machine.place],
                 RunProgram(x.machine, programRunStop, FALSE)>>
          /\ astray' = (astray \/ ~x.pushed)
    BY <1>5 DEF SampleNested
  <2>2. Sane(x.machine)
    BY <2>1, <1>1, <1>2, Called
  <2> DEFINE e == [kind |-> "exec", level |-> Level(machine), place |-> machine.place]
             r == RunProgram(x.machine, programRunStop, FALSE)
  <2>3. e \in Frames
    BY <1>1, LevelsOf, NewFramesTyped
  <2>4. r \in Frames
    BY <2>2, NewEngineTyped DEF Frames
  <2> HIDE DEF e, r
  <2>5. WithTop(Sampled) \o <<e, r>> \in Seq(Frames)
    BY <1>2, <2>3, <2>4
  <2>6. frames' \in Seq(Frames)
    BY <2>1, <2>5 DEF e, r
  <2>7. astray' \in BOOLEAN
    BY <2>1
  <2> QED BY <2>1, <2>2, <2>6, <2>7, <1>1, <1>3, <1>5 DEF SampleNested, Typed, Errors
<1>6. CASE SampleTopLevel
  <2>1. Sane(machine')
    BY <1>1, <1>2, <1>6, LabelsArePlaces, JumpedMachine DEF SampleTopLevel
  <2>2. RunProgram(machine, programRunStop, FALSE) \in Frames
    BY <1>1, NewEngineTyped DEF Frames
  <2>3. frames' \in Seq(Frames)
    <3>1. PICK f \in Seq(Frames) : f = WithTop(Sampled)
      BY <1>2
    <3>2. PICK r \in Frames : r = RunProgram(machine, programRunStop, FALSE)
      BY <2>2
    <3>3. frames' = f \/ frames' = Append(f, r)
      BY <3>1, <3>2, <1>6 DEF SampleTopLevel
    <3> QED BY <3>3
  <2>4. programRunStop' \in Statuses /\ astray' \in BOOLEAN
    BY <1>1, <1>6 DEF SampleTopLevel, Statuses
  <2> QED BY <2>1, <2>3, <2>4, <1>1, <1>3, <1>6 DEF SampleTopLevel, Typed
<1> QED BY <1>4, <1>5, <1>6 DEF Sample

LEMMA TypedSolve == Typed /\ Inv /\ Solve => Typed'
<1> SUFFICES ASSUME Typed, Inv, Solve PROVE Typed'
  OBVIOUS
<1>0. /\ engineNestingDepth \in Nat /\ engineNestingDepth <= MAX_ENGINE_NESTING_DEPTH
      /\ frames \in Seq(Frames) /\ MAX_ENGINE_NESTING_DEPTH \in Nat
      /\ 0 \in -1 .. 2 /\ 1 \in -1 .. 2 /\ 2 \in -1 .. 2
  BY DepthIsNat, EngineAssumption DEF Typed, Inv
<1>1. CASE ExecReturns
  <2>1. frames # <<>> /\ Top.kind = "exec"
    BY <1>1 DEF ExecReturns, On
  <2>2. Top \in ExecFrame /\ Below \in Seq(Frames)
    BY <2>1, <1>0, TopTyped, FrameKinds
  <2>3. Sane(machine')
    BY <2>2, <1>1, RestoredMachine DEF ExecReturns, Typed
  <2> QED BY <2>2, <2>3, <1>1 DEF ExecReturns, Typed
<1>2. CASE SolveEnds
  <2>1. frames # <<>>
    BY <1>2 DEF SolveEnds, On
  <2>2. frames' \in Seq(Frames)
    BY <2>1, <1>0, <1>2, ReturnTyped DEF SolveEnds
  <2>3. lastErrorCode' \in Errors
    BY <1>2 DEF SolveEnds, Errors
  <2>4. exitKeyWaiting' \in BOOLEAN
    BY <1>2 DEF SolveEnds
  <2>5. engineNestingDepth' <= MAX_ENGINE_NESTING_DEPTH
    BY <1>0, <1>2 DEF SolveEnds
  <2> QED BY <2>2, <2>3, <2>4, <2>5, <1>2 DEF SolveEnds, Typed
<1>3. CASE SolveAborted
  <2>1. frames # <<>>
    BY <1>3 DEF SolveAborted, On
  <2>2. frames' \in Seq(Frames)
    BY <2>1, <1>0, <1>3, ReturnTyped DEF SolveAborted
  <2>3. exitKeyWaiting' \in BOOLEAN
    BY <1>3 DEF SolveAborted
  <2>4. engineNestingDepth' <= MAX_ENGINE_NESTING_DEPTH
    BY <1>0, <1>3 DEF SolveAborted
  <2> QED BY <2>2, <2>3, <2>4, <1>3 DEF SolveAborted, Typed, Statuses, Errors
<1> QED BY <1>1, <1>2, <1>3, TypedSample DEF Solve

LEMMA TypedKey == Typed /\ Inv /\ Key => Typed'
<1> SUFFICES ASSUME Typed, Inv, Key PROVE Typed'
  OBVIOUS
<1>0. /\ Sane(machine) /\ programRunStop \in Statuses /\ lastErrorCode \in Errors
      /\ astray \in BOOLEAN /\ exitKeyWaiting \in BOOLEAN /\ reentered \in BOOLEAN
      /\ engineNestingDepth <= MAX_ENGINE_NESTING_DEPTH /\ frames \in Seq(Frames)
  BY DEF Typed
<1>1. CASE KeyWhileRunning \/ KeyReleased
  BY <1>1 DEF KeyWhileRunning, KeyReleased, Pressed, Typed, Statuses
<1>2. ASSUME NEW stopKey \in BOOLEAN, Runs(stopKey)
      PROVE  exitKeyWaiting' \in BOOLEAN /\ reentered' \in BOOLEAN /\ astray' \in BOOLEAN
  BY <1>0, <1>2 DEF Runs, Pressed
<1>3. \/ exitKeyWaiting' \in BOOLEAN /\ reentered' \in BOOLEAN /\ astray' \in BOOLEAN
      \/ KeyWhileRunning \/ KeyReleased
  BY <1>2 DEF Key, KeyRS, KeySST, KeyEXIT, KeyXEQ, KeyGTO, KeyRTN, KeyPAUSE, KeySOLVE
<1>4. ASSUME NEW m, Sane(m), NEW status, NEW single \in BOOLEAN,
             frames' = Append(frames, RunProgram(m, status, single))
      PROVE  frames' \in Seq(Frames)
  <2>1. RunProgram(m, status, single) \in Frames
    BY <1>4, NewEngineTyped DEF Frames
  <2> QED BY <2>1, <1>0, <1>4
<1>13. StatusBefore \subseteq Statuses /\ Awake \in Statuses
  BY <1>0 DEF StatusBefore, Awake, Statuses
<1>5. ASSUME Sane(machine'), frames' \in Seq(Frames), programRunStop' \in Statuses,
             lastErrorCode' \in Errors, engineNestingDepth' <= MAX_ENGINE_NESTING_DEPTH
      PROVE  Typed'
  BY <1>1, <1>3, <1>5 DEF Typed
<1>14. "NONE" \in Errors /\ "ABORT" \in Errors
  BY DEF Errors
<1>6. CASE KeyRS \/ KeySST
  <2>1. frames' \in Seq(Frames)
    BY <1>0, <1>4, <1>6 DEF KeyRS, KeySST
  <2> QED BY <2>1, <1>0, <1>14, <1>5, <1>6 DEF KeyRS, KeySST, Statuses
<1>7. CASE KeyEXIT
  BY <1>0, <1>13, <1>14, <1>5, <1>7 DEF KeyEXIT
<1>8. CASE KeyXEQ
  <2>1. Sane(machine')
    BY <1>0, <1>8, LabelsArePlaces, ClearedMachine DEF KeyXEQ
  <2>2. frames' \in Seq(Frames)
    BY <2>1, <1>4, <1>8 DEF KeyXEQ
  <2> QED BY <2>1, <2>2, <1>0, <1>14, <1>5, <1>8 DEF KeyXEQ, Statuses
<1>9. CASE KeyGTO
  <2>1. \A p \in 1 .. PROGRAMS : Begin(p) \in Places
    BY ProgramsAssumption DEF Begin, Places
  <2>2. Sane(machine')
    BY <2>1, <1>0, <1>9, ClearedMachine DEF KeyGTO
  <2> QED BY <2>2, <1>0, <1>13, <1>14, <1>5, <1>9 DEF KeyGTO
<1>10. CASE KeyRTN
  <2>1. 0 \in {0, 1}
    OBVIOUS
  <2>2. Sane(machine')
    BY <2>1, <1>0, <1>10, ReturnedMachine DEF KeyRTN
  <2> QED BY <2>2, <1>0, <1>13, <1>14, <1>5, <1>10 DEF KeyRTN
<1>11. CASE KeyPAUSE
  <2>1. frames' \in Seq(Frames)
    <3>1. PICK s \in StatusBefore : frames' = Append(frames, [kind |-> "pause", previous |-> s])
      BY <1>11 DEF KeyPAUSE
    <3>2. [kind |-> "pause", previous |-> s] \in Frames
      BY <1>13, NewFramesTyped
    <3> QED BY <1>0, <3>1, <3>2
  <2> QED BY <2>1, <1>0, <1>14, <1>5, <1>11 DEF KeyPAUSE, Statuses
<1>12. CASE KeySOLVE
  <2>1. frames' \in Seq(Frames)
    BY <1>0, <1>12, NewFramesTyped DEF KeySOLVE
  <2>2. engineNestingDepth' <= MAX_ENGINE_NESTING_DEPTH
    BY <1>0, <1>12, EngineAssumption, DepthIsNat DEF KeySOLVE, Inv
  <2>3. programRunStop' \in Statuses
    BY <1>12, <1>13 DEF KeySOLVE, Statuses
  <2> QED BY <2>1, <2>2, <2>3, <1>0, <1>14, <1>5, <1>12 DEF KeySOLVE
<1> QED BY <1>1, <1>6, <1>7, <1>8, <1>9, <1>10, <1>11, <1>12 DEF Key

LEMMA NextTyped == Typed /\ Inv /\ [Next]_vars => Typed'
<1> SUFFICES ASSUME Typed, Inv, [Next]_vars PROVE Typed'
  OBVIOUS
<1>1. CASE Next
  BY <1>1, TypedStepDone, TypedExecuteOneStep, TypedPauseEnds, TypedSolve, TypedKey
     DEF Next, Engine
<1>2. CASE UNCHANGED vars
  BY <1>2 DEF vars, Typed
<1> QED BY <1>1, <1>2

LEMMA AlwaysTyped == Spec => []Typed
<1> QED BY InitTyped, NextTyped, AlwaysInv, PTL DEF Spec

(* Every variable has the values its type and use allow, the step pointer  *)
(* is on a step of a program, and there is always a level: allSubroutine-  *)
(* Levels, currentProgramNumber and currentLocalStepNumber through         *)
(* fnExecute, fnReturn, fnGoto and the step pointer's moves.               *)
THEOREM TypesAreKept == Spec => []TypeOK
<1>1. ASSUME Typed, Inv PROVE TypeOK
  <2>1. /\ machine.place \in Places /\ machine.number \in Nat /\ machine.levels # <<>>
        /\ machine.levels \in Seq(Headers)
    BY <1>1, LevelsOf DEF Typed
  <2>2. \A i \in DOMAIN machine.levels : machine.levels[i] \in Headers
    BY <2>1
  <2>3. engineNestingDepth \in 0 .. MAX_ENGINE_NESTING_DEPTH
    BY <1>1, DepthIsNat, EngineAssumption DEF Typed, Inv
  <2> QED BY <1>1, <2>1, <2>2, <2>3 DEF Typed, TypeOK, Headers
<1> QED BY <1>1, AlwaysTyped, AlwaysInv, PTL

(* The pool counts exactly the blocks of the levels that are there, with   *)
(* the sizes they will be freed with, and no block is in two levels:       *)
(* allocateLocalRegisters undoes what was refused half-way, and fnReturn,  *)
(* FINISH, a key and the solver give back what the levels had.             *)
THEOREM PoolHasTheLevels == Spec => []LevelsOwnTheirBlocks
<1>1. ASSUME Typed PROVE LevelsOwnTheirBlocks
  <2> DEFINE levels == machine.levels
             n == Len(levels)
             blocks(i) == DOMAIN ClaimedBy(levels[i])
  <2>1. Chain(levels) /\ Owns(levels, machine.owned) /\ DOMAIN levels = 1 .. n
    <3>1. levels \in Seq(Headers)
      BY <1>1, LevelsOf DEF Typed
    <3> QED BY <1>1, <3>1 DEF Typed, Sane
  <2> HIDE DEF levels, n
  <2>2. DOMAIN machine.owned = UNION {blocks(i) : i \in DOMAIN levels}
    <3>1. \A b : b \in DOMAIN machine.owned <=> \E i \in 1 .. n : b \in blocks(i)
      BY <2>1 DEF Owns, Blocks, n
    <3> HIDE DEF blocks
    <3>2. \A b : b \in DOMAIN machine.owned <=> b \in UNION {blocks(i) : i \in DOMAIN levels}
      BY <2>1, <3>1
    <3> QED BY <3>2
  <2>3. \A i \in 1 .. n : \A b \in blocks(i) : machine.owned[b] = ClaimedBy(levels[i])[b]
    BY <2>1 DEF Owns, Blocks, n
  <2>4. ASSUME NEW i \in 1 .. n, NEW j \in (1 .. n) \ {i}
        PROVE  blocks(i) \cap blocks(j) = {}
    <3>1. \A b \in Blocks(levels[i]) : b \notin Blocks(levels[j])
      BY <2>1, ClaimsAreApart DEF n
    <3> QED BY <3>1 DEF Blocks
  <2> HIDE DEF blocks
  <2>5. /\ DOMAIN machine.owned = UNION {blocks(i) : i \in DOMAIN levels}
        /\ \A i \in DOMAIN levels :
              /\ \A b \in blocks(i) : machine.owned[b] = ClaimedBy(levels[i])[b]
              /\ \A j \in DOMAIN levels \ {i} : blocks(i) \cap blocks(j) = {}
    BY <2>1, <2>2, <2>3, <2>4
  <2> QED BY <2>5 DEF LevelsOwnTheirBlocks, blocks, levels
<1> QED BY <1>1, AlwaysTyped, PTL

-----------------------------------------------------------------------------
(* The levels as a stack of return places *)

PlacesOf(levels) == [i \in 1 .. Len(levels) - 1 |-> levels[i + 1].return]

LEMMA SameSequence ==
    ASSUME NEW S, NEW f \in Seq(S), NEW T, NEW g \in Seq(T), Len(f) = Len(g),
           \A i \in 1 .. Len(f) : f[i] = g[i]
    PROVE  f = g
OBVIOUS

LEMMA ReturnsTyped ==
    ASSUME NEW m, Sane(m)
    PROVE  /\ PlacesOf(m.levels) \in Seq(Places)
           /\ Len(PlacesOf(m.levels)) = Len(m.levels) - 1
           /\ \A i \in 1 .. Len(m.levels) - 1 : PlacesOf(m.levels)[i] = m.levels[i + 1].return
<1> DEFINE k == Len(m.levels) - 1
           f == PlacesOf(m.levels)
<1>1. k \in Nat /\ \A i \in 1 .. k : m.levels[i + 1].return \in Places
  <2>1. Len(m.levels) \in Nat \ {0}
        /\ \A i \in 1 .. Len(m.levels) : m.levels[i].return \in Places
    BY LevelsOf
  <2>2. k \in Nat
    BY <2>1
  <2>3. \A i \in 1 .. k : i + 1 \in 1 .. Len(m.levels)
    BY <2>1
  <2> QED BY <2>1, <2>2, <2>3
<1>2. f = [i \in 1 .. k |-> m.levels[i + 1].return]
  BY DEF PlacesOf
<1> HIDE DEF k, f
<1>3. f \in Seq(Places) /\ Len(f) = k
  BY <1>1, <1>2
<1> QED BY <1>2, <1>3 DEF f, k

LEMMA StaysReturns ==
    ASSUME NEW m, NEW n, Sane(m), Sane(n), Stays(m, n)
    PROVE  PlacesOf(n.levels) = PlacesOf(m.levels)
<1>1. Len(m.levels) \in Nat \ {0} /\ Len(n.levels) = Len(m.levels)
  BY LevelsOf DEF Stays
<1>2. \A i \in 1 .. Len(m.levels) - 1 : n.levels[i + 1].return = m.levels[i + 1].return
  BY <1>1 DEF Stays
<1> QED BY <1>1, <1>2 DEF PlacesOf

LEMMA AddsReturns ==
    ASSUME NEW m, NEW n, Sane(m), Sane(n), Adds(m, n)
    PROVE  PlacesOf(n.levels) = Append(PlacesOf(m.levels), m.place)
<1> DEFINE k == Len(m.levels)
           f == PlacesOf(m.levels)
           g == PlacesOf(n.levels)
           h == Append(m.levels, NewLevel(m))
<1>1. k \in Nat \ {0} /\ m.place \in Places /\ m.levels \in Seq(Headers)
  BY LevelsOf
<1>2. Len(h) = k + 1 /\ h[k + 1] = NewLevel(m) /\ \A i \in 1 .. k : h[i] = m.levels[i]
  BY <1>1, AppendFront
<1>3. Len(n.levels) = k + 1 /\ n.levels[k + 1].return = m.place
      /\ \A i \in 1 .. k : n.levels[i] = m.levels[i]
  <2> HIDE DEF h
  <2>1. Len(n.levels) = k + 1 /\ \A i \in 1 .. k + 1 : n.levels[i] = h[i]
    BY <1>2 DEF Adds, SameLevels, h
  <2> QED BY <2>1, <1>1, <1>2 DEF NewLevel
<1>4. /\ f \in Seq(Places) /\ Len(f) = k - 1
      /\ \A i \in 1 .. k - 1 : f[i] = m.levels[i + 1].return
  BY ReturnsTyped
<1>5. /\ g \in Seq(Places) /\ Len(g) = k
      /\ \A i \in 1 .. k : g[i] = n.levels[i + 1].return
  <2>1. Len(n.levels) - 1 = k
    BY <1>1, <1>3
  <2> QED BY <2>1, ReturnsTyped
<1> HIDE DEF f, g, h, k
<1>6. /\ Append(f, m.place) \in Seq(Places) /\ Len(Append(f, m.place)) = k
      /\ Append(f, m.place)[k] = m.place
      /\ \A i \in 1 .. k - 1 : Append(f, m.place)[i] = f[i]
  BY <1>1, <1>4
<1>7. \A i \in 1 .. k : g[i] = Append(f, m.place)[i]
  <2>1. TAKE i \in 1 .. k
  <2>2. CASE i = k
    BY <2>2, <1>3, <1>5, <1>6
  <2>3. CASE i # k
    <3>1. i \in 1 .. k - 1 /\ i + 1 \in 1 .. k
      BY <2>3, <1>1
    <3> QED BY <3>1, <1>3, <1>4, <1>5, <1>6
  <2> QED BY <2>2, <2>3
<1>8. g = Append(f, m.place)
  BY <1>5, <1>6, <1>7, SameSequence
<1> QED BY <1>8 DEF f, g

(* The lower levels are as they were. *)
LEMMA CutsReturns ==
    ASSUME NEW m, NEW n, Sane(m), Sane(n), Cuts(m, n)
    PROVE  /\ Len(n.levels) - 1 \in 0 .. Len(PlacesOf(m.levels))
           /\ PlacesOf(n.levels) = SubSeq(PlacesOf(m.levels), 1, Len(n.levels) - 1)
<1> DEFINE k == Len(m.levels)
           o == Len(n.levels)
           f == PlacesOf(m.levels)
           g == PlacesOf(n.levels)
<1>1. k \in Nat \ {0} /\ o \in 1 .. k /\ \A i \in 1 .. o : n.levels[i] = m.levels[i]
  BY LevelsOf DEF Cuts
<1>2. /\ f \in Seq(Places) /\ Len(f) = k - 1
      /\ \A i \in 1 .. k - 1 : f[i] = m.levels[i + 1].return
  BY ReturnsTyped
<1>3. /\ g \in Seq(Places) /\ Len(g) = o - 1
      /\ \A i \in 1 .. o - 1 : g[i] = n.levels[i + 1].return
  BY ReturnsTyped
<1> HIDE DEF f, g, k, o
<1>4. o - 1 \in 0 .. k - 1
  BY <1>1
<1>5. /\ SubSeq(f, 1, o - 1) \in Seq(Places) /\ Len(SubSeq(f, 1, o - 1)) = o - 1
      /\ \A i \in 1 .. o - 1 : SubSeq(f, 1, o - 1)[i] = f[i]
  BY <1>1, <1>2, <1>4
<1>6. \A i \in 1 .. o - 1 : g[i] = SubSeq(f, 1, o - 1)[i]
  <2>1. TAKE i \in 1 .. o - 1
  <2>2. i \in 1 .. k - 1 /\ i + 1 \in 1 .. o
    BY <1>1
  <2> QED BY <2>2, <1>1, <1>2, <1>3, <1>5
<1>7. g = SubSeq(f, 1, o - 1)
  BY <1>3, <1>5, <1>6, SameSequence
<1> QED BY <1>2, <1>4, <1>7 DEF f, g, o

LEMMA DropsReturns ==
    ASSUME NEW m, NEW n, NEW skip \in {0, 1}, Sane(m), Sane(n), Drops(m, n, skip)
    PROVE  LET f == PlacesOf(m.levels)
           IN /\ f # <<>>
              /\ PlacesOf(n.levels) = SubSeq(f, 1, Len(f) - 1)
              /\ n.place = Skip(f[Len(f)], skip + 1)
<1> DEFINE f == PlacesOf(m.levels)
           k == Len(m.levels)
<1>1. k \in Nat /\ k > 1 /\ Len(n.levels) = k - 1
      /\ (\A i \in 1 .. k - 1 : n.levels[i] = m.levels[i])
      /\ n.place = Skip(m.levels[k].return, skip + 1)
  BY LevelsOf DEF Drops
<1>2. f \in Seq(Places) /\ Len(f) = k - 1
      /\ \A i \in 1 .. k - 1 : f[i] = m.levels[i + 1].return
  BY ReturnsTyped
<1>3. Cuts(m, n)
  BY <1>1 DEF Cuts
<1>4. PlacesOf(n.levels) = SubSeq(f, 1, k - 1 - 1)
  BY <1>1, <1>3, CutsReturns
<1>5. f[k - 1] = m.levels[k].return
  <2>1. k - 1 \in 1 .. k - 1 /\ (k - 1) + 1 = k
    BY <1>1
  <2> QED BY <2>1, <1>2
<1>6. f # <<>>
  <2> HIDE DEF f
  <2> QED BY <1>1, <1>2
<1> HIDE DEF f, k
<1> QED BY <1>1, <1>2, <1>4, <1>5, <1>6 DEF f

LEMMA ClearsReturns ==
    ASSUME NEW n, Sane(n), Clears(n)
    PROVE  PlacesOf(n.levels) = <<>>
<1>1. PlacesOf(n.levels) \in Seq(Places) /\ Len(PlacesOf(n.levels)) = 0
  BY ReturnsTyped DEF Clears
<1> QED BY <1>1

-----------------------------------------------------------------------------
(* The solvers that wait *)

IsCaller(f, k) == k \in 1 .. Len(f) /\ f[k].kind = "exec"

CallersOf(f) == [i \in {k \in 1 .. Len(f) : f[k].kind = "exec"} |-> f[i].place]

SameCallers(f, g) ==
    /\ \A k : IsCaller(f, k) <=> IsCaller(g, k)
    /\ \A k : IsCaller(f, k) => f[k].place = g[k].place

LEMMA CallersAre ==
    ASSUME NEW S, NEW f \in Seq(S)
    PROVE  /\ CallersOf(f) = [i \in {k \in DOMAIN f : f[k].kind = "exec"} |-> f[i].place]
           /\ \A k : k \in DOMAIN CallersOf(f) <=> IsCaller(f, k)
           /\ \A k : IsCaller(f, k) => CallersOf(f)[k] = f[k].place
BY DEF CallersOf, IsCaller

LEMMA CallersEqual ==
    ASSUME NEW f, NEW g, SameCallers(f, g)
    PROVE  CallersOf(f) = CallersOf(g)
<1>1. CallersOf(f) = [i \in {k \in 1 .. Len(f) : f[k].kind = "exec"} |-> f[i].place]
      /\ CallersOf(g) = [i \in {k \in 1 .. Len(g) : g[k].kind = "exec"} |-> g[i].place]
  BY DEF CallersOf
<1>2. \A k : k \in {j \in 1 .. Len(f) : f[j].kind = "exec"} <=> IsCaller(f, k)
  BY DEF IsCaller
<1>3. \A k : k \in {j \in 1 .. Len(g) : g[j].kind = "exec"} <=> IsCaller(g, k)
  BY DEF IsCaller
<1>4. {j \in 1 .. Len(f) : f[j].kind = "exec"} = {j \in 1 .. Len(g) : g[j].kind = "exec"}
  BY <1>2, <1>3 DEF SameCallers
<1>5. \A k \in {j \in 1 .. Len(f) : f[j].kind = "exec"} : f[k].place = g[k].place
  BY <1>2 DEF SameCallers
<1> QED BY <1>1, <1>4, <1>5

LEMMA CallersChain ==
    ASSUME NEW f, NEW g, NEW h, SameCallers(f, g), SameCallers(g, h)
    PROVE  SameCallers(f, h)
BY DEF SameCallers

LEMMA PushedCallers ==
    ASSUME NEW S, NEW f \in Seq(S), NEW x, x.kind # "exec"
    PROVE  SameCallers(f, Append(f, x))
<1> DEFINE g == Append(f, x)
<1>1. Len(f) \in Nat /\ Len(g) = Len(f) + 1 /\ g[Len(f) + 1] = x
      /\ \A k \in 1 .. Len(f) : g[k] = f[k]
  BY AppendFront
<1> HIDE DEF g
<1> QED BY <1>1 DEF SameCallers, IsCaller, g

LEMMA PoppedCallers ==
    ASSUME NEW S, NEW f \in Seq(S), f # <<>>, Last(f).kind # "exec"
    PROVE  SameCallers(f, Front(f))
<1> DEFINE g == Front(f)
<1>1. Len(f) \in Nat \ {0} /\ Len(g) = Len(f) - 1 /\ Last(f) = f[Len(f)]
      /\ \A k \in 1 .. Len(f) - 1 : g[k] = f[k]
  BY FrontLast
<1> HIDE DEF g
<1> QED BY <1>1 DEF SameCallers, IsCaller, g

LEMMA ReplacedCallers ==
    ASSUME NEW S, NEW f \in Seq(S), f # <<>>, Last(f).kind # "exec", NEW y, y.kind # "exec"
    PROVE  SameCallers(f, Append(Front(f), y))
<1>1. Front(f) \in Seq(S)
  BY FrontLast
<1>2. SameCallers(f, Front(f)) /\ SameCallers(Front(f), Append(Front(f), y))
  BY <1>1, PoppedCallers, PushedCallers
<1> QED BY <1>2, CallersChain

LEMMA NewTopCallers ==
    ASSUME Typed, frames # <<>>, Top.kind # "exec", NEW x \in Frames, x.kind # "exec"
    PROVE  SameCallers(frames, WithTop(x)) /\ WithTop(x) \in Seq(Frames)
BY ReplacedCallers, TopTyped DEF Typed, Top, WithTop, Below

LEMMA SteppedKind ==
    ASSUME Typed, Fetched, NEW adv \in -1 .. 2, NEW at \in {"called", "yield"}
    PROVE  /\ SameCallers(frames, WithTop(Stepped(adv, at)))
           /\ WithTop(Stepped(adv, at)) \in Seq(Frames)
<1>1. frames # <<>> /\ Top.kind = "engine" /\ frames \in Seq(Frames)
  BY DEF Fetched, On, Typed
<1>2. PICK x \in EngineFrame : x = Top
  BY <1>1, TopTyped, FrameKinds
<1>3. PICK sub \in Nat : sub = Level(machine)
  BY LevelsOf DEF Typed
<1>4. [x EXCEPT !.sub = sub, !.adv = adv, !.at = at] \in EngineFrame
  BY EngineTyped
<1>5. PICK y \in EngineFrame : y = Stepped(adv, at)
  BY <1>2, <1>3, <1>4 DEF Stepped
<1>6. y \in Frames /\ y.kind # "exec"
  BY DEF Frames, EngineFrame
<1> QED BY <1>1, <1>5, <1>6, NewTopCallers

LEMMA ReturnCallers ==
    ASSUME Typed, frames # <<>>, Top.kind # "exec", NEW adv \in -1 .. 2
    PROVE  SameCallers(frames, ReturnWith(adv))
<1>1. frames \in Seq(Frames) /\ Below \in Seq(Frames) /\ SameCallers(frames, Below)
  BY TopTyped, PoppedCallers DEF Typed, Top, Below
<1>2. CASE CalledByStep
  <2>1. Below # <<>> /\ Last(Below).kind = "engine"
    BY <1>2 DEF CalledByStep
  <2>2. Last(Below) = Below[Len(Below)] /\ Len(Below) \in Nat \ {0}
    BY <1>1, <2>1, FrontLast
  <2>3. PICK x \in EngineFrame : x = Last(Below)
    <3>1. Last(Below) \in Frames
      BY <1>1, <2>2
    <3> QED BY <3>1, <2>1, FrameKinds
  <2>4. PICK y : y = [x EXCEPT !.at = "yield", !.adv = adv]
    OBVIOUS
  <2>5. y.kind = "engine"
    BY <2>4 DEF EngineFrame
  <2>6. SameCallers(Below, Append(Front(Below), y))
    BY <1>1, <2>1, <2>5, ReplacedCallers
  <2>7. ReturnWith(adv) = Append(Front(Below), y)
    BY <1>2, <2>3, <2>4 DEF ReturnWith, CalledByStep
  <2> QED BY <1>1, <2>6, <2>7, CallersChain
<1>3. CASE ~CalledByStep
  BY <1>1, <1>3 DEF ReturnWith, CalledByStep
<1> QED BY <1>2, <1>3

LEMMA NewFrameKinds ==
    /\ \A m, status, single : RunProgram(m, status, single).kind # "exec"
    /\ \A p : Solver(p).kind # "exec"
BY DEF RunProgram, Solver

(* A sample pushes a solver that waits, at the depth above the solver. *)
LEMMA SampleCallers ==
    ASSUME NEW S, NEW f \in Seq(S), NEW T, NEW g \in Seq(T), Len(g) = Len(f) + 2,
           g[Len(f) + 1].kind = "exec", g[Len(f) + 2].kind # "exec",
           \A i \in 1 .. Len(f) : g[i] = f[i]
    PROVE  \E depth :
              /\ \A d \in DOMAIN CallersOf(f) : d < depth
              /\ DOMAIN CallersOf(g) = DOMAIN CallersOf(f) \cup {depth}
              /\ CallersOf(g)[depth] = g[Len(f) + 1].place
              /\ \A d \in DOMAIN CallersOf(f) : CallersOf(g)[d] = CallersOf(f)[d]
<1> DEFINE k == Len(f)
           e == g[k + 1]
<1>1. k \in Nat
  OBVIOUS
<1>2. Len(g) = k + 2 /\ g[k + 1].kind = "exec" /\ g[k + 2].kind # "exec"
      /\ \A i \in 1 .. k : g[i] = f[i]
  OBVIOUS
<1>3. \A i : IsCaller(g, i) <=> IsCaller(f, i) \/ i = k + 1
  <2>1. \A i \in 1 .. k + 2 : i \in 1 .. k \/ i = k + 1 \/ i = k + 2
    BY <1>1
  <2>2. \A i \in 1 .. k : i \in 1 .. k + 2 /\ i # k + 1 /\ i # k + 2
    BY <1>1
  <2>3. k + 1 \in 1 .. k + 2
    BY <1>1
  <2> HIDE DEF k
  <2> QED BY <1>2, <2>1, <2>2, <2>3 DEF IsCaller, k
<1>4. \A i : IsCaller(f, i) => g[i] = f[i] /\ i < k + 1
  BY <1>1, <1>2 DEF IsCaller
<1>5. /\ \A i : i \in DOMAIN CallersOf(f) <=> IsCaller(f, i)
      /\ \A i : i \in DOMAIN CallersOf(g) <=> IsCaller(g, i)
      /\ \A i : IsCaller(g, i) => CallersOf(g)[i] = g[i].place
      /\ \A i : IsCaller(f, i) => CallersOf(f)[i] = f[i].place
  BY <1>1, <1>2, CallersAre
<1>7. DOMAIN CallersOf(g) = DOMAIN CallersOf(f) \cup {k + 1}
  BY <1>3, <1>5
<1>8. ~IsCaller(f, k + 1)
  BY <1>1 DEF IsCaller
<1>9. \A i \in DOMAIN CallersOf(g) :
        CallersOf(g)[i] = IF i = k + 1 THEN e.place ELSE CallersOf(f)[i]
  BY <1>2, <1>3, <1>4, <1>5, <1>8
<1>10. k + 1 \in DOMAIN CallersOf(g) /\ \A d \in DOMAIN CallersOf(f) : d < k + 1 /\ d # k + 1
  BY <1>4, <1>5, <1>7, <1>8
<1> QED BY <1>7, <1>9, <1>10

(* The latest one is the first that is given its result. *)
LEMMA SampledCallers ==
    ASSUME NEW S, NEW f \in Seq(S), f # <<>>, Last(f).kind = "exec"
    PROVE  \E depth \in DOMAIN CallersOf(f) :
              /\ \A d \in DOMAIN CallersOf(f) : d <= depth
              /\ Last(f).place = CallersOf(f)[depth]
              /\ DOMAIN CallersOf(Front(f)) = DOMAIN CallersOf(f) \ {depth}
              /\ \A d \in DOMAIN CallersOf(Front(f)) : CallersOf(Front(f))[d] = CallersOf(f)[d]
<1> DEFINE g == Front(f)
           k == Len(f)
<1>1. k \in Nat \ {0} /\ Len(g) = k - 1 /\ Last(f) = f[k] /\ g \in Seq(S)
      /\ \A i \in 1 .. k - 1 : g[i] = f[i]
  BY FrontLast
<1> HIDE DEF g
<1>2. \A i : IsCaller(g, i) <=> IsCaller(f, i) /\ i # k
  BY <1>1 DEF IsCaller
<1>3. IsCaller(f, k) /\ \A i : IsCaller(f, i) => i <= k
  BY <1>1 DEF IsCaller
<1>4. \A i : IsCaller(g, i) => g[i] = f[i]
  BY <1>1 DEF IsCaller
<1>5. /\ \A i : i \in DOMAIN CallersOf(f) <=> IsCaller(f, i)
      /\ \A i : i \in DOMAIN CallersOf(g) <=> IsCaller(g, i)
      /\ \A i : IsCaller(g, i) => CallersOf(g)[i] = g[i].place
      /\ \A i : IsCaller(f, i) => CallersOf(f)[i] = f[i].place
  BY <1>1, CallersAre
<1>7. DOMAIN CallersOf(g) = DOMAIN CallersOf(f) \ {k}
  BY <1>2, <1>5
<1>8. \A i \in DOMAIN CallersOf(g) : CallersOf(g)[i] = CallersOf(f)[i]
  BY <1>2, <1>4, <1>5
<1>9. k \in DOMAIN CallersOf(f) /\ CallersOf(f)[k] = Last(f).place
       /\ \A d \in DOMAIN CallersOf(f) : d <= k
  BY <1>1, <1>3, <1>5
<1> QED BY <1>7, <1>8, <1>9 DEF g

-----------------------------------------------------------------------------
(* Each step of the engine, the solver and the keys is one of the stack. *)

LEMMA StackNow ==
    Typed => ReturnPlaces = PlacesOf(machine.levels) /\ Callers = CallersOf(frames)
             /\ machine.place \in Places
BY CallersAre, LevelsOf DEF Typed, ReturnPlaces, PlacesOf, Callers

LEMMA StackNext ==
    Typed' => ReturnPlaces' = PlacesOf(machine'.levels) /\ Callers' = CallersOf(frames')
              /\ machine'.place \in Places
BY CallersAre, LevelsOf DEF Typed, ReturnPlaces, PlacesOf, Callers

LEMMA MoveStep ==
    ASSUME Typed, Typed', Stays(machine, machine'), SameCallers(frames, frames')
    PROVE  Calls!Next
<1>1. ReturnPlaces' = ReturnPlaces /\ Callers' = Callers /\ machine'.place \in Places
  BY StackNow, StackNext, StaysReturns, CallersEqual DEF Typed
<1> QED BY <1>1 DEF Calls!Next, Calls!Move

LEMMA CallStep ==
    ASSUME Typed, Typed', Adds(machine, machine'), SameCallers(frames, frames')
    PROVE  Calls!Next
<1>1. ReturnPlaces' = Append(ReturnPlaces, machine.place) /\ Callers' = Callers
      /\ machine'.place \in Places
  BY StackNow, StackNext, AddsReturns, CallersEqual DEF Typed
<1> QED BY <1>1 DEF Calls!Next, Calls!Call

LEMMA ResetStep ==
    ASSUME Typed, Typed', Clears(machine'), SameCallers(frames, frames')
    PROVE  Calls!Next
<1>1. ReturnPlaces' = <<>> /\ Callers' = Callers /\ machine'.place \in Places
  BY StackNow, StackNext, ClearsReturns, CallersEqual DEF Typed
<1> QED BY <1>1 DEF Calls!Next, Calls!Reset

LEMMA ReturnStep ==
    ASSUME Typed, Typed', NEW skip \in {0, 1}, machine' = FnReturn(machine, skip),
           SameCallers(frames, frames')
    PROVE  Calls!Next
<1>1. CASE Clears(machine')
  BY <1>1, ResetStep
<1>2. CASE Drops(machine, machine', skip)
  <2>1. /\ ReturnPlaces # <<>> /\ Callers' = Callers
        /\ ReturnPlaces' = SubSeq(ReturnPlaces, 1, Len(ReturnPlaces) - 1)
        /\ machine'.place = Skip(ReturnPlaces[Len(ReturnPlaces)], skip + 1)
    BY <1>2, StackNow, StackNext, DropsReturns, CallersEqual DEF Typed
  <2>2. skip + 1 \in {1, 2}
    OBVIOUS
  <2>3. Calls!Return
    BY <2>1, <2>2 DEF Calls!Return
  <2> QED BY <2>3 DEF Calls!Next
<1> QED BY <1>1, <1>2, ReturnedMachine DEF Typed

LEMMA NestsStepDone == Typed /\ Typed' /\ StepDone => Calls!Next
<1> SUFFICES ASSUME Typed, Typed', StepDone PROVE Calls!Next
  OBVIOUS
<1>1. frames # <<>> /\ Top.kind = "engine" /\ frames \in Seq(Frames)
  BY DEF StepDone, On, Typed
<1>2. PICK x \in EngineFrame : x = Top
  BY <1>1, TopTyped, FrameKinds
<1>3. Stays(machine, machine')
  <2>1. x.adv \in -1 .. 2
    BY DEF EngineFrame
  <2>2. machine' = Advanced(machine, x.adv) \/ machine' = machine
    BY <1>2 DEF StepDone
  <2> QED BY <2>1, <2>2, AdvancedMachine DEF Typed, Stays
<1>4. SameCallers(frames, Below)
  BY <1>1, PoppedCallers DEF Top, Below
<1>5. SameCallers(frames, WithTop([Top EXCEPT !.sub = 0, !.adv = 0, !.at = "fetch"]))
  <2>1. 0 \in Nat /\ 0 \in -1 .. 2 /\ "fetch" \in {"fetch", "called", "yield"}
    OBVIOUS
  <2>2. PICK y \in EngineFrame : y = [x EXCEPT !.sub = 0, !.adv = 0, !.at = "fetch"]
    BY <2>1, EngineTyped
  <2>3. y \in Frames /\ y.kind # "exec"
    BY DEF Frames, EngineFrame
  <2> QED BY <2>2, <2>3, <1>1, <1>2, NewTopCallers
<1>6. SameCallers(frames, frames')
  BY <1>4, <1>5 DEF StepDone
<1> QED BY <1>3, <1>6, MoveStep

LEMMA StaysItself == ASSUME NEW m PROVE Stays(m, m)
BY DEF Stays

LEMMA NestsExecuteOneStep == Typed /\ Typed' /\ ExecuteOneStep => Calls!Next
<1> SUFFICES ASSUME Typed, Typed', ExecuteOneStep PROVE Calls!Next
  OBVIOUS
<1>0. Fetched
  BY DEF ExecuteOneStep, Plain, Fails, Gto, Xeq, LocR, Stop, Finish, PauseStep, SolveStep, Operation
<1>1. Sane(machine) /\ Stays(machine, machine)
  BY StaysItself DEF Typed
<1>2. ASSUME NEW adv \in -1 .. 2, Placed(adv) PROVE SameCallers(frames, frames')
  BY <1>0, <1>2, SteppedKind DEF Placed
<1>3. -1 \in -1 .. 2 /\ 0 \in -1 .. 2 /\ 1 \in -1 .. 2 /\ 2 \in -1 .. 2
  OBVIOUS
<1>4. CASE Plain \/ Fails \/ Stop
  <2>1. machine' = machine /\ \E adv \in {1, 2} : Placed(adv)
    BY <1>4 DEF Plain, Fails, Stop, Executed
  <2> QED BY <2>1, <1>1, <1>2, <1>3, MoveStep
<1>5. CASE Gto
  <2>1. Stays(machine, machine') /\ Placed(-1)
    BY <1>1, <1>5, LabelsArePlaces, JumpedMachine DEF Gto, Executed
  <2> QED BY <2>1, <1>2, <1>3, MoveStep
<1>6. CASE Xeq
  <2>1. PICK label \in Labels \cup {NoLabel} :
          \E x \in FnExecuteRunning(machine, label, "NONE") : machine' = x.machine
    BY <1>6 DEF Xeq
  <2>2. PICK x \in FnExecuteRunning(machine, label, "NONE") : machine' = x.machine
    BY <2>1
  <2>3. Placed(-1)
    BY <1>6 DEF Xeq, Executed
  <2>4. CASE x.pushed
    <3>1. Adds(machine, machine')
      BY <2>2, <2>4, <1>1, Called DEF Adds
    <3> QED BY <3>1, <2>3, <1>2, <1>3, CallStep
  <2>5. CASE ~x.pushed
    <3>1. Stays(machine, machine')
      BY <2>2, <2>5, <1>1, Called DEF Stays, SameLevels
    <3> QED BY <3>1, <2>3, <1>2, <1>3, MoveStep
  <2> QED BY <2>4, <2>5
<1>7. CASE \E skip \in {0, 1} : Rtn(skip)
  <2>1. PICK skip \in {0, 1} : machine' = FnReturn(machine, skip) /\ Placed(0)
    BY <1>7 DEF Rtn, Executed
  <2> QED BY <2>1, <1>2, <1>3, ReturnStep
<1>8. CASE LocR
  <2>1. PICK n \in {0, 2} : \E r \in AllocateLocalRegisters(machine, n) : machine' = r.machine
    BY <1>8 DEF LocR
  <2>2. n \in 0 .. 99
    BY <2>1
  <2>3. Stays(machine, machine') /\ Placed(1)
    BY <2>1, <2>2, <1>1, <1>8, LocalsMachine DEF LocR, Executed
  <2> QED BY <2>3, <1>2, <1>3, MoveStep
<1>9. CASE Finish
  <2>1. Begin(machine.place.program) \in Places
    BY <1>1, LevelsOf, StepPointer
  <2>2. Clears(machine') /\ Placed(-1)
    BY <2>1, <1>1, <1>9, ClearedMachine DEF Finish
  <2> QED BY <2>2, <1>2, <1>3, ResetStep
<1>10. PICK f \in Seq(Frames) : f = WithTop(Stepped(1, "called")) /\ SameCallers(frames, f)
  BY <1>0, <1>3, SteppedKind
<1>11. ASSUME NEW x, x.kind # "exec", frames' = Append(f, x)
       PROVE  SameCallers(frames, frames')
  BY <1>10, <1>11, PushedCallers, CallersChain
<1>12. CASE PauseStep
  <2>1. PICK x : x = [kind |-> "pause", previous |-> programRunStop]
    OBVIOUS
  <2>2. x.kind # "exec" /\ frames' = Append(f, x) /\ machine' = machine
    BY <2>1, <1>10, <1>12 DEF PauseStep
  <2> QED BY <2>2, <1>1, <1>11, MoveStep
<1>13. CASE SolveStep
  <2>1. machine' = machine
    BY <1>13 DEF SolveStep
  <2>2. CASE frames' = WithTop(Stepped(1, "yield"))
    BY <2>1, <2>2, <1>0, <1>1, <1>3, SteppedKind, MoveStep
  <2>3. CASE \E p \in Labels : frames' = Append(f, Solver(p))
    BY <2>1, <2>3, <1>1, <1>11, NewFrameKinds, MoveStep
  <2> QED BY <2>2, <2>3, <1>10, <1>13 DEF SolveStep
<1> QED BY <1>4, <1>5, <1>6, <1>7, <1>8, <1>9, <1>12, <1>13 DEF ExecuteOneStep

LEMMA NestsSample == Typed /\ Typed' /\ Sample => Calls!Next
<1> SUFFICES ASSUME Typed, Typed', Sample PROVE Calls!Next
  OBVIOUS
<1>0. frames # <<>> /\ Top.kind = "solve" /\ frames \in Seq(Frames) /\ Sane(machine)
  BY DEF Sample, On, Typed
<1>1. PICK f \in Seq(Frames) : f = WithTop(Sampled) /\ SameCallers(frames, f)
  <2>1. WithTop(Sampled) \in Seq(Frames)
    BY TypedSampled DEF Sample
  <2>2. PICK x \in SolveFrame : x = Top
    BY <1>0, TopTyped, FrameKinds
  <2>3. PICK y : y = Sampled /\ y.kind # "exec"
    <3>1. \A e, b : [x EXCEPT !.evals = e, !.bad = b].kind = "solve"
      BY DEF SolveFrame
    <3>2. PICK e : e = x.evals + 1
      OBVIOUS
    <3>3. PICK b : b = BadGuess
      OBVIOUS
    <3>4. Sampled = [x EXCEPT !.evals = e, !.bad = b]
      BY <2>2, <3>2, <3>3 DEF Sampled
    <3> QED BY <3>1, <3>4
  <2>4. SameCallers(frames, Append(Front(frames), y))
    BY <2>3, <1>0, ReplacedCallers DEF Top
  <2> QED BY <2>1, <2>3, <2>4 DEF WithTop, Below
<1>2. CASE frames' = f /\ machine' = machine
  BY <1>1, <1>2, StaysItself, MoveStep
<1>3. CASE SampleTopLevel
  <2>1. Top.target \in Labels
    BY TypedSampled DEF Sample
  <2>2. Stays(machine, machine')
    BY <2>1, <1>0, <1>3, LabelsArePlaces, JumpedMachine DEF SampleTopLevel
  <2>3. frames' = f \/ frames' = Append(f, RunProgram(machine, programRunStop, FALSE))
    BY <1>1, <1>3 DEF SampleTopLevel
  <2>4. SameCallers(f, Append(f, RunProgram(machine, programRunStop, FALSE)))
    BY PushedCallers, NewFrameKinds
  <2>5. SameCallers(frames, Append(f, RunProgram(machine, programRunStop, FALSE)))
    BY <2>4, <1>1, CallersChain
  <2>6. SameCallers(frames, frames')
    BY <2>3, <2>5, <1>1
  <2> QED BY <2>2, <2>6, MoveStep
<1>4. CASE SampleNested
  <2>1. PICK x \in FnExecuteRunning(machine, Top.target, lastErrorCode) :
          /\ machine' = x.machine
          /\ frames' = WithTop(Sampled) \o
               <<[kind |-> "exec", level |-> Level(machine), place |-> machine.place],
                 RunProgram(x.machine, programRunStop, FALSE)>>
    BY <1>4 DEF SampleNested
  <2>2. Top.target \in Labels
    BY TypedSampled DEF Sample
  <2>3. ReturnPlaces' \in {ReturnPlaces, Append(ReturnPlaces, machine.place)}
    <3>1. CASE x.pushed
      <4>1. Adds(machine, machine')
        BY <2>1, <2>2, <3>1, <1>0, Called DEF Adds
      <4> QED BY <4>1, StackNow, StackNext, AddsReturns DEF Typed
    <3>2. CASE ~x.pushed
      <4>1. Stays(machine, machine')
        BY <2>1, <2>2, <3>2, <1>0, Called DEF Stays, SameLevels
      <4> QED BY <4>1, StackNow, StackNext, StaysReturns DEF Typed
    <3> QED BY <3>1, <3>2
  <2>4. PICK e : e = [kind |-> "exec", level |-> Level(machine), place |-> machine.place]
    OBVIOUS
  <2>5. PICK r : r = RunProgram(x.machine, programRunStop, FALSE)
    OBVIOUS
  <2>6. e.kind = "exec" /\ e.place = machine.place /\ r.kind # "exec" /\ frames' = f \o <<e, r>>
    BY <2>1, <2>4, <2>5, <1>1, NewFrameKinds
  <2>7. Callers = CallersOf(f) /\ Callers' = CallersOf(f \o <<e, r>>)
    BY <2>6, <1>1, StackNow, StackNext, CallersEqual
  <2>8. \E depth \in DOMAIN Callers' :
           /\ \A d \in DOMAIN Callers : d < depth
           /\ Callers' = [d \in DOMAIN Callers \cup {depth} |->
                             IF d = depth THEN machine.place ELSE Callers[d]]
    <3>1. PICK old : old = CallersOf(f)
      OBVIOUS
    <3>2. PICK new : new = CallersOf(f \o <<e, r>>)
      OBVIOUS
    <3>7. PICK any : any = Frames \cup {e, r}
      OBVIOUS
    <3>8. f \in Seq(any) /\ <<e, r>> \in Seq(any)
      <4>1. Frames \subseteq any /\ e \in any /\ r \in any
        BY <3>7
      <4> QED BY <4>1
    <3>9. PICK g \in Seq(any) : g = f \o <<e, r>>
      <4>1. PICK t \in Seq(any) : t = <<e, r>>
        BY <3>8
      <4>2. f \o t \in Seq(any)
        BY <3>8
      <4> QED BY <4>1, <4>2
    <3>10. /\ Len(g) = Len(f) + 2 /\ g[Len(f) + 1] = e /\ g[Len(f) + 2] = r
           /\ \A i \in 1 .. Len(f) : g[i] = f[i]
      BY <3>8, <3>9
    <3>3. PICK depth :
             /\ \A d \in DOMAIN old : d < depth
             /\ DOMAIN new = DOMAIN old \cup {depth} /\ new[depth] = e.place
             /\ \A d \in DOMAIN old : new[d] = old[d]
      <4>1. g[Len(f) + 1].kind = "exec" /\ g[Len(f) + 2].kind # "exec"
        BY <2>6, <3>10
      <4>2. \E depth :
              /\ \A d \in DOMAIN CallersOf(f) : d < depth
              /\ DOMAIN CallersOf(g) = DOMAIN CallersOf(f) \cup {depth}
              /\ CallersOf(g)[depth] = g[Len(f) + 1].place
              /\ \A d \in DOMAIN CallersOf(f) : CallersOf(g)[d] = CallersOf(f)[d]
        BY <3>8, <3>9, <3>10, <4>1, SampleCallers
      <4> QED BY <3>1, <3>2, <3>9, <3>10, <4>2
    <3>4. Callers = old /\ Callers' = new /\ e.place = machine.place
      BY <2>6, <2>7, <3>1, <3>2
    <3>5. new = [d \in DOMAIN new |-> new[d]]
      BY <3>2 DEF CallersOf
    <3>6. new = [d \in DOMAIN old \cup {depth} |->
                   IF d = depth THEN machine.place ELSE old[d]]
      BY <3>3, <3>4, <3>5
    <3> QED BY <3>3, <3>4, <3>6
  <2>9. machine'.place \in Places
    BY StackNext
  <2>10. Calls!Sample
    BY <2>3, <2>8, <2>9 DEF Calls!Sample
  <2> QED BY <2>10 DEF Calls!Next
<1> QED BY <1>1, <1>2, <1>3, <1>4 DEF Sample

LEMMA NestsExecReturns == Typed /\ Typed' /\ ExecReturns => Calls!Next
<1> SUFFICES ASSUME Typed, Typed', ExecReturns PROVE Calls!Next
  OBVIOUS
<1>0. frames # <<>> /\ Top.kind = "exec" /\ frames \in Seq(Frames) /\ Sane(machine)
      /\ frames' = Front(frames)
  BY DEF ExecReturns, On, Typed, Below
<1>1. Top \in ExecFrame
  BY <1>0, TopTyped, FrameKinds
<1>2. Cuts(machine, machine') /\ machine'.place = Top.place
  BY <1>0, <1>1, RestoredMachine DEF ExecReturns
<1>3. \E n \in 0 .. Len(ReturnPlaces) : ReturnPlaces' = SubSeq(ReturnPlaces, 1, n)
  <2>1. /\ Len(machine'.levels) - 1 \in 0 .. Len(PlacesOf(machine.levels))
        /\ PlacesOf(machine'.levels) =
              SubSeq(PlacesOf(machine.levels), 1, Len(machine'.levels) - 1)
    BY <1>2, CutsReturns DEF Typed
  <2> QED BY <2>1, StackNow, StackNext
<1>4. \E depth \in DOMAIN Callers :
         /\ \A d \in DOMAIN Callers : d <= depth
         /\ machine'.place = Callers[depth]
         /\ Callers' = [d \in DOMAIN Callers \ {depth} |-> Callers[d]]
  <2>0. PICK f \in Seq(Frames) : f = frames
    BY <1>0
  <2>1. PICK old : old = CallersOf(f)
    OBVIOUS
  <2>2. PICK new : new = CallersOf(Front(f))
    OBVIOUS
  <2>3. PICK depth \in DOMAIN old :
           /\ \A d \in DOMAIN old : d <= depth
           /\ Last(f).place = old[depth]
           /\ DOMAIN new = DOMAIN old \ {depth}
           /\ \A d \in DOMAIN new : new[d] = old[d]
    <3>1. f # <<>> /\ Last(f).kind = "exec"
      BY <1>0, <2>0 DEF Top
    <3> QED BY <2>1, <2>2, <3>1, SampledCallers
  <2>4. Callers = old /\ Callers' = new /\ machine'.place = Last(f).place
    BY <1>0, <1>2, <2>0, <2>1, <2>2, StackNow, StackNext DEF Top
  <2>5. new = [d \in DOMAIN new |-> new[d]]
    BY <2>2 DEF CallersOf
  <2>6. new = [d \in DOMAIN old \ {depth} |-> old[d]]
    BY <2>3, <2>5
  <2> QED BY <2>3, <2>4, <2>6
<1>5. Calls!Sampled
  BY <1>3, <1>4 DEF Calls!Sampled
<1> QED BY <1>5 DEF Calls!Next

LEMMA NestsReturning == Typed /\ Typed' /\ (PauseEnds \/ SolveEnds \/ SolveAborted) => Calls!Next
<1> SUFFICES ASSUME Typed, Typed', PauseEnds \/ SolveEnds \/ SolveAborted PROVE Calls!Next
  OBVIOUS
<1>1. /\ frames # <<>> /\ Top.kind # "exec" /\ machine' = machine
      /\ \E adv \in {0, 1, 2} : frames' = ReturnWith(adv)
  BY DEF PauseEnds, SolveEnds, SolveAborted, On
<1>2. \A adv \in {0, 1, 2} : adv \in -1 .. 2
  OBVIOUS
<1>3. SameCallers(frames, frames')
  BY <1>1, <1>2, ReturnCallers
<1> QED BY <1>1, <1>3, StaysItself, MoveStep

LEMMA NestsKey == Typed /\ Typed' /\ Key => Calls!Next
<1> SUFFICES ASSUME Typed, Typed', Key PROVE Calls!Next
  OBVIOUS
<1>0. Sane(machine) /\ frames \in Seq(Frames) /\ Stays(machine, machine)
      /\ SameCallers(frames, frames)
  BY StaysItself DEF Typed, SameCallers
<1>1. ASSUME NEW x, x.kind # "exec", frames' = Append(frames, x)
      PROVE  SameCallers(frames, frames')
  BY <1>0, <1>1, PushedCallers
<1>2. CASE KeyWhileRunning \/ KeyReleased \/ KeyEXIT
  BY <1>0, <1>2, MoveStep DEF KeyWhileRunning, KeyReleased, KeyEXIT
<1>3. CASE KeyRS \/ KeySST
  <2>1. machine' = machine /\ SameCallers(frames, frames')
    BY <1>1, <1>3, NewFrameKinds DEF KeyRS, KeySST
  <2> QED BY <2>1, <1>0, MoveStep
<1>4. CASE KeyXEQ
  <2>1. Clears(machine')
    BY <1>0, <1>4, LabelsArePlaces, ClearedMachine DEF KeyXEQ
  <2>2. SameCallers(frames, frames')
    BY <1>1, <1>4, NewFrameKinds DEF KeyXEQ
  <2> QED BY <2>1, <2>2, ResetStep
<1>5. CASE KeyGTO
  <2>1. \A p \in 1 .. PROGRAMS : Begin(p) \in Places
    BY ProgramsAssumption DEF Begin, Places
  <2>2. Clears(machine') /\ frames' = frames
    BY <2>1, <1>0, <1>5, ClearedMachine DEF KeyGTO
  <2> QED BY <2>2, <1>0, ResetStep
<1>6. CASE KeyRTN
  <2>1. 0 \in {0, 1}
    OBVIOUS
  <2> QED BY <2>1, <1>0, <1>6, ReturnStep DEF KeyRTN
<1>7. CASE KeyPAUSE
  <2>1. \A s : [kind |-> "pause", previous |-> s].kind # "exec"
    OBVIOUS
  <2>2. PICK x : x.kind # "exec" /\ frames' = Append(frames, x) /\ machine' = machine
    BY <2>1, <1>7 DEF KeyPAUSE
  <2> QED BY <2>2, <1>0, <1>1, MoveStep
<1>8. CASE KeySOLVE
  <2>1. machine' = machine
    BY <1>8 DEF KeySOLVE
  <2>2. SameCallers(frames, frames')
    BY <1>0, <1>1, <1>8, NewFrameKinds DEF KeySOLVE
  <2> QED BY <2>1, <2>2, <1>0, MoveStep
<1> QED BY <1>2, <1>3, <1>4, <1>5, <1>6, <1>7, <1>8 DEF Key

LEMMA InitNests == Init => Calls!Init
<1> SUFFICES ASSUME Init PROVE Calls!Init
  OBVIOUS
<1>1. ReturnPlaces = PlacesOf(machine.levels) /\ Callers = CallersOf(frames)
      /\ machine.place \in Places
  BY InitTyped, StackNow
<1>2. PlacesOf(machine.levels) = <<>>
  BY InitiallySane, ClearsReturns DEF Init, Clears
<1>3. DOMAIN Callers = {}
  BY DEF Init, Callers
<1> QED BY <1>1, <1>2, <1>3 DEF Calls!Init

LEMMA NextNests == Typed /\ Typed' /\ [Next]_vars => [Calls!Next]_(Calls!vars)
<1> SUFFICES ASSUME Typed, Typed', [Next]_vars PROVE [Calls!Next]_(Calls!vars)
  OBVIOUS
<1>1. CASE Next
  BY <1>1, NestsStepDone, NestsExecuteOneStep, NestsSample, NestsExecReturns, NestsReturning,
     NestsKey DEF Next, Engine, Solve
<1>2. CASE UNCHANGED vars
  BY <1>2 DEF vars, Calls!vars, ReturnPlaces, Callers
<1> QED BY <1>1, <1>2

(* Calls and returns nest (fnExecute, fnReturn, execProgram): the engine   *)
(* implements the stack of return places of CallStack, whatever the        *)
(* programs do, however a run ends and whatever the pool refuses.  A level *)
(* is only added by a call, with the caller's place, and goes away from    *)
(* the top; a sample of a solved function ends at the step that asked for  *)
(* it.                                                                     *)
THEOREM CallsAndReturnsNest == Spec => CallsNest
<1>1. Typed /\ Inv /\ [Next]_vars => [Calls!Next]_(Calls!vars)
  BY NextTyped, NextNests
<1> QED BY <1>1, InitNests, AlwaysTyped, AlwaysInv, PTL DEF Spec, CallsNest, Calls!Spec

-----------------------------------------------------------------------------
(* A sampled function runs above its caller. *)

Numbers(m) == {m.levels[k].level : k \in 1 .. Len(m.levels)}

IsExec(f, i) == f[i].kind = "exec"

(* The solver that waits in frame i of the C stack f keeps its program's   *)
(* level, one of the numbers V.                                            *)
Waits(f, V, i) == i > 1 /\ f[i - 1].kind = "solve" /\ f[i].level \in V

(* The engine it waits for was started above it, still has the level it    *)
(* was started in, unless it is the running one, and who waits further up  *)
(* is not below that level.                                                *)
RunsAbove(f, V, i) ==
    /\ f[i + 1].kind = "engine" /\ f[i].level < f[i + 1].start
    /\ i + 1 < Len(f) => f[i + 1].start \in V
    /\ \A j \in i + 1 .. Len(f) : IsExec(f, j) => f[i + 1].start <= f[j].level

(* An engine runs for a solver that waits, or nothing below it waits. *)
Rooted(f, i) == (i > 1 /\ IsExec(f, i - 1)) \/ \A j \in 1 .. i - 1 : ~IsExec(f, j)

Nested(f, V) ==
    /\ \A i \in 1 .. Len(f) : IsExec(f, i) => Waits(f, V, i)
    /\ \A i \in 1 .. Len(f) - 1 : IsExec(f, i) => RunsAbove(f, V, i)
    /\ \A i \in 1 .. Len(f) : f[i].kind = "engine" => Rooted(f, i)

(* The running engine has the level it was started in as well ... *)
Kept(f, V) == Len(f) > 1 /\ IsExec(f, Len(f) - 1) => f[Len(f)].start \in V

(* ... unless it has just left it and will end. *)
JustReturned(x) ==
    x.kind = "engine" /\ x.at = "yield" /\ x.adv = 0 /\ x.sub = x.start

(* While no key ran a function inside a yield, no sample was without a     *)
(* level and no FINISH left a solver at work: the invariant.               *)
Above ==
    ~reentered /\ ~astray =>
        /\ Nested(frames, Numbers(machine))
        /\ Kept(frames, Numbers(machine)) \/ JustReturned(Top)

LEMMA FrameNumbers ==
    ASSUME NEW f \in Seq(Frames)
    PROVE  /\ \A i \in 1 .. Len(f) : IsExec(f, i) => f[i].level \in Nat
           /\ \A i \in 1 .. Len(f) : f[i].kind = "engine" => f[i].start \in Nat
<1>1. \A i \in 1 .. Len(f) : f[i] \in Frames
  OBVIOUS
<1>2. \A i \in 1 .. Len(f) : IsExec(f, i) => f[i] \in ExecFrame
  BY <1>1, FrameKinds DEF IsExec
<1>3. \A i \in 1 .. Len(f) : f[i].kind = "engine" => f[i] \in EngineFrame
  BY <1>1, FrameKinds
<1> QED BY <1>2, <1>3 DEF ExecFrame, EngineFrame

LEMMA NoCallers ==
    ASSUME NEW f, NEW V, \A i \in 1 .. Len(f) : ~IsExec(f, i), Len(f) \in Nat
    PROVE  Nested(f, V) /\ Kept(f, V)
<1>1. \A i \in 1 .. Len(f) : i - 1 \in Int /\ (i > 1 => i - 1 \in 1 .. Len(f))
                             /\ \A j \in 1 .. i - 1 : j \in 1 .. Len(f)
  OBVIOUS
<1>2. \A i \in 1 .. Len(f) - 1 : i \in 1 .. Len(f)
  OBVIOUS
<1>3. Len(f) > 1 => Len(f) - 1 \in 1 .. Len(f)
  OBVIOUS
<1> QED BY <1>1, <1>2, <1>3 DEF Nested, Kept, Rooted

(* The running function goes on. *)
LEMMA NestedReplaced ==
    ASSUME NEW f \in Seq(Frames), f # <<>>, NEW y, y.kind = Last(f).kind,
           y.kind # "exec", y.kind = "engine" => y.start = Last(f).start,
           NEW V, Nested(f, V), NEW W, V \subseteq W
    PROVE  /\ Nested(Append(Front(f), y), W)
           /\ Kept(f, V) => Kept(Append(Front(f), y), W)
           /\ Last(Append(Front(f), y)) = y
<1> DEFINE g == Append(Front(f), y)
           n == Len(f)
<1>1. /\ Front(f) \in Seq(Frames) /\ n \in Nat \ {0} /\ Len(Front(f)) = n - 1
      /\ Last(f) = f[n] /\ \A k \in 1 .. n - 1 : Front(f)[k] = f[k]
  BY FrontLast
<1>2. /\ Len(g) = n /\ g[n] = y /\ Last(g) = y
      /\ \A k \in 1 .. n - 1 : g[k] = f[k]
  BY <1>1, AppendFront
<1> HIDE DEF g
<1>3. \A k \in 1 .. n : k = n \/ k \in 1 .. n - 1
  BY <1>1
<1>4. \A k \in 1 .. n : /\ IsExec(g, k) <=> IsExec(f, k)
                        /\ g[k].kind = f[k].kind
                        /\ IsExec(f, k) => g[k] = f[k]
                        /\ f[k].kind = "engine" => g[k].start = f[k].start
  BY <1>1, <1>2, <1>3 DEF IsExec
<1>5. ASSUME NEW i \in 1 .. n, IsExec(g, i) PROVE Waits(g, W, i)
  <2>1. IsExec(f, i) /\ Waits(f, V, i)
    BY <1>4, <1>5 DEF Nested
  <2>2. i > 1 => i - 1 \in 1 .. n
    BY <1>1
  <2> QED BY <2>1, <2>2, <1>4 DEF Waits
<1>6. ASSUME NEW i \in 1 .. n - 1, IsExec(g, i) PROVE RunsAbove(g, W, i)
  <2>1. i \in 1 .. n /\ i + 1 \in 1 .. n /\ \A j \in i + 1 .. n : j \in 1 .. n
    BY <1>1
  <2>2. IsExec(f, i) /\ RunsAbove(f, V, i)
    BY <1>4, <1>6, <2>1 DEF Nested
  <2>3. g[i + 1].start = f[i + 1].start /\ g[i + 1].kind = "engine" /\ g[i] = f[i]
    BY <1>4, <2>1, <2>2 DEF RunsAbove
  <2>4. \A j \in i + 1 .. n : IsExec(g, j) => IsExec(f, j) /\ g[j] = f[j]
    BY <1>4, <2>1
  <2> QED BY <1>2, <2>2, <2>3, <2>4 DEF RunsAbove
<1>7. ASSUME NEW i \in 1 .. n, g[i].kind = "engine" PROVE Rooted(g, i)
  <2>1. f[i].kind = "engine" /\ Rooted(f, i)
    BY <1>4, <1>7 DEF Nested
  <2>2. (i > 1 => i - 1 \in 1 .. n) /\ \A j \in 1 .. i - 1 : j \in 1 .. n
    BY <1>1
  <2> QED BY <2>1, <2>2, <1>4 DEF Rooted
<1>8. Nested(g, W)
  BY <1>2, <1>5, <1>6, <1>7 DEF Nested
<1>9. ASSUME Kept(f, V), n > 1, IsExec(g, n - 1) PROVE g[n].start \in W
  <2>1. n - 1 \in 1 .. n - 1 /\ n - 1 \in 1 .. n /\ n \in 1 .. n /\ n - 1 + 1 = n
    BY <1>1, <1>9
  <2>2. IsExec(f, n - 1) /\ f[n].start \in V
    BY <1>4, <1>9, <2>1 DEF Kept
  <2>3. f[n - 1 + 1].kind = "engine"
    BY <2>1, <2>2 DEF Nested, RunsAbove
  <2> QED BY <1>4, <2>1, <2>2, <2>3
<1>10. Kept(f, V) => Kept(g, W)
  BY <1>2, <1>9 DEF Kept
<1> QED BY <1>2, <1>8, <1>10 DEF g

(* A function that is not execProgram is called. *)
LEMMA NestedPushed ==
    ASSUME NEW f \in Seq(Frames), NEW x, x.kind # "exec",
           x.kind = "engine" => \A i \in 1 .. Len(f) : ~IsExec(f, i),
           f # <<>> => Last(f).kind # "exec",
           NEW V, Nested(f, V), Kept(f, V)
    PROVE  Nested(Append(f, x), V) /\ Kept(Append(f, x), V)
<1> DEFINE g == Append(f, x)
           n == Len(f)
<1>1. /\ n \in Nat /\ Len(g) = n + 1 /\ g[n + 1] = x
      /\ \A k \in 1 .. n : g[k] = f[k]
  BY AppendFront
<1> HIDE DEF g
<1>2. n > 0 => ~IsExec(f, n)
  <2>1. f # <<>> => Last(f) = f[n]
    BY FrontLast
  <2>2. n > 0 => f # <<>>
    OBVIOUS
  <2> QED BY <2>1, <2>2 DEF IsExec
<1>3. \A k \in 1 .. n + 1 : k = n + 1 \/ k \in 1 .. n
  BY <1>1
<1>4. \A k \in 1 .. n : (IsExec(g, k) <=> IsExec(f, k)) /\ g[k] = f[k]
  BY <1>1 DEF IsExec
<1>5. ASSUME NEW i \in 1 .. n + 1, IsExec(g, i)
      PROVE  i \in 1 .. n - 1 /\ i \in 1 .. n /\ IsExec(f, i)
  BY <1>1, <1>2, <1>3, <1>4, <1>5 DEF IsExec
<1>6. ASSUME NEW i \in 1 .. n + 1, IsExec(g, i) PROVE Waits(g, V, i)
  <2>1. i \in 1 .. n /\ IsExec(f, i) /\ Waits(f, V, i)
    BY <1>5, <1>6 DEF Nested
  <2>2. i > 1 => i - 1 \in 1 .. n
    BY <1>1
  <2> QED BY <2>1, <2>2, <1>4 DEF Waits
<1>7. ASSUME NEW i \in 1 .. n, IsExec(g, i) PROVE RunsAbove(g, V, i)
  <2>1. i \in 1 .. n + 1 /\ i + 1 \in 1 .. n + 1
    BY <1>1
  <2>2. i \in 1 .. n - 1 /\ IsExec(f, i) /\ RunsAbove(f, V, i)
    BY <1>5, <1>7, <2>1 DEF Nested
  <2>3. i + 1 \in 1 .. n /\ g[i] = f[i] /\ g[i + 1] = f[i + 1]
    BY <1>1, <1>4, <2>2
  <2>4. \A j \in i + 1 .. n + 1 : IsExec(g, j) => j \in i + 1 .. n /\ IsExec(f, j) /\ g[j] = f[j]
    <3>1. \A j \in i + 1 .. n + 1 : j \in 1 .. n + 1 /\ (j \in 1 .. n => j \in i + 1 .. n)
      BY <1>1
    <3> QED BY <3>1, <1>4, <1>5
  <2>5. f[i + 1].start \in V
    <3>1. i + 1 = n => n > 1 /\ n - 1 = i
      BY <1>1, <2>2
    <3>2. i + 1 # n => i + 1 < n
      BY <1>1, <2>3
    <3> QED BY <2>2, <3>1, <3>2 DEF RunsAbove, Kept
  <2> QED BY <1>1, <2>2, <2>3, <2>4, <2>5 DEF RunsAbove
<1>8. ASSUME NEW i \in 1 .. n + 1, g[i].kind = "engine" PROVE Rooted(g, i)
  <2>1. CASE i = n + 1
    <3>1. \A j \in 1 .. i - 1 : j \in 1 .. n
      BY <1>1, <2>1
    <3>2. \A j \in 1 .. n : ~IsExec(f, j)
      BY <1>1, <1>8, <2>1
    <3> QED BY <3>1, <3>2, <1>4 DEF Rooted
  <2>2. CASE i \in 1 .. n
    <3>1. f[i].kind = "engine" /\ Rooted(f, i)
      BY <1>4, <1>8, <2>2 DEF Nested
    <3>2. (i > 1 => i - 1 \in 1 .. n) /\ \A j \in 1 .. i - 1 : j \in 1 .. n
      BY <1>1, <2>2
    <3> QED BY <3>1, <3>2, <1>4 DEF Rooted
  <2> QED BY <1>3, <2>1, <2>2
<1>9. Nested(g, V)
  BY <1>1, <1>6, <1>7, <1>8 DEF Nested
<1>10. Kept(g, V)
  BY <1>1, <1>2, <1>4 DEF Kept
<1> QED BY <1>9, <1>10 DEF g

(* The running function returns. *)
LEMMA NestedPopped ==
    ASSUME NEW f \in Seq(Frames), f # <<>>, NEW V, Nested(f, V)
    PROVE  Nested(Front(f), V) /\ Kept(Front(f), V)
<1> DEFINE g == Front(f)
           n == Len(f)
<1>1. /\ n \in Nat \ {0} /\ Len(g) = n - 1 /\ \A k \in 1 .. n - 1 : g[k] = f[k]
  BY FrontLast
<1> HIDE DEF g
<1>2. \A k \in 1 .. n - 1 : IsExec(g, k) <=> IsExec(f, k)
  BY <1>1 DEF IsExec
<1>3. ASSUME NEW i \in 1 .. n - 1, IsExec(g, i) PROVE Waits(g, V, i)
  <2>1. i \in 1 .. n /\ (i > 1 => i - 1 \in 1 .. n - 1)
    BY <1>1
  <2>2. Waits(f, V, i)
    BY <1>2, <1>3, <2>1 DEF Nested
  <2> QED BY <1>1, <2>1, <2>2 DEF Waits
<1>4. ASSUME NEW i \in 1 .. n - 2, IsExec(g, i)
      PROVE  RunsAbove(g, V, i) /\ g[i + 1].start \in V
  <2>1. i \in 1 .. n - 1 /\ i + 1 \in 1 .. n - 1 /\ i + 1 < n
        /\ \A j \in i + 1 .. n - 1 : j \in i + 1 .. n /\ j \in 1 .. n - 1
    BY <1>1
  <2>2. RunsAbove(f, V, i)
    BY <1>2, <1>4, <2>1 DEF Nested
  <2>3. g[i] = f[i] /\ g[i + 1] = f[i + 1]
    BY <1>1, <2>1
  <2> QED BY <1>1, <1>2, <2>1, <2>2, <2>3 DEF RunsAbove
<1>5. ASSUME NEW i \in 1 .. n - 1, g[i].kind = "engine" PROVE Rooted(g, i)
  <2>1. i \in 1 .. n /\ (i > 1 => i - 1 \in 1 .. n - 1) /\ \A j \in 1 .. i - 1 : j \in 1 .. n - 1
    BY <1>1
  <2>2. Rooted(f, i)
    BY <1>1, <1>5, <2>1 DEF Nested
  <2> QED BY <1>2, <2>1, <2>2 DEF Rooted
<1>6. n - 1 - 1 = n - 2
  BY <1>1
<1>7. Nested(g, V)
  BY <1>1, <1>3, <1>4, <1>5, <1>6 DEF Nested
<1>8. Kept(g, V)
  <2>1. n - 1 > 1 => n - 2 \in 1 .. n - 2 /\ n - 2 + 1 = n - 1
    BY <1>1
  <2> QED BY <1>1, <1>4, <1>6, <2>1 DEF Kept
<1> QED BY <1>7, <1>8 DEF g

(* A sample ends: the levels above its caller's go. *)
LEMMA NestedSampled ==
    ASSUME NEW f \in Seq(Frames), f # <<>>, Last(f).kind = "exec",
           NEW V, Nested(f, V), NEW W, \A v \in V : v <= Last(f).level => v \in W
    PROVE  Nested(Front(f), W) /\ Kept(Front(f), W)
<1> DEFINE g == Front(f)
           n == Len(f)
<1>1. /\ n \in Nat \ {0} /\ Len(g) = n - 1 /\ Last(f) = f[n]
      /\ \A k \in 1 .. n - 1 : g[k] = f[k]
  BY FrontLast
<1> HIDE DEF g
<1>2. \A k \in 1 .. n - 1 : IsExec(g, k) <=> IsExec(f, k)
  BY <1>1 DEF IsExec
<1>3. IsExec(f, n) /\ f[n].level \in Nat
  BY <1>1, FrameNumbers DEF IsExec
<1>4. ASSUME NEW i \in 1 .. n - 1, IsExec(f, i)
      PROVE  i + 1 \in 1 .. n - 1 /\ f[i].level \in W /\ f[i + 1].start \in W
  <2>1. i \in 1 .. n /\ i + 1 \in 1 .. n /\ n \in i + 1 .. n
    BY <1>1
  <2>2. f[i + 1].kind = "engine" /\ f[i].level < f[i + 1].start /\ f[i].level \in V
        /\ f[i + 1].start <= f[n].level
    BY <1>3, <1>4, <2>1 DEF Nested, RunsAbove, Waits
  <2>3. f[i].level \in Nat /\ f[i + 1].start \in Nat
    BY <1>4, <2>1, <2>2, FrameNumbers
  <2>4. i + 1 # n
    BY <1>3, <2>2 DEF IsExec
  <2>5. i \in 1 .. n - 2
    BY <1>1, <2>4
  <2>6. f[i + 1].start \in V
    BY <1>1, <1>4, <2>5 DEF Nested, RunsAbove
  <2>7. f[i].level <= f[n].level
    BY <1>3, <2>2, <2>3
  <2> QED BY <1>1, <2>2, <2>5, <2>6, <2>7
<1>5. Nested(f, V) => Nested(g, V) /\ Kept(g, V)
  BY NestedPopped DEF g
<1>6. ASSUME NEW i \in 1 .. n - 1, IsExec(g, i) PROVE Waits(g, W, i)
  <2>1. Waits(g, V, i)
    BY <1>1, <1>5, <1>6 DEF Nested
  <2> QED BY <1>1, <1>2, <1>4, <1>6, <2>1 DEF Waits
<1>7. ASSUME NEW i \in 1 .. n - 1 - 1, IsExec(g, i) PROVE RunsAbove(g, W, i)
  <2>1. i \in 1 .. n - 1 /\ i + 1 \in 1 .. n - 1
    BY <1>1
  <2>2. RunsAbove(g, V, i)
    BY <1>1, <1>5, <1>7 DEF Nested
  <2>3. f[i + 1].start \in W
    BY <1>2, <1>4, <1>7, <2>1
  <2> QED BY <1>1, <2>1, <2>2, <2>3 DEF RunsAbove
<1>8. Nested(g, W)
  BY <1>1, <1>5, <1>6, <1>7 DEF Nested
<1>9. Kept(g, W)
  <2>1. n - 1 > 1 => n - 1 - 1 \in 1 .. n - 1 /\ n - 1 - 1 + 1 = n - 1 /\ n - 1 \in 1 .. n - 1
    BY <1>1
  <2> QED BY <1>1, <1>2, <1>4, <2>1 DEF Kept
<1> QED BY <1>8, <1>9 DEF g

(* The running engine's step returns from a level: the ones below it stay. *)
LEMMA NestedReturned ==
    ASSUME NEW f \in Seq(Frames), f # <<>>, Last(f).kind = "engine",
           NEW y, y.kind = "engine", y.start = Last(f).start,
           NEW V, Nested(f, V), Kept(f, V), NEW top, \A v \in V : v \in Nat /\ v <= top,
           top \in Nat, NEW W, \A v \in V : v # top => v \in W
    PROVE  /\ Nested(Append(Front(f), y), W)
           /\ Kept(Append(Front(f), y), W) \/ y.start = top
           /\ Last(Append(Front(f), y)) = y
<1> DEFINE n == Len(f)
           g == Append(Front(f), y)
<1>1. /\ Front(f) \in Seq(Frames) /\ n \in Nat \ {0} /\ Len(Front(f)) = n - 1
      /\ Last(f) = f[n] /\ \A k \in 1 .. n - 1 : Front(f)[k] = f[k]
  BY FrontLast
<1>2. /\ Len(g) = n /\ g[n] = y /\ Last(g) = y
      /\ \A k \in 1 .. n - 1 : g[k] = f[k]
  BY <1>1, AppendFront
<1>3. ~IsExec(f, n) /\ ~IsExec(g, n)
  BY <1>1, <1>2 DEF IsExec
<1> HIDE DEF g
(* Whoever waits is below the level that is left. *)
<1>4. ASSUME NEW i \in 1 .. n, IsExec(f, i)
      PROVE  /\ f[i].level \in W /\ i \in 1 .. n - 1
             /\ i + 1 < n => f[i + 1].start \in W
             /\ i + 1 = n => f[n].start \in V
  <2>1. i \in 1 .. n - 1
    BY <1>1, <1>3, <1>4
  <2>2. RunsAbove(f, V, i) /\ Waits(f, V, i)
    BY <1>4, <2>1 DEF Nested
  <2>3. n > 1 /\ IsExec(f, n - 1)
    <3>1. Rooted(f, n)
      BY <1>1 DEF Nested
    <3>2. i \in 1 .. n - 1
      BY <2>1
    <3> QED BY <1>4, <3>1, <3>2 DEF Rooted
  <2>4. n - 1 \in 1 .. n - 1 /\ n - 1 \in 1 .. n /\ n - 1 + 1 = n /\ n \in 1 .. n
    BY <1>1, <2>3
  <2>5. RunsAbove(f, V, n - 1) /\ f[n].start \in V
    BY <2>3, <2>4 DEF Nested, Kept
  <2>6. f[n - 1].level < f[n].start /\ f[n].start <= top /\ f[n].start \in Nat
    BY <2>4, <2>5 DEF RunsAbove
  <2>7. f[n - 1].level \in Nat /\ f[i].level \in Nat
    BY <1>4, <2>3, <2>4, FrameNumbers
  <2>8. CASE i = n - 1
    <3>1. f[i].level # top
      BY <2>6, <2>7, <2>8
    <3> QED BY <1>1, <2>1, <2>2, <2>5, <2>8, <3>1 DEF Waits
  <2>9. CASE i # n - 1
    <3>1. i + 1 \in 1 .. n /\ n - 1 \in i + 1 .. n /\ i + 1 < n /\ i + 1 # n
      BY <1>1, <2>1, <2>9
    <3>2. f[i + 1].start <= f[n - 1].level /\ f[i].level < f[i + 1].start /\ f[i + 1].start \in V
      BY <2>2, <2>3, <3>1 DEF RunsAbove
    <3>3. f[i + 1].start \in Nat
      BY <3>2
    <3>4. f[i + 1].start # top /\ f[i].level # top
      BY <2>6, <2>7, <3>2, <3>3
    <3> QED BY <2>1, <2>2, <3>1, <3>2, <3>4 DEF Waits
  <2> QED BY <2>8, <2>9
<1>5. \A k \in 1 .. n : k = n \/ k \in 1 .. n - 1
  BY <1>1
<1>6. \A k \in 1 .. n : /\ IsExec(g, k) <=> IsExec(f, k)
                        /\ g[k].kind = f[k].kind
                        /\ IsExec(f, k) => g[k] = f[k]
                        /\ f[k].kind = "engine" => g[k].start = f[k].start
  BY <1>1, <1>2, <1>3, <1>5 DEF IsExec
<1>7. ASSUME NEW i \in 1 .. n, IsExec(g, i) PROVE Waits(g, W, i)
  <2>1. IsExec(f, i) /\ Waits(f, V, i)
    BY <1>6, <1>7 DEF Nested
  <2>2. i > 1 => i - 1 \in 1 .. n
    BY <1>1
  <2> QED BY <2>1, <2>2, <1>4, <1>6 DEF Waits
<1>8. ASSUME NEW i \in 1 .. n - 1, IsExec(g, i) PROVE RunsAbove(g, W, i)
  <2>1. i \in 1 .. n /\ i + 1 \in 1 .. n /\ \A j \in i + 1 .. n : j \in 1 .. n
    BY <1>1
  <2>2. IsExec(f, i) /\ RunsAbove(f, V, i)
    BY <1>6, <1>8, <2>1 DEF Nested
  <2>3. g[i + 1].start = f[i + 1].start /\ g[i + 1].kind = "engine" /\ g[i] = f[i]
    BY <1>6, <2>1, <2>2 DEF RunsAbove
  <2>4. \A j \in i + 1 .. n : IsExec(g, j) => IsExec(f, j) /\ g[j] = f[j]
    BY <1>6, <2>1
  <2>5. i + 1 < n => f[i + 1].start \in W
    BY <1>4, <2>1, <2>2
  <2> QED BY <1>2, <2>2, <2>3, <2>4, <2>5 DEF RunsAbove
<1>9. ASSUME NEW i \in 1 .. n, g[i].kind = "engine" PROVE Rooted(g, i)
  <2>1. f[i].kind = "engine" /\ Rooted(f, i)
    BY <1>6, <1>9 DEF Nested
  <2>2. (i > 1 => i - 1 \in 1 .. n) /\ \A j \in 1 .. i - 1 : j \in 1 .. n
    BY <1>1
  <2> QED BY <2>1, <2>2, <1>6 DEF Rooted
<1>10. Nested(g, W)
  BY <1>2, <1>7, <1>8, <1>9 DEF Nested
<1>11. ASSUME y.start # top, n > 1, IsExec(g, n - 1) PROVE g[n].start \in W
  <2>1. n - 1 \in 1 .. n /\ n - 1 + 1 = n
    BY <1>1, <1>11
  <2>2. IsExec(f, n - 1)
    BY <1>6, <1>11, <2>1
  <2>3. f[n].start \in V
    BY <1>4, <2>1, <2>2
  <2> QED BY <1>1, <1>2, <1>11, <2>3
<1>12. Kept(g, W) \/ y.start = top
  BY <1>2, <1>11 DEF Kept
<1> QED BY <1>2, <1>10, <1>12 DEF g

(* The solver asks for a sample, in an engine with a level of its own. *)
LEMMA NestedCalled ==
    ASSUME NEW f \in Seq(Frames), f # <<>>, Last(f).kind = "solve",
           NEW V, Nested(f, V), NEW e, e.kind = "exec", e.level \in V,
           \A v \in V : v <= e.level,
           NEW r, r.kind = "engine", e.level < r.start,
           NEW W, V \subseteq W, r.start \in W,
           NEW S, NEW g \in Seq(S), Len(g) = Len(f) + 2, g[Len(f) + 1] = e, g[Len(f) + 2] = r,
           \A i \in 1 .. Len(f) : g[i] = f[i]
    PROVE  Nested(g, W) /\ Kept(g, W)
<1> DEFINE n == Len(f)
<1>1. n \in Nat \ {0} /\ Last(f) = f[n]
  BY FrontLast
<1>2. Len(g) = n + 2 /\ g[n + 1] = e /\ g[n + 2] = r /\ \A i \in 1 .. n : g[i] = f[i]
  OBVIOUS
<1>3. ~IsExec(f, n) /\ IsExec(g, n + 1) /\ ~IsExec(g, n + 2) /\ n + 1 \in 1 .. n + 2
  BY <1>1, <1>2 DEF IsExec
<1>4. \A k \in 1 .. n + 2 : k = n + 2 \/ k = n + 1 \/ k \in 1 .. n
  BY <1>1
<1>5. \A k \in 1 .. n : IsExec(g, k) <=> IsExec(f, k)
  BY <1>2 DEF IsExec
<1> HIDE DEF n
<1>6. ASSUME NEW i \in 1 .. n + 2, IsExec(g, i) PROVE Waits(g, W, i)
  <2>1. CASE i = n + 1
    <3>1. n + 1 > 1 /\ n + 1 - 1 = n /\ n \in 1 .. n
      BY <1>1
    <3> QED BY <2>1, <3>1, <1>1, <1>2 DEF Waits
  <2>2. CASE i \in 1 .. n
    <3>1. Waits(f, V, i)
      BY <1>5, <1>6, <2>2 DEF Nested, n
    <3>2. i > 1 => i - 1 \in 1 .. n
      BY <1>1, <2>2
    <3> QED BY <3>1, <3>2, <1>2, <2>2 DEF Waits
  <2> QED BY <1>3, <1>4, <1>6, <2>1, <2>2
<1>7. ASSUME NEW i \in 1 .. n + 1, IsExec(g, i) PROVE RunsAbove(g, W, i)
  <2>1. CASE i = n + 1
    <3>1. n + 1 + 1 = n + 2 /\ ~(n + 2 < n + 2) /\ \A j \in n + 2 .. n + 2 : j = n + 2
      BY <1>1
    <3> QED BY <2>1, <3>1, <1>2, <1>3 DEF RunsAbove
  <2>2. CASE i # n + 1
    <3>1. i \in 1 .. n /\ IsExec(f, i) /\ i # n
      BY <1>1, <1>3, <1>5, <1>7, <2>2
    <3>2. i \in 1 .. n - 1 /\ i + 1 \in 1 .. n
      BY <1>1, <3>1
    <3>3. RunsAbove(f, V, i) /\ g[i] = f[i] /\ g[i + 1] = f[i + 1]
      BY <1>2, <3>1, <3>2 DEF Nested, n
    <3>4. f[i + 1].start \in V
      <4>1. i + 1 # n
        BY <1>1, <3>3 DEF RunsAbove
      <4>2. i + 1 < n
        BY <1>1, <3>2, <4>1
      <4> QED BY <3>3, <4>2 DEF RunsAbove, n
    <3>5. ASSUME NEW j \in i + 1 .. n + 2, IsExec(g, j)
          PROVE  f[i + 1].start <= g[j].level
      <4>1. CASE j = n + 1
        BY <1>2, <3>4, <4>1
      <4>2. CASE j \in 1 .. n
        <5>1. j \in i + 1 .. n
          BY <3>2, <3>5, <4>2
        <5> QED BY <5>1, <1>2, <1>5, <3>3, <3>5, <4>2 DEF RunsAbove, n
      <4>3. j \in 1 .. n + 2
        BY <3>1, <3>5, <1>1
      <4> QED BY <1>3, <1>4, <3>5, <4>1, <4>2, <4>3
    <3> QED BY <1>2, <3>3, <3>4, <3>5 DEF RunsAbove
  <2> QED BY <2>1, <2>2
<1>8. ASSUME NEW i \in 1 .. n + 2, g[i].kind = "engine" PROVE Rooted(g, i)
  <2>1. CASE i = n + 2
    <3>1. i > 1 /\ i - 1 = n + 1
      BY <1>1, <2>1
    <3> QED BY <3>1, <1>3 DEF Rooted
  <2>2. CASE i \in 1 .. n
    <3>1. Rooted(f, i)
      BY <1>2, <1>8, <2>2 DEF Nested, n
    <3>2. (i > 1 => i - 1 \in 1 .. n) /\ \A j \in 1 .. i - 1 : j \in 1 .. n
      BY <1>1, <2>2
    <3> QED BY <3>1, <3>2, <1>5 DEF Rooted
  <2>3. i # n + 1
    BY <1>2, <1>8
  <2> QED BY <1>4, <2>1, <2>2, <2>3
<1>9. Len(g) = n + 2 /\ Len(g) - 1 = n + 1
  BY <1>1, <1>2
<1>10. Nested(g, W)
  BY <1>6, <1>7, <1>8, <1>9 DEF Nested
<1>11. Kept(g, W)
  BY <1>2 DEF Kept
<1> QED BY <1>10, <1>11

-----------------------------------------------------------------------------
(* The numbers of the levels. *)

LEMMA NumbersOf ==
    ASSUME NEW m, Sane(m)
    PROVE  /\ \A v \in Numbers(m) : v \in Nat /\ v <= Level(m)
           /\ Level(m) \in Numbers(m) /\ Level(m) \in Nat
<1>1. /\ Len(m.levels) \in Nat \ {0} /\ Level(m) = m.levels[Len(m.levels)].level
      /\ Level(m) \in Nat
      /\ \A i \in 1 .. Len(m.levels) :
            m.levels[i].level \in Nat /\ m.levels[i].level <= Level(m)
  BY LevelsOf
<1>2. Len(m.levels) \in 1 .. Len(m.levels)
  BY <1>1
<1> QED BY <1>1, <1>2 DEF Numbers

LEMMA StaysNumbers ==
    ASSUME NEW m, NEW n, Stays(m, n)
    PROVE  Numbers(m) \subseteq Numbers(n)
BY DEF Stays, Numbers

LEMMA CalledNumbers ==
    ASSUME NEW m, Sane(m), NEW label \in Labels \cup {NoLabel}, NEW error,
           NEW x \in FnExecuteRunning(m, label, error)
    PROVE  Numbers(m) \subseteq Numbers(x.machine)
<1>1. m.levels \in Seq(Headers)
  BY LevelsOf
<1>2. CASE x.pushed
  <2> DEFINE added == Append(m.levels, NewLevel(m))
  <2>1. /\ Len(added) = Len(m.levels) + 1
        /\ \A i \in 1 .. Len(m.levels) : added[i] = m.levels[i]
    BY <1>1, AppendFront
  <2>2. SameLevels(added, x.machine.levels)
    BY <1>2, Called
  <2> HIDE DEF added
  <2>3. Len(m.levels) \in Nat /\ \A i \in 1 .. Len(m.levels) : i \in 1 .. Len(m.levels) + 1
    BY <1>1
  <2> QED BY <2>1, <2>2, <2>3 DEF SameLevels, Numbers
<1>3. CASE ~x.pushed
  <2>1. SameLevels(m.levels, x.machine.levels)
    BY <1>3, Called
  <2> QED BY <2>1 DEF SameLevels, Numbers
<1> QED BY <1>2, <1>3

LEMMA ReturnedNumbers ==
    ASSUME NEW m, Sane(m), NEW skip \in {0, 1}, NEW v \in Numbers(m), v # Level(m)
    PROVE  v \in Numbers(FnReturn(m, skip))
<1>1. PICK i \in 1 .. Len(m.levels) : v = m.levels[i].level
  BY DEF Numbers
<1>2. Len(m.levels) \in Nat \ {0} /\ Level(m) = m.levels[Len(m.levels)].level
      /\ Level(m) \in Nat /\ (Level(m) = 0 <=> Len(m.levels) = 1)
  BY LevelsOf
<1>3. i \in 1 .. Len(m.levels) - 1
  BY <1>1, <1>2
<1>4. Level(m) > 0
  BY <1>2, <1>3
<1>5. /\ Len(FnReturn(m, skip).levels) = Len(m.levels) - 1
      /\ FnReturn(m, skip).levels[i] = m.levels[i]
  BY <1>3, <1>4, Returned
<1> QED BY <1>1, <1>3, <1>5 DEF Numbers

(* A level that is there is where the solver's unwinding ends. *)
LEMMA UnwoundNumbers ==
    ASSUME NEW m, Sane(m), NEW level \in Numbers(m)
    PROVE  /\ Level(UnwindTo(m, level)) = level
           /\ \A v \in Numbers(m) : v <= level => v \in Numbers(UnwindTo(m, level))
<1> DEFINE n == UnwindTo(m, level)
<1>1. level \in Nat
  BY NumbersOf
<1>2. /\ Sane(n) /\ Level(n) <= level
      /\ Len(n.levels) \in 1 .. Len(m.levels)
      /\ \A i \in 1 .. Len(n.levels) : n.levels[i] = m.levels[i]
      /\ \A i \in 1 .. Len(m.levels) : m.levels[i].level <= level => i <= Len(n.levels)
  BY <1>1, Unwound
<1> HIDE DEF n
<1>3. Len(m.levels) \in Nat
  BY LevelsOf
<1>4. ASSUME NEW v \in Numbers(m), v <= level PROVE v \in Numbers(n)
  <2>1. PICK i \in 1 .. Len(m.levels) : v = m.levels[i].level
    BY DEF Numbers
  <2>2. i \in 1 .. Len(n.levels)
    BY <1>2, <1>3, <1>4, <2>1
  <2> QED BY <1>2, <2>1, <2>2 DEF Numbers
<1>5. level \in Numbers(n)
  BY <1>1, <1>4
<1>6. level <= Level(n) /\ Level(n) \in Nat
  BY <1>2, <1>5, NumbersOf
<1>7. Level(n) = level
  BY <1>1, <1>2, <1>6
<1> QED BY <1>4, <1>7 DEF n

-----------------------------------------------------------------------------
(* Each step keeps it. *)

(* The running engine after its step. *)
LEMMA SteppedFrame ==
    ASSUME Typed, Fetched, NEW adv \in -1 .. 2, NEW at \in {"called", "yield"}
    PROVE  /\ frames # <<>> /\ frames \in Seq(Frames) /\ Top.kind = "engine"
           /\ Stepped(adv, at).kind = "engine" /\ Stepped(adv, at).start = Top.start
           /\ Stepped(adv, at).at = at /\ Stepped(adv, at).adv = adv
           /\ Stepped(adv, at).sub = Level(machine)
           /\ ~JustReturned(Top)
<1>1. frames # <<>> /\ Top.kind = "engine" /\ frames \in Seq(Frames) /\ Top.at = "fetch"
  BY DEF Fetched, On, Typed
<1>2. PICK x \in EngineFrame : x = Top
  BY <1>1, TopTyped, FrameKinds
<1>3. PICK sub \in Nat : sub = Level(machine)
  BY LevelsOf DEF Typed
<1>4. PICK y : y = [x EXCEPT !.sub = sub, !.adv = adv, !.at = at]
  OBVIOUS
<1>5. y.kind = "engine" /\ y.start = x.start /\ y.at = at /\ y.adv = adv /\ y.sub = sub
  BY <1>4 DEF EngineFrame
<1>6. Stepped(adv, at) = y
  BY <1>2, <1>3, <1>4 DEF Stepped
<1> QED BY <1>1, <1>2, <1>3, <1>5, <1>6 DEF JustReturned

(* A waiting solver is one at work, so that FINISH goes astray. *)
LEMMA NoneWaits ==
    ASSUME Typed, Inv, ~(engineNestingDepth > 0), NEW V, Nested(frames, V)
    PROVE  \A i \in 1 .. Len(frames) : ~IsExec(frames, i)
<1>1. engineNestingDepth \in Nat /\ engineNestingDepth = Cardinality(Solves(frames))
  BY DepthIsNat DEF Inv, Sound
<1>2. Cardinality(Solves(frames)) = 0
  BY <1>1
<1>3. IsFiniteSet(Solves(frames))
  BY SolvesAreFinite DEF Typed
<1>4. Solves(frames) = {}
  BY <1>2, <1>3, FS_EmptySet
<1> SUFFICES ASSUME NEW i \in 1 .. Len(frames), IsExec(frames, i) PROVE FALSE
  OBVIOUS
<1>5. i > 1 /\ frames[i - 1].kind = "solve"
  BY DEF Nested, Waits
<1>6. i - 1 \in 1 .. Len(frames)
  BY <1>5 DEF Typed
<1> QED BY <1>4, <1>5, <1>6 DEF Solves

LEMMA GoesOn ==
    ASSUME frames \in Seq(Frames), frames # <<>>, Nested(frames, Numbers(machine)),
           Kept(frames, Numbers(machine)), NEW y, y.kind = Top.kind, y.kind # "exec",
           y.kind = "engine" => y.start = Top.start,
           Numbers(machine) \subseteq Numbers(machine')
    PROVE  /\ Nested(WithTop(y), Numbers(machine')) /\ Kept(WithTop(y), Numbers(machine'))
           /\ Last(WithTop(y)) = y
BY NestedReplaced DEF Top, WithTop, Below

LEMMA AboveStepDone == Typed /\ Above /\ StepDone => Above'
<1> SUFFICES ASSUME Typed, Above, StepDone, ~reentered', ~astray'
             PROVE  Nested(frames, Numbers(machine))' /\ Kept(frames, Numbers(machine))'
  BY DEF Above
<1> DEFINE V == Numbers(machine)
           W == Numbers(machine')
<1>1. /\ frames # <<>> /\ Top.kind = "engine" /\ frames \in Seq(Frames) /\ Top.at = "yield"
      /\ Nested(frames, V) /\ (Kept(frames, V) \/ JustReturned(Top))
  BY DEF StepDone, On, Typed, Above
<1>2. Top \in EngineFrame
  BY <1>1, TopTyped, FrameKinds
<1>3. V \subseteq W
  <2>1. machine' = Advanced(machine, Top.adv) \/ machine' = machine
    BY DEF StepDone
  <2>2. Top.adv \in -1 .. 2
    BY <1>2 DEF EngineFrame
  <2>3. Stays(machine, machine')
    BY <2>1, <2>2, AdvancedMachine DEF Typed, Stays
  <2> QED BY <2>3, StaysNumbers
<1>4. frames' = Below \/ (frames' = WithTop([Top EXCEPT !.sub = 0, !.adv = 0, !.at = "fetch"])
                          /\ ~JustReturned(Top))
  BY DEF StepDone, JustReturned
<1>5. CASE frames' = Below
  <2>1. Nested(Below, V) /\ Kept(Below, V)
    BY <1>1, NestedPopped DEF Below
  <2>2. Nested(Below, W) /\ Kept(Below, W)
    BY <1>3, <2>1 DEF Nested, Kept, Waits, RunsAbove
  <2> QED BY <1>5, <2>2
<1>6. CASE frames' = WithTop([Top EXCEPT !.sub = 0, !.adv = 0, !.at = "fetch"])
           /\ ~JustReturned(Top)
  <2>1. PICK y : y = [Top EXCEPT !.sub = 0, !.adv = 0, !.at = "fetch"]
    OBVIOUS
  <2>2. y.kind = "engine" /\ y.start = Top.start
    BY <1>2, <2>1 DEF EngineFrame
  <2> QED BY <1>1, <1>3, <1>6, <2>1, <2>2, GoesOn
<1> QED BY <1>4, <1>5, <1>6

LEMMA AboveExecuteOneStep == Typed /\ Inv /\ Above /\ ExecuteOneStep => Above'
<1> SUFFICES ASSUME Typed, Inv, Above, ExecuteOneStep, ~reentered', ~astray'
             PROVE  /\ Nested(frames', Numbers(machine'))
                    /\ Kept(frames', Numbers(machine')) \/ JustReturned(Last(frames'))
  BY DEF Above, Top
<1> DEFINE V == Numbers(machine)
           W == Numbers(machine')
<1>0. Fetched /\ Sane(machine)
  BY DEF ExecuteOneStep, Plain, Fails, Gto, Xeq, LocR, Stop, Finish, PauseStep, SolveStep,
         Operation, Typed
<1>1. -1 \in -1 .. 2 /\ 0 \in -1 .. 2 /\ 1 \in -1 .. 2 /\ 2 \in -1 .. 2
  OBVIOUS
<1>2. /\ frames # <<>> /\ frames \in Seq(Frames) /\ Top.kind = "engine" /\ ~JustReturned(Top)
      /\ \A adv \in -1 .. 2 : \A at \in {"called", "yield"} :
            /\ Stepped(adv, at).kind = "engine" /\ Stepped(adv, at).start = Top.start
            /\ Stepped(adv, at).at = at /\ Stepped(adv, at).adv = adv
            /\ Stepped(adv, at).sub = Level(machine)
  BY <1>0, <1>1, SteppedFrame
<1>3. ~reentered /\ ~astray
  <2>1. ASSUME NEW adv, Placed(adv) PROVE reentered' = reentered
    BY <2>1 DEF Placed
  <2>2. ASSUME NEW adv, Executed(adv) PROVE reentered' = reentered /\ astray' = astray
    BY <2>1, <2>2 DEF Executed
  <2>3. CASE Finish
    BY <2>1, <2>3 DEF Finish
  <2>4. CASE PauseStep \/ SolveStep
    BY <2>4 DEF PauseStep, SolveStep
  <2>5. CASE ~Finish /\ ~PauseStep /\ ~SolveStep
    <3>1. \E adv : Executed(adv)
      BY <2>5 DEF ExecuteOneStep, Plain, Fails, Gto, Xeq, LocR, Stop, Rtn
    <3> QED BY <2>2, <3>1
  <2> QED BY <2>3, <2>4, <2>5
<1>4. Nested(frames, V) /\ Kept(frames, V)
  BY <1>2, <1>3 DEF Above
<1>5. ASSUME V \subseteq W, NEW adv \in -1 .. 2, NEW at \in {"called", "yield"}
      PROVE  Nested(WithTop(Stepped(adv, at)), W) /\ Kept(WithTop(Stepped(adv, at)), W)
             /\ Last(WithTop(Stepped(adv, at))) = Stepped(adv, at)
  BY <1>2, <1>4, <1>5, GoesOn
<1>6. ASSUME V \subseteq W, NEW adv \in -1 .. 2, Placed(adv)
      PROVE  Nested(frames', W) /\ Kept(frames', W)
  BY <1>5, <1>6 DEF Placed
<1>7. ASSUME Stays(machine, machine') PROVE V \subseteq W
  BY <1>7, StaysNumbers
<1>8. CASE Plain \/ Fails \/ Stop
  <2>1. V \subseteq W /\ \E adv \in {1, 2} : Placed(adv)
    BY <1>8 DEF Plain, Fails, Stop, Executed
  <2> QED BY <1>1, <1>6, <2>1
<1>9. CASE Gto
  <2>1. PICK p \in Labels : machine' = [machine EXCEPT !.place = Begin(p)]
    BY <1>9 DEF Gto
  <2>2. Stays(machine, machine')
    BY <1>0, <2>1, LabelsArePlaces, JumpedMachine
  <2> QED BY <1>1, <1>6, <1>7, <1>9, <2>2 DEF Gto, Executed
<1>10. CASE Xeq
  <2>1. PICK label \in Labels \cup {NoLabel} :
           \E x \in FnExecuteRunning(machine, label, "NONE") : machine' = x.machine
    BY <1>10 DEF Xeq
  <2>2. V \subseteq W
    BY <1>0, <2>1, CalledNumbers
  <2> QED BY <1>1, <1>6, <1>10, <2>2 DEF Xeq, Executed
<1>11. CASE LocR
  <2>1. PICK n \in {0, 2} : \E r \in AllocateLocalRegisters(machine, n) : machine' = r.machine
    BY <1>11 DEF LocR
  <2>2. n \in 0 .. 99
    BY <2>1
  <2>3. Stays(machine, machine')
    BY <1>0, <2>1, <2>2, LocalsMachine
  <2> QED BY <1>1, <1>6, <1>7, <1>11, <2>3 DEF LocR, Executed
<1>12. CASE Finish
  <2>1. ~(engineNestingDepth > 0)
    BY <1>12 DEF Finish
  <2>2. \A i \in 1 .. Len(frames) : ~IsExec(frames, i)
    BY <1>4, <2>1, NoneWaits
  <2>3. Nested(frames, {}) /\ Kept(frames, {})
    BY <1>2, <2>2, NoCallers
  <2>4. frames' = Append(Front(frames), Stepped(-1, "yield")) /\ Top = Last(frames)
    BY <1>12 DEF Finish, Placed, WithTop, Below, Top
  <2>5. PICK y : y = Stepped(-1, "yield")
    OBVIOUS
  <2>6. y.kind = "engine" /\ y.start = Last(frames).start /\ Last(frames).kind = "engine"
    BY <1>1, <1>2, <2>4, <2>5
  <2>7. Nested(Append(Front(frames), y), W) /\ Kept(Append(Front(frames), y), W)
    BY <1>2, <2>3, <2>6, NestedReplaced
  <2> QED BY <2>4, <2>5, <2>7
<1>13. ASSUME NEW skip \in {0, 1}, Rtn(skip)
       PROVE  Nested(frames', W) /\ (Kept(frames', W) \/ JustReturned(Last(frames')))
  <2>1. machine' = FnReturn(machine, skip) /\ frames' = Append(Front(frames), Stepped(0, "yield"))
        /\ Top = Last(frames)
    BY <1>13 DEF Rtn, Executed, Placed, WithTop, Below, Top
  <2>2. PICK y : y = Stepped(0, "yield")
    OBVIOUS
  <2>3. y.kind = "engine" /\ y.start = Last(frames).start /\ Last(frames).kind = "engine"
        /\ y.at = "yield" /\ y.adv = 0 /\ y.sub = Level(machine)
    BY <1>1, <1>2, <2>1, <2>2
  <2>4. Level(machine) \in Nat /\ \A v \in V : v \in Nat /\ v <= Level(machine)
    BY <1>0, NumbersOf
  <2>5. \A v \in V : v # Level(machine) => v \in W
    BY <1>0, <2>1, ReturnedNumbers
  <2>6. /\ Nested(Append(Front(frames), y), W)
        /\ Kept(Append(Front(frames), y), W) \/ y.start = Level(machine)
        /\ Last(Append(Front(frames), y)) = y
    BY <1>2, <1>4, <2>3, <2>4, <2>5, NestedReturned
  <2> QED BY <2>1, <2>2, <2>3, <2>6 DEF JustReturned
<1>14. ASSUME NEW x, x.kind \notin {"exec", "engine"}, machine' = machine,
              frames' = Append(WithTop(Stepped(1, "called")), x)
       PROVE  Nested(frames', W) /\ Kept(frames', W)
  <2>1. WithTop(Stepped(1, "called")) \in Seq(Frames)
    BY <1>0, <1>1, TypedStepped
  <2>2. /\ Nested(WithTop(Stepped(1, "called")), W) /\ Kept(WithTop(Stepped(1, "called")), W)
        /\ Last(WithTop(Stepped(1, "called"))).kind = "engine"
    BY <1>1, <1>2, <1>5, <1>14
  <2> QED BY <1>14, <2>1, <2>2, NestedPushed
<1>15. CASE PauseStep
  <2>1. PICK x : x = [kind |-> "pause", previous |-> programRunStop]
    OBVIOUS
  <2>2. x.kind = "pause"
    BY <2>1
  <2> QED BY <1>14, <1>15, <2>1, <2>2 DEF PauseStep
<1>16. CASE SolveStep
  <2>1. CASE frames' = WithTop(Stepped(1, "yield"))
    BY <1>1, <1>5, <1>16, <2>1 DEF SolveStep
  <2>2. CASE \E p \in Labels : frames' = Append(WithTop(Stepped(1, "called")), Solver(p))
    <3>1. PICK p \in Labels : frames' = Append(WithTop(Stepped(1, "called")), Solver(p))
      BY <2>2
    <3>2. Solver(p).kind = "solve"
      BY DEF Solver
    <3> QED BY <1>14, <1>16, <3>1, <3>2 DEF SolveStep
  <2> QED BY <1>16, <2>1, <2>2 DEF SolveStep
<1>17. 0 \in {0, 1}
  OBVIOUS
<1> QED BY <1>8, <1>9, <1>10, <1>11, <1>12, <1>13, <1>15, <1>16, <1>17 DEF ExecuteOneStep

(* A pause or a solver returns, to the engine that called it or to a yield. *)
LEMMA NestedReturnWith ==
    ASSUME Typed, frames # <<>>, NEW V, Nested(frames, V), NEW adv
    PROVE  Nested(ReturnWith(adv), V) /\ Kept(ReturnWith(adv), V)
<1>1. frames \in Seq(Frames) /\ Below \in Seq(Frames)
  BY TopTyped DEF Typed
<1>2. Nested(Below, V) /\ Kept(Below, V)
  BY <1>1, NestedPopped DEF Below
<1>3. CASE CalledByStep
  <2>1. Below # <<>> /\ Last(Below).kind = "engine"
    BY <1>3 DEF CalledByStep
  <2>2. Last(Below) = Below[Len(Below)] /\ Len(Below) \in Nat \ {0}
    BY <1>1, <2>1, FrontLast
  <2>3. PICK x \in EngineFrame : x = Last(Below)
    <3>1. Last(Below) \in Frames
      BY <1>1, <2>2
    <3> QED BY <3>1, <2>1, FrameKinds
  <2>4. PICK y : y = [x EXCEPT !.at = "yield", !.adv = adv]
    OBVIOUS
  <2>5. y.kind = "engine" /\ y.start = x.start
    BY <2>4 DEF EngineFrame
  <2>6. Nested(Append(Front(Below), y), V) /\ Kept(Append(Front(Below), y), V)
    BY <1>1, <1>2, <2>1, <2>3, <2>5, NestedReplaced
  <2>7. ReturnWith(adv) = Append(Front(Below), y)
    BY <1>3, <2>3, <2>4 DEF ReturnWith, CalledByStep
  <2> QED BY <2>6, <2>7
<1>4. CASE ~CalledByStep
  BY <1>2, <1>4 DEF ReturnWith, CalledByStep
<1> QED BY <1>3, <1>4

LEMMA AboveReturning == Typed /\ Above /\ (PauseEnds \/ SolveEnds \/ SolveAborted) => Above'
<1> SUFFICES ASSUME Typed, Above, PauseEnds \/ SolveEnds \/ SolveAborted, ~reentered', ~astray'
             PROVE  Nested(frames, Numbers(machine))' /\ Kept(frames, Numbers(machine))'
  BY DEF Above
<1>1. frames # <<>> /\ machine' = machine /\ ~reentered /\ ~astray
  <2>1. frames # <<>> /\ machine' = machine
    BY DEF PauseEnds, SolveEnds, SolveAborted, On
  <2>2. reentered' = reentered /\ astray' = astray
    BY DEF PauseEnds, SolveEnds, SolveAborted
  <2> QED BY <2>1, <2>2
<1>3. frames' = ReturnWith(0) \/ frames' = ReturnWith(1) \/ frames' = ReturnWith(2)
  BY DEF PauseEnds, SolveEnds, SolveAborted
<1>2. Nested(frames, Numbers(machine))
  BY <1>1 DEF Above
<1> QED BY <1>1, <1>2, <1>3, NestedReturnWith

LEMMA AboveSample == Typed /\ Above /\ Sample => Above'
<1> SUFFICES ASSUME Typed, Above, Sample, ~reentered', ~astray'
             PROVE  Nested(frames, Numbers(machine))' /\ Kept(frames, Numbers(machine))'
  BY DEF Above
<1> DEFINE V == Numbers(machine)
           W == Numbers(machine')
<1>1. /\ frames # <<>> /\ frames \in Seq(Frames) /\ Top.kind = "solve" /\ Sane(machine)
      /\ Top = Last(frames)
  BY DEF Sample, On, Typed, Top
<1>2. ~reentered /\ ~astray
  BY DEF Sample, SampleNested, SampleTopLevel
<1>3. Nested(frames, V) /\ Kept(frames, V)
  BY <1>1, <1>2 DEF Above, JustReturned
<1>4. PICK f : f = WithTop(Sampled)
  OBVIOUS
<1>5. f \in Seq(Frames) /\ f # <<>> /\ Last(f).kind = "solve" /\ Len(f) = Len(frames)
      /\ Nested(f, V) /\ Kept(f, V) /\ (V \subseteq W => Nested(f, W) /\ Kept(f, W))
      /\ \A i \in 1 .. Len(frames) : frames[i].kind = f[i].kind
  <2>1. f \in Seq(Frames)
    BY <1>4, TypedSampled DEF Sample
  <2>2. PICK y : y = Sampled
    OBVIOUS
  <2>3. Top \in SolveFrame
    BY <1>1, TopTyped, FrameKinds
  <2>4. y.kind = "solve"
    BY <2>2, <2>3 DEF Sampled, SolveFrame
  <2>5. f = Append(Front(frames), y)
    BY <1>4, <2>2 DEF WithTop, Below
  <2>6. Nested(f, V) /\ Kept(f, V) /\ (V \subseteq W => Nested(f, W) /\ Kept(f, W)) /\ Last(f) = y
    BY <1>1, <1>3, <2>4, <2>5, NestedReplaced
  <2>7. /\ Front(frames) \in Seq(Frames) /\ Len(Front(frames)) = Len(frames) - 1
        /\ Len(frames) \in Nat \ {0} /\ Top = frames[Len(frames)]
        /\ \A k \in 1 .. Len(frames) - 1 : Front(frames)[k] = frames[k]
    BY <1>1, FrontLast
  <2>8. /\ Len(f) = Len(Front(frames)) + 1 /\ f # <<>> /\ f[Len(Front(frames)) + 1] = y
        /\ \A k \in 1 .. Len(Front(frames)) : f[k] = Front(frames)[k]
    BY <2>5, <2>7, AppendFront
  <2>9. \A i \in 1 .. Len(frames) : i = Len(frames) \/ i \in 1 .. Len(frames) - 1
    BY <2>7
  <2>10. \A i \in 1 .. Len(frames) : frames[i].kind = f[i].kind
    BY <1>1, <2>4, <2>7, <2>8, <2>9
  <2> QED BY <2>1, <2>4, <2>6, <2>7, <2>8, <2>10
<1>6. CASE frames' = WithTop(Sampled) /\ machine' = machine
  BY <1>4, <1>5, <1>6
<1>7. CASE programRunStop = "RUNNING" /\ SampleNested
  <2>1. PICK x \in FnExecuteRunning(machine, Top.target, lastErrorCode) :
          /\ machine' = x.machine /\ x.pushed
          /\ frames' = WithTop(Sampled) \o
               <<[kind |-> "exec", level |-> Level(machine), place |-> machine.place],
                 RunProgram(x.machine, programRunStop, FALSE)>>
    BY <1>7 DEF SampleNested
  <2>2. Top.target \in Labels
    BY TypedSampled DEF Sample
  <2>3. Sane(x.machine) /\ Level(x.machine) > Level(machine) /\ V \subseteq W
    BY <1>1, <2>1, <2>2, Called, CalledNumbers
  <2>4. PICK e : e = [kind |-> "exec", level |-> Level(machine), place |-> machine.place]
    OBVIOUS
  <2>5. PICK r : r = RunProgram(x.machine, programRunStop, FALSE)
    OBVIOUS
  <2>6. e.kind = "exec" /\ e.level = Level(machine)
    BY <2>4
  <2>7. r.kind = "engine" /\ r.start = Level(x.machine)
    BY <1>7, <2>5 DEF RunProgram, StartingSubLevel
  <2>8. e.level \in V /\ (\A v \in V : v <= e.level) /\ e.level < r.start /\ r.start \in W
    <3>1. Level(machine) \in V /\ Level(machine) \in Nat /\ \A v \in V : v <= Level(machine)
      BY <1>1, NumbersOf
    <3>2. Level(x.machine) \in W /\ Level(x.machine) \in Nat
      BY <2>1, <2>3, NumbersOf
    <3> QED BY <2>3, <2>6, <2>7, <3>1, <3>2
  <2>9. PICK any : any = Frames \cup {e, r}
    OBVIOUS
  <2>10. f \in Seq(any) /\ <<e, r>> \in Seq(any)
    <3>1. Frames \subseteq any /\ e \in any /\ r \in any
      BY <2>9
    <3> QED BY <1>5, <3>1
  <2>11. PICK g \in Seq(any) : g = f \o <<e, r>>
    <3>1. PICK t \in Seq(any) : t = <<e, r>>
      BY <2>10
    <3>2. f \o t \in Seq(any)
      BY <2>10
    <3> QED BY <3>1, <3>2
  <2>12. /\ Len(g) = Len(f) + 2 /\ g[Len(f) + 1] = e /\ g[Len(f) + 2] = r
         /\ \A i \in 1 .. Len(f) : g[i] = f[i]
    BY <2>10, <2>11
  <2>13. Nested(g, W) /\ Kept(g, W)
    BY <1>5, <2>3, <2>6, <2>7, <2>8, <2>11, <2>12, NestedCalled
  <2> QED BY <1>4, <2>1, <2>4, <2>5, <2>11, <2>13
<1>8. CASE SampleTopLevel
  <2>1. Top.target \in Labels
    BY TypedSampled DEF Sample
  <2>2. V \subseteq W
    <3>1. Stays(machine, machine')
      BY <1>1, <1>8, <2>1, LabelsArePlaces, JumpedMachine DEF SampleTopLevel
    <3> QED BY <3>1, StaysNumbers
  <2>3. CASE frames' = WithTop(Sampled)
    BY <1>4, <1>5, <2>2, <2>3
  <2>4. CASE frames' = Append(WithTop(Sampled), RunProgram(machine, programRunStop, FALSE))
    <3>1. \A i \in 1 .. Len(frames) : frames[i].kind # "engine"
      <4>1. ~\E i \in DOMAIN frames : frames[i].kind = "engine"
        BY <1>8 DEF SampleTopLevel
      <4>2. DOMAIN frames = 1 .. Len(frames)
        BY <1>1
      <4> QED BY <4>1, <4>2
    <3>2. \A i \in 1 .. Len(f) : ~IsExec(f, i)
      <4> SUFFICES ASSUME NEW i \in 1 .. Len(f), IsExec(f, i) PROVE FALSE
        OBVIOUS
      <4>1. Len(f) \in Nat /\ Last(f) = f[Len(f)]
        BY <1>5, FrontLast
      <4>2. i # Len(f)
        BY <1>5, <4>1 DEF IsExec
      <4>3. i \in 1 .. Len(f) - 1 /\ i + 1 \in 1 .. Len(f)
        BY <4>1, <4>2
      <4>4. f[i + 1].kind = "engine"
        BY <1>5, <4>3 DEF Nested, RunsAbove
      <4> QED BY <1>5, <3>1, <4>3, <4>4
    <3>3. PICK r : r = RunProgram(machine, programRunStop, FALSE)
      OBVIOUS
    <3>4. r.kind = "engine"
      BY <3>3 DEF RunProgram
    <3>5. Nested(Append(f, r), W) /\ Kept(Append(f, r), W)
      BY <1>5, <2>2, <3>2, <3>4, NestedPushed
    <3> QED BY <1>4, <2>4, <3>3, <3>5
  <2> QED BY <1>8, <2>3, <2>4 DEF SampleTopLevel
<1> QED BY <1>6, <1>7, <1>8 DEF Sample

LEMMA AboveExecReturns ==
    Typed /\ Above /\ ExecReturns =>
        /\ Above'
        /\ ~reentered /\ ~astray => Level(machine') = Top.level /\ machine'.place = Top.place
<1> SUFFICES ASSUME Typed, Above, ExecReturns, ~reentered, ~astray
             PROVE  /\ Nested(frames, Numbers(machine))' /\ Kept(frames, Numbers(machine))'
                    /\ Level(machine') = Top.level /\ machine'.place = Top.place
  BY DEF Above, ExecReturns
<1> DEFINE V == Numbers(machine)
           W == Numbers(machine')
<1>1. /\ frames # <<>> /\ frames \in Seq(Frames) /\ Top.kind = "exec" /\ Sane(machine)
      /\ Top = Last(frames) /\ frames' = Front(frames)
  BY DEF ExecReturns, On, Typed, Top, Below
<1>2. Nested(frames, V)
  BY DEF Above
<1>3. Top \in ExecFrame
  BY <1>1, TopTyped, FrameKinds
<1>4. Top.level \in V
  <2>1. Len(frames) \in 1 .. Len(frames) /\ Top = frames[Len(frames)]
    BY <1>1, FrontLast
  <2>2. IsExec(frames, Len(frames))
    BY <1>1, <2>1 DEF IsExec
  <2> QED BY <1>2, <2>1, <2>2 DEF Nested, Waits
<1>5. machine'.place = Top.place /\ machine'.levels = UnwindTo(machine, Top.level).levels
  BY <1>1, <1>3, RestoredMachine DEF ExecReturns
<1>6. /\ Level(UnwindTo(machine, Top.level)) = Top.level
      /\ \A v \in V : v <= Top.level => v \in Numbers(UnwindTo(machine, Top.level))
  BY <1>1, <1>4, UnwoundNumbers
<1>7. Level(machine') = Top.level
  BY <1>5, <1>6 DEF Level, Current
<1>8. \A v \in V : v <= Last(frames).level => v \in W
  BY <1>1, <1>5, <1>6 DEF Numbers
<1>9. Nested(Front(frames), W) /\ Kept(Front(frames), W)
  BY <1>1, <1>2, <1>8, NestedSampled
<1> QED BY <1>1, <1>5, <1>7, <1>9

LEMMA AboveKey == Typed /\ Above /\ Key => Above'
<1> SUFFICES ASSUME Typed, Above, Key, ~reentered', ~astray'
             PROVE  /\ Nested(frames, Numbers(machine))'
                    /\ Kept(frames, Numbers(machine))' \/ JustReturned(Top)'
  BY DEF Above
<1>1. CASE KeyWhileRunning \/ KeyReleased
  <2>1. frames' = frames /\ machine' = machine /\ reentered' = reentered /\ astray' = astray
    BY <1>1 DEF KeyWhileRunning, KeyReleased
  <2> QED BY <2>1 DEF Above, Top
<1>2. CASE ~(KeyWhileRunning \/ KeyReleased)
  <2>1. frames = <<>>
    BY <1>2 DEF Key, KeyRS, KeySST, KeyEXIT, KeyXEQ, KeyGTO, KeyRTN, KeyPAUSE, KeySOLVE, Runs, Idle
  <2>2. \/ frames' = frames
        \/ \E x : frames' = Append(frames, x) /\ x.kind # "exec"
    <3>1. CASE KeyRS \/ KeySST \/ KeyXEQ
      <4>1. \E m, status, single : frames' = Append(frames, RunProgram(m, status, single))
        BY <3>1 DEF KeyRS, KeySST, KeyXEQ
      <4> QED BY <4>1, NewFrameKinds
    <3>2. CASE KeyEXIT \/ KeyGTO \/ KeyRTN
      BY <3>2 DEF KeyEXIT, KeyGTO, KeyRTN
    <3>3. CASE KeyPAUSE
      <4>1. \A s : [kind |-> "pause", previous |-> s].kind = "pause"
        OBVIOUS
      <4>2. PICK x : frames' = Append(frames, x) /\ x.kind = "pause"
        BY <3>3, <4>1 DEF KeyPAUSE
      <4> QED BY <4>2
    <3>4. CASE KeySOLVE
      BY <3>4, NewFrameKinds DEF KeySOLVE
    <3> QED BY <1>2, <3>1, <3>2, <3>3, <3>4 DEF Key
  <2>3. Len(frames') \in Nat /\ \A i \in 1 .. Len(frames') : ~IsExec(frames', i)
    <3>1. CASE frames' = frames
      BY <2>1, <3>1
    <3>2. CASE \E x : frames' = Append(frames, x) /\ x.kind # "exec"
      <4>1. PICK x : frames' = Append(frames, x) /\ x.kind # "exec"
        BY <3>2
      <4>2. Len(frames') = 1 /\ frames'[1] = x
        <5>1. frames \in Seq({x}) /\ Len(frames) = 0
          BY <2>1
        <5> QED BY <4>1, <5>1, AppendFront
      <4> QED BY <4>1, <4>2 DEF IsExec
    <3> QED BY <2>2, <3>1, <3>2
  <2> QED BY <2>3, NoCallers
<1> QED BY <1>1, <1>2

LEMMA InitAbove == Init => Above
<1> SUFFICES ASSUME Init PROVE Above
  OBVIOUS
<1>1. Len(frames) = 0
  BY DEF Init
<1> QED BY <1>1, NoCallers DEF Above

LEMMA NextAbove == Typed /\ Inv /\ Above /\ [Next]_vars => Above'
<1> SUFFICES ASSUME Typed, Inv, Above, [Next]_vars PROVE Above'
  OBVIOUS
<1>1. CASE Next
  BY <1>1, AboveStepDone, AboveExecuteOneStep, AboveReturning, AboveSample, AboveExecReturns,
     AboveKey DEF Next, Engine, Solve
<1>2. CASE UNCHANGED vars
  BY <1>2 DEF vars, Above, Top
<1> QED BY <1>1, <1>2

LEMMA AlwaysAbove == Spec => []Above
<1> QED BY InitAbove, NextAbove, AlwaysTyped, AlwaysInv, PTL DEF Spec

(* The solver's nested engine runs its function and nothing of the program *)
(* that called it: in runProgram and execProgram, whenever a nested engine *)
(* is about to execute a step, the level is above its caller's, except     *)
(* after a sample that could push no level, a FINISH while solving, or a   *)
(* key inside a yield.                                                     *)
THEOREM SampledFunctionsStayAbove == Spec => []NestedRunStaysAbove
<1>1. ASSUME Typed, Above PROVE NestedRunStaysAbove
  <2> SUFFICES ASSUME NEW i \in DOMAIN frames, Fetched, frames[i].kind = "exec",
                      ~reentered, ~astray
               PROVE  Level(machine) > frames[i].level
    BY DEF NestedRunStaysAbove
  <2> DEFINE V == Numbers(machine)
             n == Len(frames)
  <2>1. /\ frames # <<>> /\ frames \in Seq(Frames) /\ Top.kind = "engine" /\ Top.at = "fetch"
        /\ Sane(machine)
    BY <1>1 DEF Fetched, On, Typed
  <2>2. Nested(frames, V) /\ Kept(frames, V)
    BY <1>1, <2>1 DEF Above, JustReturned
  <2>3. n \in Nat \ {0} /\ Top = frames[n] /\ i \in 1 .. n /\ IsExec(frames, i)
    <3>1. n \in Nat \ {0} /\ Top = frames[n]
      BY <2>1, FrontLast DEF Top
    <3>2. i \in 1 .. n
      BY <2>1
    <3> QED BY <3>1, <3>2 DEF IsExec
  <2>4. i # n
    BY <2>1, <2>3 DEF IsExec
  <2>5. i \in 1 .. n - 1 /\ i + 1 \in 1 .. n
    BY <2>3, <2>4
  <2>6. RunsAbove(frames, V, i)
    BY <2>2, <2>3, <2>5 DEF Nested
  <2>7. frames[i + 1].start \in V
    <3>1. i + 1 = n => n > 1 /\ n - 1 = i
      BY <2>3, <2>5
    <3>2. i + 1 # n => i + 1 < n
      BY <2>3, <2>5
    <3> QED BY <2>2, <2>3, <2>6, <3>1, <3>2 DEF RunsAbove, Kept
  <2>8. frames[i + 1].start \in Nat /\ frames[i + 1].start <= Level(machine) /\ Level(machine) \in Nat
    BY <2>1, <2>7, NumbersOf
  <2>9. frames[i].level \in Nat /\ frames[i].level < frames[i + 1].start
    BY <2>1, <2>3, <2>6, FrameNumbers DEF RunsAbove
  <2> QED BY <2>8, <2>9
<1> QED BY <1>1, AlwaysTyped, AlwaysAbove, PTL

(* What the comment in execProgram promises of the loop that pops: after a *)
(* sample the calling program is at its level and at its step, so that its *)
(* own RTN still matches.                                                  *)
THEOREM SolverReturnsToItsCaller == Spec => SolveReturnsToCaller
<1>1. Typed /\ Above /\ [Next]_vars =>
         [On("exec") /\ frames' = Below /\ ~reentered /\ ~astray
          => Level(machine') = Top.level /\ machine'.place = Top.place]_vars
  <2> SUFFICES ASSUME Typed, Above, Next, On("exec"), frames' = Below, ~reentered, ~astray
               PROVE  Level(machine') = Top.level /\ machine'.place = Top.place
    BY DEF vars
  <2>1. Top.kind = "exec" /\ frames # <<>> /\ frames \in Seq(Frames)
    BY DEF On, Typed
  <2>2. ExecReturns \/ Key
    BY <2>1 DEF Next, Engine, Solve, StepDone, ExecuteOneStep, Plain, Fails, Gto, Xeq, LocR, Stop,
           Finish, PauseStep, SolveStep, Operation, Fetched, PauseEnds, Sample, SolveEnds,
           SolveAborted, On
  <2>3. ~Key
    BY <2>1 DEF Key, KeyWhileRunning, KeyReleased, KeyRS, KeySST, KeyEXIT, KeyXEQ, KeyGTO,
           KeyRTN, KeyPAUSE, KeySOLVE, Runs, Pressed, Yielding, Idle, On
  <2> QED BY <2>2, <2>3, AboveExecReturns
<1> QED BY <1>1, AlwaysTyped, AlwaysAbove, PTL DEF Spec, SolveReturnsToCaller
===============================================================================

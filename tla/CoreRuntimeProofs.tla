-------------------------- MODULE CoreRuntimeProofs --------------------------
(***************************************************************************)
(* Theorems about CoreRuntime, for any number of activities and threads.   *)
(***************************************************************************)
EXTENDS CoreRuntime, SequenceTheorems, FiniteSetTheorems, TLAPS

-----------------------------------------------------------------------------
(* Type correctness. *)

(* What the Runnables offered to the core thread are.                      *)
LEMMA TaskTypes ==
    /\ Task("edit", None) \in Tasks /\ Task("refresh", None) \in Tasks
    /\ \A l \in SaveLatches : Task("save", l) \in Tasks
    /\ \A k \in Tasks : k.kind \in {"edit", "refresh", "save"}
    /\ \A k \in Tasks : k.kind = "save" => k.latch \in SaveLatches
<1>1. Task("edit", None) \in Tasks /\ Task("refresh", None) \in Tasks
  BY DEF Tasks
<1>2. \A l \in SaveLatches : Task("save", l) \in Tasks
  BY DEF Tasks
<1>3. ASSUME NEW k \in Tasks
      PROVE  /\ k.kind \in {"edit", "refresh", "save"}
             /\ k.kind = "save" => k.latch \in SaveLatches
  <2>1. CASE k \in {Task("edit", None), Task("refresh", None)}
    BY <2>1 DEF Task
  <2>2. CASE k \in {Task("save", l) : l \in SaveLatches}
    BY <2>2 DEF Task
  <2> QED BY <2>1, <2>2 DEF Tasks
<1> QED BY <1>1, <1>2, <1>3

(* offerTask keeps the queue a queue of tasks.                              *)
LEMMA OfferedTasks ==
    ASSUME coreTasks \in Seq(Tasks), NEW k \in Tasks, offerTask(k)
    PROVE  coreTasks' \in Seq(Tasks)
BY DEF offerTask

(* A fresh process is well formed.                                         *)
LEMMA InitTypeOK == Init => TypeOK
<1> SUFFICES ASSUME Init PROVE TypeOK OBVIOUS
<1> USE DEF Init
<1>1. coreTasks \in Seq(Tasks) /\ current \in [Threads -> Seq(Tasks)]
  OBVIOUS
<1>2. /\ thread \in [Threads -> ThreadStates]
      /\ \A t \in Threads : thread[t] # "run"
  BY DEF ThreadStates
<1>3. /\ owner \in [Threads -> Activities \cup {None}]
      /\ activity \in [Activities -> {"none", "paused", "resumed", "destroying"}]
      /\ below \in [Activities -> SUBSET Activities]
  OBVIOUS
<1>4. /\ main \in [pc : {"idle"}, act : {None}, latch : {None}]
      /\ main.pc = "idle"
  BY DEF Idle
<1>5. resetting \subseteq finishing /\ finishing \subseteq Activities
  OBVIOUS
<1>6. \A t \in Threads : thread[t] = "run" => current[t] # <<>>
  BY <1>2
<1>7. /\ isAppRunningShared \in BOOLEAN /\ isCoreThreadStarted \in BOOLEAN
      /\ isNativeInitializedShared \in BOOLEAN
      /\ coreThreadExitLatch = None /\ g_mainActivityObj = None
      /\ unsaved \in BOOLEAN /\ exited = {} /\ saved = {}
  OBVIOUS
<1>9. activeActivityCount \in Int
  OBVIOUS
<1>8. main \in [pc : {"idle", "attach", "awaitSave", "awaitExit", "release", "disposed"},
                act : Activities \cup {None},
                latch : SaveLatches \cup Threads \cup {None}]
  BY <1>4
<1> HIDE DEF Init
<1> QED BY <1>1, <1>2, <1>3, <1>4, <1>5, <1>6, <1>7, <1>8, <1>9 DEF TypeOK

(* The start of every lifecycle callback preserves the type invariant.     *)
LEMMA CallbackTypeOK ==
    ASSUME RuntimeAssumption, TypeOK, Callback PROVE TypeOK'
<1> USE DEF TypeOK, ThreadStates
<1>0. PICK a \in Activities :
        \/ OnCreate(a) \/ OnResume(a) \/ UserEdits(a)
        \/ OnPauseUnsaved(a) \/ \E l \in SaveLatches : OnPause(a, l)
        \/ Finish(a) \/ RequestFactoryReset(a) \/ OnDestroy(a)
  BY DEF Callback
<1>1. CASE OnCreate(a)
  BY <1>1 DEF OnCreate, Main, queue, threads, native
<1>2. CASE OnResume(a)
  <2>1. coreTasks' \in Seq(Tasks)
    BY <1>2, TaskTypes, OfferedTasks DEF OnResume
  <2> QED BY <1>2, <2>1 DEF OnResume, shared, threads, native
<1>3. CASE UserEdits(a)
  <2>1. coreTasks' \in Seq(Tasks)
    BY <1>3, TaskTypes, OfferedTasks DEF UserEdits
  <2> QED BY <1>3, <2>1 DEF UserEdits, shared, threads, screen, native
<1>4. CASE OnPauseUnsaved(a)
  BY <1>4 DEF OnPauseUnsaved, shared, queue, threads, native
<1>5. CASE \E l \in SaveLatches : OnPause(a, l)
  <2>0. PICK l \in SaveLatches : OnPause(a, l) BY <1>5
  <2>1. coreTasks' \in Seq(Tasks)
    BY <2>0, TaskTypes, OfferedTasks DEF OnPause
  <2> QED BY <2>0, <2>1 DEF OnPause, Main, shared, threads, native
<1>6. CASE Finish(a)
  BY <1>6 DEF Finish, shared, queue, threads, native
<1>7. CASE RequestFactoryReset(a)
  BY <1>7 DEF RequestFactoryReset, shared, queue, threads, native, Attached
<1>8. CASE OnDestroy(a)
  BY <1>8 DEF OnDestroy, StopsApp, Main, threads, native
<1> QED BY <1>0, <1>1, <1>2, <1>3, <1>4, <1>5, <1>6, <1>7, <1>8

(* So does every later step of a callback on the main thread ...           *)
LEMMA MainTypeOK ==
    ASSUME RuntimeAssumption, TypeOK,
           MainGoesOn \/ SaveTimedOut \/ CoreExitTimedOut \/ ProcessDeath
    PROVE  TypeOK'
<1> USE DEF TypeOK, ThreadStates
<1>1. CASE \E t \in Threads : StartCoreThread(t)
  BY <1>1 DEF StartCoreThread, Idle, queue, screen, native
<1>2. CASE AttachToCoreThread
  BY <1>2 DEF AttachToCoreThread, Idle, shared, queue, threads, screen
<1>3. CASE SaveAwaited \/ SaveTimedOut
  BY <1>3 DEF SaveAwaited, SaveTimedOut, Idle, shared, queue, threads, screen, native
<1>4. CASE CoreExitAwaited \/ CoreExitTimedOut
  <2>1. main' \in [pc : {"release"}, act : Activities, latch : {None}]
    BY <1>4 DEF CoreExitAwaited, CoreExitTimedOut, Main
  <2> QED BY <1>4, <2>1 DEF CoreExitAwaited, CoreExitTimedOut, queue, threads, screen, native
<1>5. CASE ReleaseNativeRuntime
  <2>1. main' \in [pc : {"disposed"}, act : Activities, latch : {None}]
    BY <1>5 DEF ReleaseNativeRuntime, Main
  <2> QED BY <1>5, <2>1 DEF ReleaseNativeRuntime, shared, queue, threads, screen
<1>6. CASE Destroyed
  <2>1. below' \in [Activities -> SUBSET Activities]
    BY <1>6 DEF Destroyed
  <2>2. finishing' \subseteq Activities /\ resetting' \subseteq finishing'
    BY <1>6 DEF Destroyed
  <2>3. main' \in [pc : {"idle"}, act : {None}, latch : {None}]
    BY <1>6 DEF Destroyed, Idle
  <2>4. /\ isAppRunningShared' \in BOOLEAN /\ isCoreThreadStarted' \in BOOLEAN
        /\ isNativeInitializedShared' \in BOOLEAN /\ unsaved' \in BOOLEAN
    <3>1. CASE main.act \in resetting BY <1>6, <3>1 DEF Destroyed
    <3>2. CASE main.act \notin resetting BY <1>6, <3>2 DEF Destroyed
    <3> QED BY <3>1, <3>2
  <2>5. coreTasks' \in Seq(Tasks) /\ activeActivityCount' \in Int
    <3>1. CASE main.act \in resetting BY <1>6, <3>1 DEF Destroyed
    <3>2. CASE main.act \notin resetting BY <1>6, <3>2 DEF Destroyed
    <3> QED BY <3>1, <3>2
  <2> QED BY <1>6, <2>1, <2>2, <2>3, <2>4, <2>5 DEF Destroyed, threads
<1>7. CASE ProcessDeath
  <2>1. Init'
    BY <1>7 DEF ProcessDeath, Init, Idle
  <2>2. Init' => TypeOK'
    BY InitTypeOK, PTL
  <2> QED BY <2>1, <2>2
<1> QED BY <1>1, <1>2, <1>3, <1>4, <1>5, <1>6, <1>7 DEF MainGoesOn

(* What changes the threads, their tasks and the queue only.               *)
LEMMA PollTypeOK ==
    ASSUME TypeOK, UNCHANGED <<shared, saved, owner, exited, screen, main, native>>,
           thread' \in [Threads -> ThreadStates], current' \in [Threads -> Seq(Tasks)],
           \A t \in Threads : thread'[t] = "run" => current'[t] # <<>>,
           coreTasks' \in Seq(Tasks)
    PROVE  TypeOK'
BY DEF TypeOK, shared, screen, native

(* ... every step of a core thread ...                                     *)
LEMMA CoreTypeOK ==
    ASSUME TypeOK, NEW t \in Threads, CoreStep(t) \/ CoreCrashes(t)
    PROVE  TypeOK'
<1> USE DEF TypeOK, ThreadStates
<1>1. CASE ThreadStarts(t)
  BY <1>1 DEF ThreadStarts, shared, queue, screen
<1>2. CASE NativeInitialised(t)
  BY <1>2 DEF NativeInitialised, queue, screen
<1>3. CASE LoopHead(t)
  BY <1>3 DEF LoopHead, shared, queue, screen, native
<1>4. CASE PollTask(t)
  <2>0. thread' \in [Threads -> ThreadStates]
    BY <1>4 DEF PollTask
  <2>1. CASE coreTasks = <<>>
    <3>1. UNCHANGED <<coreTasks, current>>
      BY <1>4, <2>1 DEF PollTask
    <3>2. \A u \in Threads : thread'[u] = "run" => current'[u] # <<>>
      <4>1. /\ thread'[t] = "run" => current[t] # <<>>
            /\ \A u \in Threads \ {t} : thread'[u] = thread[u]
        BY <1>4, <2>1 DEF PollTask
      <4> QED BY <3>1, <4>1
    <3>3. UNCHANGED <<shared, saved, owner, exited, screen, main, native>>
      BY <1>4 DEF PollTask
    <3>4. coreTasks' \in Seq(Tasks) /\ current' \in [Threads -> Seq(Tasks)]
      BY <3>1
    <3> HIDE DEF TypeOK
    <3> QED BY <2>0, <3>2, <3>3, <3>4, PollTypeOK
  <2>2. CASE coreTasks # <<>>
    <3>1. Head(coreTasks) \in Tasks /\ Tail(coreTasks) \in Seq(Tasks)
      BY <2>2
    <3>2. /\ Append(current[t], Head(coreTasks)) \in Seq(Tasks)
          /\ Append(current[t], Head(coreTasks)) # <<>>
      <4>1. current[t] \in Seq(Tasks) OBVIOUS
      <4> HIDE DEF TypeOK
      <4> QED BY <3>1, <4>1, AppendProperties
    <3>3. current' \in [Threads -> Seq(Tasks)] /\ current'[t] # <<>>
      BY <1>4, <2>2, <3>2 DEF PollTask
    <3>4. \A u \in Threads : thread'[u] = "run" => current'[u] # <<>>
      BY <1>4, <2>2, <3>3 DEF PollTask
    <3>5. /\ UNCHANGED <<shared, saved, owner, exited, screen, main, native>>
          /\ coreTasks' = Tail(coreTasks)
      BY <1>4, <2>2 DEF PollTask
    <3>6. coreTasks' \in Seq(Tasks)
      BY <3>1, <3>5
    <3> HIDE DEF TypeOK
    <3> QED BY <2>0, <3>3, <3>4, <3>5, <3>6, PollTypeOK
  <2> QED BY <2>1, <2>2
<1>5. CASE RunTask(t)
  <2>1. Innermost(t) \in Tasks
    BY <1>5 DEF RunTask, Innermost
  <2>2. current' \in [Threads -> Seq(Tasks)]
    BY <1>5 DEF RunTask
  <2>3. saved' \subseteq SaveLatches
    BY <1>5, <2>1, TaskTypes DEF RunTask
  <2>4. unsaved' \in BOOLEAN
    BY <1>5, <2>1, TaskTypes DEF RunTask
  <2> QED BY <1>5, <2>2, <2>3, <2>4 DEF RunTask, shared, screen
<1>6. CASE YieldToAndroid(t)
  BY <1>6 DEF YieldToAndroid, shared, queue, screen
<1>7. CASE Tick(t) \/ CoreCrashes(t)
  BY <1>7 DEF Tick, CoreCrashes, shared, queue, screen, native
<1>8. CASE ThreadLeaves(t)
  BY <1>8 DEF ThreadLeaves, queue, screen, native
<1>9. CASE ThreadSignals(t)
  BY <1>9 DEF ThreadSignals, shared, queue, screen, native
<1> QED
  BY <1>1, <1>2, <1>3, <1>4, <1>5, <1>6, <1>7, <1>8, <1>9 DEF CoreStep

(* ... and a step of nothing in the model.                                 *)
LEMMA StutterTypeOK == ASSUME TypeOK, UNCHANGED vars PROVE TypeOK'
BY DEF TypeOK, vars, shared, queue, threads, screen, native

(* The state of the runtime is always well formed: among the rest, a core  *)
(* thread runs a task only when it holds one, and a callback in progress   *)
(* always knows its activity (NativeCoreRuntime, MainActivity).            *)
THEOREM TypeCorrect == Spec => []TypeOK
<1>1. TypeOK /\ [Next]_vars => TypeOK'
  BY RuntimeAssumption, CallbackTypeOK, MainTypeOK, CoreTypeOK, StutterTypeOK DEF Next
<1> QED BY InitTypeOK, <1>1, PTL DEF Spec

-----------------------------------------------------------------------------
(* One core thread, as long as nobody resets the shared state by hand.     *)

(* No activity is being reset; the flag is set exactly while a thread has  *)
(* not cleared it, and there is one such thread at most.                   *)
OneThreadInv ==
    /\ TypeOK
    /\ resetting = {}
    /\ isCoreThreadStarted <=> \E t \in Threads : Alive(t)
    /\ \A t, u \in Threads : Alive(t) /\ Alive(u) => t = u

(* A fresh process has no core thread and says so.                         *)
LEMMA InitOneThread == Init => OneThreadInv
<1> SUFFICES ASSUME Init PROVE OneThreadInv OBVIOUS
<1>1. TypeOK BY InitTypeOK
<1>2. \A t \in Threads : ~Alive(t) BY DEF Init, Alive, InBody
<1>3. ~isCoreThreadStarted /\ resetting = {} BY DEF Init
<1> QED BY <1>1, <1>2, <1>3 DEF OneThreadInv

(* What leaves the threads and their flag alone preserves the invariant.   *)
LEMMA SameThreads ==
    ASSUME OneThreadInv, TypeOK', UNCHANGED <<thread, isCoreThreadStarted, resetting>>
    PROVE  OneThreadInv'
BY DEF OneThreadInv, Alive, InBody

(* A step of an alive thread that leaves it alive does, too.               *)
LEMMA SameAlive ==
    ASSUME OneThreadInv, TypeOK', UNCHANGED <<isCoreThreadStarted, resetting>>,
           \A u \in Threads : Alive(u)' <=> Alive(u)
    PROVE  OneThreadInv'
BY DEF OneThreadInv

(* attach() starts a thread only when no thread is alive.                  *)
LEMMA StartOneThread ==
    ASSUME OneThreadInv, TypeOK', NEW t \in Threads, StartCoreThread(t)
    PROVE  OneThreadInv'
<1>1. \A u \in Threads : ~Alive(u)
  BY DEF OneThreadInv, StartCoreThread
<1>2. \A u \in Threads : Alive(u)' <=> u = t
  <2>1. thread' = [thread EXCEPT ![t] = "starting"] /\ thread \in [Threads -> ThreadStates]
    BY DEF StartCoreThread, OneThreadInv, TypeOK
  <2>2. thread'[t] = "starting" /\ \A u \in Threads \ {t} : thread'[u] = thread[u]
    BY <2>1
  <2> QED BY <1>1, <2>2 DEF Alive, InBody
<1>3. isCoreThreadStarted' /\ resetting' = {}
  BY DEF StartCoreThread, screen, OneThreadInv
<1> QED BY <1>2, <1>3 DEF OneThreadInv

(* The finally block lowers the flag for the one thread there is.          *)
LEMMA CoreOneThread ==
    ASSUME OneThreadInv, TypeOK', NEW t \in Threads, CoreStep(t) \/ CoreCrashes(t)
    PROVE  OneThreadInv'
<1>a. thread \in [Threads -> ThreadStates] BY DEF OneThreadInv, TypeOK
<1>0. thread \in [Threads -> ThreadStates] /\ resetting' = resetting
  BY <1>a DEF CoreStep, CoreCrashes, ThreadStarts, NativeInitialised,
         LoopHead, PollTask, RunTask, YieldToAndroid, Tick, ThreadLeaves, ThreadSignals, screen
<1>1. CASE ThreadLeaves(t)
  <2>1. thread[t] = "leaving" /\ thread' = [thread EXCEPT ![t] = "signal"]
    BY <1>1 DEF ThreadLeaves
  <2>2. \A u \in Threads : Alive(u) => u = t
    BY <2>1 DEF OneThreadInv, Alive
  <2>3. \A u \in Threads : ~Alive(u)'
    BY <2>1, <2>2, <1>0 DEF Alive, InBody
  <2>4. ~isCoreThreadStarted' BY <1>1 DEF ThreadLeaves
  <2> QED BY <1>0, <2>3, <2>4 DEF OneThreadInv
<1>2. CASE ThreadSignals(t)
  <2>1. \A u \in Threads : Alive(u)' <=> Alive(u)
    BY <1>0, <1>2 DEF ThreadSignals, Alive, InBody
  <2> QED BY <1>0, <1>2, <2>1, SameAlive DEF ThreadSignals, shared
<1>3. CASE \/ ThreadStarts(t) \/ NativeInitialised(t) \/ LoopHead(t) \/ PollTask(t)
           \/ RunTask(t) \/ YieldToAndroid(t) \/ Tick(t) \/ CoreCrashes(t)
  <2>1. /\ InBody(t)
        /\ thread'[t] \in {"initialising", "loop", "drain", "run", "tick", "leaving"}
        /\ \A u \in Threads \ {t} : thread'[u] = thread[u]
    BY <1>0, <1>3 DEF InBody, ThreadStarts, NativeInitialised, LoopHead, PollTask, RunTask,
                      YieldToAndroid, Tick, CoreCrashes
  <2>2. isCoreThreadStarted' = isCoreThreadStarted
    BY <1>3 DEF ThreadStarts, NativeInitialised, LoopHead, PollTask, RunTask,
                YieldToAndroid, Tick, CoreCrashes, shared
  <2>3. \A u \in Threads : Alive(u)' <=> Alive(u)
    BY <2>1 DEF Alive, InBody
  <2> QED BY <1>0, <2>2, <2>3, SameAlive
<1> QED BY <1>1, <1>2, <1>3 DEF CoreStep

(* The invariant is inductive without a factory reset.                     *)
LEMMA NextOneThread ==
    ASSUME ~FactoryReset, OneThreadInv, [Next]_vars PROVE OneThreadInv'
<1>0. TypeOK'
  BY RuntimeAssumption, CallbackTypeOK, MainTypeOK, CoreTypeOK, StutterTypeOK
     DEF Next, OneThreadInv
<1>1. CASE Callback
  BY <1>0, <1>1, SameThreads
     DEF Callback, OnCreate, OnResume, UserEdits, OnPauseUnsaved, OnPause, Finish,
         RequestFactoryReset, OnDestroy, shared, threads, screen
<1>2. CASE \E t \in Threads : StartCoreThread(t)
  BY <1>0, <1>2, StartOneThread
<1>3. CASE \/ AttachToCoreThread \/ SaveAwaited \/ SaveTimedOut
           \/ CoreExitAwaited \/ CoreExitTimedOut \/ ReleaseNativeRuntime
  BY <1>0, <1>3, SameThreads
     DEF AttachToCoreThread, SaveAwaited, SaveTimedOut, CoreExitAwaited, CoreExitTimedOut,
         ReleaseNativeRuntime, shared, threads, screen
<1>4. CASE Destroyed
  <2>1. main.act \notin resetting BY DEF OneThreadInv
  <2>2. UNCHANGED <<thread, isCoreThreadStarted>> BY <1>4, <2>1 DEF Destroyed, threads
  <2>3. resetting' = resetting BY <1>4 DEF Destroyed, OneThreadInv
  <2> QED BY <1>0, <2>2, <2>3, SameThreads
<1>5. CASE \E t \in Threads : CoreStep(t) \/ CoreCrashes(t)
  BY <1>0, <1>5, CoreOneThread
<1>6. CASE ProcessDeath
  <2>1. \A t \in Threads : ~Alive(t)' BY <1>6 DEF ProcessDeath, Alive, InBody
  <2>2. ~isCoreThreadStarted' /\ resetting' = {} BY <1>6 DEF ProcessDeath
  <2> QED BY <1>0, <2>1, <2>2 DEF OneThreadInv
<1>7. CASE UNCHANGED vars
  BY <1>0, <1>7, SameThreads DEF vars, shared, threads, screen
<1> QED
  BY <1>1, <1>2, <1>3, <1>4, <1>5, <1>6, <1>7 DEF Next, MainGoesOn

(* Without a factory reset native code runs on one core thread at a time,  *)
(* whatever waits time out and whenever native code throws: attach() may   *)
(* start a thread only when the flag is down, and the flag goes down only  *)
(* in the finally block of the one thread there is                         *)
(* (startOrAttachCoreThread).                                              *)
THEOREM OneThread ==
    ASSUME ~FactoryReset PROVE Spec => []OneCoreThread
<1>1. OneThreadInv => OneCoreThread
  BY DEF OneThreadInv, OneCoreThread, Alive
<1>2. OneThreadInv /\ [Next]_vars => OneThreadInv'
  BY NextOneThread
<1> QED BY InitOneThread, <1>1, <1>2, PTL DEF Spec

(* ... and isCoreThreadStarted says exactly whether there is such a thread. *)
THEOREM FlagTruthful ==
    ASSUME ~FactoryReset PROVE Spec => []StartedFlagIsTruthful
<1>1. OneThreadInv => StartedFlagIsTruthful
  BY DEF OneThreadInv, StartedFlagIsTruthful
<1>2. OneThreadInv /\ [Next]_vars => OneThreadInv'
  BY NextOneThread
<1> QED BY InitOneThread, <1>1, <1>2, PTL DEF Spec

-----------------------------------------------------------------------------
(* What memory holds when the calculator is initialised. *)

(* What memory holds beyond its file was put there after the calculator    *)
(* was initialised, and the thread that initialises it found it not so.    *)
InitialisedOnce ==
    /\ unsaved => isNativeInitializedShared
    /\ \A t \in Threads :
          /\ thread[t] = "initialising" => ~isNativeInitializedShared
          /\ thread[t] \in {"loop", "drain", "run", "tick"} => isNativeInitializedShared

(* A fresh process has nothing to lose.                                    *)
LEMMA InitInitialised == Init => InitialisedOnce
BY DEF Init, InitialisedOnce

(* The threads find out, one at a time.                                    *)
LEMMA CoreInitialised ==
    ASSUME InitialisedOnce, OneThreadInv, NEW t \in Threads, CoreStep(t) \/ CoreCrashes(t)
    PROVE  InitialisedOnce'
<1>0. thread \in [Threads -> ThreadStates]
  BY DEF OneThreadInv, TypeOK
<1>1. CASE ThreadStarts(t)
  <2>1. /\ thread'[t] = IF isNativeInitializedShared THEN "loop" ELSE "initialising"
        /\ \A u \in Threads \ {t} : thread'[u] = thread[u]
        /\ UNCHANGED <<isNativeInitializedShared, unsaved>>
    BY <1>0, <1>1 DEF ThreadStarts, shared
  <2> QED BY <2>1 DEF InitialisedOnce
<1>2. CASE NativeInitialised(t)
  <2>1. /\ thread[t] = "initialising" /\ thread'[t] = "loop"
        /\ \A u \in Threads \ {t} : thread'[u] = thread[u]
        /\ isNativeInitializedShared' /\ ~unsaved'
    BY <1>0, <1>2 DEF NativeInitialised
  <2>2. \A u \in Threads \ {t} : thread[u] # "initialising"
    BY <2>1 DEF OneThreadInv, Alive, InBody
  <2> QED BY <2>1, <2>2 DEF InitialisedOnce
<1>3. CASE RunTask(t) \/ YieldToAndroid(t)
  <2>1. /\ thread[t] = "run" /\ thread'[t] = "drain"
        /\ \A u \in Threads \ {t} : thread'[u] = thread[u]
        /\ isNativeInitializedShared' = isNativeInitializedShared
    BY <1>0, <1>3 DEF RunTask, YieldToAndroid, shared
  <2> QED BY <2>1 DEF InitialisedOnce
<1>4. CASE \/ LoopHead(t) \/ PollTask(t) \/ Tick(t) \/ CoreCrashes(t)
           \/ ThreadLeaves(t) \/ ThreadSignals(t)
  <2>1. /\ UNCHANGED <<isNativeInitializedShared, unsaved>>
        /\ \A u \in Threads \ {t} : thread'[u] = thread[u]
    BY <1>0, <1>4 DEF LoopHead, PollTask, Tick, CoreCrashes, ThreadLeaves, ThreadSignals,
                      shared, native
  <2>2. \/ /\ thread[t] \in {"loop", "drain", "tick"}
           /\ thread'[t] \in {"loop", "drain", "run", "tick", "leaving"}
        \/ thread'[t] \in {"leaving", "signal", "none"}
    BY <1>0, <1>4 DEF LoopHead, PollTask, Tick, CoreCrashes, ThreadLeaves, ThreadSignals
  <2> QED BY <2>1, <2>2 DEF InitialisedOnce
<1> QED BY <1>1, <1>2, <1>3, <1>4 DEF CoreStep

(* The main thread leaves all of it alone when nobody resets.              *)
LEMMA NextInitialised ==
    ASSUME InitialisedOnce, OneThreadInv, [Next]_vars PROVE InitialisedOnce'
<1>1. CASE Callback
  <2>1. UNCHANGED <<thread, isNativeInitializedShared, unsaved>>
    BY <1>1 DEF Callback, OnCreate, OnResume, UserEdits, OnPauseUnsaved, OnPause, Finish,
                RequestFactoryReset, OnDestroy, shared, threads, native
  <2> QED BY <2>1 DEF InitialisedOnce
<1>2. CASE \E t \in Threads : StartCoreThread(t)
  <2>0. PICK t \in Threads : StartCoreThread(t)
    BY <1>2
  <2>1. /\ thread'[t] = "starting"
        /\ \A u \in Threads \ {t} : thread'[u] = thread[u]
        /\ UNCHANGED <<isNativeInitializedShared, unsaved>>
    BY <2>0 DEF StartCoreThread, native, OneThreadInv, TypeOK
  <2> QED BY <2>1 DEF InitialisedOnce
<1>3. CASE \/ AttachToCoreThread \/ SaveAwaited \/ SaveTimedOut
           \/ CoreExitAwaited \/ CoreExitTimedOut \/ ReleaseNativeRuntime
  <2>1. UNCHANGED <<thread, isNativeInitializedShared, unsaved>>
    BY <1>3 DEF AttachToCoreThread, SaveAwaited, SaveTimedOut, CoreExitAwaited,
                CoreExitTimedOut, ReleaseNativeRuntime, shared, threads, native
  <2> QED BY <2>1 DEF InitialisedOnce
<1>4. CASE Destroyed
  <2>1. UNCHANGED <<thread, isNativeInitializedShared, unsaved>>
    BY <1>4 DEF Destroyed, threads, OneThreadInv
  <2> QED BY <2>1 DEF InitialisedOnce
<1>5. CASE \E t \in Threads : CoreStep(t) \/ CoreCrashes(t)
  BY <1>5, CoreInitialised
<1>6. CASE ProcessDeath
  BY <1>6 DEF ProcessDeath, InitialisedOnce
<1>7. CASE UNCHANGED vars
  BY <1>7 DEF vars, shared, threads, native, InitialisedOnce
<1> QED
  BY <1>1, <1>2, <1>3, <1>4, <1>5, <1>6, <1>7 DEF Next, MainGoesOn

(* Without a factory reset the calculator is initialised from its file     *)
(* only when memory holds nothing newer: a thread that finds it            *)
(* initialised leaves it as it is, and no other thread initialises it      *)
(* between the look and the call (startOrAttachCoreThread).                *)
THEOREM NothingLost ==
    ASSUME ~FactoryReset PROVE Spec => InitialisationLosesNothing
<1>1. OneThreadInv /\ InitialisedOnce /\ [Next]_vars => OneThreadInv' /\ InitialisedOnce'
  BY NextOneThread, NextInitialised
<1>2. InitialisedOnce => \A t \in Threads : NativeInitialised(t) => ~unsaved
  BY DEF InitialisedOnce, NativeInitialised
<1>3. OneThreadInv /\ InitialisedOnce /\ [Next]_vars
        => [\A t \in Threads : NativeInitialised(t) => ~unsaved]_vars
  BY <1>2
<1> QED BY InitOneThread, InitInitialised, <1>1, <1>3, PTL DEF Spec, InitialisationLosesNothing

-----------------------------------------------------------------------------
(* The save onPause waits for. *)

Save == Task("save", main.latch)

(* While onPause waits, nobody offers: its save stays the last task of the *)
(* queue, and once it is taken the queue is empty.                         *)
SaveIsLast ==
    main.pc = "awaitSave" =>
        /\ \A i \in DOMAIN coreTasks : coreTasks[i] = Save => i = Len(coreTasks)
        /\ (main.latch \in saved \/ \E t \in Threads : Save \in Elements(current[t]))
               => coreTasks = <<>>

(* A new latch is in no queue, no thread and not open.                     *)
LEMMA OnPauseSaves ==
    ASSUME TypeOK, NEW a \in Activities, NEW l \in SaveLatches, OnPause(a, l)
    PROVE  SaveIsLast'
<1> DEFINE task == Task("save", l)
<1>1. /\ main'.latch = l /\ current' = current /\ saved' = saved \ {l}
      /\ \A t \in Threads : task \notin Elements(current[t])
      /\ task \notin Elements(coreTasks)
      /\ coreTasks' = Append(coreTasks, task) \/ coreTasks' = coreTasks
  BY DEF OnPause, offerTask, Main, threads
<1>2. Save' = task
  BY <1>1 DEF Save
<1> HIDE DEF task
<1>3. coreTasks \in Seq(Tasks)
  BY DEF TypeOK
<1>4. \A i \in DOMAIN coreTasks : coreTasks[i] # task
  BY <1>1 DEF Elements
<1>5. \A i \in DOMAIN coreTasks' : coreTasks'[i] = task => i = Len(coreTasks')
  <2>1. CASE coreTasks' = coreTasks
    BY <1>4, <2>1
  <2>2. CASE coreTasks' = Append(coreTasks, task)
    <3>1. task \in Tasks
      BY TaskTypes DEF task
    <3>2. /\ DOMAIN coreTasks' = 1 .. Len(coreTasks) + 1
          /\ Len(coreTasks') = Len(coreTasks) + 1
          /\ \A i \in 1 .. Len(coreTasks) : coreTasks'[i] = coreTasks[i]
      BY <1>3, <2>2, <3>1
    <3>3. DOMAIN coreTasks = 1 .. Len(coreTasks) /\ Len(coreTasks) \in Nat
      BY <1>3
    <3> QED BY <1>4, <3>2, <3>3
  <2> QED BY <1>1, <2>1, <2>2
<1>6. main'.latch \notin saved' /\ \A t \in Threads : Save' \notin Elements(current'[t])
  BY <1>1, <1>2
<1> QED BY <1>2, <1>5, <1>6 DEF SaveIsLast, Elements

(* What leaves the queue, the threads' tasks and the open latches alone.   *)
LEMMA SameSave ==
    ASSUME SaveIsLast, UNCHANGED <<main, coreTasks, current, saved>>
    PROVE  SaveIsLast'
BY DEF SaveIsLast, Save, Elements

(* The core thread takes tasks from the head of the queue.                 *)
LEMMA CoreSaves ==
    ASSUME TypeOK, SaveIsLast, NEW t \in Threads, CoreStep(t) \/ CoreCrashes(t)
    PROVE  SaveIsLast'
<1>0. coreTasks \in Seq(Tasks) /\ current \in [Threads -> Seq(Tasks)]
  BY DEF TypeOK
<1>1. CASE \/ ThreadStarts(t) \/ NativeInitialised(t) \/ LoopHead(t) \/ YieldToAndroid(t)
           \/ Tick(t) \/ CoreCrashes(t) \/ ThreadLeaves(t) \/ ThreadSignals(t)
  <2>1. UNCHANGED <<main, coreTasks, current, saved>>
    BY <1>1 DEF ThreadStarts, NativeInitialised, LoopHead, YieldToAndroid, Tick, CoreCrashes,
                ThreadLeaves, ThreadSignals, queue
  <2> QED BY <2>1, SameSave
<1>2. CASE PollTask(t)
  <2>1. main' = main /\ saved' = saved /\ Save' = Save
    BY <1>2 DEF PollTask, Save
  <2>2. CASE coreTasks = <<>>
    BY <1>2, <2>2, SameSave DEF PollTask
  <2>3. CASE coreTasks # <<>>
    <3>1. PICK head \in Tasks : head = coreTasks[1] /\ head = Head(coreTasks)
      BY <1>0, <2>3
    <3>2. PICK n \in Nat : Len(coreTasks) = n + 1
      <4>1. Len(coreTasks) \in Nat /\ Len(coreTasks) # 0
        BY <1>0, <2>3
      <4> QED BY <4>1
    <3>3. /\ coreTasks' \in Seq(Tasks) /\ Len(coreTasks') = n
          /\ DOMAIN coreTasks = 1 .. n + 1 /\ DOMAIN coreTasks' = 1 .. n
          /\ \A i \in 1 .. n : coreTasks'[i] = coreTasks[i + 1]
      <4>1. coreTasks' = Tail(coreTasks)
        BY <1>2, <2>3 DEF PollTask
      <4>2. /\ Tail(coreTasks) \in Seq(Tasks) /\ Len(Tail(coreTasks)) = n
            /\ \A i \in 1 .. n : Tail(coreTasks)[i] = coreTasks[i + 1]
        BY <1>0, <2>3, <3>2, HeadTailProperties
      <4> QED BY <1>0, <3>2, <4>1, <4>2
    <3>4. /\ current'[t] = Append(current[t], head)
          /\ \A u \in Threads \ {t} : current'[u] = current[u]
      BY <1>0, <1>2, <2>3, <3>1 DEF PollTask
    <3>5. \A e \in Elements(current'[t]) : e = head \/ e \in Elements(current[t])
      <4>1. current[t] \in Seq(Tasks)
        BY <1>0
      <4> QED BY <3>1, <3>4, <4>1 DEF Elements
    <3>6. SUFFICES ASSUME main.pc = "awaitSave"
                   PROVE  /\ \A i \in 1 .. n : coreTasks'[i] = Save => i = n
                          /\ (main.latch \in saved \/ \E u \in Threads : Save \in Elements(current'[u]))
                                => coreTasks' = <<>>
      BY <2>1, <3>3 DEF SaveIsLast
    <3>7. /\ \A i \in 1 .. n + 1 : coreTasks[i] = Save => i = n + 1
          /\ main.latch \notin saved /\ \A u \in Threads : Save \notin Elements(current[u])
      BY <2>3, <3>2, <3>3, <3>6 DEF SaveIsLast
    <3>8. \A i \in 1 .. n : coreTasks'[i] = Save => i = n
      BY <3>3, <3>7
    <3>9. ASSUME NEW u \in Threads, Save \in Elements(current'[u]) PROVE coreTasks' = <<>>
      <4>1. Save = head
        BY <3>4, <3>5, <3>7, <3>9
      <4>2. n = 0
        BY <3>1, <3>2, <3>7, <4>1
      <4> QED BY <3>3, <4>2
    <3> QED BY <3>7, <3>8, <3>9
  <2> QED BY <2>2, <2>3
<1>3. CASE RunTask(t)
  <2>1. main' = main /\ coreTasks' = coreTasks /\ Save' = Save
    BY <1>3 DEF RunTask, Save
  <2>2. PICK n \in Nat : Len(current[t]) = n + 1
    <3>1. current[t] \in Seq(Tasks) /\ current[t] # <<>>
      BY <1>3 DEF TypeOK, RunTask
    <3>2. Len(current[t]) \in Nat /\ Len(current[t]) # 0
      BY <3>1
    <3> QED BY <3>2
  <2>3. PICK task \in Tasks : task = Innermost(t) /\ task = current[t][n + 1]
    <3>1. current[t] \in Seq(Tasks)
      BY <1>0
    <3>2. current[t][n + 1] \in Tasks
      BY <2>2, <3>1
    <3> QED BY <2>2, <3>2 DEF Innermost
  <2>4. task \in Elements(current[t])
    <3>1. current[t] \in Seq(Tasks)
      BY <1>0
    <3> QED BY <2>2, <2>3, <3>1 DEF Elements
  <2>5. \A u \in Threads : \A e \in Elements(current'[u]) : e \in Elements(current[u])
    <3>1. current'[t] = SubSeq(current[t], 1, n) /\ \A u \in Threads \ {t} : current'[u] = current[u]
      <4>1. Len(current[t]) - 1 = n
        BY <2>2
      <4> QED BY <1>0, <1>3, <4>1 DEF RunTask
    <3>2. \A i \in 1 .. n : SubSeq(current[t], 1, n)[i] = current[t][i] /\ i \in DOMAIN current[t]
      BY <1>0, <2>2
    <3>3. DOMAIN SubSeq(current[t], 1, n) = 1 .. n
      BY <1>0, <2>2
    <3>4. \A e \in Elements(current'[t]) : e \in Elements(current[t])
      BY <3>1, <3>2, <3>3 DEF Elements
    <3> QED BY <3>1, <3>4
  <2>6. \A l \in saved' : l \in saved \/ task = Task("save", l)
    <3>1. task.kind = "save" => task = Task("save", task.latch)
      <4>1. task \in {Task("edit", None), Task("refresh", None)}
              \/ \E l \in SaveLatches : task = Task("save", l)
        BY <2>3 DEF Tasks
      <4> QED BY <4>1 DEF Task
    <3>2. saved' = saved \cup IF task.kind = "save" THEN {task.latch} ELSE {}
      BY <1>3, <2>3 DEF RunTask
    <3> QED BY <3>1, <3>2
  <2>7. main.latch \in saved' => main.latch \in saved \/ Save \in Elements(current[t])
    BY <2>4, <2>6 DEF Save
  <2> QED BY <2>1, <2>5, <2>7 DEF SaveIsLast
<1> QED BY <1>1, <1>2, <1>3 DEF CoreStep

(* Main waits in one callback at a time.                                   *)
LEMMA NextSaves ==
    ASSUME TypeOK, SaveIsLast, [Next]_vars PROVE SaveIsLast'
<1>1. CASE Callback
  <2>0. PICK a \in Activities :
          \/ OnCreate(a) \/ OnResume(a) \/ UserEdits(a)
          \/ OnPauseUnsaved(a) \/ \E l \in SaveLatches : OnPause(a, l)
          \/ Finish(a) \/ RequestFactoryReset(a) \/ OnDestroy(a)
    BY <1>1 DEF Callback
  <2>1. CASE \E l \in SaveLatches : OnPause(a, l)
    BY <2>1, OnPauseSaves
  <2>2. CASE \/ OnCreate(a) \/ OnResume(a) \/ UserEdits(a) \/ OnPauseUnsaved(a)
             \/ Finish(a) \/ RequestFactoryReset(a) \/ OnDestroy(a)
    <3>1. main'.pc # "awaitSave"
      BY <2>2 DEF OnCreate, OnResume, UserEdits, OnPauseUnsaved, Finish, RequestFactoryReset,
                  OnDestroy, Main, Idle
    <3> QED BY <3>1 DEF SaveIsLast
  <2> QED BY <2>0, <2>1, <2>2
<1>2. CASE MainGoesOn \/ SaveTimedOut \/ CoreExitTimedOut
  <2>1. main'.pc # "awaitSave"
    BY <1>2 DEF MainGoesOn, StartCoreThread, AttachToCoreThread, SaveAwaited, CoreExitAwaited,
                ReleaseNativeRuntime, Destroyed, SaveTimedOut, CoreExitTimedOut, Main, Idle
  <2> QED BY <2>1 DEF SaveIsLast
<1>3. CASE \E t \in Threads : CoreStep(t) \/ CoreCrashes(t)
  BY <1>3, CoreSaves
<1>4. CASE ProcessDeath
  BY <1>4 DEF ProcessDeath, SaveIsLast, Idle
<1>5. CASE UNCHANGED vars
  BY <1>5, SameSave DEF vars, queue, threads
<1> QED BY <1>1, <1>2, <1>3, <1>4, <1>5 DEF Next

(* When onPause goes on because its latch opened, no edit offered before   *)
(* waits behind the save: with timeouts, exceptions, resets and deaths,    *)
(* and however deep in the yields of other tasks the save was run          *)
(* (saveStateOnPause, drainCoreTasks, yieldToAndroidWithMs).               *)
THEOREM SaveIsInOrder == Spec => AwaitedSaveIsInOrder
<1>1. Init => SaveIsLast
  BY DEF Init, SaveIsLast, Idle
<1>2. TypeOK /\ SaveIsLast /\ [Next]_vars => TypeOK' /\ SaveIsLast'
  BY RuntimeAssumption, CallbackTypeOK, MainTypeOK, CoreTypeOK, StutterTypeOK, NextSaves
     DEF Next
<1>3. SaveIsLast => (SaveAwaited => ~EditsQueued)
  BY DEF SaveIsLast, SaveAwaited, EditsQueued, Elements
<1>4. TypeOK /\ SaveIsLast /\ [Next]_vars => [SaveAwaited => ~EditsQueued]_vars
  BY <1>3
<1> QED BY InitTypeOK, <1>1, <1>2, <1>4, PTL DEF Spec, AwaitedSaveIsInOrder

-----------------------------------------------------------------------------
(* The core thread's exit, as long as no wait times out, native code does  *)
(* not throw and nobody resets one activity of several.                    *)

Live(t) == thread[t] # "none"

(* A thread that is alive is the one on record and its latch is closed; it *)
(* leaves only while main waits for that latch; and once main has seen the *)
(* latch open no thread is left, neither when the native side is released  *)
(* nor when a reset clears the shared state.                               *)
ExitInv ==
    /\ \A t, u \in Threads : Live(t) /\ Live(u) => t = u
    /\ \A t \in Threads : Alive(t) => coreThreadExitLatch = t /\ t \notin exited
    /\ isCoreThreadStarted <=> \E t \in Threads : Alive(t)
    /\ \A t \in Threads : thread[t] \in {"leaving", "signal"} => ~isAppRunningShared
    /\ \A t \in Threads : Live(t) /\ ~isAppRunningShared
                             => main.pc = "awaitExit" /\ main.latch = t
    /\ main.pc = "attach" => isAppRunningShared
    /\ main.pc = "awaitExit" =>
         /\ ~isAppRunningShared
         /\ main.latch = coreThreadExitLatch
         /\ main.latch \in exited => \A t \in Threads : ~Live(t)
    /\ main.pc = "release" \/ (main.pc = "disposed" /\ main.act \in resetting)
         => \A t \in Threads : ~Live(t)

AttachedOnes == {a \in Activities : Attached(a)}

(* The count is that of the activities attached, the core runs as long as  *)
(* there is one, and while it runs there is a thread that runs it, unless  *)
(* attach() is about to see to that.  An activity is being destroyed only  *)
(* while main is in its onDestroy.                                         *)
Serves ==
    /\ \A a \in Activities :
          activity[a] = "destroying"
              <=> main.pc \in {"awaitExit", "release", "disposed"} /\ main.act = a
    /\ IsFiniteSet(AttachedOnes) /\ activeActivityCount = Cardinality(AttachedOnes)
    /\ AttachedOnes # {} => isAppRunningShared
    /\ isAppRunningShared /\ main.pc # "attach" => \E t \in Threads : InBody(t)


(* SoleReset, as it holds between the steps.                               *)
Sole == \A a \in resetting : \A b \in Activities \ {a} : activity[b] = "none"

(* The activity that resets is then the last one attached, so that its     *)
(* onDestroy stops the core.                                               *)
LEMMA ResetStops ==
    ASSUME TypeOK, Serves, Sole, NEW a \in resetting, activity[a] = "paused"
    PROVE  StopsApp(a)
<1>1. a \in finishing /\ a \in Activities
  BY DEF TypeOK
<1>2. AttachedOnes = {a}
  BY <1>1 DEF Sole, AttachedOnes, Attached
<1>3. activeActivityCount = 1
  BY <1>2, FS_Singleton DEF Serves
<1> QED BY <1>1, <1>3 DEF StopsApp

(* A fresh process has no thread whose exit could be awaited.              *)
LEMMA InitExit == Init => ExitInv
<1> SUFFICES ASSUME Init PROVE ExitInv OBVIOUS
<1>1. \A t \in Threads : thread[t] = "none" BY DEF Init
<1>2. main.pc = "idle" /\ resetting = {} /\ ~isCoreThreadStarted BY DEF Init, Idle
<1> QED BY <1>1, <1>2 DEF ExitInv, Live, Alive, InBody

(* Steps that leave the threads, their latches and the flags alone, and    *)
(* after which main is not in the middle of an attach or a dispose.        *)
LEMMA SameExit ==
    ASSUME ExitInv, main.pc # "awaitExit",
           main'.pc \notin {"attach", "awaitExit", "release"},
           main'.pc = "disposed" => main'.act \notin resetting' \/ main.pc = "release",
           UNCHANGED <<thread, exited, coreThreadExitLatch, isCoreThreadStarted,
                       isAppRunningShared>>
    PROVE  ExitInv'
BY DEF ExitInv, Live, Alive, InBody

(* onCreate raises the running flag only when no dispose is waiting.       *)
LEMMA OnCreateExit ==
    ASSUME ExitInv, NEW a \in Activities, OnCreate(a) PROVE ExitInv'
<1>1. /\ main.pc = "idle" /\ main'.pc = "attach" /\ isAppRunningShared'
      /\ UNCHANGED <<thread, exited, coreThreadExitLatch, isCoreThreadStarted, resetting>>
  BY DEF OnCreate, Idle, Main, threads
<1>2. \A t \in Threads : thread[t] \notin {"leaving", "signal"}
  BY <1>1 DEF ExitInv, Live
<1> QED BY <1>1, <1>2 DEF ExitInv, Live, Alive, InBody

(* dispose() waits for the latch of the thread that is there, if one is.   *)
LEMMA OnDestroyExit ==
    ASSUME RuntimeAssumption, ExitInv, TypeOK, Serves, Sole, NEW a \in Activities, OnDestroy(a)
    PROVE  ExitInv'
<1>1. /\ main.pc = "idle"
      /\ UNCHANGED <<thread, exited, coreThreadExitLatch, isCoreThreadStarted, resetting>>
  BY DEF OnDestroy, Idle, threads
<1>2. \A t \in Threads : Live(t) => Alive(t) /\ isAppRunningShared
  <2>1. \A t \in Threads : Live(t) => isAppRunningShared
    BY <1>1 DEF ExitInv
  <2>2. \A t \in Threads : thread[t] \in ThreadStates
    BY DEF TypeOK
  <2> QED BY <2>1, <2>2 DEF ExitInv, Live, Alive, InBody, ThreadStates
<1>3. \A t \in Threads : Live(t) => coreThreadExitLatch = t /\ t \notin exited
  BY <1>2 DEF ExitInv
<1>4. CASE main' = Main("disposed", a, None) /\ ~StopsApp(a)
  <2>1. main'.pc = "disposed" /\ main'.act = a BY <1>4 DEF Main
  <2>2. isAppRunningShared' = isAppRunningShared
    BY <1>4 DEF OnDestroy, TypeOK
  <2>3. a \notin resetting
    BY <1>4, ResetStops DEF OnDestroy
  <2> QED BY <1>1, <2>1, <2>2, <2>3, SameExit
<1>5. CASE main' = Main("release", a, None) /\ StopsApp(a) /\ coreThreadExitLatch = None
  <2>1. main'.pc = "release" BY <1>5 DEF Main
  <2>2. \A t \in Threads : ~Live(t)
    BY <1>3, <1>5 DEF RuntimeAssumption
  <2> QED BY <1>1, <2>1, <2>2 DEF ExitInv, Live, Alive, InBody
<1>6. CASE main' = Main("awaitExit", a, coreThreadExitLatch) /\ StopsApp(a)
  <2>1. main'.pc = "awaitExit" /\ main'.latch = coreThreadExitLatch
    BY <1>6 DEF Main
  <2>2. ~isAppRunningShared'
    BY <1>6 DEF OnDestroy
  <2>3. main'.latch \in exited' => \A t \in Threads : ~Live(t)'
    BY <1>1, <1>3, <2>1 DEF Live
  <2>4. \A t \in Threads : Live(t)' => main'.latch = t
    BY <1>1, <1>3, <2>1 DEF Live
  <2> QED BY <1>1, <2>1, <2>2, <2>3, <2>4 DEF ExitInv, Live, Alive, InBody
<1> QED BY <1>4, <1>5, <1>6 DEF OnDestroy

(* The callbacks preserve the invariant.                                   *)
LEMMA CallbackExit ==
    ASSUME RuntimeAssumption, ExitInv, TypeOK, Serves, Sole, Callback PROVE ExitInv'
<1>0. PICK a \in Activities :
        \/ OnCreate(a) \/ OnResume(a) \/ UserEdits(a)
        \/ OnPauseUnsaved(a) \/ \E l \in SaveLatches : OnPause(a, l)
        \/ Finish(a) \/ RequestFactoryReset(a) \/ OnDestroy(a)
  BY DEF Callback
<1>1. CASE OnCreate(a) BY <1>1, OnCreateExit
<1>2. CASE OnDestroy(a) BY <1>2, OnDestroyExit
<1>3. CASE \/ OnResume(a) \/ UserEdits(a) \/ OnPauseUnsaved(a) \/ Finish(a)
           \/ RequestFactoryReset(a) \/ \E l \in SaveLatches : OnPause(a, l)
  <2>1. main = Idle /\ UNCHANGED <<shared, threads>>
    BY <1>3 DEF OnResume, UserEdits, OnPauseUnsaved, Finish, RequestFactoryReset, OnPause
  <2>2. main'.pc \in {"idle", "awaitSave"}
    BY <1>3 DEF OnResume, UserEdits, OnPauseUnsaved, Finish, RequestFactoryReset, OnPause,
                Main, Idle
  <2> QED BY <2>1, <2>2, SameExit DEF Idle, shared, threads
<1> QED BY <1>0, <1>1, <1>2, <1>3

(* A new thread comes with a new latch and finds no other thread.          *)
LEMMA StartExit ==
    ASSUME ExitInv, TypeOK, NEW t \in Threads, StartCoreThread(t) PROVE ExitInv'
<1>1. /\ main.pc = "attach" /\ main'.pc = "idle" /\ isAppRunningShared'
      /\ isCoreThreadStarted'
      /\ coreThreadExitLatch' = t /\ t \notin exited'
  BY DEF StartCoreThread, ExitInv, Idle
<1>2. \A u \in Threads : thread[u] = "none"
  <2>1. \A u \in Threads : thread[u] \in ThreadStates
    BY DEF TypeOK
  <2> QED BY <2>1 DEF StartCoreThread, ExitInv, Alive, InBody, Live, ThreadStates
<1>3. thread' = [thread EXCEPT ![t] = "starting"] /\ thread \in [Threads -> ThreadStates]
  BY DEF StartCoreThread, TypeOK
<1>4. thread'[t] = "starting" /\ \A u \in Threads \ {t} : thread'[u] = "none"
  BY <1>2, <1>3
<1> QED BY <1>1, <1>4 DEF ExitInv, Live, Alive, InBody

(* The main thread's later steps preserve it when nothing times out.       *)
LEMMA MainExit ==
    ASSUME ~SlowCore, ExitInv, TypeOK, MainGoesOn \/ SaveTimedOut \/ CoreExitTimedOut
    PROVE  ExitInv'
<1>1. CASE \E t \in Threads : StartCoreThread(t)
  BY <1>1, StartExit
<1>2. CASE AttachToCoreThread \/ SaveAwaited
  <2>1. main.pc # "awaitExit" /\ main'.pc = "idle"
    BY <1>2 DEF AttachToCoreThread, SaveAwaited, Idle
  <2>2. UNCHANGED <<shared, threads, screen>>
    BY <1>2 DEF AttachToCoreThread, SaveAwaited
  <2> QED BY <2>1, <2>2, SameExit DEF shared, threads, screen
<1>3. CASE CoreExitAwaited
  <2>1. \A t \in Threads : ~Live(t)
    BY <1>3 DEF CoreExitAwaited, ExitInv
  <2>2. /\ main'.pc = "release"
        /\ UNCHANGED <<thread, isCoreThreadStarted, resetting>>
    BY <1>3 DEF CoreExitAwaited, Main, threads, screen
  <2> QED BY <2>1, <2>2 DEF ExitInv, Live, Alive, InBody
<1>4. CASE ReleaseNativeRuntime
  <2>1. main.pc = "release" /\ main'.pc = "disposed"
    BY <1>4 DEF ReleaseNativeRuntime, Main
  <2>2. UNCHANGED <<shared, threads, screen>>
    BY <1>4 DEF ReleaseNativeRuntime
  <2> QED BY <2>1, <2>2, SameExit DEF shared, threads, screen
<1>5. CASE Destroyed /\ main.act \notin resetting
  <2>1. /\ main.pc = "disposed" /\ main'.pc = "idle"
        /\ UNCHANGED <<thread, exited, coreThreadExitLatch, isCoreThreadStarted,
                       isAppRunningShared>>
    BY <1>5 DEF Destroyed, Idle, threads
  <2> QED BY <2>1, SameExit
<1>7. CASE Destroyed /\ main.act \in resetting
  <2>1. /\ main.pc = "disposed" /\ main'.pc = "idle"
        /\ thread' = thread /\ ~isCoreThreadStarted'
    BY <1>7 DEF Destroyed, Idle, threads
  <2>2. \A t \in Threads : thread'[t] = "none"
    BY <1>7, <2>1 DEF ExitInv, Live
  <2> QED BY <2>1, <2>2 DEF ExitInv, Live, Alive, InBody
<1>6. CASE SaveTimedOut \/ CoreExitTimedOut
  BY <1>6 DEF SaveTimedOut, CoreExitTimedOut
<1> QED BY <1>1, <1>2, <1>3, <1>4, <1>5, <1>6, <1>7 DEF MainGoesOn

(* The core thread preserves it: it opens the latch that is its own.       *)
LEMMA CoreExit ==
    ASSUME ~CoreFailure, ExitInv, TypeOK, NEW t \in Threads, CoreStep(t) \/ CoreCrashes(t)
    PROVE  ExitInv'
<1>0. thread \in [Threads -> ThreadStates]
  BY DEF TypeOK
<1>a. UNCHANGED <<main, resetting, isAppRunningShared, coreThreadExitLatch>>
  BY DEF CoreStep, CoreCrashes, ThreadStarts, NativeInitialised, LoopHead, PollTask, RunTask,
         YieldToAndroid, Tick, ThreadLeaves, ThreadSignals, shared, screen
<1>1. CASE \/ ThreadStarts(t) \/ NativeInitialised(t) \/ LoopHead(t) \/ PollTask(t)
           \/ RunTask(t) \/ YieldToAndroid(t) \/ Tick(t)
  <2>1. /\ InBody(t)
        /\ thread'[t] \in {"initialising", "loop", "drain", "run", "tick", "leaving"}
        /\ \A u \in Threads \ {t} : thread'[u] = thread[u]
        /\ thread'[t] = "leaving" => ~isAppRunningShared
    BY <1>0, <1>1 DEF InBody, ThreadStarts, NativeInitialised, LoopHead, PollTask, RunTask,
                      YieldToAndroid, Tick
  <2>2. UNCHANGED <<isCoreThreadStarted, exited>>
    BY <1>1 DEF ThreadStarts, NativeInitialised, LoopHead, PollTask, RunTask,
                YieldToAndroid, Tick, shared
  <2>3. \A u \in Threads : (Alive(u)' <=> Alive(u)) /\ (Live(u)' <=> Live(u))
    BY <2>1 DEF Alive, InBody, Live
  <2>4. \A u \in Threads : thread'[u] \in {"leaving", "signal"} => ~isAppRunningShared
    BY <2>1 DEF ExitInv
  <2> QED BY <1>a, <2>2, <2>3, <2>4 DEF ExitInv
<1>2. CASE ThreadLeaves(t)
  <2>1. /\ thread[t] = "leaving" /\ thread'[t] = "signal"
        /\ \A u \in Threads \ {t} : thread'[u] = thread[u]
        /\ ~isCoreThreadStarted' /\ exited' = exited
    BY <1>0, <1>2 DEF ThreadLeaves
  <2>2. \A u \in Threads : Live(u) => u = t
    BY <2>1 DEF ExitInv, Live
  <2>3. \A u \in Threads : ~Alive(u)' /\ (Live(u)' <=> Live(u))
    BY <2>1, <2>2 DEF Alive, InBody, Live
  <2>4. ~isAppRunningShared
    BY <2>1 DEF ExitInv
  <2> QED BY <1>a, <2>1, <2>3, <2>4 DEF ExitInv
<1>3. CASE ThreadSignals(t)
  <2>1. /\ thread[t] = "signal" /\ thread'[t] = "none"
        /\ \A u \in Threads \ {t} : thread'[u] = thread[u]
        /\ UNCHANGED isCoreThreadStarted
    BY <1>0, <1>3 DEF ThreadSignals, shared
  <2>2. \A u \in Threads : Live(u) => u = t
    BY <2>1 DEF ExitInv, Live
  <2>3. \A u \in Threads : ~Alive(u) /\ ~Live(u)' /\ ~Alive(u)'
    BY <2>1, <2>2 DEF Alive, InBody, Live
  <2> QED BY <1>a, <2>1, <2>3 DEF ExitInv, Live
<1> QED BY <1>1, <1>2, <1>3 DEF CoreStep, CoreCrashes

-----------------------------------------------------------------------------
(* The thread that serves the activities. *)

(* A fresh process has no activity.                                        *)
LEMMA InitServes == Init => Serves
<1> SUFFICES ASSUME Init PROVE Serves
  OBVIOUS
<1>1. AttachedOnes = {}
  BY DEF Init, AttachedOnes, Attached
<1> QED BY <1>1, FS_EmptySet DEF Init, Serves, Idle

(* What leaves the activities attached and the threads that run the core.  *)
LEMMA SameService ==
    ASSUME Serves, AttachedOnes' = AttachedOnes,
           UNCHANGED <<activeActivityCount, isAppRunningShared>>,
           \A t \in Threads : InBody(t) /\ isAppRunningShared => InBody(t)',
           \A a \in Activities :
              activity'[a] = "destroying"
                  <=> main'.pc \in {"awaitExit", "release", "disposed"} /\ main'.act = a,
           main'.pc = "attach" \/ main.pc # "attach"
    PROVE  Serves'
BY DEF Serves

(* The callbacks count the activities they attach and let go.              *)
LEMMA CallbackServes ==
    ASSUME TypeOK, Serves, ExitInv, Callback PROVE Serves'
<1>0. PICK a \in Activities :
        \/ OnCreate(a) \/ OnResume(a) \/ UserEdits(a)
        \/ OnPauseUnsaved(a) \/ \E l \in SaveLatches : OnPause(a, l)
        \/ Finish(a) \/ RequestFactoryReset(a) \/ OnDestroy(a)
  BY DEF Callback
<1>a. activity \in [Activities -> {"none", "paused", "resumed", "destroying"}]
  BY DEF TypeOK
<1>1. CASE OnCreate(a)
  <2>1. /\ activity[a] = "none" /\ activity'[a] = "paused"
        /\ \A b \in Activities \ {a} : activity'[b] = activity[b]
        /\ activeActivityCount' = activeActivityCount + 1
        /\ isAppRunningShared' /\ main'.pc = "attach" /\ main.pc = "idle"
    BY <1>1, <1>a DEF OnCreate, Main, Idle
  <2>2. AttachedOnes' = AttachedOnes \cup {a} /\ a \notin AttachedOnes
    BY <2>1 DEF AttachedOnes, Attached
  <2>3. IsFiniteSet(AttachedOnes') /\ activeActivityCount' = Cardinality(AttachedOnes')
    BY <2>1, <2>2, FS_AddElement DEF Serves
  <2> QED BY <2>1, <2>3 DEF Serves
<1>2. CASE OnDestroy(a)
  <2>1. /\ activity[a] = "paused" /\ activity'[a] = "destroying"
        /\ \A b \in Activities \ {a} : activity'[b] = activity[b]
        /\ activeActivityCount' = activeActivityCount - 1
        /\ isAppRunningShared' = (isAppRunningShared /\ ~StopsApp(a))
        /\ main.pc = "idle" /\ thread' = thread
        /\ main'.pc \in {"awaitExit", "release", "disposed"} /\ main'.act = a
    BY <1>2, <1>a DEF OnDestroy, Idle, Main, threads
  <2>2. AttachedOnes' = AttachedOnes \ {a} /\ a \in AttachedOnes
    BY <2>1 DEF AttachedOnes, Attached
  <2>3. IsFiniteSet(AttachedOnes') /\ activeActivityCount' = Cardinality(AttachedOnes')
    BY <2>1, <2>2, FS_RemoveElement DEF Serves
  <2>4. StopsApp(a) => AttachedOnes' = {}
    <3>1. Cardinality(AttachedOnes') \in Nat
      BY <2>3, FS_CardinalityType
    <3>2. StopsApp(a) => activeActivityCount' <= 0
      BY <2>1 DEF StopsApp
    <3>3. StopsApp(a) => Cardinality(AttachedOnes') = 0
      BY <2>3, <3>1, <3>2
    <3> QED BY <2>3, <3>3, FS_EmptySet
  <2>5. AttachedOnes' # {} => isAppRunningShared'
    BY <2>1, <2>2, <2>4 DEF Serves
  <2>6. isAppRunningShared' => \E t \in Threads : InBody(t)'
    BY <2>1 DEF Serves, InBody
  <2>7. \A b \in Activities : activity'[b] = "destroying"
             <=> main'.pc \in {"awaitExit", "release", "disposed"} /\ main'.act = b
    BY <2>1 DEF Serves
  <2> QED BY <2>1, <2>3, <2>5, <2>6, <2>7 DEF Serves
<1>3. CASE \/ OnResume(a) \/ UserEdits(a) \/ OnPauseUnsaved(a) \/ Finish(a)
           \/ RequestFactoryReset(a) \/ \E l \in SaveLatches : OnPause(a, l)
  <2>1. /\ main.pc = "idle" /\ thread' = thread
        /\ main'.pc \in {"idle", "awaitSave"}
        /\ UNCHANGED <<activeActivityCount, isAppRunningShared>>
    BY <1>3 DEF OnResume, UserEdits, OnPauseUnsaved, Finish, RequestFactoryReset, OnPause,
                Idle, Main, shared, threads
  <2>0. \A b \in Activities : activity[b] # "destroying"
    BY <2>1 DEF Serves
  <2>2. \A b \in Activities : /\ Attached(b)' <=> Attached(b)
                            /\ activity'[b] # "destroying"
    <3>1. CASE UserEdits(a) \/ Finish(a) \/ RequestFactoryReset(a)
      BY <2>0, <3>1 DEF UserEdits, Finish, RequestFactoryReset, screen, Attached
    <3>2. CASE OnResume(a)
      <4>1. Attached(a) /\ activity'[a] = "resumed"
            /\ \A b \in Activities \ {a} : activity'[b] = activity[b]
        BY <2>0, <3>2, <1>a DEF OnResume, IsTop, Attached
      <4> QED BY <2>0, <4>1 DEF Attached
    <3>3. CASE OnPauseUnsaved(a) \/ \E l \in SaveLatches : OnPause(a, l)
      <4>1. Attached(a) /\ activity'[a] = "paused"
            /\ \A b \in Activities \ {a} : activity'[b] = activity[b]
        BY <3>3, <1>a DEF OnPauseUnsaved, OnPause, Attached
      <4> QED BY <2>0, <4>1 DEF Attached
    <3> QED BY <1>3, <3>1, <3>2, <3>3
  <2>3. AttachedOnes' = AttachedOnes
    BY <2>2 DEF AttachedOnes
  <2> QED BY <2>1, <2>2, <2>3, SameService DEF InBody
<1> QED BY <1>0, <1>1, <1>2, <1>3

(* The later steps of a callback: attach() ends with a thread that serves. *)
LEMMA MainServes ==
    ASSUME ~SlowCore, TypeOK, Serves, ExitInv, Sole, MainGoesOn \/ SaveTimedOut \/ CoreExitTimedOut
    PROVE  Serves'
<1>a. /\ activity \in [Activities -> {"none", "paused", "resumed", "destroying"}]
      /\ thread \in [Threads -> ThreadStates]
  BY DEF TypeOK
<1>1. CASE \E t \in Threads : StartCoreThread(t)
  <2>0. PICK t \in Threads : StartCoreThread(t)
    BY <1>1
  <2>1. /\ thread'[t] = "starting" /\ main.pc = "attach" /\ main'.pc = "idle"
        /\ UNCHANGED <<activeActivityCount, isAppRunningShared, activity>>
    BY <1>a, <2>0 DEF StartCoreThread, Idle, screen
  <2>2. AttachedOnes' = AttachedOnes /\ InBody(t)'
    BY <2>1 DEF AttachedOnes, Attached, InBody
  <2> QED BY <2>1, <2>2 DEF Serves
<1>2. CASE AttachToCoreThread
  <2>1. /\ main.pc = "attach" /\ main'.pc = "idle" /\ isCoreThreadStarted
        /\ UNCHANGED <<activeActivityCount, isAppRunningShared, activity, thread>>
    BY <1>2 DEF AttachToCoreThread, Idle, shared, threads, screen
  <2>2. \E t \in Threads : InBody(t)
    BY <2>1 DEF ExitInv, Alive
  <2>3. AttachedOnes' = AttachedOnes /\ \A t \in Threads : InBody(t)' <=> InBody(t)
    BY <2>1 DEF AttachedOnes, Attached, InBody
  <2> QED BY <2>1, <2>2, <2>3 DEF Serves
<1>3. CASE SaveAwaited \/ SaveTimedOut \/ CoreExitTimedOut
  <2>1. /\ main.pc = "awaitSave" /\ main'.pc = "idle"
        /\ UNCHANGED <<activeActivityCount, isAppRunningShared, activity, thread>>
    BY <1>3 DEF SaveAwaited, SaveTimedOut, CoreExitTimedOut, Idle, shared, threads, screen
  <2>2. AttachedOnes' = AttachedOnes /\ \A t \in Threads : InBody(t)' <=> InBody(t)
    BY <2>1 DEF AttachedOnes, Attached, InBody
  <2> QED BY <2>1, <2>2, SameService DEF Serves
<1>4. CASE CoreExitAwaited \/ ReleaseNativeRuntime
  <2>1. /\ main.pc \in {"awaitExit", "release"} /\ main'.pc \in {"release", "disposed"}
        /\ main'.act = main.act
        /\ UNCHANGED <<activeActivityCount, isAppRunningShared, activity, thread>>
    BY <1>4 DEF CoreExitAwaited, ReleaseNativeRuntime, Main, shared, threads, screen
  <2>2. AttachedOnes' = AttachedOnes /\ \A t \in Threads : InBody(t)' <=> InBody(t)
    BY <2>1 DEF AttachedOnes, Attached, InBody
  <2> QED BY <2>1, <2>2, SameService DEF Serves
<1>5. CASE Destroyed
  <2>1. /\ main.pc = "disposed" /\ main'.pc = "idle" /\ thread' = thread
        /\ IF main.act \in resetting
             THEN activeActivityCount' = 0 /\ ~isAppRunningShared'
             ELSE UNCHANGED <<activeActivityCount, isAppRunningShared>>
    BY <1>5 DEF Destroyed, Idle, threads
  <2>2. /\ activity[main.act] = "destroying" /\ main.act \in Activities
        /\ activity'[main.act] = "none"
        /\ \A a \in Activities \ {main.act} : activity'[a] = activity[a]
        /\ \A a \in Activities \ {main.act} : activity[a] # "destroying"
    BY <1>5, <1>a, <2>1 DEF Destroyed, Serves, TypeOK
  <2>3. AttachedOnes' = AttachedOnes /\ \A t \in Threads : InBody(t)' <=> InBody(t)
    BY <2>1, <2>2 DEF AttachedOnes, Attached, InBody
  <2>4. \A a \in Activities : activity'[a] # "destroying"
    BY <2>2
  <2>5. CASE main.act \notin resetting
    BY <2>1, <2>3, <2>4, <2>5, SameService
  <2>6. CASE main.act \in resetting
    <3>1. AttachedOnes = {}
      BY <2>2, <2>6 DEF Sole, AttachedOnes, Attached
    <3> QED BY <2>1, <2>3, <2>4, <2>6, <3>1, FS_EmptySet DEF Serves
  <2> QED BY <2>5, <2>6
<1> QED BY <1>1, <1>2, <1>3, <1>4, <1>5 DEF MainGoesOn

(* The core thread leaves its loop only when the core is to stop.          *)
LEMMA CoreServes ==
    ASSUME ~CoreFailure, TypeOK, Serves, ExitInv, NEW t \in Threads, CoreStep(t) \/ CoreCrashes(t)
    PROVE  Serves'
<1>0. thread \in [Threads -> ThreadStates]
  BY DEF TypeOK
<1>1. /\ UNCHANGED <<main, activity, activeActivityCount, isAppRunningShared>>
      /\ \A u \in Threads \ {t} : thread'[u] = thread[u]
  BY <1>0 DEF CoreStep, CoreCrashes, ThreadStarts, NativeInitialised, LoopHead, PollTask, RunTask,
         YieldToAndroid, Tick, ThreadLeaves, ThreadSignals, shared, screen
<1>2. isAppRunningShared /\ InBody(t) => InBody(t)'
  BY <1>0 DEF CoreStep, CoreCrashes, ThreadStarts, NativeInitialised, LoopHead, PollTask, RunTask,
         YieldToAndroid, Tick, ThreadLeaves, ThreadSignals, InBody
<1>3. AttachedOnes' = AttachedOnes
  BY <1>1 DEF AttachedOnes, Attached
<1> QED BY <1>1, <1>2, <1>3 DEF Serves, InBody

(* Both are kept, together, when nothing times out, native code does not   *)
(* throw and a reset is that of the only activity.                         *)
RunsInv == TypeOK /\ ExitInv /\ Serves /\ Sole

LEMMA InitRuns == Init => RunsInv
<1>1. Init => Sole
  BY DEF Init, Sole
<1> QED BY <1>1, InitTypeOK, InitExit, InitServes DEF RunsInv

LEMMA NextRuns ==
    ASSUME ~SlowCore, ~CoreFailure, RunsInv, [Next]_vars, [SoleReset]_vars
    PROVE  RunsInv'
<1>0. TypeOK /\ ExitInv /\ Serves /\ Sole
  BY DEF RunsInv
<1>1. TypeOK'
  BY <1>0, RuntimeAssumption, CallbackTypeOK, MainTypeOK, CoreTypeOK, StutterTypeOK DEF Next
<1>2. Sole'
  BY <1>0 DEF SoleReset, Sole, vars, screen
<1>3. CASE Callback
  BY <1>0, <1>1, <1>2, <1>3, RuntimeAssumption, CallbackExit, CallbackServes DEF RunsInv
<1>4. CASE MainGoesOn \/ SaveTimedOut \/ CoreExitTimedOut
  BY <1>0, <1>1, <1>2, <1>4, MainExit, MainServes DEF RunsInv
<1>5. CASE \E t \in Threads : CoreStep(t) \/ CoreCrashes(t)
  BY <1>0, <1>1, <1>2, <1>5, CoreExit, CoreServes DEF RunsInv
<1>6. CASE ProcessDeath
  <2>1. Init'
    BY <1>6 DEF ProcessDeath, Init, Idle
  <2>2. Init' => RunsInv'
    BY InitRuns, PTL
  <2> QED BY <2>1, <2>2
<1>7. CASE UNCHANGED vars
  <2>1. ExitInv'
    BY <1>0, <1>7 DEF ExitInv, Live, Alive, InBody, vars, shared, threads, screen
  <2>2. AttachedOnes' = AttachedOnes
    BY <1>7 DEF vars, screen, AttachedOnes, Attached
  <2>3. Serves'
    BY <1>0, <1>7, <2>2 DEF vars, shared, threads, screen, Serves, InBody
  <2> QED BY <1>1, <1>2, <2>1, <2>3 DEF RunsInv
<1> QED BY <1>3, <1>4, <1>5, <1>6, <1>7 DEF Next

(* When every wait is answered in time, native code does not throw and a   *)
(* reset is that of the only activity, the native side gives up its        *)
(* activity only after the last core thread has left its loop (dispose,    *)
(* waitForCoreThreadToExit).  Each assumption closes a way in which a      *)
(* latch opens that is not that of the thread still running: a thread that *)
(* was given up, that crashed, or that a reset made the flag forget.       *)
THEOREM ReleaseComesLast ==
    ASSUME ~SlowCore, ~CoreFailure PROVE Spec /\ [][SoleReset]_vars => ReleasedAfterExit
<1>1. RunsInv /\ [Next]_vars /\ [SoleReset]_vars => RunsInv'
  BY NextRuns
<1>2. RunsInv => (ReleaseNativeRuntime => \A t \in Threads : ~InBody(t))
  BY DEF RunsInv, ExitInv, ReleaseNativeRuntime, Live, InBody
<1>3. RunsInv /\ [Next]_vars => [ReleaseNativeRuntime => \A t \in Threads : ~InBody(t)]_vars
  BY <1>2
<1> QED BY InitRuns, <1>1, <1>3, PTL DEF Spec, ReleasedAfterExit

(* Under the same assumptions an activity that is there to show the        *)
(* calculator finds a core thread that runs it and stays: whatever         *)
(* activities are created, destroyed and created again around it, the      *)
(* count keeps the core running, attach() never takes a thread on its way  *)
(* out for one that stays, and after a reset there is nothing left that it *)
(* could take for one (attach, dispose, handleDestroy).                    *)
THEOREM ActivitiesAreServed ==
    ASSUME ~SlowCore, ~CoreFailure PROVE Spec /\ [][SoleReset]_vars => []CoreServesActivities
<1>1. RunsInv /\ [Next]_vars /\ [SoleReset]_vars => RunsInv'
  BY NextRuns
<1>2. RunsInv => CoreServesActivities
  BY DEF RunsInv, Serves, CoreServesActivities, AttachedOnes, Idle
<1> QED BY InitRuns, <1>1, <1>2, PTL DEF Spec

(* Where nobody resets at all, the assumption on resets holds.             *)
LEMMA NoResetIsSole == ASSUME ~FactoryReset PROVE Spec => [][SoleReset]_vars
<1>1. OneThreadInv /\ [Next]_vars => OneThreadInv'
  BY NextOneThread
<1>2. OneThreadInv' => [SoleReset]_vars
  BY DEF OneThreadInv, SoleReset
<1> QED BY InitOneThread, <1>1, <1>2, PTL DEF Spec

-----------------------------------------------------------------------------
(* What the main thread waits for. *)

(* What main waits for is still to come: the latch of a thread that has    *)
(* not ended, the save in the queue or in the hands of a thread that runs. *)
Answerable ==
    /\ coreThreadExitLatch # None => coreThreadExitLatch \in exited \/ Live(coreThreadExitLatch)
    /\ main.pc = "awaitExit" => main.latch # None
    /\ main.pc = "awaitSave" =>
         /\ isAppRunningShared
         /\ \/ main.latch \in saved
            \/ \E t \in Threads :
                  InBody(t) /\ Save \in Elements(coreTasks) \cup Elements(current[t])

(* Main does not wait for what nobody is going to do: a callback waits for *)
(* the exit of the thread on record, which has yet to open its latch, or   *)
(* for a save that a thread which runs holds or will find.                 *)
WaitsAreAnswered ==
    /\ main.pc = "awaitExit" =>
         main.latch \in exited
            \/ (main.latch \in Threads /\ Live(main.latch) /\ coreThreadExitLatch = main.latch)
    /\ main.pc = "awaitSave" =>
         main.latch \in saved
            \/ \E t \in Threads :
                  InBody(t) /\ Save \in Elements(coreTasks) \cup Elements(current[t])

(* What happens outside of the wait for a save, the exit latch left alone. *)
LEMMA SameLatch ==
    ASSUME Answerable, main'.pc \notin {"awaitExit", "awaitSave"},
           UNCHANGED <<coreThreadExitLatch, exited, thread>>
    PROVE  Answerable'
BY DEF Answerable, Live

LEMMA SeqElements ==
    ASSUME NEW s \in Seq(Tasks), NEW task \in Tasks
    PROVE  /\ Elements(Append(s, task)) = Elements(s) \cup {task}
           /\ s # <<>> => Elements(s) = {Head(s)} \cup Elements(Tail(s))
           /\ s # <<>> => Elements(s) = Elements(SubSeq(s, 1, Len(s) - 1)) \cup {s[Len(s)]}
<1>0. Len(s) \in Nat /\ DOMAIN s = 1 .. Len(s)
  OBVIOUS
<1>1. Elements(Append(s, task)) = Elements(s) \cup {task}
  <2>1. /\ DOMAIN Append(s, task) = 1 .. Len(s) + 1 /\ Append(s, task)[Len(s) + 1] = task
        /\ \A i \in 1 .. Len(s) : Append(s, task)[i] = s[i]
    OBVIOUS
  <2> QED BY <1>0, <2>1 DEF Elements
<1>2. ASSUME s # <<>> PROVE Elements(s) = {Head(s)} \cup Elements(Tail(s))
  <2>1. PICK n \in Nat : Len(s) = n + 1
    <3>1. Len(s) # 0
      BY <1>2
    <3>2. Len(s) - 1 \in Nat /\ (Len(s) - 1) + 1 = Len(s)
      BY <1>0, <3>1
    <3> QED BY <3>2
  <2>2. PICK tail : tail = Tail(s)
    OBVIOUS
  <2>3. tail \in Seq(Tasks) /\ Len(tail) = n /\ \A i \in 1 .. n : tail[i] = s[i + 1]
    BY <1>2, <2>1, <2>2, HeadTailProperties
  <2>4. DOMAIN tail = 1 .. n /\ Head(s) = s[1]
    BY <2>3
  <2>5. \A e \in Elements(s) : e = s[1] \/ e \in Elements(tail)
    <3>1. ASSUME NEW i \in 1 .. n + 1, i # 1 PROVE s[i] \in Elements(tail)
      <4>1. i - 1 \in 1 .. n /\ (i - 1) + 1 = i
        BY <3>1
      <4> QED BY <2>3, <2>4, <4>1 DEF Elements
    <3> QED BY <1>0, <2>1, <3>1 DEF Elements
  <2>6. s[1] \in Elements(s) /\ \A e \in Elements(tail) : e \in Elements(s)
    <3>1. \A i \in 1 .. n : i + 1 \in 1 .. n + 1
      OBVIOUS
    <3> QED BY <1>0, <2>1, <2>3, <2>4, <3>1 DEF Elements
  <2> QED BY <2>2, <2>4, <2>5, <2>6
<1>3. ASSUME s # <<>> PROVE Elements(s) = Elements(SubSeq(s, 1, Len(s) - 1)) \cup {s[Len(s)]}
  <2>1. PICK n \in Nat : Len(s) = n + 1 /\ Len(s) - 1 = n
    <3>1. Len(s) # 0
      BY <1>3
    <3>2. Len(s) - 1 \in Nat /\ (Len(s) - 1) + 1 = Len(s)
      BY <1>0, <3>1
    <3> QED BY <3>2
  <2>2. PICK front : front = SubSeq(s, 1, n)
    OBVIOUS
  <2>3. DOMAIN front = 1 .. n /\ \A i \in 1 .. n : front[i] = s[i]
    BY <2>1, <2>2
  <2>4. Elements(s) = Elements(front) \cup {s[n + 1]}
    BY <1>0, <2>1, <2>3 DEF Elements
  <2> QED BY <2>1, <2>2, <2>4
<1> QED BY <1>1, <1>2, <1>3

(* onPause offers its save to a thread that runs.                          *)
LEMMA OnPauseAnswerable ==
    ASSUME RunsInv, Answerable, NEW a \in Activities, NEW l \in SaveLatches, OnPause(a, l)
    PROVE  Answerable'
<1>1. /\ activity[a] = "resumed" /\ main.pc = "idle"
      /\ main'.pc = "awaitSave" /\ main'.latch = l
      /\ offerTask(Task("save", l)) /\ UNCHANGED <<shared, threads>>
  BY DEF OnPause, Main, Idle
<1>2. isAppRunningShared
  BY <1>1 DEF RunsInv, Serves, AttachedOnes, Attached
<1>3. PICK t \in Threads : InBody(t)
  BY <1>1, <1>2 DEF RunsInv, Serves
<1>4. Save' = Task("save", l) /\ Task("save", l) \in Tasks
  BY <1>1, TaskTypes DEF Save
<1>5. coreTasks' = Append(coreTasks, Task("save", l)) /\ coreTasks \in Seq(Tasks)
  BY <1>1, <1>2 DEF offerTask, RunsInv, TypeOK
<1>6. Save' \in Elements(coreTasks')
  BY <1>4, <1>5, SeqElements
<1>7. InBody(t)' /\ Elements(coreTasks') = Elements(coreTasks)'
  BY <1>1, <1>3 DEF threads, InBody, Elements
<1> QED BY <1>1, <1>2, <1>6, <1>7 DEF Answerable, shared, threads, Live

LEMMA MainAnswerable ==
    ASSUME ~SlowCore, RunsInv, Answerable,
           Callback \/ MainGoesOn \/ SaveTimedOut \/ CoreExitTimedOut
    PROVE  Answerable'
<1>1. CASE Callback
  <2>0. PICK a \in Activities :
          \/ OnCreate(a) \/ OnResume(a) \/ UserEdits(a)
          \/ OnPauseUnsaved(a) \/ \E l \in SaveLatches : OnPause(a, l)
          \/ Finish(a) \/ RequestFactoryReset(a) \/ OnDestroy(a)
    BY <1>1 DEF Callback
  <2>1. CASE \E l \in SaveLatches : OnPause(a, l)
    BY <2>1, OnPauseAnswerable
  <2>2. CASE OnDestroy(a)
    <3>1. /\ main'.pc \in {"awaitExit", "release", "disposed"}
          /\ main'.pc = "awaitExit" => main'.latch # None
          /\ UNCHANGED <<coreThreadExitLatch, exited, thread>>
      BY <2>2 DEF OnDestroy, Main, threads
    <3> QED BY <3>1 DEF Answerable, Live
  <2>3. CASE \/ OnCreate(a) \/ OnResume(a) \/ UserEdits(a) \/ OnPauseUnsaved(a)
             \/ Finish(a) \/ RequestFactoryReset(a)
    <3>1. main'.pc \in {"idle", "attach"} /\ UNCHANGED <<coreThreadExitLatch, exited, thread>>
      BY <2>3 DEF OnCreate, OnResume, UserEdits, OnPauseUnsaved, Finish, RequestFactoryReset,
                  Main, Idle, shared, threads
    <3> QED BY <3>1, SameLatch
  <2> QED BY <2>0, <2>1, <2>2, <2>3
<1>2. CASE \E t \in Threads : StartCoreThread(t)
  <2>0. PICK t \in Threads : StartCoreThread(t)
    BY <1>2
  <2>1. main'.pc = "idle" /\ coreThreadExitLatch' = t /\ thread'[t] = "starting"
    BY <2>0 DEF StartCoreThread, Idle, RunsInv, TypeOK
  <2> QED BY <2>1 DEF Answerable, Live
<1>3. CASE AttachToCoreThread \/ SaveAwaited \/ ReleaseNativeRuntime \/ Destroyed
  <2>1. main'.pc \in {"idle", "disposed"} /\ UNCHANGED <<coreThreadExitLatch, exited, thread>>
    BY <1>3 DEF AttachToCoreThread, SaveAwaited, ReleaseNativeRuntime, Destroyed,
                Main, Idle, shared, threads
  <2> QED BY <2>1, SameLatch
<1>4. CASE CoreExitAwaited
  BY <1>4 DEF CoreExitAwaited, Main, Answerable
<1>5. CASE SaveTimedOut \/ CoreExitTimedOut
  BY <1>5 DEF SaveTimedOut, CoreExitTimedOut
<1> QED BY <1>1, <1>2, <1>3, <1>4, <1>5 DEF MainGoesOn

(* The thread keeps its body while the core is to run, and hands the save  *)
(* from the queue to itself and from there to its latch.                   *)
LEMMA CoreAnswerable ==
    ASSUME ~CoreFailure, RunsInv, Answerable, NEW t \in Threads, CoreStep(t) \/ CoreCrashes(t)
    PROVE  Answerable'
<1>0. /\ thread \in [Threads -> ThreadStates] /\ coreTasks \in Seq(Tasks)
      /\ current \in [Threads -> Seq(Tasks)]
  BY DEF RunsInv, TypeOK
<1>1. /\ UNCHANGED <<main, isAppRunningShared, coreThreadExitLatch>>
      /\ \A u \in Threads \ {t} : thread'[u] = thread[u]
  BY <1>0 DEF CoreStep, CoreCrashes, ThreadStarts, NativeInitialised, LoopHead, PollTask, RunTask,
         YieldToAndroid, Tick, ThreadLeaves, ThreadSignals, shared
<1>2. coreThreadExitLatch # None =>
          coreThreadExitLatch' \in exited' \/ Live(coreThreadExitLatch)'
  <2>1. CASE ThreadSignals(t)
    BY <1>1, <2>1 DEF ThreadSignals
  <2>2. CASE ~ThreadSignals(t)
    <3>1. thread'[t] # "none" /\ exited' = exited
      BY <1>0, <2>2 DEF CoreStep, CoreCrashes, ThreadStarts, NativeInitialised, LoopHead,
             PollTask, RunTask, YieldToAndroid, Tick, ThreadLeaves
    <3>2. coreThreadExitLatch \in Threads \cup {None}
      BY DEF RunsInv, TypeOK
    <3> QED BY <1>1, <3>1, <3>2 DEF Answerable, Live
  <2> QED BY <2>1, <2>2
<1>3. \A u \in Threads : isAppRunningShared /\ InBody(u) => InBody(u)'
  <2>1. isAppRunningShared /\ InBody(t) => InBody(t)'
    BY <1>0 DEF CoreStep, CoreCrashes, ThreadStarts, NativeInitialised, LoopHead, PollTask,
           RunTask, YieldToAndroid, Tick, ThreadLeaves, ThreadSignals, InBody
  <2> QED BY <1>1, <2>1 DEF InBody
<1>4. Save' = Save
  BY <1>1 DEF Save
<1>5. ASSUME main.pc = "awaitSave", NEW u \in Threads, InBody(u), main.latch \notin saved',
             Save \in Elements(coreTasks) \cup Elements(current[u])
      PROVE  \E v \in Threads :
                InBody(v) /\ Save \in Elements(coreTasks') \cup Elements(current'[v])
  <2>1. CASE UNCHANGED <<coreTasks, current>>
    BY <1>5, <2>1 DEF Elements
  <2>2. CASE PollTask(t) /\ coreTasks # <<>>
    <3>1. PICK head \in Tasks : head = Head(coreTasks)
      BY <1>0, <2>2
    <3>2. /\ InBody(t) /\ coreTasks' = Tail(coreTasks)
          /\ current'[t] = Append(current[t], head)
          /\ \A v \in Threads \ {t} : current'[v] = current[v]
      BY <1>0, <2>2, <3>1 DEF PollTask, InBody
    <3>3. Elements(coreTasks) = {head} \cup Elements(Tail(coreTasks))
      BY <1>0, <2>2, <3>1, SeqElements
    <3>4. Elements(Append(current[t], head)) = Elements(current[t]) \cup {head}
      <4>1. current[t] \in Seq(Tasks)
        BY <1>0
      <4> QED BY <4>1, SeqElements
    <3>5. CASE Save = head
      BY <3>2, <3>4, <3>5
    <3>6. CASE Save # head /\ Save \in Elements(coreTasks)
      BY <3>2, <3>3, <3>6
    <3>7. CASE Save \in Elements(current[u])
      <4>1. Save \in Elements(current'[u])
        BY <3>2, <3>4, <3>7
      <4> QED BY <1>5, <4>1
    <3> QED BY <1>5, <3>5, <3>6, <3>7
  <2>3. CASE RunTask(t)
    <3>1. /\ coreTasks' = coreTasks
          /\ current'[t] = SubSeq(current[t], 1, Len(current[t]) - 1)
          /\ \A v \in Threads \ {t} : current'[v] = current[v]
          /\ Innermost(t).kind = "save" => Innermost(t).latch \in saved'
      BY <1>0, <2>3 DEF RunTask
    <3>2. CASE Save = Innermost(t)
      BY <1>5, <3>1, <3>2 DEF Save, Task
    <3>3. CASE Save # Innermost(t) /\ Save \in Elements(current[t])
      <4>1. current[t] \in Seq(Tasks) /\ current[t] # <<>>
        BY <1>0, <2>3 DEF RunsInv, TypeOK, RunTask
      <4>2. Elements(current[t]) = Elements(SubSeq(current[t], 1, Len(current[t]) - 1))
                                     \cup {Innermost(t)}
        BY <4>1, TaskTypes, SeqElements DEF Innermost
      <4>3. InBody(t)
        BY <2>3 DEF RunTask, InBody
      <4> QED BY <3>1, <3>3, <4>2, <4>3
    <3> QED BY <1>5, <3>1, <3>2, <3>3
  <2> QED
    BY <2>1, <2>2, <2>3 DEF CoreStep, CoreCrashes, ThreadStarts, NativeInitialised, LoopHead,
         PollTask, YieldToAndroid, Tick, ThreadLeaves, ThreadSignals, queue
<1>6. ASSUME main.pc = "awaitSave"
      PROVE  \/ main.latch \in saved'
             \/ \E v \in Threads :
                   InBody(v)' /\ Save \in Elements(coreTasks') \cup Elements(current'[v])
  <2>1. isAppRunningShared
    BY <1>6 DEF Answerable
  <2>2. saved \subseteq saved'
    BY DEF CoreStep, CoreCrashes, ThreadStarts, NativeInitialised, LoopHead, PollTask, RunTask,
           YieldToAndroid, Tick, ThreadLeaves, ThreadSignals, queue
  <2>3. CASE main.latch \in saved'
    BY <2>3
  <2>4. CASE main.latch \notin saved'
    <3>1. PICK u \in Threads :
             InBody(u) /\ Save \in Elements(coreTasks) \cup Elements(current[u])
      BY <1>6, <2>2, <2>4 DEF Answerable
    <3>2. PICK v \in Threads :
             InBody(v) /\ Save \in Elements(coreTasks') \cup Elements(current'[v])
      BY <1>5, <1>6, <2>4, <3>1
    <3> QED BY <1>3, <2>1, <3>2
  <2> QED BY <2>3, <2>4
<1> QED BY <1>1, <1>2, <1>4, <1>6 DEF Answerable, Elements

LEMMA NextAnswerable ==
    ASSUME ~SlowCore, ~CoreFailure, RunsInv, Answerable, [Next]_vars
    PROVE  Answerable'
<1>1. CASE Callback \/ MainGoesOn \/ SaveTimedOut \/ CoreExitTimedOut
  BY <1>1, MainAnswerable
<1>2. CASE \E t \in Threads : CoreStep(t) \/ CoreCrashes(t)
  BY <1>2, CoreAnswerable
<1>3. CASE ProcessDeath
  BY <1>3 DEF ProcessDeath, Answerable, Idle
<1>4. CASE UNCHANGED vars
  BY <1>4 DEF vars, shared, queue, threads, Answerable, Live, InBody, Save, Elements
<1> QED BY <1>1, <1>2, <1>3, <1>4 DEF Next

(* Under the assumptions of ReleaseComesLast no callback waits for what    *)
(* nobody is going to do: this is what CallbacksReturn and                 *)
(* PauseGetsItsSave need beside fairness (saveStateOnPause,                *)
(* waitForCoreThreadToExit).                                               *)
THEOREM NoWaitIsInVain ==
    ASSUME ~SlowCore, ~CoreFailure PROVE Spec /\ [][SoleReset]_vars => []WaitsAreAnswered
<1>1. Init => Answerable
  BY DEF Init, Answerable, Idle
<1>2. RunsInv /\ Answerable /\ [Next]_vars /\ [SoleReset]_vars => RunsInv' /\ Answerable'
  BY NextRuns, NextAnswerable
<1>3. RunsInv /\ Answerable => WaitsAreAnswered
  <2> SUFFICES ASSUME RunsInv, Answerable PROVE WaitsAreAnswered
    OBVIOUS
  <2>1. coreThreadExitLatch \in Threads \cup {None}
    BY DEF RunsInv, TypeOK
  <2>2. main.pc = "awaitExit" => main.latch = coreThreadExitLatch
    BY DEF RunsInv, ExitInv
  <2> QED BY <2>1, <2>2 DEF Answerable, WaitsAreAnswered
<1> QED BY InitRuns, <1>1, <1>2, <1>3, PTL DEF Spec
=============================================================================

----------------------------- MODULE CoreRuntime -----------------------------
(***************************************************************************)
(* The life of the calculator core inside the Android process:             *)
(* NativeCoreRuntime.kt, the lifecycle callbacks of MainActivity.kt that   *)
(* drive it, and the factory reset.                                        *)
(*                                                                         *)
(* One main thread runs the callbacks of every activity, one at a time,    *)
(* and may block in them; each core thread runs the loop started in        *)
(* startOrAttachCoreThread.  All the state of the companion object is      *)
(* shared by both, without a lock.                                         *)
(*                                                                         *)
(* The calculator's own state is reduced to what saving tells apart:       *)
(* whether memory holds edits the backup file does not.                    *)
(***************************************************************************)
EXTENDS Integers, Sequences, FiniteSets

CONSTANTS
    Activities,       \* instances of MainActivity, reused once destroyed
    Threads,          \* core threads with their exit latches, reused likewise
    SaveLatches,      \* the latches saveStateOnPause creates, reused likewise
    None,             \* null
    MaxTasks,         \* bound: length of the task queue when a task is offered
    MaxDepth,         \* bound: tasks a core thread is inside of, by yielding
    SlowCore,         \* may a wait on a latch reach its timeout?
    CoreFailure,      \* may native code throw out of the core loop?
    FactoryReset,     \* may the user ask for a factory reset?
    PictureInPicture  \* may an activity be paused into picture-in-picture?

ASSUME RuntimeAssumption ==
    /\ None \notin Activities \cup Threads \cup SaveLatches
    /\ MaxTasks \in Nat /\ MaxDepth \in Nat
    /\ SlowCore \in BOOLEAN /\ CoreFailure \in BOOLEAN
    /\ FactoryReset \in BOOLEAN
    /\ PictureInPicture \in BOOLEAN

VARIABLES
    isAppRunningShared, isCoreThreadStarted, isNativeInitializedShared,
    coreThreadExitLatch,   \* the thread whose exit opens it, or None
    activeActivityCount,
    coreTasks,
    exited,                \* the exit latches that are open
    saved,                 \* the save latches that are open
    thread,                \* what each core thread is doing
    owner,                 \* the activity whose attach() started the thread
    current,               \* the tasks each core thread is inside of, the last
                           \* one run by the yield of the one before
    activity,              \* where each activity is in its lifecycle
    below,                 \* the activities each activity was started on top of
    finishing,             \* the activities that were told to finish
    resetting,             \* the activities with a reset in progress
    main,                  \* what the main thread is doing, for which activity
    g_mainActivityObj,     \* the activity native code calls back, or None
    unsaved                \* memory holds edits the backup file does not

shared  == <<isAppRunningShared, isCoreThreadStarted, isNativeInitializedShared,
             coreThreadExitLatch, activeActivityCount>>
queue   == <<coreTasks, saved>>
threads == <<thread, owner, current, exited>>
screen  == <<activity, below, finishing, resetting>>
native  == <<g_mainActivityObj, unsaved>>
vars == <<shared, queue, threads, screen, main, native>>

(* A task is what its Runnable does, and the latch it counts down. *)
Task(kind, latch) == [kind |-> kind, latch |-> latch]
Tasks == {Task("edit", None), Task("refresh", None)} \cup {Task("save", l) : l \in SaveLatches}

Elements(seq) == {seq[i] : i \in DOMAIN seq}

Idle == [pc |-> "idle", act |-> None, latch |-> None]
Main(pc, a, latch) == [pc |-> pc, act |-> a, latch |-> latch]

ThreadStates == {"none", "starting", "initialising", "loop", "drain", "run", "tick",
                 "leaving", "signal"}

(* The core thread is inside its try block, so possibly in native code. *)
InBody(t) == thread[t] \in {"starting", "initialising", "loop", "drain", "run", "tick"}
(* ... and its finally block has not cleared isCoreThreadStarted. *)
Alive(t) == InBody(t) \/ thread[t] = "leaving"

Attached(a) == activity[a] \in {"paused", "resumed"}

(* The system shows the topmost activity that is not finishing. *)
IsTop(a) ==
    /\ activity[a] # "none" /\ a \notin finishing
    /\ \A b \in Activities : a \in below[b] => b \in finishing

Init ==
    /\ isAppRunningShared = FALSE
    /\ isCoreThreadStarted = FALSE
    /\ isNativeInitializedShared = FALSE
    /\ coreThreadExitLatch = None
    /\ activeActivityCount = 0
    /\ coreTasks = <<>>
    /\ exited = {} /\ saved = {}
    /\ thread = [t \in Threads |-> "none"]
    /\ owner = [t \in Threads |-> None]
    /\ current = [t \in Threads |-> <<>>]
    /\ activity = [a \in Activities |-> "none"]
    /\ below = [a \in Activities |-> {}] /\ finishing = {} /\ resetting = {}
    /\ main = Idle
    /\ g_mainActivityObj = None
    /\ unsaved = FALSE

-----------------------------------------------------------------------------
(* The main thread. *)

(* Mutant: the last task offered is the first to run. *)
offerTaskInFront(task) ==
    coreTasks' = IF isAppRunningShared THEN <<task>> \o coreTasks ELSE coreTasks

offerTask(task) ==
    coreTasks' = IF isAppRunningShared THEN Append(coreTasks, task) ELSE coreTasks

(* onCreate: attach() up to the call of startOrAttachCoreThread.  The name of *)
(* a destroyed activity is used again when nothing refers to it.             *)
OnCreate(a) ==
    /\ main = Idle
    /\ activity[a] = "none"
    /\ a # g_mainActivityObj /\ \A t \in Threads : Alive(t) => owner[t] # a
    /\ \A b \in Activities : activity[b] # "resumed"
    /\ activity' = [activity EXCEPT ![a] = "paused"]
    /\ below' = [below EXCEPT ![a] = {b \in Activities : activity[b] # "none"}]
    /\ activeActivityCount' = activeActivityCount + 1
    /\ isAppRunningShared' = TRUE
    /\ main' = Main("attach", a, None)
    /\ UNCHANGED <<isCoreThreadStarted, isNativeInitializedShared, coreThreadExitLatch,
                   queue, threads, finishing, resetting, native>>

(* Mutant: attach() starts a thread without looking whether there is one. *)
StartAnotherThread(t) ==
    /\ main.pc = "attach"
    /\ thread[t] = "none"
    /\ isCoreThreadStarted' = TRUE
    /\ coreThreadExitLatch' = t
    /\ exited' = exited \ {t}
    /\ thread' = [thread EXCEPT ![t] = "starting"]
    /\ owner' = [owner EXCEPT ![t] = main.act]
    /\ main' = Idle
    /\ UNCHANGED <<isAppRunningShared, isNativeInitializedShared, activeActivityCount,
                   queue, current, screen, native>>

(* startOrAttachCoreThread when no core thread is on record. *)
StartCoreThread(t) ==
    /\ main.pc = "attach"
    /\ ~isCoreThreadStarted
    /\ thread[t] = "none"
    /\ isCoreThreadStarted' = TRUE
    /\ coreThreadExitLatch' = t
    /\ exited' = exited \ {t}
    /\ thread' = [thread EXCEPT ![t] = "starting"]
    /\ owner' = [owner EXCEPT ![t] = main.act]
    /\ main' = Idle
    /\ UNCHANGED <<isAppRunningShared, isNativeInitializedShared, activeActivityCount,
                   queue, current, screen, native>>

(* startOrAttachCoreThread otherwise: only the activity reference is new. *)
AttachToCoreThread ==
    /\ main.pc = "attach"
    /\ isCoreThreadStarted
    /\ g_mainActivityObj' = main.act
    /\ main' = Idle
    /\ UNCHANGED <<shared, queue, threads, screen, unsaved>>

(* onResume of the topmost activity: requestForceRefresh. *)
OnResume(a) ==
    /\ main = Idle
    /\ IsTop(a)
    /\ \A b \in Activities : activity[b] # "resumed"
    /\ Len(coreTasks) < MaxTasks
    /\ activity' = [activity EXCEPT ![a] = "resumed"]
    /\ IF isNativeInitializedShared THEN offerTask(Task("refresh", None))
                                    ELSE UNCHANGED coreTasks
    /\ UNCHANGED <<shared, saved, threads, below, finishing, resetting, main, native>>

(* A key, a menu or a display action; a paused activity offers tasks too:    *)
(* keys of the picture-in-picture window, and loads when another activity    *)
(* has picked a slot or a work directory.                                    *)
UserEdits(a) ==
    /\ main = Idle
    /\ Attached(a)
    /\ Len(coreTasks) < MaxTasks
    /\ offerTask(Task("edit", None))
    /\ UNCHANGED <<shared, saved, threads, screen, main, native>>

(* onPause into picture-in-picture, or before the core is initialised. *)
OnPauseUnsaved(a) ==
    /\ main = Idle
    /\ activity[a] = "resumed"
    /\ PictureInPicture \/ ~isNativeInitializedShared
    /\ activity' = [activity EXCEPT ![a] = "paused"]
    /\ UNCHANGED <<shared, queue, threads, below, finishing, resetting, main, native>>

(* onPause: saveStateOnPause up to the wait for its latch. *)
OnPause(a, l) ==
    /\ main = Idle
    /\ activity[a] = "resumed"
    /\ isNativeInitializedShared
    /\ \A t \in Threads : Task("save", l) \notin Elements(current[t])
    /\ Task("save", l) \notin Elements(coreTasks)
    /\ Len(coreTasks) < MaxTasks
    /\ activity' = [activity EXCEPT ![a] = "paused"]
    /\ saved' = saved \ {l}
    /\ offerTask(Task("save", l))
    /\ main' = Main("awaitSave", a, l)
    /\ UNCHANGED <<shared, threads, below, finishing, resetting, native>>

SaveAwaited ==
    /\ main.pc = "awaitSave"
    /\ main.latch \in saved
    /\ main' = Idle
    /\ UNCHANGED <<shared, queue, threads, screen, native>>

(* After two seconds onPause goes on without the save. *)
SaveTimedOut ==
    /\ SlowCore
    /\ main.pc = "awaitSave"
    /\ main' = Idle
    /\ UNCHANGED <<shared, queue, threads, screen, native>>

(* The user leaves the activity, or the calculator quits it (quitApp). *)
Finish(a) ==
    /\ main = Idle
    /\ activity[a] = "resumed"
    /\ finishing' = finishing \cup {a}
    /\ UNCHANGED <<shared, queue, threads, activity, below, resetting, main, native>>

(* handleResetRequest: every activity of the task is told to finish. *)
RequestFactoryReset(a) ==
    /\ FactoryReset
    /\ main = Idle
    /\ activity[a] = "resumed"
    /\ a \notin resetting
    /\ resetting' = resetting \cup {a}
    /\ finishing' = finishing \cup {b \in Activities : Attached(b)}
    /\ UNCHANGED <<shared, queue, threads, activity, below, main, native>>

(* Mutant: the core is stopped for every activity that finishes. *)
StopsAppEarly(a) == a \in finishing

(* dispose() stops the core for the last activity that finishes. *)
StopsApp(a) == a \in finishing /\ activeActivityCount - 1 <= 0

(* onDestroy of an activity, finishing or to be created again: dispose()   *)
(* up to the wait for the core thread.                                     *)
OnDestroy(a) ==
    LET actual == StopsApp(a)
    IN  /\ main = Idle
        /\ activity[a] = "paused"
        /\ activity' = [activity EXCEPT ![a] = "destroying"]
        /\ activeActivityCount' = activeActivityCount - 1
        /\ isAppRunningShared' = (isAppRunningShared /\ ~actual)
        /\ coreTasks' = IF actual THEN <<>> ELSE coreTasks
        /\ \/ ~actual /\ main' = Main("disposed", a, None)
           \/ /\ actual /\ coreThreadExitLatch = None
              /\ main' = Main("release", a, None)
           \/ /\ actual /\ coreThreadExitLatch # None
              /\ main' = Main("awaitExit", a, coreThreadExitLatch)
        /\ UNCHANGED <<isCoreThreadStarted, isNativeInitializedShared, coreThreadExitLatch,
                       saved, threads, below, finishing, resetting, native>>

(* Mutant: dispose() does not wait for the latch. *)
CoreExitNotAwaited ==
    /\ main.pc = "awaitExit"
    /\ coreThreadExitLatch' = None
    /\ main' = Main("release", main.act, None)
    /\ UNCHANGED <<isAppRunningShared, isCoreThreadStarted, isNativeInitializedShared,
                   activeActivityCount, queue, threads, screen, native>>

(* waitForCoreThreadToExit: the latch opened ...                           *)
CoreExitAwaited ==
    /\ main.pc = "awaitExit"
    /\ main.latch \in exited
    /\ coreThreadExitLatch' = None
    /\ main' = Main("release", main.act, None)
    /\ UNCHANGED <<isAppRunningShared, isCoreThreadStarted, isNativeInitializedShared,
                   activeActivityCount, queue, threads, screen, native>>

(* ... or half a second went by.                                           *)
CoreExitTimedOut ==
    /\ SlowCore
    /\ main.pc = "awaitExit"
    /\ coreThreadExitLatch' = None
    /\ main' = Main("release", main.act, None)
    /\ UNCHANGED <<isAppRunningShared, isCoreThreadStarted, isNativeInitializedShared,
                   activeActivityCount, queue, threads, screen, native>>

(* onActualStop: releaseNativeRuntime. *)
ReleaseNativeRuntime ==
    /\ main.pc = "release"
    /\ g_mainActivityObj' = None
    /\ main' = Main("disposed", main.act, None)
    /\ UNCHANGED <<shared, queue, threads, screen, unsaved>>

(* The end of onDestroy: handleDestroy, which on a reset clears the shared *)
(* state and deletes the files; what memory holds is then nowhere else.    *)
Destroyed ==
    /\ main.pc = "disposed"
    /\ activity' = [activity EXCEPT ![main.act] = "none"]
    /\ below' = [b \in Activities |-> IF b = main.act THEN {} ELSE below[b] \ {main.act}]
    /\ finishing' = finishing \ {main.act}
    /\ resetting' = resetting \ {main.act}
    /\ main' = Idle
    /\ IF main.act \in resetting
         THEN /\ coreTasks' = <<>>
              /\ isCoreThreadStarted' = FALSE
              /\ isAppRunningShared' = FALSE
              /\ isNativeInitializedShared' = FALSE
              /\ activeActivityCount' = 0
              /\ unsaved' = FALSE
         ELSE UNCHANGED <<coreTasks, isCoreThreadStarted, isAppRunningShared,
                          isNativeInitializedShared, activeActivityCount, unsaved>>
    /\ UNCHANGED <<coreThreadExitLatch, saved, threads, g_mainActivityObj>>

-----------------------------------------------------------------------------
(* A core thread. *)

(* Mutant: every core thread initialises the calculator. *)
ThreadAlwaysInitialises(t) ==
    /\ thread[t] = "starting"
    /\ thread' = [thread EXCEPT ![t] = "initialising"]
    /\ g_mainActivityObj' = owner[t]
    /\ UNCHANGED <<shared, queue, owner, current, exited, screen, main, unsaved>>

(* The thread looks whether the native side is initialised; if so it only  *)
(* registers its activity.                                                 *)
ThreadStarts(t) ==
    /\ thread[t] = "starting"
    /\ thread' = [thread EXCEPT ![t] = IF isNativeInitializedShared
                                         THEN "loop" ELSE "initialising"]
    /\ g_mainActivityObj' = owner[t]
    /\ UNCHANGED <<shared, queue, owner, current, exited, screen, main, unsaved>>

(* initNative: the calculator is reset and restored from its backup file. *)
NativeInitialised(t) ==
    /\ thread[t] = "initialising"
    /\ thread' = [thread EXCEPT ![t] = "loop"]
    /\ isNativeInitializedShared' = TRUE
    /\ unsaved' = FALSE
    /\ UNCHANGED <<isAppRunningShared, isCoreThreadStarted, coreThreadExitLatch,
                   activeActivityCount, queue, owner, current, exited, screen, main,
                   g_mainActivityObj>>

(* Mutant: the loop ticks without draining the queue. *)
LoopHeadSkipsDrain(t) ==
    /\ thread[t] = "loop"
    /\ thread' = [thread EXCEPT ![t] = IF isAppRunningShared THEN "tick" ELSE "leaving"]
    /\ UNCHANGED <<shared, queue, owner, current, exited, screen, main, native>>

LoopHead(t) ==
    /\ thread[t] = "loop"
    /\ thread' = [thread EXCEPT ![t] = IF isAppRunningShared THEN "drain" ELSE "leaving"]
    /\ UNCHANGED <<shared, queue, owner, current, exited, screen, main, native>>

Innermost(t) == current[t][Len(current[t])]

(* Mutant: what poll() returned is run before it is compared with null. *)
PollTaskUnchecked(t) ==
    /\ thread[t] = "drain"
    /\ thread' = [thread EXCEPT ![t] = "run"]
    /\ IF coreTasks = <<>> THEN UNCHANGED <<coreTasks, current>>
       ELSE /\ current' = [current EXCEPT ![t] = Append(@, Head(coreTasks))]
            /\ coreTasks' = Tail(coreTasks)
    /\ UNCHANGED <<shared, saved, owner, exited, screen, main, native>>

(* drainCoreTasks: coreTasks.poll().  With nothing left the loop goes on to *)
(* tick(), a yield returns to the task it was called from.                  *)
PollTask(t) ==
    /\ thread[t] = "drain"
    /\ IF coreTasks = <<>>
         THEN /\ thread' = [thread EXCEPT ![t] = IF current[t] = <<>> THEN "tick" ELSE "run"]
              /\ UNCHANGED <<coreTasks, current>>
         ELSE /\ thread' = [thread EXCEPT ![t] = "run"]
              /\ current' = [current EXCEPT ![t] = Append(@, Head(coreTasks))]
              /\ coreTasks' = Tail(coreTasks)
    /\ UNCHANGED <<shared, saved, owner, exited, screen, main, native>>

(* Mutant: a save leaves its latch alone. *)
RunTaskSilently(t) ==
    /\ thread[t] = "run"
    /\ thread' = [thread EXCEPT ![t] = "drain"]
    /\ current' = [current EXCEPT ![t] = SubSeq(@, 1, Len(@) - 1)]
    /\ unsaved' = (unsaved \/ Innermost(t).kind = "edit")
    /\ UNCHANGED <<shared, queue, owner, exited, screen, main, g_mainActivityObj>>

(* task.run() ends; a save counts its latch down whether or not it succeeded. *)
RunTask(t) ==
    /\ thread[t] = "run"
    /\ thread' = [thread EXCEPT ![t] = "drain"]
    /\ current' = [current EXCEPT ![t] = SubSeq(@, 1, Len(@) - 1)]
    /\ unsaved' = CASE Innermost(t).kind = "edit"    -> TRUE
                    [] Innermost(t).kind = "save"    -> FALSE
                    [] Innermost(t).kind = "refresh" -> unsaved
    /\ saved' = saved \cup IF Innermost(t).kind = "save" THEN {Innermost(t).latch} ELSE {}
    /\ UNCHANGED <<shared, coreTasks, owner, exited, screen, main, g_mainActivityObj>>

(* yieldToAndroid in the middle of an edit (a program, a pause, a beep): the *)
(* queue is drained through the activity native code calls back.            *)
YieldToAndroid(t) ==
    /\ thread[t] = "run"
    /\ Innermost(t).kind = "edit"
    /\ Len(current[t]) < MaxDepth
    /\ g_mainActivityObj # None
    /\ thread' = [thread EXCEPT ![t] = "drain"]
    /\ unsaved' = TRUE
    /\ UNCHANGED <<shared, queue, owner, current, exited, screen, main, g_mainActivityObj>>

Tick(t) ==
    /\ thread[t] = "tick"
    /\ thread' = [thread EXCEPT ![t] = "loop"]
    /\ UNCHANGED <<shared, queue, owner, current, exited, screen, main, native>>

(* An exception out of native code, in startup or in tick(), ends the loop. *)
CoreCrashes(t) ==
    /\ CoreFailure
    /\ thread[t] \in {"starting", "initialising", "tick"}
    /\ thread' = [thread EXCEPT ![t] = "leaving"]
    /\ UNCHANGED <<shared, queue, owner, current, exited, screen, main, native>>

(* Mutant: the finally block forgets the flag. *)
ThreadLeavesFlag(t) ==
    /\ thread[t] = "leaving"
    /\ thread' = [thread EXCEPT ![t] = "signal"]
    /\ UNCHANGED <<shared, queue, owner, current, exited, screen, main, native>>

(* The finally block: first the flag, then whichever latch is on record is *)
(* counted down.                                                           *)
ThreadLeaves(t) ==
    /\ thread[t] = "leaving"
    /\ thread' = [thread EXCEPT ![t] = "signal"]
    /\ isCoreThreadStarted' = FALSE
    /\ UNCHANGED <<isAppRunningShared, isNativeInitializedShared, coreThreadExitLatch,
                   activeActivityCount, queue, owner, current, exited, screen, main, native>>

(* Mutant: the latch is not counted down. *)
ThreadEndsSilently(t) ==
    /\ thread[t] = "signal"
    /\ thread' = [thread EXCEPT ![t] = "none"]
    /\ UNCHANGED <<shared, queue, owner, current, exited, screen, main, native>>

ThreadSignals(t) ==
    /\ thread[t] = "signal"
    /\ thread' = [thread EXCEPT ![t] = "none"]
    /\ exited' = IF coreThreadExitLatch = None THEN exited
                 ELSE exited \cup {coreThreadExitLatch}
    /\ UNCHANGED <<shared, queue, owner, current, screen, main, native>>

CoreStep(t) ==
    \/ ThreadStarts(t) \/ NativeInitialised(t) \/ LoopHead(t) \/ PollTask(t)
    \/ RunTask(t) \/ YieldToAndroid(t) \/ Tick(t) \/ ThreadLeaves(t) \/ ThreadSignals(t)

(* The steps main takes inside a callback: the system does not choose them. *)
MainGoesOn ==
    \/ \E t \in Threads : StartCoreThread(t)
    \/ AttachToCoreThread \/ SaveAwaited \/ CoreExitAwaited
    \/ ReleaseNativeRuntime \/ Destroyed

Callback ==
    \E a \in Activities :
        \/ OnCreate(a) \/ OnResume(a) \/ UserEdits(a)
        \/ OnPauseUnsaved(a) \/ \E l \in SaveLatches : OnPause(a, l)
        \/ Finish(a) \/ RequestFactoryReset(a) \/ OnDestroy(a)

(* The system kills the process, with every thread and all its memory. *)
ProcessDeath ==
    /\ isAppRunningShared' = FALSE /\ isCoreThreadStarted' = FALSE
    /\ isNativeInitializedShared' = FALSE /\ coreThreadExitLatch' = None
    /\ activeActivityCount' = 0 /\ coreTasks' = <<>>
    /\ exited' = {} /\ saved' = {}
    /\ thread' = [t \in Threads |-> "none"]
    /\ owner' = [t \in Threads |-> None] /\ current' = [t \in Threads |-> <<>>]
    /\ activity' = [a \in Activities |-> "none"] /\ below' = [a \in Activities |-> {}]
    /\ finishing' = {} /\ resetting' = {}
    /\ main' = Idle
    /\ g_mainActivityObj' = None /\ unsaved' = FALSE

Next ==
    \/ Callback \/ MainGoesOn \/ SaveTimedOut \/ CoreExitTimedOut
    \/ \E t \in Threads : CoreStep(t) \/ CoreCrashes(t)
    \/ ProcessDeath

Spec == Init /\ [][Next]_vars

(* Both threads are scheduled; callbacks and deaths happen or do not. *)
FairSpec ==
    /\ Spec
    /\ WF_vars(MainGoesOn)
    /\ \A t \in Threads : WF_vars(CoreStep(t))

(* Assumed where a property says so: the user resets the only activity     *)
(* there is, and none is started before that one is destroyed.             *)
SoleReset ==
    \A a \in resetting' :
        \A b \in Activities \ {a} : activity'[b] = "none"

-----------------------------------------------------------------------------
(* Properties. *)

TypeOK ==
    /\ isAppRunningShared \in BOOLEAN
    /\ isCoreThreadStarted \in BOOLEAN
    /\ isNativeInitializedShared \in BOOLEAN
    /\ coreThreadExitLatch \in Threads \cup {None}
    /\ activeActivityCount \in Int
    /\ coreTasks \in Seq(Tasks)
    /\ exited \subseteq Threads
    /\ saved \subseteq SaveLatches
    /\ thread \in [Threads -> ThreadStates]
    /\ owner \in [Threads -> Activities \cup {None}]
    /\ current \in [Threads -> Seq(Tasks)]
    /\ \A t \in Threads : thread[t] = "run" => current[t] # <<>>
    /\ activity \in [Activities -> {"none", "paused", "resumed", "destroying"}]
    /\ below \in [Activities -> SUBSET Activities]
    /\ finishing \subseteq Activities /\ resetting \subseteq finishing
    /\ main \in [pc : {"idle", "attach", "awaitSave", "awaitExit", "release", "disposed"},
                 act : Activities \cup {None},
                 latch : SaveLatches \cup Threads \cup {None}]
    /\ main.pc # "idle" => main.act \in Activities
    /\ g_mainActivityObj \in Activities \cup {None}
    /\ unsaved \in BOOLEAN

(* Native code runs on one core thread at a time: attach() starts a thread *)
(* only when the last one has reached its finally block                    *)
(* (startOrAttachCoreThread).                                              *)
OneCoreThread ==
    \A t, u \in Threads : InBody(t) /\ InBody(u) => t = u

(* isCoreThreadStarted says whether a core thread still has code to run.   *)
StartedFlagIsTruthful ==
    isCoreThreadStarted <=> \E t \in Threads : Alive(t)

(* Whenever main is not in the middle of a callback and an activity is     *)
(* there to show the calculator, a core thread is there to run it and is   *)
(* not on its way out: no key press is queued for nobody (attach, dispose).*)
CoreServesActivities ==
    main = Idle /\ (\E a \in Activities : Attached(a) /\ a \notin finishing) =>
        /\ isAppRunningShared
        /\ \E t \in Threads : InBody(t)

EditsQueued == \E task \in Elements(coreTasks) : task.kind = "edit"
(* When onPause goes on because its latch opened, no edit offered before   *)
(* waits behind the save, however deep in a yield the save was run         *)
(* (saveStateOnPause, drainCoreTasks, yieldToAndroidWithMs).               *)
AwaitedSaveIsInOrder == [][SaveAwaited => ~EditsQueued]_vars

(* The native side gives up its activity only when no core thread can call *)
(* it any more (dispose, waitForCoreThreadToExit).                         *)
ReleasedAfterExit ==
    [][ReleaseNativeRuntime => \A t \in Threads : ~InBody(t)]_vars

(* The calculator is initialised from its file only when memory holds      *)
(* nothing newer (startOrAttachCoreThread).                                *)
InitialisationLosesNothing ==
    [][\A t \in Threads : NativeInitialised(t) => ~unsaved]_vars

(* Every callback returns without a timeout, onDestroy's wait for the core *)
(* thread included, provided every program comes to an end                 *)
(* (saveStateOnPause, waitForCoreThreadToExit).                            *)
CallbacksReturn ==
    (\A t \in Threads : []<>(current[t] = <<>>))
        => (main # Idle ~> main = Idle)

(* A program that runs, even one that never ends, does not keep onPause    *)
(* from its save: it is written during one of the program's yields         *)
(* (yieldToAndroidWithMs, processCoreTasksNative).                         *)
PauseGetsItsSave == main.pc = "awaitSave" ~> main = Idle

(* The task at the head of the queue is taken up, or the queue is cleared: *)
(* a task in another task's yield does not hide the queue from the loop.   *)
QueueMoves ==
    \A task \in Tasks :
        (coreTasks # <<>> /\ Head(coreTasks) = task)
            ~> (coreTasks = <<>> \/ Head(coreTasks) # task
                \/ \E t \in Threads : task \in Elements(current[t]))
=============================================================================

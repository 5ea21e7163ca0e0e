----------------------------- MODULE FileHandoff -----------------------------
(***************************************************************************)
(* The boundary between the core thread and the main thread below the JNI: *)
(* screenMutex, which the entry points for keys, saves and redrawing take  *)
(* but initNative and setLcdColors do not (jni_lifecycle.c, hal/lcd.c);    *)
(* the yield that gives it up and runs other tasks (native-lib.c); and the *)
(* handshake by which native code asks Android for a file and waits for it *)
(* (jni_storage.c, StorageAccessCoordinator.kt).                           *)
(*                                                                         *)
(* There is one core thread, from its start on, and one activity (see      *)
(* CoreRuntime for several).  The tasks are not told apart but for the     *)
(* save that onPause waits for; the descriptor of the file that answers a  *)
(* request is named after the request.  The mutex is recursive, but no     *)
(* entry point is reached by a thread that holds it: its count is 1.       *)
(***************************************************************************)
EXTENDS Integers, Sequences, FiniteSets

CONSTANTS
    Requests,      \* file requests, a name being used again when it is over
    Core, Main,    \* the two threads
    None,          \* nobody; no request; the descriptor -1
    MaxYields,     \* bound: yields inside of each other
    KeysOnMain,    \* does the user hit Shift or Ctrl of a physical keyboard?
    ResultsLost    \* may an activity be finished under its file picker?

ASSUME HandoffAssumption ==
    /\ None \notin Requests \cup {Core, Main} /\ Core # Main
    /\ MaxYields \in Nat
    /\ KeysOnMain \in BOOLEAN /\ ResultsLost \in BOOLEAN

VARIABLES
    ram,                   \* doFnReset has allocated the memory of the calculator
    isNativeInitialized,   \* initNative has returned
    screenMutex,           \* [owner, count]
    corePc,                \* what the core thread is doing
    lockCounts,            \* the counts its suspended yields and request gave up
    isCoreBlockingForIo, fileReady, fileCancelled, fileDescriptor,
    request,               \* the request of requestAndroidFile in progress
    returned,              \* what requestAndroidFile returned last
    posted,                \* the request posted to the main thread
    picker,                \* the request whose file picker is open
    mainPc,                \* what the main thread is doing
    paused,                \* the activity is paused
    saveQueued             \* the save of the last onPause is in the queue

handshake == <<isCoreBlockingForIo, fileReady, fileCancelled, fileDescriptor>>
coreVars  == <<corePc, lockCounts, request, returned>>
mainVars  == <<posted, picker, mainPc, paused>>
initVars  == <<ram, isNativeInitialized>>
vars == <<initVars, screenMutex, handshake, coreVars, mainVars, saveQueued>>

Mutex(t, n) == [owner |-> t, count |-> n]
Unlocked == Mutex(None, 0)

(* The core thread starts, in a process that may have had one before: an   *)
(* initialised one, or one whose shared state a factory reset cleared.     *)
Init ==
    /\ ram \in BOOLEAN /\ isNativeInitialized \in BOOLEAN
    /\ isNativeInitialized => ram
    /\ screenMutex = Unlocked
    /\ corePc = "start" /\ lockCounts = <<>>
    /\ isCoreBlockingForIo = FALSE
    /\ fileReady = FALSE /\ fileCancelled = FALSE /\ fileDescriptor = None
    /\ request = None /\ returned = None
    /\ posted = None /\ picker = None
    /\ mainPc = "idle" /\ paused = FALSE /\ saveQueued = FALSE

-----------------------------------------------------------------------------
(* The core thread: updateNativeActivityRef and initNative. *)

(* Redrawing needs the memory, which the first thread of a process lacks.  *)
SkipRedraw ==
    /\ corePc = "start"
    /\ ~ram
    /\ corePc' = "reset"
    /\ UNCHANGED <<initVars, screenMutex, handshake, lockCounts, request, returned, mainVars,
                   saveQueued>>

Redraw ==
    /\ corePc = "start"
    /\ ram /\ screenMutex = Unlocked
    /\ screenMutex' = Mutex(Core, 1)
    /\ corePc' = "redraw"
    /\ UNCHANGED <<initVars, handshake, lockCounts, request, returned, mainVars, saveQueued>>

RedrawEnds ==
    /\ corePc = "redraw"
    /\ screenMutex' = Unlocked
    /\ corePc' = IF isNativeInitialized THEN "drain" ELSE "reset"
    /\ UNCHANGED <<initVars, handshake, lockCounts, request, returned, mainVars, saveQueued>>

(* doFnReset allocates the memory and fills it, without the lock.          *)
DoFnReset ==
    /\ corePc = "reset"
    /\ ram' = TRUE
    /\ corePc' = "restore"
    /\ UNCHANGED <<isNativeInitialized, screenMutex, handshake, lockCounts, request, returned,
                   mainVars, saveQueued>>

(* restoreCalc and the timers, still without it; then the first refresh.   *)
RestoreCalc ==
    /\ corePc = "restore"
    /\ screenMutex = Unlocked
    /\ screenMutex' = Mutex(Core, 1)
    /\ corePc' = "refresh"
    /\ UNCHANGED <<initVars, handshake, lockCounts, request, returned, mainVars, saveQueued>>

NativeInitialised ==
    /\ corePc = "refresh"
    /\ screenMutex' = Unlocked
    /\ isNativeInitialized' = TRUE
    /\ corePc' = "drain"
    /\ UNCHANGED <<ram, handshake, lockCounts, request, returned, mainVars, saveQueued>>

-----------------------------------------------------------------------------
(* The core thread: its tasks and the lock. *)

(* A task is polled, in the core loop or in a yield, or the loop ticks.    *)
StartTask ==
    /\ corePc = "drain"
    /\ corePc' = "lock"
    /\ UNCHANGED <<initVars, screenMutex, handshake, lockCounts, request, returned, mainVars, saveQueued>>

(* The native entry point takes the lock.                                  *)
Lock ==
    /\ corePc = "lock"
    /\ screenMutex = Unlocked
    /\ screenMutex' = Mutex(Core, 1)
    /\ corePc' = "native"
    /\ UNCHANGED <<initVars, handshake, lockCounts, request, returned, mainVars, saveQueued>>

(* The entry point unlocks and returns to the loop that polled the task.   *)
EndTask ==
    /\ corePc = "native"
    /\ screenMutex' = Unlocked
    /\ corePc' = "drain"
    /\ UNCHANGED <<initVars, handshake, lockCounts, request, returned, mainVars, saveQueued>>

(* saveStateNative; the task then counts down the latch onPause waits for. *)
RunSave ==
    /\ corePc = "drain"
    /\ saveQueued
    /\ screenMutex = Unlocked
    /\ saveQueued' = FALSE
    /\ UNCHANGED <<initVars, screenMutex, handshake, coreVars, mainVars>>

(* yieldToAndroid: the lock is given up as often as it was taken.          *)
Yield ==
    /\ corePc = "native"
    /\ Len(lockCounts) < MaxYields
    /\ lockCounts' = <<screenMutex.count>> \o lockCounts
    /\ screenMutex' = Unlocked
    /\ corePc' = "drain"
    /\ UNCHANGED <<initVars, handshake, request, returned, mainVars, saveQueued>>

(* The queue is empty and the sleep is over: the yield returns.            *)
YieldEnds ==
    /\ corePc = "drain"
    /\ lockCounts # <<>>
    /\ ~saveQueued
    /\ corePc' = "relock"
    /\ UNCHANGED <<initVars, screenMutex, handshake, lockCounts, request, returned, mainVars, saveQueued>>

(* Mutant: the lock is not taken back.                                     *)
RelockForgotten ==
    /\ corePc = "relock"
    /\ lockCounts' = Tail(lockCounts)
    /\ corePc' = "native"
    /\ request' = None
    /\ UNCHANGED <<initVars, screenMutex, handshake, returned, mainVars, saveQueued>>

(* Mutant: the lock is taken back once too often.                          *)
RelockTooOften ==
    /\ corePc = "relock"
    /\ screenMutex = Unlocked
    /\ screenMutex' = Mutex(Core, Head(lockCounts) + 1)
    /\ lockCounts' = Tail(lockCounts)
    /\ corePc' = "native"
    /\ request' = None
    /\ UNCHANGED <<initVars, handshake, returned, mainVars, saveQueued>>

(* The lock is taken back as often as it was given up, after a yield or    *)
(* before requestAndroidFile returns (restoreScreenMutexAndReturn).        *)
Relock ==
    /\ corePc = "relock"
    /\ screenMutex = Unlocked
    /\ screenMutex' = Mutex(Core, Head(lockCounts))
    /\ lockCounts' = Tail(lockCounts)
    /\ corePc' = "native"
    /\ request' = None
    /\ UNCHANGED <<initVars, handshake, returned, mainVars, saveQueued>>

-----------------------------------------------------------------------------
(* The core thread: requestAndroidFile. *)

(* Mutant: the request keeps the lock.                                     *)
RequestKeepsLock(r) ==
    /\ corePc = "native"
    /\ r \notin {posted, picker, fileDescriptor}
    /\ request' = r
    /\ lockCounts' = <<screenMutex.count>> \o lockCounts
    /\ corePc' = "arm"
    /\ UNCHANGED <<initVars, screenMutex, handshake, returned, mainVars, saveQueued>>

RequestAndroidFile(r) ==
    /\ corePc = "native"
    /\ r \notin {posted, picker, fileDescriptor}
    /\ request' = r
    /\ lockCounts' = <<screenMutex.count>> \o lockCounts
    /\ screenMutex' = Unlocked
    /\ corePc' = "arm"
    /\ UNCHANGED <<initVars, handshake, returned, mainVars, saveQueued>>

(* The bridge is not ready, or the thread cannot be attached to the VM.    *)
RequestRefused ==
    /\ corePc = "native"
    /\ returned' = None
    /\ UNCHANGED <<initVars, screenMutex, handshake, corePc, lockCounts, request, mainVars, saveQueued>>

(* Mutant: the answer to the last request is not cleared.                  *)
ArmKeepsAnswer ==
    /\ corePc = "arm"
    /\ isCoreBlockingForIo' = TRUE
    /\ corePc' = "post"
    /\ UNCHANGED <<initVars, screenMutex, fileReady, fileCancelled, fileDescriptor, lockCounts,
                   request, returned, mainVars, saveQueued>>

Arm ==
    /\ corePc = "arm"
    /\ isCoreBlockingForIo' = TRUE
    /\ fileReady' = FALSE /\ fileCancelled' = FALSE /\ fileDescriptor' = None
    /\ corePc' = "post"
    /\ UNCHANGED <<initVars, screenMutex, lockCounts, request, returned, mainVars, saveQueued>>

(* MainActivity.requestFile posts to the main thread and returns.          *)
PostRequest ==
    /\ corePc = "post"
    /\ posted' = request
    /\ corePc' = "wait"
    /\ UNCHANGED <<initVars, screenMutex, handshake, lockCounts, request, returned, picker, mainPc,
                   paused, saveQueued>>

(* A Java exception instead (failAndroidFileRequest).                      *)
PostFails ==
    /\ corePc = "post"
    /\ isCoreBlockingForIo' = FALSE
    /\ fileReady' = FALSE /\ fileCancelled' = TRUE /\ fileDescriptor' = None
    /\ returned' = None
    /\ corePc' = "relock"
    /\ UNCHANGED <<initVars, screenMutex, lockCounts, request, mainVars, saveQueued>>

(* Mutant: the wait is for a file only.                                    *)
ResumeWithFileOnly ==
    /\ corePc = "wait"
    /\ fileReady
    /\ returned' = fileDescriptor
    /\ isCoreBlockingForIo' = FALSE
    /\ corePc' = "relock"
    /\ UNCHANGED <<initVars, screenMutex, fileReady, fileCancelled, fileDescriptor, lockCounts,
                   request, mainVars, saveQueued>>

(* pthread_cond_wait returns and finds an answer.                          *)
Resume ==
    /\ corePc = "wait"
    /\ fileReady \/ fileCancelled
    /\ returned' = fileDescriptor
    /\ isCoreBlockingForIo' = FALSE
    /\ corePc' = "relock"
    /\ UNCHANGED <<initVars, screenMutex, fileReady, fileCancelled, fileDescriptor, lockCounts,
                   request, mainVars, saveQueued>>

-----------------------------------------------------------------------------
(* The main thread. *)

onFileSelectedNative(fd) ==
    /\ fileDescriptor' = fd
    /\ fileReady' = TRUE
    /\ UNCHANGED <<isCoreBlockingForIo, fileCancelled>>

onFileCancelledNative ==
    /\ fileCancelled' = TRUE
    /\ UNCHANGED <<isCoreBlockingForIo, fileReady, fileDescriptor>>

(* requestNativeFile: the picker is launched, or cannot be.                *)
LaunchPicker ==
    /\ mainPc = "idle"
    /\ posted # None
    /\ posted' = None
    /\ \/ picker' = posted /\ UNCHANGED handshake
       \/ onFileCancelledNative /\ UNCHANGED picker
    /\ UNCHANGED <<initVars, screenMutex, coreVars, mainPc, paused, saveQueued>>

(* A picker covers the activity, or the user leaves it: onPause up to the  *)
(* wait for its save, which it does without as long as nothing is restored.*)
OnPause ==
    /\ mainPc = "idle"
    /\ ~paused
    /\ paused' = TRUE
    /\ \/ isNativeInitialized /\ saveQueued' = TRUE /\ mainPc' = "awaitSave"
       \/ ~isNativeInitialized /\ UNCHANGED <<saveQueued, mainPc>>
    /\ UNCHANGED <<initVars, screenMutex, handshake, coreVars, posted, picker>>

(* The user comes back to an activity that no picker covers.               *)
OnResume ==
    /\ mainPc = "idle"
    /\ paused /\ picker = None
    /\ paused' = FALSE
    /\ UNCHANGED <<initVars, screenMutex, handshake, coreVars, posted, picker, mainPc, saveQueued>>

SaveAwaited ==
    /\ mainPc = "awaitSave"
    /\ ~saveQueued
    /\ mainPc' = "idle"
    /\ UNCHANGED <<initVars, screenMutex, handshake, coreVars, posted, picker, paused, saveQueued>>

SaveTimedOut ==
    /\ mainPc = "awaitSave"
    /\ saveQueued
    /\ mainPc' = "idle"
    /\ UNCHANGED <<initVars, screenMutex, handshake, coreVars, posted, picker, paused, saveQueued>>

(* handleNativeFileResult: the user chose a file that could be opened, or  *)
(* did not.                                                                *)
PickerAnswers ==
    /\ mainPc = "idle"
    /\ picker # None /\ paused
    /\ picker' = None /\ paused' = FALSE
    /\ onFileSelectedNative(picker) \/ onFileCancelledNative
    /\ UNCHANGED <<initVars, screenMutex, coreVars, posted, mainPc, saveQueued>>

(* The activity under the picker is finished: nobody gets the result.      *)
PickerOrphaned ==
    /\ ResultsLost
    /\ mainPc = "idle"
    /\ picker # None /\ paused
    /\ picker' = None /\ paused' = FALSE
    /\ UNCHANGED <<initVars, screenMutex, handshake, coreVars, posted, mainPc, saveQueued>>

(* applyLcdMode: the palette and the buffers of the screen, without the    *)
(* lock.                                                                   *)
SetLcdColors ==
    /\ mainPc = "idle"
    /\ mainPc' = "colors"
    /\ UNCHANGED <<initVars, screenMutex, handshake, coreVars, posted, picker, paused, saveQueued>>

LcdColorsSet ==
    /\ mainPc = "colors"
    /\ mainPc' = "idle"
    /\ UNCHANGED <<initVars, screenMutex, handshake, coreVars, posted, picker, paused, saveQueued>>

(* MainActivity.onKeyUp calls sendSimKeyNative itself, which looks at ram  *)
(* and isCoreBlockingForIo and then takes the lock.                        *)
KeyUp ==
    /\ KeysOnMain
    /\ mainPc = "idle"
    /\ ~paused
    /\ ram /\ ~isCoreBlockingForIo
    /\ mainPc' = "lockForKey"
    /\ UNCHANGED <<initVars, screenMutex, handshake, coreVars, posted, picker, paused, saveQueued>>

KeyLocks ==
    /\ mainPc = "lockForKey"
    /\ screenMutex = Unlocked
    /\ screenMutex' = Mutex(Main, 1)
    /\ mainPc' = "key"
    /\ UNCHANGED <<initVars, handshake, coreVars, posted, picker, paused, saveQueued>>

KeyDone ==
    /\ mainPc = "key"
    /\ screenMutex' = Unlocked
    /\ mainPc' = "idle"
    /\ UNCHANGED <<initVars, handshake, coreVars, posted, picker, paused, saveQueued>>

-----------------------------------------------------------------------------
CoreStep ==
    \/ SkipRedraw \/ Redraw \/ RedrawEnds \/ DoFnReset \/ RestoreCalc \/ NativeInitialised
    \/ StartTask \/ Lock \/ EndTask \/ RunSave
    \/ Yield \/ YieldEnds \/ Relock
    \/ (\E r \in Requests : RequestAndroidFile(r)) \/ RequestRefused
    \/ Arm \/ PostRequest \/ PostFails \/ Resume

(* The steps main takes inside a callback. *)
MainGoesOn == SaveAwaited \/ SaveTimedOut \/ LcdColorsSet \/ KeyLocks \/ KeyDone

Next ==
    \/ CoreStep \/ MainGoesOn
    \/ LaunchPicker \/ OnPause \/ OnResume \/ PickerAnswers \/ PickerOrphaned
    \/ SetLcdColors \/ KeyUp

Spec == Init /\ [][Next]_vars

(* Both threads run; main gets to the posted request and to the pause a     *)
(* picker causes, and the user answers it, whatever else main does; no one *)
(* hits keys so fast that the core thread never gets the lock back.        *)
FairSpec ==
    /\ Spec
    /\ WF_vars(CoreStep) /\ WF_vars(MainGoesOn)
    /\ SF_vars(LaunchPicker) /\ SF_vars(picker # None /\ OnPause) /\ SF_vars(PickerAnswers)
    /\ SF_vars(Relock)

-----------------------------------------------------------------------------
(* Properties. *)

TypeOK ==
    /\ ram \in BOOLEAN /\ isNativeInitialized \in BOOLEAN
    /\ screenMutex \in [owner : {Core, Main, None}, count : {0, 1}]
    /\ corePc \in {"start", "redraw", "reset", "restore", "refresh", "drain", "lock", "native",
                   "relock", "arm", "post", "wait"}
    /\ lockCounts \in Seq({1})
    /\ corePc \in {"relock", "arm", "post", "wait"} => lockCounts # <<>>
    /\ isCoreBlockingForIo \in BOOLEAN
    /\ fileReady \in BOOLEAN /\ fileCancelled \in BOOLEAN
    /\ {fileDescriptor, request, returned, posted, picker} \subseteq Requests \cup {None}
    /\ mainPc \in {"idle", "colors", "awaitSave", "lockForKey", "key"}
    /\ paused \in BOOLEAN /\ saveQueued \in BOOLEAN

(* A thread holds screenMutex while it runs one of the entry points that   *)
(* take it, and at no other time: so neither thread runs one of them       *)
(* inside of the other's, and every yield and request gives the lock up    *)
(* (sendSimKeyNative, updateNativeActivityRef, yieldToAndroidWithMs,       *)
(* requestAndroidFile).  A key on main finds the memory allocated, and all *)
(* it can interrupt, beside yields and requests, is what initNative does   *)
(* without the lock: the reset and the restore.                            *)
LockedCodeRunsAlone ==
    /\ screenMutex.owner = Core <=> corePc \in {"redraw", "refresh", "native"}
    /\ screenMutex.owner = Main <=> mainPc = "key"
    /\ screenMutex.owner = None <=> screenMutex.count = 0
    /\ mainPc \in {"lockForKey", "key"} => ram
    /\ ~isNativeInitialized => lockCounts = <<>> /\ request = None /\ ~saveQueued

(* When a yield or a request is over the lock is held as often as before:  *)
(* the unlocks of the native code around it still match its locks.         *)
LockIsRestored ==
    [][corePc = "relock" /\ corePc' = "native"
         => screenMutex'.count = Head(lockCounts)]_vars

(* At most one answer is on its way to a core thread that waits, and none  *)
(* to one that does not: no descriptor is left in the handshake without    *)
(* its reader (requestAndroidFile, handleNativeFileResult).                *)
OneAnswerPerRequest ==
    /\ Cardinality({r \in {posted, picker} : r # None}) <= 1
    /\ {posted, picker} \subseteq {request, None}
    /\ corePc = "wait" /\ ~ResultsLost =>
         (posted # None \/ picker # None) # (fileReady \/ fileCancelled)

(* onPause can have its save: when the picker the core thread waits for is *)
(* what pauses the activity, the save does not wait behind it.             *)
PauseCanBeSaved == mainPc = "awaitSave" /\ picker # None => corePc # "wait"

(* Nobody is going to answer: the activity went away under its picker.     *)
Orphaned ==
    /\ corePc = "wait" /\ ~fileReady /\ ~fileCancelled
    /\ posted = None /\ picker = None

(* Every request returns to native code as long as the user answers the    *)
(* picker and the activity that asked is there to pass the answer on.      *)
RequestReturns == request # None ~> request = None \/ Orphaned

(* An open picker does not block the main thread on screenMutex, however   *)
(* long the user takes.                                                    *)
PickerFreesMain ==
    mainPc = "lockForKey" /\ corePc = "wait"
        ~> mainPc # "lockForKey" \/ corePc # "wait"

-----------------------------------------------------------------------------
(* The exchange is over when requestAndroidFile has read the answer. *)
Pending == IF corePc \in {"arm", "post", "wait"} THEN request ELSE None

AnswerOf ==
    IF corePc # "wait" \/ ~(fileReady \/ fileCancelled) THEN "open"
    ELSE IF fileReady THEN "file" ELSE "cancelled"

Exchange == INSTANCE FileExchange WITH
    Ids <- Requests, Nothing <- None,
    asked <- Pending, answer <- AnswerOf, result <- returned

(* The handshake over shared flags implements the exchange: the descriptor *)
(* a request returns is the one the user chose for it, never that of an    *)
(* earlier request (requestAndroidFile, onFileSelectedNative,              *)
(* onFileCancelledNative).                                                 *)
ImplementsFileExchange == Exchange!ExchangeSpec
=============================================================================

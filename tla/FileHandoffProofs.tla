-------------------------- MODULE FileHandoffProofs --------------------------
(***************************************************************************)
(* Theorems about FileHandoff, for any set of requests and any depth of     *)
(* yields, with and without keys on the main thread and lost results, in a *)
(* new process and in one that had a core thread before.                   *)
(***************************************************************************)
EXTENDS FileHandoff, FiniteSetTheorems, TLAPS

Starting == {"start", "redraw", "reset", "restore", "refresh"}

Asking == {"arm", "post", "wait"}

Answered == fileReady \/ fileCancelled

(* Nothing but keys on main goes on before initNative has returned, and    *)
(* the memory is there from the reset on.                                  *)
StartInv ==
    /\ isNativeInitialized => ram
    /\ ~isNativeInitialized => corePc \in Starting
    /\ corePc \in Starting => lockCounts = <<>>
    /\ corePc \notin {"start", "reset"} => ram
    /\ corePc = "redraw" => ram

(* The main thread knows of the request that is waited for and of no other *)
(* one, and of none that it answered.                                      *)
RequestInv ==
    /\ corePc \in Starting \cup {"drain", "lock", "native"} => request = None
    /\ corePc \in Asking => request \in Requests
    /\ corePc # "wait" => posted = None /\ picker = None
    /\ posted \in {None, request} /\ picker \in {None, request}
    /\ posted = None \/ picker = None
    /\ corePc = "wait" /\ ~Answered /\ ~ResultsLost => posted # None \/ picker # None

(* A request is armed before it is posted; from then on the answer is its  *)
(* file or none, and there is only one.                                    *)
AnswerInv ==
    /\ corePc = "post" => ~Answered /\ fileDescriptor = None
    /\ corePc = "wait" =>
          /\ ~(fileReady /\ fileCancelled)
          /\ Answered => posted = None /\ picker = None
          /\ fileDescriptor = IF fileReady THEN request ELSE None

Inv == TypeOK /\ LockedCodeRunsAlone /\ StartInv /\ RequestInv /\ AnswerInv
-----------------------------------------------------------------------------
(* The counts that are given up. *)

LEMMA PushedCount ==
    ASSUME NEW S, NEW n \in S, NEW s \in Seq(S)
    PROVE  <<n>> \o s \in Seq(S) /\ <<n>> \o s # <<>>
<1>1. <<n>> \in Seq(S) /\ Len(<<n>>) = 1
  OBVIOUS
<1>2. <<n>> \o s \in Seq(S) /\ Len(<<n>> \o s) = 1 + Len(s)
  BY <1>1
<1> QED BY <1>2

LEMMA PoppedCount ==
    ASSUME NEW S, NEW s \in Seq(S), s # <<>>
    PROVE  Head(s) \in S /\ Tail(s) \in Seq(S)
OBVIOUS

-----------------------------------------------------------------------------
(* The invariant. *)

LEMMA InitInv == Init => Inv
<1> SUFFICES ASSUME Init PROVE Inv
  OBVIOUS
<1> USE HandoffAssumption DEF Init, Unlocked, Mutex
<1>1. screenMutex \in [owner : {Core, Main, None}, count : {0, 1}]
  OBVIOUS
<1>2. lockCounts \in Seq({1})
  OBVIOUS
<1> QED BY <1>1, <1>2 DEF Inv, TypeOK, LockedCodeRunsAlone, StartInv, RequestInv, AnswerInv,
         Starting, Asking, Answered

(* What a step of the core thread that leaves the handshake alone keeps.   *)
LEMMA CoreTypeInv ==
    ASSUME Inv, CoreStep
    PROVE  TypeOK' /\ LockedCodeRunsAlone' /\ StartInv'
<1> USE HandoffAssumption DEF Inv, TypeOK, LockedCodeRunsAlone, StartInv, Starting, Unlocked, Mutex,
        initVars, handshake, coreVars, mainVars
<1>1. CASE StartTask \/ SkipRedraw
  BY <1>1 DEF StartTask, SkipRedraw
<1>2. CASE Lock
  BY <1>2 DEF Lock
<1>3. CASE Redraw \/ RedrawEnds
  BY <1>3 DEF Redraw, RedrawEnds, RequestInv
<1>4. CASE DoFnReset \/ RestoreCalc \/ NativeInitialised
  <2>1. CASE DoFnReset
    BY <2>1 DEF DoFnReset
  <2>2. CASE RestoreCalc
    BY <2>2 DEF RestoreCalc
  <2>3. CASE NativeInitialised
    BY <2>3 DEF NativeInitialised
  <2> QED BY <1>4, <2>1, <2>2, <2>3
<1>5. CASE EndTask
  BY <1>5 DEF EndTask
<1>6. CASE RunSave
  BY <1>6 DEF RunSave
<1>7. CASE Yield
  <2>1. lockCounts' \in Seq({1}) /\ lockCounts' # <<>>
    BY <1>7, PushedCount DEF Yield
  <2> QED BY <1>7, <2>1 DEF Yield
<1>8. CASE YieldEnds
  BY <1>8 DEF YieldEnds
<1>9. CASE Relock
  BY <1>9, PoppedCount DEF Relock
<1>10. CASE RequestRefused
  BY <1>10 DEF RequestRefused
<1>11. CASE Arm
  BY <1>11 DEF Arm
<1>12. CASE PostRequest
  BY <1>12 DEF PostRequest
<1>13. CASE PostFails
  BY <1>13 DEF PostFails
<1>14. CASE Resume
  BY <1>14 DEF Resume
<1>15. CASE \E r \in Requests : RequestAndroidFile(r)
  <2>1. lockCounts' \in Seq({1}) /\ lockCounts' # <<>>
    BY <1>15, PushedCount DEF RequestAndroidFile
  <2> QED BY <1>15, <2>1 DEF RequestAndroidFile
<1> QED BY <1>1, <1>2, <1>3, <1>4, <1>5, <1>6, <1>7, <1>8, <1>9, <1>10, <1>11, <1>12, <1>13, <1>14, <1>15 DEF CoreStep

MainStep ==
    \/ MainGoesOn \/ LaunchPicker \/ OnPause \/ OnResume \/ PickerAnswers \/ PickerOrphaned
    \/ SetLcdColors \/ KeyUp

(* What onPause leaves behind. *)
LEMMA OnPauseSteps ==
    ASSUME OnPause
    PROVE  /\ UNCHANGED <<initVars, screenMutex, handshake, coreVars, posted, picker>>
           /\ mainPc = "idle" /\ paused' \in BOOLEAN
           /\ \/ isNativeInitialized /\ saveQueued' = TRUE /\ mainPc' = "awaitSave"
              \/ saveQueued' = saveQueued /\ mainPc' = mainPc
BY DEF OnPause

(* The main thread takes the lock for its key only when it is free.        *)
LEMMA MainTypeInv ==
    ASSUME Inv,
           MainStep
    PROVE  TypeOK' /\ LockedCodeRunsAlone' /\ StartInv'
<1> USE HandoffAssumption DEF Inv, TypeOK, LockedCodeRunsAlone, StartInv, Starting, Unlocked, Mutex,
        initVars, handshake, coreVars, mainVars, onFileSelectedNative, onFileCancelledNative
<1>1. CASE SaveAwaited \/ SaveTimedOut \/ SetLcdColors \/ LcdColorsSet
  BY <1>1 DEF SaveAwaited, SaveTimedOut, SetLcdColors, LcdColorsSet
<1>2. CASE KeyUp \/ KeyLocks \/ KeyDone
  BY <1>2 DEF KeyUp, KeyLocks, KeyDone
<1>3. CASE OnPause \/ OnResume
  <2>1. CASE OnPause
    <3>1. CASE /\ UNCHANGED <<initVars, screenMutex, handshake, coreVars, posted, picker>>
               /\ mainPc = "idle" /\ paused' \in BOOLEAN
               /\ isNativeInitialized /\ saveQueued' = TRUE /\ mainPc' = "awaitSave"
      BY <3>1
    <3>2. CASE /\ UNCHANGED <<initVars, screenMutex, handshake, coreVars, posted, picker>>
               /\ mainPc = "idle" /\ paused' \in BOOLEAN
               /\ saveQueued' = saveQueued /\ mainPc' = mainPc
      BY <3>2
    <3> QED BY ONLY <2>1, OnPauseSteps, <3>1, <3>2
  <2>2. CASE OnResume
    BY <2>2 DEF OnResume
  <2> QED BY <1>3, <2>1, <2>2
<1>4. CASE LaunchPicker
  <2>1. /\ picker' \in Requests \cup {None} /\ posted' \in Requests \cup {None}
        /\ fileCancelled' \in BOOLEAN
        /\ UNCHANGED <<initVars, screenMutex, coreVars, mainPc, paused, saveQueued>>
        /\ UNCHANGED <<isCoreBlockingForIo, fileReady, fileDescriptor>>
    BY <1>4 DEF LaunchPicker
  <2> QED BY <2>1
<1>5. CASE PickerAnswers
  BY <1>5 DEF PickerAnswers
<1>6. CASE PickerOrphaned
  BY <1>6 DEF PickerOrphaned
<1> QED BY <1>1, <1>2, <1>3, <1>4, <1>5, <1>6 DEF MainStep, MainGoesOn

InitStep ==
    \/ SkipRedraw \/ Redraw \/ RedrawEnds \/ DoFnReset \/ RestoreCalc \/ NativeInitialised

(* The request and its answer: the core thread's side.                     *)
LEMMA CoreRequestInv ==
    ASSUME Inv, CoreStep
    PROVE  RequestInv' /\ AnswerInv'
<1> USE HandoffAssumption DEF Inv, RequestInv, AnswerInv, Starting, Asking, Answered,
        initVars, handshake, coreVars, mainVars
<1>1. CASE InitStep \/ StartTask \/ Lock \/ EndTask \/ RunSave
  BY <1>1 DEF InitStep, SkipRedraw, Redraw, RedrawEnds, DoFnReset, RestoreCalc, NativeInitialised,
     StartTask, Lock, EndTask, RunSave
<1>2. CASE Yield \/ YieldEnds \/ Relock
  BY <1>2 DEF Yield, YieldEnds, Relock
<1>3. CASE RequestRefused
  BY <1>3 DEF RequestRefused
<1>4. CASE \E r \in Requests : RequestAndroidFile(r)
  BY <1>4 DEF RequestAndroidFile
<1>5. CASE Arm
  BY <1>5 DEF Arm
<1>6. CASE PostRequest
  BY <1>6 DEF PostRequest
<1>7. CASE PostFails
  BY <1>7 DEF PostFails
<1>8. CASE Resume
  BY <1>8 DEF Resume
<1> QED BY <1>1, <1>2, <1>3, <1>4, <1>5, <1>6, <1>7, <1>8 DEF CoreStep, InitStep

(* The request and its answer: the main thread's side.                     *)
LEMMA MainRequestInv ==
    ASSUME Inv,
           MainStep
    PROVE  RequestInv' /\ AnswerInv'
<1> USE HandoffAssumption DEF Inv, TypeOK, RequestInv, AnswerInv, Starting, Asking, Answered,
        initVars, handshake, coreVars, mainVars, onFileSelectedNative, onFileCancelledNative
<1>1. CASE MainGoesOn \/ OnPause \/ OnResume \/ SetLcdColors \/ KeyUp
  BY <1>1 DEF MainGoesOn, SaveAwaited, SaveTimedOut, LcdColorsSet, KeyLocks, KeyDone, OnPause,
     OnResume, SetLcdColors, KeyUp
<1>2. CASE LaunchPicker
  BY <1>2 DEF LaunchPicker
<1>3. CASE PickerAnswers
  BY <1>3 DEF PickerAnswers
<1>4. CASE PickerOrphaned
  BY <1>4 DEF PickerOrphaned
<1> QED BY <1>1, <1>2, <1>3, <1>4 DEF MainStep

LEMMA NextInv == Inv /\ [Next]_vars => Inv'
<1> SUFFICES ASSUME Inv, [Next]_vars PROVE Inv'
  OBVIOUS
<1>1. CASE CoreStep
  BY <1>1, CoreTypeInv, CoreRequestInv DEF Inv
<1>2. CASE MainStep
  BY <1>2, MainTypeInv, MainRequestInv DEF Inv
<1>3. CASE UNCHANGED vars
  BY <1>3 DEF vars, initVars, handshake, coreVars, mainVars, Inv, TypeOK, LockedCodeRunsAlone,
         StartInv, RequestInv, AnswerInv, Answered
<1> QED BY <1>1, <1>2, <1>3 DEF Next, MainStep

LEMMA AlwaysInv == Spec => []Inv
<1> QED BY InitInv, NextInv, PTL DEF Spec

-----------------------------------------------------------------------------
(* Theorems. *)

(* The lock, the handshake, the request and the threads are well formed;   *)
(* a thread that has given up the lock knows how often to take it back.    *)
THEOREM TypeCorrect == Spec => []TypeOK
<1>1. Inv => TypeOK
  BY DEF Inv
<1> QED BY <1>1, AlwaysInv, PTL

(* screenMutex is held exactly by the thread that is in code that takes it,*)
(* so a key on the main thread never runs inside of a task of the core     *)
(* thread, nor beside a redraw; nobody keeps it across a yield, a request  *)
(* or an open picker; and a key finds the memory of the calculator         *)
(* (sendSimKeyNative, yieldToAndroidWithMs, requestAndroidFile).  Outside  *)
(* of it remain the reset and the restore of initNative.                   *)
THEOREM LockedEntriesExcludeEachOther == Spec => []LockedCodeRunsAlone
<1>1. Inv => LockedCodeRunsAlone
  BY DEF Inv
<1> QED BY <1>1, AlwaysInv, PTL

(* A request in progress has one place where its answer is or will come    *)
(* from, and no place is left with an answer nobody waits for              *)
(* (requestAndroidFile, handleNativeFileResult).                           *)
THEOREM RequestsAreAnsweredOnce == Spec => []OneAnswerPerRequest
<1>1. ASSUME Inv PROVE OneAnswerPerRequest
  <2>1. {posted, picker} \subseteq {request, None}
    BY <1>1 DEF Inv, RequestInv
  <2>2. Cardinality({r \in {posted, picker} : r # None}) <= 1
    <3>1. CASE posted = None /\ picker = None
      <4>1. {r \in {posted, picker} : r # None} = {}
        BY <3>1
      <4> QED BY <4>1, FS_EmptySet
    <3>2. CASE posted # None \/ picker # None
      <4>1. PICK p : p = IF posted = None THEN picker ELSE posted
        OBVIOUS
      <4>2. {r \in {posted, picker} : r # None} = {p}
        BY <1>1, <3>2, <4>1 DEF Inv, RequestInv
      <4>3. Cardinality({p}) = 1
        BY FS_Singleton
      <4> QED BY <4>2, <4>3
    <3> QED BY <3>1, <3>2
  <2>3. corePc = "wait" /\ ~ResultsLost =>
          (posted # None \/ picker # None) # (fileReady \/ fileCancelled)
    BY <1>1 DEF Inv, TypeOK, RequestInv, AnswerInv, Answered
  <2> QED BY <2>1, <2>2, <2>3 DEF OneAnswerPerRequest
<1> QED BY <1>1, AlwaysInv, PTL

(* When a yield or a request is over the core thread has the lock again,   *)
(* as often as it gave it up, so that the unlock at the end of the entry   *)
(* point is its own (yieldToAndroidWithMs, restoreScreenMutexAndReturn).   *)
THEOREM YieldsRestoreTheLock == Spec => LockIsRestored
<1>1. ASSUME corePc = "relock", corePc' = "native", [Next]_vars
      PROVE  screenMutex'.count = Head(lockCounts)
  <2>1. CASE Relock
    BY <2>1 DEF Relock, Mutex
  <2>2. CASE CoreStep /\ ~Relock
    BY <1>1, <2>2 DEF CoreStep, SkipRedraw, Redraw, RedrawEnds, DoFnReset, RestoreCalc,
       NativeInitialised, StartTask, Lock, EndTask, RunSave, Yield, YieldEnds, RequestAndroidFile, RequestRefused, Arm, PostRequest, PostFails, Resume, coreVars
  <2>3. CASE Next /\ ~CoreStep
    BY <1>1, <2>3 DEF Next, MainGoesOn, SaveAwaited, SaveTimedOut, LcdColorsSet, KeyLocks, KeyDone,
       LaunchPicker, SetLcdColors, OnPause, OnResume, PickerAnswers, PickerOrphaned, KeyUp, coreVars
  <2>4. CASE UNCHANGED vars
    BY <1>1, <2>4 DEF vars, coreVars
  <2> QED BY <1>1, <2>1, <2>2, <2>3, <2>4
<1>2. [Next]_vars => [corePc = "relock" /\ corePc' = "native"
                        => screenMutex'.count = Head(lockCounts)]_vars
  BY <1>1
<1> QED BY <1>2, PTL DEF Spec, LockIsRestored

-----------------------------------------------------------------------------
(* The handshake is an exchange. *)

LEMMA InitExchanges == Init => Exchange!ExchangeInit
BY DEF Init, Exchange!ExchangeInit, Pending, AnswerOf

(* The core thread asks, learns that it cannot, or takes the answer.       *)
LEMMA CoreExchanges ==
    ASSUME Inv, CoreStep
    PROVE  Exchange!ExchangeNext
             \/ (Pending' = Pending /\ AnswerOf' = AnswerOf /\ returned' = returned)
<1> USE HandoffAssumption DEF Inv, Pending, AnswerOf, coreVars, handshake
<1>1. CASE InitStep \/ StartTask \/ Lock \/ EndTask \/ RunSave
  BY <1>1 DEF InitStep, SkipRedraw, Redraw, RedrawEnds, DoFnReset, RestoreCalc, NativeInitialised,
     StartTask, Lock, EndTask, RunSave
<1>2. CASE Yield \/ YieldEnds \/ Relock
  BY <1>2 DEF Yield, YieldEnds, Relock
<1>3. CASE RequestRefused
  <2>1. Exchange!Fail
    BY <1>3 DEF RequestRefused, Exchange!Fail
  <2> QED BY <2>1 DEF Exchange!ExchangeNext
<1>4. CASE \E r \in Requests : RequestAndroidFile(r)
  <2>1. PICK r \in Requests : RequestAndroidFile(r)
    BY <1>4
  <2>2. Exchange!Ask(r)
    BY <2>1 DEF RequestAndroidFile, Exchange!Ask
  <2> QED BY <2>2 DEF Exchange!ExchangeNext
<1>5. CASE Arm \/ PostRequest
  BY <1>5 DEF Arm, PostRequest, AnswerInv, Answered
<1>6. CASE PostFails
  <2>1. Exchange!Fail
    BY <1>6 DEF PostFails, Exchange!Fail
  <2> QED BY <2>1 DEF Exchange!ExchangeNext
<1>7. CASE Resume
  <2>1. request \in Requests
    BY <1>7 DEF Resume, RequestInv, Asking
  <2>2. fileDescriptor = IF fileReady THEN request ELSE None
    BY <1>7 DEF Resume, AnswerInv
  <2>3. Exchange!Return
    BY <1>7, <2>1, <2>2 DEF Resume, Exchange!Return
  <2> QED BY <2>3 DEF Exchange!ExchangeNext
<1> QED BY <1>1, <1>2, <1>3, <1>4, <1>5, <1>6, <1>7 DEF CoreStep, InitStep

(* The main thread passes the user's choice on.                            *)
LEMMA MainExchanges ==
    ASSUME Inv,
           MainStep
    PROVE  Exchange!ExchangeNext
             \/ (Pending' = Pending /\ AnswerOf' = AnswerOf /\ returned' = returned)
<1> USE HandoffAssumption DEF Inv, Pending, AnswerOf, coreVars, handshake
<1>1. CASE MainGoesOn \/ OnPause \/ OnResume \/ SetLcdColors \/ KeyUp \/ PickerOrphaned
  BY <1>1 DEF MainGoesOn, SaveAwaited, SaveTimedOut, LcdColorsSet, KeyLocks, KeyDone, OnPause,
     OnResume, SetLcdColors, KeyUp, PickerOrphaned
<1>2. CASE LaunchPicker /\ UNCHANGED handshake
  BY <1>2 DEF LaunchPicker
<1>3. CASE /\ LaunchPicker \/ PickerAnswers
           /\ onFileCancelledNative \/ \E r : onFileSelectedNative(r)
  <2>1. /\ corePc = "wait" /\ request \in Requests /\ ~Answered
        /\ UNCHANGED <<corePc, request, returned>>
    BY <1>3 DEF LaunchPicker, PickerAnswers, RequestInv, AnswerInv, Asking
  <2>2. fileReady' \/ fileCancelled'
    BY <1>3 DEF onFileCancelledNative, onFileSelectedNative
  <2>3. Exchange!Choose
    BY <2>1, <2>2 DEF Exchange!Choose, Answered
  <2> QED BY <2>3 DEF Exchange!ExchangeNext
<1>4. PickerAnswers => onFileCancelledNative \/ \E r : onFileSelectedNative(r)
  BY DEF PickerAnswers
<1>5. LaunchPicker => onFileCancelledNative \/ UNCHANGED handshake
  BY DEF LaunchPicker
<1> QED BY <1>1, <1>2, <1>3, <1>4, <1>5 DEF MainStep

(* The descriptor a request returns is the one the user chose for it, or   *)
(* none, and never that of an earlier request (requestAndroidFile,         *)
(* onFileSelectedNative, onFileCancelledNative).                           *)
THEOREM HandoffIsAnExchange == Spec => ImplementsFileExchange
<1>1. ASSUME Inv, [Next]_vars
      PROVE  Exchange!ExchangeNext
               \/ (Pending' = Pending /\ AnswerOf' = AnswerOf /\ returned' = returned)
  <2>1. CASE CoreStep
    BY <1>1, <2>1, CoreExchanges
  <2>2. CASE MainStep
    BY <1>1, <2>2, MainExchanges
  <2>3. CASE UNCHANGED vars
    BY <2>3 DEF vars, coreVars, handshake, Pending, AnswerOf
  <2> QED BY <1>1, <2>1, <2>2, <2>3 DEF Next, MainStep
<1>2. Inv /\ [Next]_vars => [Exchange!ExchangeNext]_(Exchange!exchangeVars)
  BY <1>1 DEF Exchange!exchangeVars
<1> QED BY <1>2, InitExchanges, AlwaysInv, PTL DEF Spec, ImplementsFileExchange,
           Exchange!ExchangeSpec

==============================================================================

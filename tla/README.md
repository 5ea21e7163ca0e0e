# R47 for Android: verification project

TLA+ models of the R47 calculator's Android port, checked with TLC and, for every
safety property a passing run checks, proved with TLAPS. The port wraps a large C calculator
(`cpp/c47`) in a Kotlin application. The calculator was written for one thread
and one device; the port runs it on a *core thread* next to Android's *main
thread*, through activities that come and go, in a process that may die at any
moment. The modules start where that meeting is most delicate, and go on to the
parts of the calculator itself whose state outlives a function: its memory pool,
its stack and UNDO, its program engine, its backup file.

Paths below are relative to `src/android/app/src/main/`; `kt/` stands for
`java/org/rpncalculators/r47/`. The copy of the calculator under `src/src/c47`
is the one for other platforms; what is mapped is what the application builds.

## 1. Inventory

| Component | State | Operations | Hard behaviour | What makes it correct |
|---|---|---|---|---|
| Core runtime, `kt/NativeCoreRuntime.kt` | shared flags (running, started, initialised), task queue, activity count, exit latch | `attach`, `dispose`, `offerTask`, `saveStateOnPause`, `drainCoreTasks`, the core loop | no lock: two threads read and write the flags; waits with timeouts; an old thread that outlives its dispose | one core thread; every foreground activity is served; nothing is released under native code; saves are ordered after edits |
| Activities, `kt/MainActivity.kt` | lifecycle, pending requests, held keys | lifecycle callbacks, keys, menus | re-creation, several instances, process death, callbacks while paused | callbacks return; what is in memory is saved before the process may die |
| Factory reset, `kt/FactoryResetController.kt` | reset in progress | request, `handleDestroy` | resets state other activities still use | as the core runtime |
| Native bridge, `cpp/c47-android/native-lib.c`, `jni_lifecycle.c` | `screenMutex`, the global reference of the activity, refresh deadlines | `initNative`, `tick`, yields, `updateNativeActivityRef`, `releaseNativeRuntime` | a lock given up inside a task; tasks that run inside tasks; entry points that do not lock | the entry points that lock exclude each other; the lock is restored; callbacks reach the visible activity |
| File requests, `cpp/c47-android/jni_storage.c`, `kt/StorageAccessCoordinator.kt` | handshake flags, descriptor, the open picker | `requestAndroidFile`, `requestNativeFile`, the answers | the core thread blocks on the user; results may be lost; the picker pauses the activity | a request returns its own answer; no deadlock with the main thread |
| JNI input, `cpp/c47-android/jni_input.c` | - | keys, menus, functions | called on both threads | no key runs inside another task |
| Memory pool, `cpp/c47/core/freeList.c`, `memory.c` | table of free regions, program area, books | alloc, realloc, reduce, free, resize of the program area | joining neighbours, exact fits, a full table, the moving border | a partition of the heap; exact books |
| Backup file, `cpp/c47/saveRestoreBackup.c` | the file, the confirmation pending, the layout | `saveCalc`, `restoreCalc` | written in place, field by field; death and full disk in a save; files of older builds | a complete file comes back as saved, an older build's converted; a refused one is not used; saves are refused for a reason |
| Slots, state files, `kt/SlotStore.kt`, `cpp/c47/saveRestoreCalcState.c` | slot table, text files | save, load, switch | none that can happen: see section 7 | - |
| Stack and undo, `cpp/c47/stack.c`, `items.c`, `registers.c` | registers X..D and L, their copies, the error code | lift, drop, roll, shuffle, undo, `reallyRunFunction` around them | the pool refuses half-way; a program inside a function; functions that borrow the copies | no register shares or loses a block; UNDO brings back what was saved |
| Registers, `cpp/c47/registers.c`, `store.c`, `recall.c` | global, local, named registers | allocate, clear, store | local registers per subroutine level | levels and their registers match |
| Program engine, `cpp/c47/programming/`, `solver/solve.c` | step pointer, subroutine levels, run status, nesting depth | XEQ, GTO, RTN, R/S, SST, PAUSE, STOP, FINISH, SOLVE | yields inside the run loop, engines inside engines, keys in a yield that start another | RTN returns to its caller; a stop is honoured; keys are heard again; levels leak nothing |
| Key handling, `cpp/c47/keyboard.c`, `kt/PhysicalKeyboardInput.kt` | shift state, pressed key, delayed function | press, release, long press | releases without press, timers between them | one function per press; no stuck shift |
| Timers, `cpp/c47/timer.c` | timer table | start, stop, callback | callbacks that re-arm or stop timers | no callback of a stopped timer |
| Softmenus, `cpp/c47/softmenus.c` | stack of menus | push, pop | a full stack, menus removed from its middle | depth bounded, the top is shown |
| Audio, `kt/AudioEngine.kt` | thread, queue, settings | start, stop, play | stop and start across activities | tones are played while an activity runs |
| Display refresh, `kt/NativeDisplayRefreshLoop.kt`, `cpp/c47-android/jni_display.c`, `hal/lcd.c` | frame buffer, dirty rows | frame callback, `getDisplayPixels`, `lcd_refresh` | try-lock on one side | every dirty row is shown in the end |
| Input buffer, flags, assignments, items, screen, mathematics, views | - | - | sequential code | see section 7 |

How they interact. `MainActivity` offers Runnables to the queue of
`NativeCoreRuntime`; the core thread polls them and calls native code, which takes
`screenMutex`, but for most of `initNative`. Native code calls back the activity it
holds a global reference of: to run queued tasks in a yield, to play tones, to ask for
a file. A file request posts to the main thread and blocks the core thread until
`StorageAccessCoordinator` answers through `onFileSelectedNative` or
`onFileCancelledNative`. The main thread blocks on the core thread in `onPause` (save,
two seconds) and in `onDestroy` (exit, half a second). All calculator objects are
allocated from the pool of `freeList.c` under the core thread. Every key and every
step of a program ends in `reallyRunFunction`, which saves the stack for UNDO, runs
the function and goes back when it failed. A function may be a program (`runProgram`),
a step of which may be a solver, which runs its function in an engine of its own;
between two steps, and in a PAUSE, the engine yields, and what waits in the queue (a
key, a save) runs inside of it.

## 2. Plan

Written, in this order:

1. `BlockPool`, `FreeList`, `MCFreeList`, `FreeListProofs`: the memory pool and
   its abstraction.
2. `CoreRuntime`, `MCCoreRuntime`, `CoreRuntimeProofs`: the core thread and the
   activity lifecycle.
3. `FileExchange`, `FileHandoff`, `MCFileHandoff`, `FileHandoffProofs`: lock,
   yields, file requests.
4. `CallStack`, `Subroutines`, `Programs`, `MCPrograms`, `ProgramsProofs`,
   `SubroutinesProofs`, `CallsProofs`: the program engine over the subroutine levels
   and their memory.
5. `Stack`, `MCStack`, `StackProofs`: the stack and UNDO while the pool refuses.
6. `Durable`, `Backup`, `MCBackup`, `BackupProofs`: the backup file and deaths.

Left, the most important first:

7. `AudioEngine` and `Display`: the audio thread that is kept though it is about
   to stop; frames that take the lock against drawing that does not.
8. `Keys` and `Timers`: press, release, long press; the timer table. `Softmenus`.
9. Pure operators: word arithmetic of `integers.c` and `logicalOps` against
    arithmetic modulo 2^w; `isMemoryBlockAvailable` against the partition.

The order of the first six is that of what a mistake would cost: memory that
belongs to two, a calculator nobody runs, one that waits for ever or hears no
key, a stack or a file that is not what the user left.

## 3. The models

### FreeList (`core/freeList.c`, `memory.c`)

`freeMemoryRegions` is the C table as a sequence, so the length is
`numberOfFreeMemoryRegions`. The loops of `freeListAlloc` become the choice
`BestFit`; those of `freeListFree` become `StartingAt` and `EndingAt`, which
keep the conditions under which the scans stop early, because these decide what
is found in a table that is not sorted. `Outcome` holds the overlap check, the
full table (`exit(-2)`) and the sorted insertion. `resizeProgramMemory` is
modelled with all its exits; the state after its use of
`freeMemoryRegions[numberOfFreeMemoryRegions - 1]` with an empty table is left
open as the code leaves it. The client holds a function from addresses to the
sizes it asked for, gives each back once and with that size, as `freeList.h`
demands. Contents of blocks and the debugging list of allocations are left out.
`BlockPool` is what callers may rely on: a request is answered by blocks nobody
owns or by NULL, the program area by its size. `ImplementsBlockPool` is the
refinement: the allocations map to themselves and the regions to nothing.

### CoreRuntime (`NativeCoreRuntime.kt`, `MainActivity.kt`, `FactoryResetController.kt`)

The companion object's fields are variables of the same names. The main thread
runs one callback at a time; `main` says in which blocking point of which
callback it is: attach before reading the started flag, the wait for the save,
the wait for the exit, the release, the rest of `onDestroy`. Each core thread
has a place in its loop (`thread`), the activity whose `attach` made it
(`owner`) and the tasks it is inside of (`current`), more than one when a yield
runs queued tasks. Because nothing is locked, every read that decides something
and every write that others see is a step of its own: the flag read in
`startOrAttachCoreThread`, the finally block's write of the flag and its use of
the latch then on record.

A latch is named after the thread it was created for; `exited` and `saved` hold
the open ones. Names of threads, latches and destroyed activities are used
again when nothing refers to them. Activities form a stack (`below`); Android
shows the topmost one that is not finishing. Tasks are edits, refreshes and
saves; an edit stands for everything that changes the calculator, and may yield
in its middle. `unsaved` says whether memory holds changes the backup file does
not. Timers that run in `tick` are taken not to change what is saved. Edits come from
any activity there is, also a paused one: picture-in-picture has keys of its own
(`kt/MainActivity.kt:456`), and results of the storage framework and the auto-load
queue tasks as well.
`ProcessDeath` returns everything to the start at any time. Exceptions out of
native code end the loop (`CoreCrashes`).

### FileHandoff (`native-lib.c`, `jni_storage.c`, `StorageAccessCoordinator.kt`)

`screenMutex` is an owner and a count. It is a recursive mutex, and
`src/android/REBUILD_MASTER_GUIDE.md:64` asks for one, but no entry point of this code
is reached by a thread that holds it (`updateNativeActivityRef` is called before
`initNative` locks anything), so the count is 1 at most, and the type invariant says
so. The core thread starts with `updateNativeActivityRef`, which redraws under the
lock if there is memory to redraw from, and `initNative`, which resets and restores
the calculator *without* the lock and takes it for the first refresh only. From there
on its program counter `corePc` runs through: waiting for a task, locking, native code
(which may yield or ask for a file), and the steps of `requestAndroidFile`: the lock
is given up, the flags are armed under `fileMutex`, the request is posted, the answer
awaited, the lock taken back. The loops that unlock and lock again are one step each;
the counts they keep in local variables are the stack `lockCounts`. The main thread
pauses, with a picker or because the user leaves, waits for the save of `onPause`,
launches the picker, delivers its answer, and runs the Shift and Ctrl keys of a
physical keyboard itself, after a look at `ram` and `isCoreBlockingForIo` and with the
lock. `setLcdColors`, which it calls too, takes none. Left out are two more ways in
which the main thread may lock: the `updateNativeActivityRef` of an activity that
attaches to a running core (`CoreRuntime` has the attach), and a Shift or Ctrl that the
user has reassigned to a function which yields or asks for a file. A descriptor is named after the
request it answers, so a stale answer can be told from the right one. `FileExchange`
is the synchronous call native code believes it makes.

### Subroutines and Programs (`programming/lblGtoXeq.c`, `nextStep.c`, `input.c`, `solver/solve.c`)

`Subroutines` has no variables: a *machine* is a record of the chain of level
headers, the blocks the pool counts for them, `numberOfSubroutineLevels` and the
step pointer, and `fnExecute`, `fnReturn`, `fnGoto`, `allocateLocalRegisters` and
the unwindings are operators on it. Those that ask the pool for memory yield the
set of machines they may leave, with each request that may be refused refused;
the size a block is freed with is the caller's, so a wrong one shows.

`Programs` has the C stack as a variable, `frames`: runs of `runProgram` (nested or
not, single-stepped or not, with the place in the loop they are at), calls of
`execProgram` by the solver, the solver itself, and `fnPause` waiting. What runs is on
top. The text of the programs is not fixed: at each step any operation may turn out to
be there, so jumps that depend on data are included and the run loop is checked for
every text. Keys run where the core yields: between steps, in a PAUSE, or when nothing
runs; several of one drained batch run one after the other in the same yield. Numbers
and the solver's iteration are reduced to how many samples it takes and whether they
were good guesses. The solver looks for EXIT once in each round of its loop
(`solve.c:782`) and takes up to three samples in it (`:794`, `:890` or `:920`,
`:949`); so it must look before the third sample, and before each later one it may or
may not have. A key first ends a wait (`processKeyAction`), unless it comes as a
function of the menu, which runs at once; EXIT while a solver runs sets the abort
error and leaves the status. `reentered` and `astray` are ghosts that name two things
the properties must except (section 4). The headers of the levels are linked forwards
too; a refusal half-way leaves these links as they were, but nothing in the calculator
reads them, and they are not part of a machine.

The loop by which the solver takes back levels its function left (`UnwindTo`) is a
recursive function over the number of levels.

`CallStack` is the abstraction: the place the program is at, a stack of return
places, and the *callers*, the solvers that wait for a sample, each with the place
its program is at. A call pushes a place, a return pops one and goes on behind it; a
sample makes its solver a caller, and when it ends the program is at that caller's
place again, whatever the function did. The callers are in the abstraction because
the levels alone do not say where a sample returns to: a sample whose level was
refused, or that was sent astray by an old error (section 4), runs steps of the
calling program, and a solver among them samples from another place than the one
its level remembers. Without callers the refinement held only as long as the bounds
of the run left no room for this; larger ones, and the proof, did not get by
without them.

### Stack (`stack.c`, `items.c`, `registers.c`, `registerValueConversions.c`)

A register is a type and a block, and blocks hold values; headers and blocks are kept
apart because rolling, lifting, shuffling and dropping move headers while copying
writes into blocks and asks for another block when the type differs. Blocks are named
by the register that has them, so the pool needs no addresses: two registers with the
same block are two with the same name. The pool may refuse any request, but for one no
larger than the block freed just before it, which `FreeList` always grants.
`reallyRunFunction` is the phases `idle`, `called`, `returned` around each function:
the save that `indexOfItems` asks for, with a refusal at any of its copies; the
function; on error the undo and on success nothing. A program run by XEQ or R/S is
between `called` and `returned`, its steps run unsaved. Arithmetic with registers
(`RCL+` to `RCL MAX`, `STO+` to `STO MAX`, and the string functions of the same make)
is one action each for recalling and storing, with any of the registers these
functions can be given: what matters is which registers they lay aside in the copies
(in a running program; after a save the numbers are there already), which they bring
back, and what is left when one of the copies is refused. The trim of strings brings X
back from a copy that, in a program, it never made. The ghost variable `snapshot`
holds what UNDO is to bring back; a copy that a program took is taken out of it. Where
the code writes through a block it no longer has, or beyond the end of one, the phase
is `damaged` and the model says no more until a `Restart`.

### Backup (`saveRestoreBackup.c`, `config.c`, `hal/io.c`)

The memory of the calculator is fields, each with the state it belongs to, since
registers, region tables and pointers are addresses in the ram of one moment. The file
has the order of `saveCalc`; a save opens the file (which empties it), writes one
field per step and closes it. The process may be killed between any two fields or
within a dump of several lines, and a disk that fills up leaves the file cut while the
save goes on to its end, because `ioFileWrite` does not report a short write.
`restoreCalc` is the whole function: the reset first, the header checks and their
early return, the fields that are missing and so keep their reset value, the pointers
checked at the end and the second reset they lead to. The first file is any that may
be there: none, one of another size of memory or of a build before 1011, which are
refused; one with a count or pointer out of range; or one of an accepted older build
(1011 on), whole or cut off anywhere. Of a file of an older build the fields `flags`,
`ram` and `tail` are in a form of their own, and `Meaning` is what `restoreCalc` makes
of them: the migrations of floats, of the menu numbers, of GRAMOD inside the ram, of
the catalogue positions and of flags. What these conversions do to each value is not
modelled, but that they are made, and on which files. Android does not install an
older build over a newer one and the file is private, so files of newer builds do not
occur. `saveCalc` has a silent return for a file the user cancelled (`:263`); for the
backup file `ioFileOpen` never answers that (`hal/io.c:160` and `:211` are about other
files). The confirmation dialog is there because its function is a pointer that no
file can hold. `Durable` is what a user may expect: the memory as last stored, or,
from the moment a save begins until it ends, nothing.

## 4. Runs

Passing runs; every property has a mutant of the code that breaks it.

| Run | Bounds | Shows |
|---|---|---|
| `pool` | 9 blocks, 3 regions, requests of 0 to 3 blocks, program areas of 0, 2, 3 | every order of calls keeps the heap partitioned, joined and accounted for, with a full table, an exhausted heap and a moving border; implements `BlockPool` |
| `prompt` | 2 activities, 2 threads, no timeouts | foreground activities are served; the release comes after the exit; also through the reset of a sole activity |
| `slow` | 2 activities, 2 threads, timeouts, exceptions, picture-in-picture with its keys | one core thread, truthful flag, ordered saves, no initialisation over edits |
| `live` | 2 activities, nested yields, fairness | `onPause` gets its save and the queue moves whatever programs do; every callback returns where programs end |
| `handoff` | 2 requests, 2 nested yields, a first or a later core thread, keys on the main thread, lost results, fairness | the entry points that lock exclude each other and get their lock back; requests return their own answers, and return; the open picker does not block the main thread |
| `programs` | 2 programs of 2 steps, 2 levels, 2 local registers, 4 samples, solvers nested once, 1 refusal | calls nest (`CallStack`), levels own their blocks, no deaf calculator, stops survive, the solver's function stays above its caller and comes back to it |
| `stack` | 3 levels, shuffle of 2, two numbers of different types, any refusal | one owner per block, exact copies and exact recall but for what a program took for itself, errors of programs keep the stack |
| `backup` | 3 states, every cut of the file, files of this build, accepted older ones, refused ones | a complete file comes back (`Durable`), converted if it is older, refused ones are not used, questions have their function, saves are refused for a reason |

`pool` has enough blocks for three regions with allocations between them: that is the
case in which a free joins both neighbours, and as many as the table holds.
`TightHeap` is off: the program area is resized only while the last free region
adjoins it, which is what `resizeProgramMemory` takes for granted; `program_tight`
drops this. Two activities are what re-creation and finishing need. Two threads are an
old one and its successor; where nothing times out one has ended before the next is
made, so `live` has one name for them. Two requests tell an answer from a stale one;
two nested yields are a yield in a task run by a yield. `MaxTasks` bounds the queue
when a task is offered, `MaxDepth` and `MaxYields` the nesting, `MaxHeld` the client's
allocations. `SoleReset` confines `prompt` to resets of the only activity;
`resetthreads` drops it.

In `programs` two programs are a caller and its subroutine (each may be the other's),
only one with a label, so that a step may also lead to a label that is missing; two
steps are one that is anything and the END. `MAX_LEVELS` bounds the levels at which a
*program* calls, `MAX_LOCALS` the local registers of all levels, `MAX_SAMPLES` what a
solver tries, `REFUSALS` the levels refused between two resets, each of which leaves
`numberOfSubroutineLevels` one too high for good. Four samples are the first two, in
which the solver looks at the error, the third, before which it looks for EXIT, and
one before which it may not have. The nesting bound 1 lets the solver of a solved
function be refused; what an aborted sample does to an outer solver needs 2. Larger
bounds were run once each, and the same properties hold: two labels with 3 levels, no
locals, 2 samples and no refusals (3.4 million states); two labels and 2 samples (4.0
million); 3 levels and 2 samples (3.2 million); a nesting bound of 2 with 3 samples,
no locals and no refusals (3.4 million). The inductive invariant `Above` of section 6
was checked with TLC before it was proved. In `stack` three levels tell the top from
what is below it, and a shuffle of two of them leaves one alone; of two types the one
needs a larger block, which is when requests are made. In `backup` three states tell
the reset one, the one in the file and the one in memory.

`handoff` switches the deadlock check off: a core thread whose answer is lost
waits for ever, and once nothing else is left to do the model stops there, as
the application does. `RequestReturns` names that state (`Orphaned`) and covers
every other request.

Runs that violate what the repository says (see `findings` in `PROJECT.json`):

| Run | What happens |
|---|---|
| `program_tight` | `resizeProgramMemory` changes a region that does not adjoin the program area; regions overlap and a double free is reported that never was |
| `attachrace` | an activity attaches to a thread that is on its way out |
| `resetthreads` | a reset with a second activity alive leads to two core threads |
| `pickerpause` | `onPause` waits for a core that waits for the picker |

Behaviours of the models that a reader may not expect. The properties leave room
for them and the code has them; nothing the repository says is against them.

Core thread and files:

* The exit latch a thread counts down is the one on record, not its own. A thread that
  outlived its dispose can open the latch of its successor.
* The save `onPause` waits for may run in a yield of a program; what the program
  changes afterwards is not in the file. It is also left out while the core is not
  initialised, with keys possibly in the queue already.
* `g_mainActivityObj` is set at attach only. When an activity comes back to the front
  it is not registered again.
* Shift and Ctrl of a physical keyboard run on the main thread after a test of
  `isCoreBlockingForIo` that holds no lock, so such a key can run between the two
  halves of a function that asked for a file. It can also run while `initNative`
  resets or restores the calculator: `doFnReset` allocates the memory first
  (`config.c:1828`), the key's only other test is that it is there, and the lock is
  free. `LockedCodeRunsAlone` claims nothing of that time. `setLcdColors` marks and
  redraws rows on the main thread, without the lock.

Program engine:

* An error left by one sample of a solver is still set when the next begins;
  `fnExecute` then takes its call back, and the nested engine runs the steps of the
  calling program, the SOLVE among them, until the nesting is refused
  (`lblGtoXeq.c:1146`). `NestedRunStaysAbove` and `SolveReturnsToCaller` except it.
* Two keys of one batch: after R/S, or after the key that ends a PAUSE, the next
  key finds no program running and starts another engine inside the yield of the
  first (`reentered`).
* A level that is refused stays counted in `numberOfSubroutineLevels`
  (`lblGtoXeq.c:176`); only a reset brings the count down again.
* STOP or FINISH inside a function being solved makes the following samples runs
  of their own; a solver that starts forgets an R/S pressed before it
  (`solve.c:471`).

Stack, when memory runs out and in a running program:

* `_Drop` leaves the two top registers with one block (`stack.c:51`), `fnFillStack` a
  register with a block given back (`stack.c:209`); `liftStack` does not look at the
  answer (`stack.c:35`), and the test in `fnKeyEnter` (`keyboard.c:3583`) is never
  true. `clearRegister` (`registers.c:1418`) and the writers of results write beyond a
  block they could not replace. All these are the phase `damaged`.
* A copy refused within `undo` leaves that register as it is, without a word but the
  error, and there is nothing to undo any more.
* In a running program, where nothing was saved, the shuffle leaves its own numbers in
  the copies for UNDO, and so do recall arithmetic (L and Y, `recall.c:102`, `:111`),
  store arithmetic (X and Y, `store.c:257`), MIN and MAX (X) and some string
  functions. UNDO after the program then brings these back, from the middle of the
  run. `SnapshotIntact` and `RecallsSnapshot` say nothing of a copy so taken, until
  the next save.
* `fnAlphaTrim` (`stringFuncs.c:1543`) brings X back without having laid it aside in a
  program: X then is what the last copy was.

Backup file:

* It is written over the old one (`saveRestoreBackup.c:260`). A death or a full
  disk leaves a file of which the beginning is used: new registers and region
  tables over the ram of a reset. `Durable` calls this `Lost`.
* Cut before the layout (`:517`), the file gives a layout for which every later
  save is refused without a word (`:1356`, `:252`), after a RESET too, until the
  user picks another. `SavesRefusedForAReason` says that this, or the user, is the
  only way there.
* A file that cannot be opened for writing ends the process (`:268`).
* A run status saved in the yield of a program is restored with no program to
  run: only R/S and EXIT are heard then.

## 5. Fairness

`CoreRuntime`'s `FairSpec` gives weak fairness to the core thread's steps (the
scheduler runs it) and to the steps the main thread takes inside a callback. It
gives none to callbacks, timeouts, crashes or the user. A program may run for
ever, by yielding again and again: nothing says that an edit ends.
`PauseGetsItsSave` and `QueueMoves` hold all the same; `CallbacksReturn` is
stated for behaviours in which the core thread comes back to its loop again and
again.

`FileHandoff`'s `FairSpec` is weak fairness of both threads, and strong fairness of
four things: that main gets to a posted request (its message queue is first in,
first out), that a picker pauses the activity, that the user answers it, and that
the lock is taken back. Without the last the model allows keys that grab the lock
at each instant it is free, for ever, which no user can do.

The other modules have no fairness: the pool, the stack and the engine run when
they are called, and nothing says that a program or a save ends. `NeverDeaf` says
as an invariant what liveness there would rest on: who will leave the status.

## 6. Proofs

Everything here is for every value of the constants, from the assumptions named in the
modules and what the theorems themselves assume, given below. Every invariant and
every action property of the passing runs is a theorem, and so is every refinement;
liveness is not.

`FreeListProofs`, for any pool, table length, request sizes and number of
allocations, with `TightHeap = FALSE`: `HeapStaysPartitioned`, `NeighboursAreJoined`,
`DoubleFreeIsNotReported`, `TypeCorrect`, `AccountIsExact`, `FreeListIsABlockPool`.
The partition is not inductive as the run states it. `Inv` says that the regions form
a *table* (sorted, with an occupied block between any two), that each allocation lies
within the heap and none twice, that no overlap was ever reported, and, until the
process exits, that each block is free or held and not both. A lemma per operation
says what it does to a table: `Carve` takes blocks off a region, a free joins left,
right, both or none and, because the freed blocks were held, finds no overlap. The
assumption on `TightHeap` is needed: `program_tight` is what happens without.

For the books, `SumInv` says that there are prefix sums over the addresses that end
at `c47MemInBlocks`; a step changes the sizes at one or two addresses, and the new
prefix sums are the old ones with a difference from there on. `AccountingIsExact`
sums with a fold of the community modules, which takes the allocations in the order
`CHOOSE` gives. `FoldIsTotal` shows that it gets the same: the recursive function
behind the fold exists, and at a smallest set where it differed from the account
(`Total`) one step less would differ already.

`CoreRuntimeProofs`, for every number of activities, threads and latches:

* `TypeCorrect`: the type invariant, which is inductive as it stands.
* `OneThread`, `FlagTruthful`: without a factory reset, one core thread at most,
  and a truthful flag. The flag and the threads only make sense together, so the
  inductive invariant `OneThreadInv` says that no reset is in progress, that the
  flag is up exactly while a thread is alive, and that there is one such thread
  at most; attach needs the flag, the finally block lowers it for the only
  thread.
* `NothingLost`: without a factory reset, an initialisation finds nothing in memory
  that its file does not have, with timeouts, exceptions and deaths. `InitialisedOnce`
  says that edits come after an initialisation, and that the thread about to
  initialise found that there was none; by `OneThreadInv` no other can get between.
* `SaveIsInOrder`: with everything the model has, and under no assumption, the save
  `onPause` saw done left no edit behind it in the queue. `SaveIsLast` says why: while
  main waits nobody offers, so the save stays last, and when it is taken, in a yield
  or not, the queue is empty.
* `ReleaseComesLast`, `ActivitiesAreServed`, `NoWaitIsInVain`: when no wait times out,
  native code does not throw, and a reset is that of the only activity (`SoleReset`;
  `NoResetIsSole`: certainly if nobody resets), the native side is released only when
  no core thread is in its loop; an attached activity that does not finish has a core
  thread that runs and stays; and no callback waits for what nobody is going to do.
  The inductive invariant is in two parts. `ExitInv` ties the threads to the latch on
  record and to where the main thread is: a living thread is the one on record and
  its latch is closed, it leaves only while the main thread waits for that very
  latch, and once the latch is seen open no thread is left. `Serves` ties
  `activeActivityCount` to the activities: it is their number, the core runs as long
  as there is one, and while it runs a thread is in its body unless `attach` is about
  to start one. Each part needs the other for a reset, which clears the flags safely
  only because the count made `dispose` wait for the thread first. Each assumption
  excludes a way in which a latch is opened that is not that of the thread still
  running; `attachrace` and `resetthreads` show two of them.
  `WaitsAreAnswered`, which `NoWaitIsInVain` proves, is what `CallbacksReturn` needs
  beside fairness: the latch waited for is that of a thread that has yet to open it,
  the save is in the queue or in the hands of a thread that runs. It is no property
  of a run; TLC checked its invariant (`Answerable`) on the bounds of `prompt`.

`FileHandoffProofs`, for any requests, any depth of yields, with keys on the
main thread or not and results lost or not: `TypeCorrect`,
`LockedEntriesExcludeEachOther`, `RequestsAreAnsweredOnce`, `YieldsRestoreTheLock`,
`HandoffIsAnExchange`. The invariant adds to the properties that nothing
but keys on main goes on before `initNative` has returned (`StartInv`), that what the main
thread knows of (a posted request, an open picker) is the request the core waits
for, and that the flags were cleared when it was armed: this is why an answer
cannot be that of another request, and it gives the refinement.

`ProgramsProofs`, for any programs, levels, depth and samples: `KeysAreHeardAgain`
and `StopsAreKept`. `NeverDeaf` alone is not inductive, since a pause puts back a
status and a nested engine leaves it alone. The invariant `Sound` says of each such
frame that what its status needs is further *down* the C stack, so that it is still
there when the frame is gone.

`SubroutinesProofs`, lemmas about the operators of `Subroutines`, for any machine: what
a call, a return, local registers and the unwindings do to the levels, to the count of
blocks and to the place. Of the loop `UnwindTo` they show by the same kind of
induction, over the number of levels, that it ends, keeps the levels up to the one
asked for as they are, and gives back the blocks of the others.

`CallsProofs`, for any programs, levels, local registers, depth and samples, whatever
the pool refuses:

* `TypesAreKept`, `PoolHasTheLevels`: the types, and that the pool counts exactly the
  blocks of the levels. The inductive invariant `Typed` adds that the machine is
  *sane*: the numbers of the levels rise and stay below `numberOfSubroutineLevels`, a
  level without flags has no registers, and the pool has, block by block, what the
  headers claim and nothing else.
* `CallsAndReturnsNest`: the engine implements `CallStack`. It needs `Typed` and the
  `Inv` of `ProgramsProofs`; each action is a step of it or a stutter, with one lemma
  per operation on what it does to the levels (`Stays`, `Adds`, `Drops`, `Cuts`,
  `Clears`).
* `SampledFunctionsStayAbove`, `SolverReturnsToItsCaller`: while no key runs a
  function in a yield and no sample goes astray, the engine of a solver stays above
  the level of the calling program, and afterwards the program is at that level and
  its step again. Neither is inductive: what holds for the running engine must be
  known of every engine and solver in the C stack that will run again. `Above` says it
  of each: a waiting solver's level is still there, the engine it waits for was
  started above it, still has the level it was started in unless it has just returned
  from it and is about to end, and whatever waits further up is not below that level.

`StackProofs`, for a stack of any size, shuffle of any part and any numbers:
`TypeCorrect`, `BlocksHaveOneOwner`, `SnapshotStaysIntact`, `RecallIsExact`,
`ErrorsLeaveTheStack`. `Inv` says that outside of damage each register has the block
that bears its name, that the copies are the snapshot as far as it goes, that a
function that has saved finds each copy in it, that a launcher that saved was XEQ, and
when there is a snapshot at all. Each function is a lemma about the machines it may
leave; the proof of the recall goes register by register over the set of those that
were refused.

`BackupProofs`, for any states: `TypeCorrect`, `QuestionsCanBeAnswered`,
`RefusalsHaveAReason`, `RefusedFileLeavesReset`, `BackupStoresDurably`. `Inv` adds
what is true of every file (only what is checked can be out of range, no question, the
layout of this model, and the old form in files of older builds only, where it is
expected) and that a file being written is the memory of now; from it each step of
`Backup` is a step of `Durable` or a stutter.

Only model-checked: everything under fairness (`RequestReturns`, `PickerFreesMain`,
`PauseGetsItsSave`, `QueueMoves`, `CallbacksReturn`), which this prover does not
reach. The library's induction theorems cannot be used with it either, as they take an
operator; where a proof needs induction (`FoldIsTotal`, `UnwindTo`) it takes a smallest
counterexample, from the well-foundedness of the natural numbers.

## 7. Not modelled

`PROJECT.json` lists every component with its status.

* Slots. The Kotlin side has slot launchers, a pending slot and `switchSlot`, but
  nothing registers, calls or sets them (`MainActivity.kt:62`, `:117`, `:599`), and
  `loadStateNative` is reached from nowhere else. There is one slot, and the file of
  `Backup` is it. A model of switching would be one of a program nobody runs.
* State files (`saveRestoreCalcState.c`): text written and read by one function each,
  on the user's demand, with no state of their own.
* Left for later modules, as they have state worth it: audio, display, keys and
  timers, softmenus, word arithmetic (section 2). Of the calculator's functions,
  `Stack` has those that move registers and one each for the others (a constant, a
  monadic function, a flag, an error), and the arithmetic with registers that borrows
  the copies for UNDO. Dyadic functions (`saveLastX`, a result in X, a drop),
  functions that change several levels at once, matrices (whose editor reads the
  copies, `matrixEditor.c:900`), statistics sums and the complex stack are not
  modelled. Of the engine, the integrator, plots and the structured steps are missing,
  and editing programs, which only the program area of `FreeList` stands for.
* Out of reach or without state worth a model: mathematics, distributions and the
  solver's iteration (numerical code on decimal numbers), formatting and layout of the
  screen, drawing and dialogs of the shell, the input buffer (a string), tables edited
  by one function each (assignments, flags).
* Not this program: the vendored decimal and multi-precision libraries, the second
  copy of the calculator for other platforms, generated fonts and constants, build
  files. With the numerical code these are almost all of the repository's lines, which
  is why the share of lines mapped is small.

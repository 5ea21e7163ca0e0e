------------------------------- MODULE Stack --------------------------------
(***************************************************************************)
(* The stack, the copy of it kept for UNDO, and reallyRunFunction, which   *)
(* makes the copy before a function and goes back to it when the function  *)
(* fails.                                                                  *)
(*                                                                         *)
(* A register is a header, a type and a pointer to the block that holds    *)
(* its number.  Rolling, swapping and lifting move headers; copying writes *)
(* a block, and needs another block when the types differ.  The pool may   *)
(* refuse a request at any time (a pool of any size, in any state of       *)
(* fragmentation), but for one thing: who has just freed a block is not    *)
(* refused a block that is no larger.                                      *)
(***************************************************************************)
EXTENDS Integers

CONSTANTS
    StackSize,    \* levels of the stack
    Shuffled,     \* how many of them the shuffle takes: X, Y, Z and T
    Numbers       \* what a register may hold: a type and a value of it

Sizes == [short |-> 1, real |-> 2, complex |-> 4]
Types == DOMAIN Sizes
Zero  == 0     \* what clearRegister writes, of one of the types a number has
InputTypes == {n.type : n \in Numbers}
Values == {n.value : n \in Numbers} \cup {Zero}

ASSUME StackAssumption ==
    /\ StackSize \in Nat /\ Shuffled \in 1 .. StackSize /\ StackSize >= 2
    /\ Numbers # {} /\ \A n \in Numbers : n.type \in Types

L   == 0
X   == 1
Y   == 2
Top == StackSize
Levels    == X .. Top
Kept      == L .. Top                  \* what UNDO brings back
Saved(r)  == r + Top + 1               \* its copy
Copies    == {Saved(r) : r \in Kept}
Registers == Kept \cup Copies
Blocks    == Registers                 \* one for each register
NoBlock   == -1                        \* C47_NULL, or a block given back

(* The functions, with what indexOfItems says of each: whether the stack is *)
(* saved first.  CONST stands for the functions that push a number, MONADIC *)
(* for those that put a result in the place of X, RCLOP and STOOP for the   *)
(* arithmetic with a register (RCL+ to RCL MAX, STO+ to STO MAX and the     *)
(* string functions that lay registers aside in the same way).              *)
indexOfItems ==
    [DROP |-> "ENABLED",  ROLL |-> "ENABL_XEQ",  SWAP |-> "ENABL_XEQ",
     CLX |-> "ENABL_XEQ", FILL |-> "ENABLED",    ENTER |-> "ENABLED",
     CONST |-> "ENABLED", LASTX |-> "ENABLED",   SHUFFLE |-> "ENABLED",
     MONADIC |-> "ENABLED", SF |-> "ENABLED",    ERR |-> "CANCEL",
     RCLOP |-> "ENABLED", STOOP |-> "ENABLED",   ATRIM |-> "ENABLED",
     UNDO |-> "UNCHANGED", XEQ |-> "ENABLED",    RS |-> "UNCHANGED"]
Functions == DOMAIN indexOfItems
NoFunction == "none"

VARIABLES
    globalRegister,        \* the headers
    ram,                   \* the value in the block of each register
    lastErrorCode,
    thereIsSomethingToUndo,
    ignore1error,          \* FLAG_IGN1ER; FLAG_ASLIFT may be set or not
    savedIgnore1error,     \* in savedSystemFlags
    phase,                 \* of reallyRunFunction
    func, undoSavedThisStep,      \* its parameter and its local
    launcher,              \* the key that runs the program: XEQ, R/S or none
    launcherSaved,         \* undoSavedThisStep of that key's reallyRunFunction
    snapshot               \* ghost: the numbers the last save laid aside, but
                           \* for those whose copy a program has used since

Errors == {"NONE", "RAM_FULL", "ERROR"}

registers == <<globalRegister, ram>>
undoState == <<thereIsSomethingToUndo, savedIgnore1error, snapshot>>
program   == <<launcher, launcherSaved>>
vars == <<registers, lastErrorCode, undoState, ignore1error, phase, func,
          undoSavedThisStep, program>>

None == <<>>

Machine == [header |-> globalRegister, ram |-> ram]
Becomes(m) == globalRegister' = m.header /\ ram' = m.ram

Number(m, r) == [type |-> m.header[r].type, value |-> m.ram[m.header[r].block]]
StackNumbers(m) == [r \in Kept |-> Number(m, r)]

-----------------------------------------------------------------------------
(* Moving headers *)

(* Which block a register has says nothing as long as no other has it, so   *)
(* blocks bear the name of the first register that has them.                *)
Renamed(m) ==
    LET Sharers(r) == {q \in Registers : m.header[q].block = m.header[r].block}
        name(r) == CHOOSE q \in Sharers(r) : \A p \in Sharers(r) : q <= p
    IN [header |-> [r \in Registers |->
                       IF m.header[r].block = NoBlock THEN m.header[r]
                       ELSE [m.header[r] EXCEPT !.block = name(r)]],
        ram |-> [b \in Blocks |->
                    IF m.header[b].block = NoBlock THEN Zero
                    ELSE m.ram[m.header[b].block]]]

(* Each register of "order" takes the header of another, all at once. *)
Rearranged(m, order) ==
    Renamed([m EXCEPT !.header =
                [r \in Registers |-> IF r \in DOMAIN order THEN m.header[order[r]]
                                     ELSE m.header[r]]])

RollUp(m)   == Rearranged(m, [r \in Levels |-> IF r = X THEN Top ELSE r - 1])
RollDown(m) == Rearranged(m, [r \in Levels |-> IF r = Top THEN X ELSE r + 1])

(* Mutant: the header of X is not kept aside. *)
SwapXYLosingX(m) == Rearranged(m, [r \in {X, Y} |-> Y])
SwapXY(m) == Rearranged(m, [r \in {X, Y} |-> IF r = X THEN Y ELSE X])

LowerLevels == X .. Shuffled
LowerCopies == {Saved(r) : r \in LowerLevels}

(* Mutant: the copies take the levels in the opposite order.                *)
SwapCopiesReversed(m) ==
    Rearranged(m, [r \in LowerLevels \cup LowerCopies |->
                       IF r \in LowerLevels THEN Saved(r) ELSE Shuffled + Top + 2 - r])

SwapCopies(m) ==
    Rearranged(m, [r \in LowerLevels \cup LowerCopies |->
                       IF r \in LowerLevels THEN Saved(r) ELSE r - Top - 1])

-----------------------------------------------------------------------------
(* Copying numbers *)

Written(m, r, number) ==
    [header |-> [m.header EXCEPT ![r].type = number.type],
     ram    |-> [m.ram EXCEPT ![m.header[r].block] = number.value]]

(* copySourceRegisterToDestRegister for each register of "source": the      *)
(* destinations and their sources are different registers.                  *)
Copied(m, source) ==
    LET At(b) == {r \in DOMAIN source : m.header[r].block = b}
    IN [header |-> [r \in Registers |->
                       IF r \in DOMAIN source
                       THEN [m.header[r] EXCEPT !.type = m.header[source[r]].type]
                       ELSE m.header[r]],
        ram |-> [b \in Blocks |->
                    IF At(b) = {} THEN m.ram[b]
                    ELSE m.ram[m.header[source[CHOOSE r \in At(b) : TRUE]].block]]]

(* The copies reallocateRegister may refuse: those that need another block. *)
Refusable(m, source) ==
    {r \in DOMAIN source : m.header[r].type # m.header[source[r]].type}

Without(source, refused) == [r \in DOMAIN source \ refused |-> source[r]]

(* clearRegister and the functions that write a result do not look at what  *)
(* reallocateRegister returns: refused, they write into the block there is. *)
WrittenAnyway(m, r, number) ==
    [m EXCEPT !.ram[m.header[r].block] = number.value]
Overruns(m, r, number) == Sizes[m.header[r].type] < Sizes[number.type]

-----------------------------------------------------------------------------
(* saveForUndo and undo *)

(* A function uses the copies of the registers rs for itself: in a program  *)
(* unsaved, and after a save with the numbers that are there already.       *)
Forgotten(rs) ==
    IF undoSavedThisStep THEN snapshot
    ELSE [r \in DOMAIN snapshot \ rs |-> snapshot[r]]

ToCopies == [c \in Copies |-> c - Top - 1]

(* clearRegister writes the zero of the type that input has by default.     *)
Cleared(m, refused, default) ==
    [header |-> [r \in Registers |-> IF r \in Copies \ refused
                                     THEN [m.header[r] EXCEPT !.type = default]
                                     ELSE m.header[r]],
     ram |-> [b \in Blocks |-> IF \E c \in Copies : m.header[c].block = b
                               THEN Zero ELSE m.ram[b]]]

(* The copies are made from the top of the stack down, L last; when one is  *)
(* refused all are cleared, which may be refused in its turn.               *)
CopiedDownTo(failed) ==
    Copied(Machine, [c \in {d \in Copies : d > failed} |-> ToCopies[c]])

FailedSave(m, kept, default) ==
    [machine |-> Cleared(m, kept, default),
     damaged |-> \E c \in kept : Overruns(m, c, [type |-> default])]

FailedSaves ==
    UNION {LET m == CopiedDownTo(failed)
           IN {FailedSave(m, kept, default) :
                  kept \in SUBSET {c \in Copies : m.header[c].type # default}} :
           failed \in Refusable(Machine, ToCopies), default \in InputTypes}

Saves ==
    /\ savedIgnore1error' = ignore1error
    /\ thereIsSomethingToUndo' = TRUE
    /\ snapshot' = StackNumbers(Machine)

FailsToSave ==
    /\ savedIgnore1error' = ignore1error
    /\ thereIsSomethingToUndo' = FALSE
    /\ snapshot' = None

(* Mutant: L is left out. *)
RecalledButL == [r \in Levels |-> Saved(r)]

(* What undo copies. *)
Recalled == [r \in Kept |-> Saved(r)]

(* A copy that is refused leaves the register as it is.                     *)
Recall(m, refused) ==
    /\ Becomes(Copied(m, Without(Recalled, refused)))
    /\ thereIsSomethingToUndo' = FALSE
    /\ snapshot' = None
    /\ UNCHANGED savedIgnore1error

ErrorAfter(error, refused) == IF refused = {} THEN error ELSE "RAM_FULL"
-----------------------------------------------------------------------------
(* reallyRunFunction, up to the call of the function *)

(* Mutant: a function that is to leave the copy as it is saves the stack.   *)
UndoableUnlessCancel(f) == indexOfItems[f] # "CANCEL"

Undoable(f) == indexOfItems[f] \in {"ENABLED", "ENABL_XEQ"}

(* A key clears the error of the one before; a program stops at an error.   *)
MayBegin(f) ==
    /\ phase = "idle"
    /\ launcher # NoFunction => lastErrorCode = "NONE" /\ f \notin {"XEQ", "RS", "UNDO"}

Saving(f) ==
    MayBegin(f) /\ Undoable(f) /\ (launcher = NoFunction \/ ignore1error)

BeginSaved(f) ==
    /\ Saving(f)
    /\ Becomes(Copied(Machine, ToCopies))
    /\ Saves
    /\ lastErrorCode' = "NONE"
    /\ phase' = "called" /\ func' = f /\ undoSavedThisStep' = TRUE
    /\ UNCHANGED <<ignore1error, program>>

BeginNotSaved(f) ==
    /\ Saving(f)
    /\ \E out \in FailedSaves :
        /\ Becomes(out.machine)
        /\ FailsToSave
        /\ IF out.damaged
           THEN /\ phase' = "damaged"
                /\ UNCHANGED <<lastErrorCode, func, undoSavedThisStep>>
           ELSE IF indexOfItems[f] = "ENABL_XEQ"
           THEN /\ phase' = "called" /\ func' = f /\ undoSavedThisStep' = TRUE
                /\ lastErrorCode' = "NONE"
           ELSE /\ lastErrorCode' = "RAM_FULL"
                /\ UNCHANGED <<phase, func, undoSavedThisStep>>
    /\ UNCHANGED <<ignore1error, program>>

BeginUnsaved(f) ==
    /\ MayBegin(f) /\ ~Saving(f)
    /\ lastErrorCode' = "NONE"
    /\ phase' = "called" /\ func' = f /\ undoSavedThisStep' = FALSE
    /\ IF indexOfItems[f] = "CANCEL"
       THEN thereIsSomethingToUndo' = FALSE /\ snapshot' = None
       ELSE UNCHANGED <<thereIsSomethingToUndo, snapshot>>
    /\ UNCHANGED <<registers, savedIgnore1error, ignore1error, program>>

-----------------------------------------------------------------------------
(* The functions *)

Called(f) == phase = "called" /\ func = f

Returns(m, error) ==
    /\ Becomes(m) /\ lastErrorCode' = error /\ phase' = "returned"
    /\ UNCHANGED <<func, undoSavedThisStep, program>>

Done(m, error) == Returns(m, error) /\ UNCHANGED <<undoState, ignore1error>>

(* A function that takes the copies of the registers rs for itself.         *)
Scratches(m, error, rs) ==
    /\ Returns(m, error)
    /\ snapshot' = Forgotten(rs)
    /\ UNCHANGED <<thereIsSomethingToUndo, savedIgnore1error, ignore1error>>

(* A register is left without a block of its own, or a number is written    *)
(* beyond the end of one.                                                   *)
Damages(m) ==
    /\ Becomes(m) /\ phase' = "damaged"
    /\ UNCHANGED <<lastErrorCode, undoState, ignore1error, func, undoSavedThisStep, program>>

(* A register is given a number of another type without a look at the       *)
(* answer of reallocateRegister.                                            *)
Result(m, r, number) ==
    \/ Done(Written(m, r, number), "NONE")
    \/ /\ m.header[r].type # number.type
       /\ IF Overruns(m, r, number) THEN Damages(m)
          ELSE Done(WrittenAnyway(m, r, number), "RAM_FULL")

(* A copy that is refused ends the function with an error.                  *)
Copies1(m, source) ==
    \/ Done(Copied(m, source), "NONE")
    \/ Refusable(m, source) # {} /\ Done(m, "RAM_FULL")

fnRoll == Called("ROLL") /\ \E m \in {RollUp(Machine), RollDown(Machine)} : Done(m, "NONE")

fnSwapXY == Called("SWAP") /\ Done(SwapXY(Machine), "NONE")

fnClX ==
    /\ Called("CLX")
    /\ \E default \in InputTypes : Result(Machine, X, [type |-> default, value |-> Zero])

fnLastX ==
    /\ Called("LASTX")
    /\ \E m \in {Machine, RollUp(Machine)} : Copies1(m, [r \in {X} |-> L])

(* liftStack: the block of the register lifted off, or of X, is given back  *)
(* and X gets one for a real.                                               *)
LiftFrees(m, aslift) == Sizes[m.header[IF aslift THEN Top ELSE X].type]
LiftStack(m, aslift) ==
    LET up == IF aslift THEN RollUp(m) ELSE m
    IN [up EXCEPT !.header[X].type = "real"]
LiftRefused(m, aslift) == [LiftStack(m, aslift) EXCEPT !.header[X].block = NoBlock]

fnConstant ==
    /\ Called("CONST")
    /\ \E aslift \in BOOLEAN :
       \/ \E n \in Numbers :
             n.type = "real" /\ Done(Written(LiftStack(Machine, aslift), X, n), "NONE")
       \/ /\ LiftFrees(Machine, aslift) < Sizes["real"]
          /\ Damages(LiftRefused(Machine, aslift))

(* ENTER saves for UNDO again, in a program for the first time.             *)
fnKeyEnter ==
    /\ Called("ENTER")
    /\ LET saved  == Copied(Machine, ToCopies)
           lifted == LiftStack(saved, TRUE)
       IN \/ /\ Returns(Copied(lifted, [r \in {X} |-> Y]), "NONE")
             /\ Saves
          \/ /\ Refusable(lifted, [r \in {X} |-> Y]) # {}
             /\ \E refused \in SUBSET Refusable(lifted, Recalled) :
                    Returns(Copied(lifted, Without(Recalled, refused)), "RAM_FULL")
             /\ FailsToSave
          \/ /\ LiftFrees(saved, TRUE) < Sizes["real"]
             /\ Becomes(LiftRefused(saved, TRUE)) /\ phase' = "damaged"
             /\ Saves
             /\ UNCHANGED <<lastErrorCode, func, undoSavedThisStep, program>>
          \/ \E out \in FailedSaves :
             /\ Becomes(out.machine) /\ FailsToSave
             /\ lastErrorCode' = "RAM_FULL"
             /\ phase' = IF out.damaged THEN "damaged" ELSE "returned"
             /\ UNCHANGED <<func, undoSavedThisStep, program>>
    /\ UNCHANGED ignore1error

(* _Drop: the level below the top gets a block for a copy of the top.       *)
DropX(m) ==
    Copied(Rearranged(m, [r \in X .. Top - 1 |-> IF r = Top - 1 THEN X ELSE r + 1]),
           [r \in {Top - 1} |-> Top])
DropRefused(m) == Rearranged(m, [r \in X .. Top - 1 |-> r + 1])

fnDrop ==
    /\ Called("DROP")
    /\ LET freed == Sizes[globalRegister[X].type]
       IN \/ Done(DropX(Machine), "NONE")
          \/ freed < Sizes[globalRegister[Top].type] /\ Damages(DropRefused(Machine))

fnFillStack ==
    /\ Called("FILL")
    /\ LET fill(last) == Copied(Machine, [r \in Y .. last |-> X])
       IN \/ Done(fill(Top), "NONE")
          \/ \E r \in Y .. Top :
                /\ Sizes[globalRegister[r].type] < Sizes[globalRegister[X].type]
                /\ Damages([fill(r - 1) EXCEPT
                       !.header[r] = [type |-> globalRegister[X].type, block |-> NoBlock]])

(* The shuffle takes the copies for itself: it swaps them with the stack.   *)
(* A copy that is refused does not stop it.                                 *)
fnShuffle ==
    /\ Called("SHUFFLE")
    /\ \E order \in [LowerLevels -> LowerLevels] :
        LET m      == SwapCopies(Machine)
            source == [r \in LowerLevels |-> Saved(order[r])]
        IN \E refused \in SUBSET Refusable(m, source) :
               Scratches(Copied(m, Without(source, refused)), ErrorAfter("NONE", refused),
                         LowerLevels)

(* saveLastX, then a result in the place of X, or an error.                 *)
fnMonadic ==
    /\ Called("MONADIC")
    /\ \/ Refusable(Machine, [r \in {L} |-> X]) # {} /\ Done(Machine, "RAM_FULL")
       \/ Done(Copied(Machine, [r \in {L} |-> X]), "ERROR")
       \/ \E n \in Numbers : Result(Copied(Machine, [r \in {L} |-> X]), X, n)

(* Functions that need registers of the stack for something else lay them   *)
(* aside in the copies: after a save they are there already, in a running   *)
(* program they take the place of what was.                                 *)
Running == launcher # NoFunction

Aside(rs) == [c \in {Saved(r) : r \in rs} |-> c - Top - 1]

Back(rs) == [r \in rs |-> Saved(r)]

(* copySourceRegisterToDestRegister, refused or not. *)
CopiedOrNot(m, source) ==
    {Copied(m, Without(source, refused)) : refused \in SUBSET Refusable(m, source)}

AllCopied(m, n, source) ==
    \A r \in DOMAIN source : n.header[r].type = m.header[source[r]].type

(* Any number that is around, or a new one, in each of some registers.      *)
Around(m) == Numbers \cup {Number(m, r) : r \in Kept}

Overwritten(m, number) ==
    LET At(b) == {r \in DOMAIN number : m.header[r].block = b}
    IN [header |-> [r \in Registers |->
                       IF r \in DOMAIN number
                       THEN [m.header[r] EXCEPT !.type = number[r].type]
                       ELSE m.header[r]],
        ram |-> [b \in Blocks |->
                    IF At(b) = {} THEN m.ram[b]
                    ELSE number[CHOOSE r \in At(b) : TRUE].value]]

(* A function ends well or with an error of its own; but when a copy that   *)
(* it needs has been refused, with that.                                    *)
Ends(copied) == IF copied THEN {"NONE", "ERROR"} ELSE {"RAM_FULL"}

(* "scratch" is laid aside, if it has to be, used and brought back, but for *)
(* "result" and what is "left" because its copy is refused, which does not  *)
(* stop the function.  "lost" are the copies a program has given up for it. *)
Arithmetic(m, aside, scratch, result, lost) ==
    \E laid \in CopiedOrNot(m, Aside(aside)) :
       \/ \E left \in SUBSET (scratch \ result) :
          \E number \in [left \cup result -> Around(laid)],
             error \in Ends(left = {} /\ AllCopied(m, laid, Aside(aside))) :
             /\ \A r \in left : number[r].type # laid.header[Saved(r)].type
             /\ Scratches(Copied(Overwritten(laid, number), Back((scratch \ result) \ left)),
                          error, lost)
       \/ (\E n \in Numbers : Overruns(laid, X, n)) /\ Damages(laid)

(* _recallOp, fnRecallMin, fnRecallMax: X is the result, with the register  *)
(* in X and X in Y for the four operations.  L is laid aside if it is the   *)
(* register.                                                                *)
fnRecallOp ==
    /\ Called("RCLOP")
    /\ \E first \in IF Running THEN {{}, {L}} ELSE {{}}, scratch \in {{}, {Y}} :
        LET m     == Copied(Machine, Aside(first))
            lastX == [r \in {L} |-> X]
            aside == IF Running THEN scratch ELSE {}
        IN \/ Refusable(Machine, Aside(first)) # {} /\ Done(Machine, "RAM_FULL")
           \/ Refusable(m, lastX) # {} /\ Scratches(m, "RAM_FULL", first)
           \/ Arithmetic(Copied(m, lastX), aside, scratch, {X}, first \cup aside)

(* _storeOp, fnStoreMin, fnStoreMax and fnAlphaIP: the result goes to the   *)
(* register, which may be one of the stack.  MIN and MAX lay X aside        *)
(* whether a program is running or not.                                     *)
fnStoreOp ==
    /\ Called("STOOP")
    /\ \E scratch \in {{X}, {X, Y}, {L, X, Y}}, result \in {{}} \cup {{r} : r \in Kept} :
        LET aside == IF Running \/ scratch = {X} THEN scratch ELSE {}
        IN Arithmetic(Machine, aside, scratch, result, aside)

(* fnAlphaTrim brings X back without having laid it aside, then lays L      *)
(* aside.                                                                   *)
fnAlphaTrim ==
    /\ Called("ATRIM")
    /\ \/ Done(Machine, "ERROR")
       \/ \E n \in Around(Machine) :
           \E back \in CopiedOrNot(Overwritten(Machine, [r \in {X} |-> n]), Back({X})) :
           \E laid \in CopiedOrNot(back, Aside({L})) :
           \E error \in Ends(AllCopied(Machine, back, Back({X}))
                              /\ AllCopied(back, laid, Aside({L}))) :
               Scratches(laid, error, {L})

fnSetFlag ==
    /\ Called("SF")
    /\ Returns(Machine, "NONE")
    /\ ignore1error' = TRUE
    /\ UNCHANGED undoState

fnRaiseError == Called("ERR") /\ Done(Machine, "ERROR")

fnUndo ==
    /\ Called("UNDO")
    /\ IF thereIsSomethingToUndo
       THEN /\ \E refused \in SUBSET Refusable(Machine, Recalled) :
                  Recall(Machine, refused) /\ lastErrorCode' = ErrorAfter("NONE", refused)
            /\ ignore1error' = savedIgnore1error
       ELSE UNCHANGED <<registers, lastErrorCode, undoState, ignore1error>>
    /\ phase' = "returned"
    /\ UNCHANGED <<func, undoSavedThisStep, program>>

(* XEQ from the keyboard, R/S: the program runs inside the key's function.  *)
fnExecute == Called("XEQ") /\ Done(Machine, "ERROR")

RunProgram ==
    /\ Called("XEQ") \/ Called("RS")
    /\ phase' = "idle"
    /\ launcher' = func /\ launcherSaved' = undoSavedThisStep
    /\ func' = NoFunction /\ undoSavedThisStep' = FALSE
    /\ UNCHANGED <<registers, lastErrorCode, undoState, ignore1error>>

(* Mutant: what the launcher saved stays. *)
AfterProgramKept(error) == thereIsSomethingToUndo

AfterProgram(error) == error = "NONE" /\ thereIsSomethingToUndo

StopProgram ==
    /\ phase = "idle" /\ launcher # NoFunction
    /\ phase' = "returned" /\ func' = launcher /\ undoSavedThisStep' = launcherSaved
    /\ launcher' = NoFunction /\ launcherSaved' = FALSE
    /\ thereIsSomethingToUndo' = AfterProgram(lastErrorCode)
    /\ snapshot' = IF thereIsSomethingToUndo' THEN snapshot ELSE None
    /\ UNCHANGED <<registers, lastErrorCode, savedIgnore1error, ignore1error>>

-----------------------------------------------------------------------------
(* reallyRunFunction, after the function *)

Undoes(f, saved) ==
    thereIsSomethingToUndo /\ saved /\ indexOfItems[f] # "UNCHANGED"

Failed ==
    /\ phase = "returned" /\ lastErrorCode # "NONE"
    /\ IF Undoes(func, undoSavedThisStep)
       THEN /\ \E refused \in SUBSET Refusable(Machine, Recalled) :
                  /\ Recall(Machine, refused)
                  /\ lastErrorCode' = IF ignore1error THEN "NONE"
                                      ELSE ErrorAfter(lastErrorCode, refused)
       ELSE /\ lastErrorCode' = IF ignore1error THEN "NONE" ELSE lastErrorCode
            /\ UNCHANGED <<registers, undoState>>
    /\ ignore1error' = FALSE
    /\ phase' = "idle" /\ func' = NoFunction /\ undoSavedThisStep' = FALSE
    /\ UNCHANGED program

Succeeded ==
    /\ phase = "returned" /\ lastErrorCode = "NONE"
    /\ phase' = "idle" /\ func' = NoFunction /\ undoSavedThisStep' = FALSE
    /\ UNCHANGED <<registers, lastErrorCode, undoState, ignore1error, program>>

(* After damage the memory of other registers is at stake, and what the     *)
(* program does is not followed any further.                                *)
Restart ==
    /\ phase = "damaged"
    /\ globalRegister' = [r \in Registers |-> [type |-> "real", block |-> r]]
    /\ ram' = [b \in Blocks |-> Zero]
    /\ lastErrorCode' = "NONE" /\ thereIsSomethingToUndo' = FALSE /\ snapshot' = None
    /\ ignore1error' = FALSE /\ savedIgnore1error' = FALSE
    /\ phase' = "idle" /\ func' = NoFunction /\ undoSavedThisStep' = FALSE
    /\ launcher' = NoFunction /\ launcherSaved' = FALSE

Init ==
    /\ globalRegister = [r \in Registers |-> [type |-> "real", block |-> r]]
    /\ ram = [b \in Blocks |-> Zero]
    /\ lastErrorCode = "NONE" /\ thereIsSomethingToUndo = FALSE /\ snapshot = None
    /\ ignore1error = FALSE /\ savedIgnore1error = FALSE
    /\ phase = "idle" /\ func = NoFunction /\ undoSavedThisStep = FALSE
    /\ launcher = NoFunction /\ launcherSaved = FALSE

Function ==
    \/ fnDrop \/ fnRoll \/ fnSwapXY \/ fnClX \/ fnFillStack \/ fnKeyEnter
    \/ fnConstant \/ fnLastX \/ fnShuffle \/ fnMonadic \/ fnSetFlag
    \/ fnRecallOp \/ fnStoreOp \/ fnAlphaTrim
    \/ fnRaiseError \/ fnUndo \/ fnExecute

Next ==
    \/ \E f \in Functions : BeginSaved(f) \/ BeginNotSaved(f) \/ BeginUnsaved(f)
    \/ Function \/ RunProgram \/ StopProgram
    \/ Failed \/ Succeeded
    \/ Restart

Spec == Init /\ [][Next]_vars

-----------------------------------------------------------------------------
(* Properties *)

(* The types of the variables; only a function that saves has saved.        *)
TypeOK ==
    /\ globalRegister \in [Registers -> [type : Types, block : Blocks \cup {NoBlock}]]
    /\ ram \in [Blocks -> Values]
    /\ lastErrorCode \in Errors
    /\ thereIsSomethingToUndo \in BOOLEAN
    /\ ignore1error \in BOOLEAN /\ savedIgnore1error \in BOOLEAN
    /\ phase \in {"idle", "called", "returned", "damaged"}
    /\ func \in Functions \cup {NoFunction}
    /\ phase \in {"called", "returned"} => func # NoFunction
    /\ undoSavedThisStep \in BOOLEAN
    /\ undoSavedThisStep => indexOfItems[func] \in {"ENABLED", "ENABL_XEQ"}
    /\ launcher \in {"XEQ", "RS", NoFunction} /\ launcherSaved \in BOOLEAN
    /\ DOMAIN snapshot \subseteq Kept

(* However the headers have been lifted, rolled, swapped, shuffled and      *)
(* exchanged with the copies, each register has a block, and no other has   *)
(* it: freeRegisterData of one never takes the memory of another.           *)
OneOwner ==
    phase # "damaged" =>
        /\ \A r \in Registers : globalRegister[r].block # NoBlock
        /\ \A r, q \in Registers :
              globalRegister[r].block = globalRegister[q].block => r = q

(* While there is something to undo the copies are the stack as it was when *)
(* the last function that saved it began: the shuffle and the arithmetic    *)
(* with registers, which take copies for themselves, put the same numbers   *)
(* there.  Not so in a program, where they run unsaved: of the copies they  *)
(* take there (L, X, Y and the levels of the shuffle) nothing is said until *)
(* the next save, and UNDO brings back numbers from the middle of the run.  *)
SnapshotIntact ==
    phase # "damaged" =>
        \A r \in DOMAIN snapshot :
            thereIsSomethingToUndo /\ Number(Machine, Saved(r)) = snapshot[r]

IsBack(r) ==
    LET is == Number(Machine', r)
    IN \/ is = snapshot[r]
       \/ /\ is = Number(Machine, r)
          /\ is.type # snapshot[r].type
          /\ lastErrorCode' = "RAM_FULL" \/ ignore1error

RecallStep ==
    thereIsSomethingToUndo =>
        /\ phase = "returned" /\ lastErrorCode # "NONE" /\ undoSavedThisStep
              => \A r \in Kept : IsBack(r)
        /\ Called("UNDO") => \A r \in DOMAIN snapshot : IsBack(r)

(* A function that saved the stack and ends with an error leaves each       *)
(* register with the number it had at the save, and so does UNDO, but for   *)
(* the registers whose copies a program has taken for itself; the ones left *)
(* as they are need another block for it, and the error says the memory is  *)
(* full.                                                                    *)
RecallsSnapshot == [][RecallStep]_vars

ErrorStep ==
    phase = "returned" /\ lastErrorCode # "NONE" /\ func \in {"XEQ", "RS"}
    => StackNumbers(Machine') = StackNumbers(Machine)

(* A program stopped by an error leaves the stack at the error: neither the *)
(* XEQ that ran it, which saved the stack, nor R/S brings back the one from *)
(* before the run.                                                          *)
ProgramErrorStays == [][ErrorStep]_vars

=============================================================================

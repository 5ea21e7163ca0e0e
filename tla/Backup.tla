------------------------------- MODULE Backup --------------------------------
(***************************************************************************)
(* The backup file: saveCalc() writes the calculator's memory to it field  *)
(* by field, over the file there was, and restoreCalc() builds the         *)
(* calculator from it at the next start (c47/saveRestoreBackup.c, called   *)
(* from c47-android/jni_lifecycle.c and, for OFF, from c47/calcMode.c).    *)
(*                                                                         *)
(* The contents of a field are the state of the calculator they belong to: *)
(* a field that names another state than the rest is as good as rubbish,   *)
(* since the registers, the region tables and the pointers are all         *)
(* addresses in the ram of one moment.  The process may end at any point   *)
(* of a save, and the disk may fill up.  A build reads the files of older  *)
(* builds too: some of their fields are in a form of their own, which      *)
(* restoreCalc() converts.                                                 *)
(***************************************************************************)
EXTENDS Integers

CONSTANTS
    States,       \* states the calculator may compute
    ResetState,   \* the one doFnReset() builds
    Torn,         \* a dump of which only the first lines are there
    OutOfRange,   \* a region count or a pointer of some other pool
    NoFile, Nothing, Gone, Lost

(* A field of a state as an older build writes it. *)
OldForm(s) == [older |-> s]
OldForms == {OldForm(s) : s \in States}

ASSUME ResetIsAState == ResetState \in States
ASSUME Distinct ==
    /\ Torn \notin States /\ OutOfRange \notin States /\ Torn # OutOfRange
    /\ Nothing \notin States /\ Gone \notin States /\ Lost \notin States
    /\ Nothing # Gone /\ Nothing # Lost /\ Gone # Lost
ASSUME OldFormsDiffer == OldForms \cap (States \cup {Torn, OutOfRange}) = {}

VARIABLES
    pc,                \* "off": native code is not initialised; "on"; "saving"
    ram,               \* field -> the state its contents belong to
    calcMode,
    confirmedFunction, \* what YES will call, FALSE if there is none
    calcModel,         \* the layout: an R47 one or the C47 one
    picked,            \* the layout picked since the start, or "none"
    file               \* the backup file, or NoFile

vars == <<pc, ram, calcMode, confirmedFunction, calcModel, picked, file>>

-----------------------------------------------------------------------------
(* The file. *)

(* The fields in the order saveCalc() writes them; "flags" and "tail" stand  *)
(* for the parameters that are no part of the pool, written before the       *)
(* registers and after the ram.                                              *)
Position ==
    [backupVersion |-> 1, ramSizeInBlocks |-> 2, freeRegionCount |-> 3,
     freeMemoryRegions |-> 4, allocatedRegionCount |-> 5, allocatedMemoryRegions |-> 6,
     flags |-> 7, globalRegister |-> 8, calcMode |-> 9, calcModel |-> 10,
     pointers |-> 11, ram |-> 12, tail |-> 13]
Length == 13

(* The fields that hold the calculator's state. *)
Fields == {"freeRegionCount", "freeMemoryRegions", "allocatedRegionCount",
           "allocatedMemoryRegions", "flags", "globalRegister", "pointers", "ram", "tail"}
(* ... those of several lines, that can be there in part. *)
Dumps == {"freeMemoryRegions", "allocatedMemoryRegions", "flags", "globalRegister",
          "pointers", "ram", "tail"}
(* ... those of which an older build writes some part in a form of its own: *)
(* system flags, menu numbers and long presses, GRAMOD in the ram, the      *)
(* ranges of a plot and the catalogue positions.                            *)
Reformatted == {"flags", "ram", "tail"}

(* A file is what a save writes, of which the first fields are there; torn:  *)
(* the next one is there in part.                                            *)
Image(v, size, fields, mode, model) ==
    [backupVersion |-> v, ramSizeInBlocks |-> size, fields |-> fields,
     calcMode |-> mode, calcModel |-> model]
File(image, length, torn) == [image |-> image, length |-> length, torn |-> torn]

Images ==
    [backupVersion : {"current", "older", "tooOld"}, ramSizeInBlocks : {"this", "other"},
     fields : [Fields -> States \cup OldForms \cup {Torn, OutOfRange}],
     calcMode : {"normal", "confirmation"}, calcModel : {"R47", "C47"}]
Files == [image : Images, length : 0..Length, torn : BOOLEAN]

ASSUME NoFileIsNone == NoFile \notin Files

AllOf(s) == [f \in Fields |-> s]

(* What a build whose files are accepted writes. *)
OldFieldsOf(s) == [f \in Fields |-> IF f \in Reformatted THEN OldForm(s) ELSE s]
OlderImage(fields) == Image("older", "this", fields, "normal", "R47")

Checked == {"freeRegionCount", "allocatedRegionCount", "pointers"}

(* What may be where the file is expected: none, one of another pool or of a *)
(* build too old, a damaged one, an older build's whole or cut off.          *)
Found(f) ==
    \/ f = NoFile
    \/ \E s \in States :
          \/ f = File(Image("tooOld", "this", OldFieldsOf(s), "normal", "R47"), Length, FALSE)
          \/ f = File(Image("current", "other", AllOf(s), "normal", "R47"), Length, FALSE)
    \/ \E s \in States, g \in Checked :
          \/ f = File(Image("current", "this", [AllOf(s) EXCEPT ![g] = OutOfRange],
                            "normal", "R47"), Length, FALSE)
          \/ f = File(OlderImage([OldFieldsOf(s) EXCEPT ![g] = OutOfRange]), Length, FALSE)
    \/ \E s \in States, n \in 0..Length, torn \in BOOLEAN :
          f = File(OlderImage(OldFieldsOf(s)), n, torn)

Whole(fields) == \E s \in States : fields = AllOf(s)

-----------------------------------------------------------------------------
(* restoreCalc(). *)

IsThere(f) == Position[f] <= file.length

(* Mutant: the ram is not converted. *)
MeaningButOfRam(f, i) ==
    IF i.backupVersion = "older" /\ f \in Reformatted \ {"ram"}
    THEN i.fields[f].older ELSE i.fields[f]

(* The state that a field of an image means: the conversions from builds    *)
(* before 1012 .. 1020 and 1023.                                            *)
Meaning(f, i) ==
    IF i.backupVersion = "older" /\ f \in Reformatted
    THEN i.fields[f].older ELSE i.fields[f]

(* restoreStateValue(): a parameter the file lacks keeps its value, one that *)
(* is there in part overwrites in part.                                      *)
RestoredField(f) ==
    IF IsThere(f) THEN Meaning(f, file.image)
    ELSE IF f \in Dumps /\ file.torn /\ Position[f] = file.length + 1
              /\ Meaning(f, file.image) # ResetState
         THEN Torn
         ELSE ResetState

RestoredFields == [f \in Fields |-> RestoredField(f)]

IncompatibleRam == ~IsThere("ramSizeInBlocks") \/ file.image.ramSizeInBlocks # "this"
TooOld == ~IsThere("backupVersion") \/ file.image.backupVersion = "tooOld"
UnusableCount ==
    \E f \in {"freeRegionCount", "allocatedRegionCount"} : RestoredFields[f] = OutOfRange

(* Mutant: the region counts are not looked at. *)
RefusedButNotForCounts == file = NoFile \/ IncompatibleRam \/ TooOld

(* The file is refused before anything of it is used. *)
Refused == file = NoFile \/ IncompatibleRam \/ TooOld \/ UnusableCount

(* Mutant: the pointers are used unchecked. *)
PointersUnchecked == TRUE

(* The pointers are checked when the ram and the tables are the file's. *)
PointersInRange == RestoredFields["pointers"] # OutOfRange

(* initNative: doFnReset(), and again in restoreCalc(), then the file's     *)
(* values; a file that lacks the layout gives the C47 one.                  *)
InitNative ==
    /\ pc = "off"
    /\ pc' = "on" /\ picked' = "none"
    /\ IF Refused \/ ~PointersInRange
       THEN /\ ram' = AllOf(ResetState)
            /\ calcMode' = "normal" /\ calcModel' = "R47"
       ELSE /\ ram' = RestoredFields
            /\ calcMode' = IF IsThere("calcMode") THEN file.image.calcMode ELSE "normal"
            /\ calcModel' = IF IsThere("calcModel") THEN file.image.calcModel ELSE "C47"
    /\ UNCHANGED <<confirmedFunction, file>>

-----------------------------------------------------------------------------
(* The calculator at work. *)

(* Keys that compute; a calculator built of several states is only reset. *)
Compute(s) ==
    /\ pc = "on" /\ calcMode = "normal"
    /\ Whole(ram) \/ s = ResetState
    /\ ram' = AllOf(s)
    /\ UNCHANGED <<pc, calcMode, confirmedFunction, calcModel, picked, file>>

SetConfirmationMode ==
    /\ pc = "on" /\ calcMode = "normal"
    /\ calcMode' = "confirmation" /\ confirmedFunction' = TRUE
    /\ UNCHANGED <<pc, ram, calcModel, picked, file>>

(* YES calls confirmedFunction, the reset for one. *)
FnConfirmationYes ==
    /\ pc = "on" /\ calcMode = "confirmation"
    /\ calcMode' = "normal"
    /\ \E s \in States : (Whole(ram) \/ s = ResetState) /\ ram' = AllOf(s)
    /\ UNCHANGED <<pc, confirmedFunction, calcModel, picked, file>>

FnConfirmationNo ==
    /\ pc = "on" /\ calcMode = "confirmation"
    /\ calcMode' = "normal"
    /\ UNCHANGED <<pc, ram, confirmedFunction, calcModel, picked, file>>

(* fnKeysManagement: the user picks a permanent layout. *)
FnKeysManagement(model) ==
    /\ pc = "on" /\ calcMode = "normal"
    /\ calcModel' = model /\ picked' = model
    /\ UNCHANGED <<pc, ram, calcMode, confirmedFunction, file>>

-----------------------------------------------------------------------------
(* saveCalc(). *)

(* Mutant: whatever the layout, the memory is saved. *)
AnyLayoutIsPermanent == TRUE

(* With a layout of another model nothing is saved. *)
LayoutIsPermanent == calcModel = "R47"

(* Mutant: the question is kept. *)
ModeToSaveAsItIs == calcMode

(* A question is dropped, its answer could not be carried over a restart. *)
ModeToSave == IF calcMode = "confirmation" THEN "normal" ELSE calcMode

(* Opening for writing empties the file. *)
SaveBegins ==
    /\ pc = "on" /\ LayoutIsPermanent
    /\ pc' = "saving"
    /\ calcMode' = ModeToSave
    /\ file' = File(Image("current", "this", ram, ModeToSave, calcModel), 0, FALSE)
    /\ UNCHANGED <<ram, confirmedFunction, calcModel, picked>>

SaveRefused ==
    /\ pc = "on" /\ ~LayoutIsPermanent
    /\ UNCHANGED vars

(* A file that cannot be opened ends the process. *)
SaveExits ==
    /\ pc = "on" /\ LayoutIsPermanent
    /\ pc' = "off" /\ confirmedFunction' = FALSE
    /\ UNCHANGED <<ram, calcMode, calcModel, picked, file>>

SaveStateValue ==
    /\ pc = "saving" /\ file.length < Length
    /\ file' = [file EXCEPT !.length = @ + 1]
    /\ UNCHANGED <<pc, ram, calcMode, confirmedFunction, calcModel, picked>>

SaveEnds ==
    /\ pc = "saving" /\ file.length = Length
    /\ pc' = "on"
    /\ UNCHANGED <<ram, calcMode, confirmedFunction, calcModel, picked, file>>

(* The disk is full: ioFileWrite() ignores that fwrite() wrote less. *)
DiskFull ==
    /\ pc = "saving" /\ file.length < Length
    /\ pc' = "on"
    /\ file' \in {file, [file EXCEPT !.torn = TRUE]}
    /\ UNCHANGED <<ram, calcMode, confirmedFunction, calcModel, picked>>

-----------------------------------------------------------------------------
(* The end of the process. *)

(* What a death leaves of the file: what had been flushed. *)
Killed ==
    /\ pc # "off"
    /\ pc' = "off" /\ confirmedFunction' = FALSE
    /\ \/ file' = file
       \/ pc = "saving" /\ file.length < Length /\ file' = [file EXCEPT !.torn = TRUE]
    /\ UNCHANGED <<ram, calcMode, calcModel, picked>>

(* The core is stopped between tasks and will be initialised again, in the *)
(* same process (NativeCoreRuntime.dispose).                               *)
Disposed ==
    /\ pc = "on"
    /\ pc' = "off"
    /\ UNCHANGED <<ram, calcMode, confirmedFunction, calcModel, picked, file>>

(* A factory reset also deletes the application's files. *)
ClearInternalAppData ==
    /\ pc # "off"
    /\ pc' = "off" /\ file' = NoFile
    /\ UNCHANGED <<ram, calcMode, confirmedFunction, calcModel, picked>>

Init ==
    /\ pc = "off"
    /\ ram = AllOf(ResetState)
    /\ calcMode = "normal" /\ confirmedFunction = FALSE
    /\ calcModel = "R47" /\ picked = "none"
    /\ Found(file)

Next ==
    \/ InitNative
    \/ \E s \in States : Compute(s)
    \/ SetConfirmationMode \/ FnConfirmationYes \/ FnConfirmationNo
    \/ \E m \in {"R47", "C47"} : FnKeysManagement(m)
    \/ SaveBegins \/ SaveRefused \/ SaveExits \/ SaveStateValue \/ SaveEnds \/ DiskFull
    \/ Killed \/ Disposed \/ ClearInternalAppData

Spec == Init /\ [][Next]_vars

-----------------------------------------------------------------------------
(* Properties. *)

(* While a save goes on the file is the memory of now, and the calculator  *)
(* never works with a count or a pointer out of range (restoreCalc).       *)
TypeOK ==
    /\ pc \in {"off", "on", "saving"}
    /\ ram \in [Fields -> States \cup {Torn}]
    /\ calcMode \in {"normal", "confirmation"}
    /\ confirmedFunction \in BOOLEAN
    /\ calcModel \in {"R47", "C47"}
    /\ picked \in {"none", "R47", "C47"}
    /\ file \in Files \cup {NoFile}
    /\ pc = "saving" => file # NoFile /\ ~file.torn

(* A calculator that asks for a confirmation has something to do when the  *)
(* answer is YES: no question comes back from the file after the function  *)
(* it was about has gone with the process (saveCalc, fnConfirmationYes).   *)
QuestionHasItsFunction ==
    pc # "off" /\ calcMode = "confirmation" => confirmedFunction

(* The calculator has the layout for which saves are refused only when the *)
(* user picked it, or when it came from a file of which the end is missing *)
(* (saveCalc, restoreCalc).                                                *)
SavesRefusedForAReason ==
    pc # "off" /\ calcModel = "C47" =>
        \/ picked = calcModel
        \/ picked = "none" /\ file # NoFile /\ file.length < Length

Damaged(f) ==
    f # NoFile =>
        \/ f.length < 2
        \/ f.image.ramSizeInBlocks # "this" \/ f.image.backupVersion = "tooOld"
        \/ \E p \in Checked : f.image.fields[p] = OutOfRange
(* A file that is cut off before its sizes, is of a build before 1011 or   *)
(* of another size of ram, or has a count or a pointer of some other pool, *)
(* leaves the calculator that doFnReset() builds and nothing of the file,  *)
(* however much of it had been read and converted by then (restoreCalc).   *)
RefusedFileIsNotUsed ==
    [][InitNative /\ Damaged(file) => ram' = AllOf(ResetState) /\ calcModel' = "R47"]_vars

(* The memory is durable but for the time the file is being written, from  *)
(* an older build to this one as well.  saveCalc, restoreCalc.             *)
Content(fields) ==
    IF \E s \in States : fields = AllOf(s) THEN fields["ram"] ELSE Lost
MeantBy(i) == [f \in Fields |-> IF i.backupVersion = "older" /\ f \in Reformatted
                                THEN i.fields[f].older ELSE i.fields[f]]
Stored ==
    IF file = NoFile THEN Nothing
    ELSE IF file.length = Length /\ file.image.ramSizeInBlocks = "this"
              /\ file.image.backupVersion # "tooOld"
         THEN Content(MeantBy(file.image))
         ELSE Lost
Store == INSTANCE Durable WITH
    memory <- IF pc = "off" THEN Gone ELSE Content(ram),
    stored <- Stored
StoresDurably == Store!DurableSpec
=============================================================================

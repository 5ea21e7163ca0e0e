---------------------------- MODULE BackupProofs -----------------------------
(***************************************************************************)
(* Theorems about Backup, for any set of states of the calculator.         *)
(***************************************************************************)
EXTENDS Backup, TLAPS

(* An older build's forms are in its own images, where they are due.        *)
FormsOf(i) ==
    i.backupVersion # "tooOld" =>
        \A f \in Fields : i.fields[f] \in OldForms
                          <=> i.backupVersion = "older" /\ f \in Reformatted

(* What is true of every file there may be: only what is checked can be out *)
(* of range, and only in a file that no save has begun to write; nothing    *)
(* but the layout of this model and no question is saved.                   *)
FileInv ==
    file # NoFile =>
        /\ \A f \in Fields :
              file.image.fields[f] = OutOfRange => f \in Checked /\ file.length = Length
        /\ FormsOf(file.image)
        /\ file.image.calcMode = "normal" /\ file.image.calcModel = "R47"

(* A file that is being written is the memory of now. *)
SavingInv ==
    pc = "saving" =>
        /\ file # NoFile
        /\ file.image.fields = ram
        /\ file.image.backupVersion = "current" /\ file.image.ramSizeInBlocks = "this"
        /\ calcModel = "R47"

Inv == TypeOK /\ FileInv /\ SavingInv /\ QuestionHasItsFunction /\ SavesRefusedForAReason

-----------------------------------------------------------------------------
(* Fields, images and files. *)

LEMMA Positions ==
    /\ \A f \in Fields : Position[f] \in 1..Length
    /\ Position["backupVersion"] = 1 /\ Position["ramSizeInBlocks"] = 2
    /\ Position["calcModel"] \in 1..Length /\ Position["calcMode"] \in 1..Length
    /\ Checked \subseteq Fields /\ Checked \cap Reformatted = {} /\ Dumps \subseteq Fields /\ "ram" \in Fields
<1>1. \A f \in Fields : Position[f] \in 1..Length
  <2> TAKE f \in Fields
  <2>1. \/ f = "freeRegionCount" \/ f = "freeMemoryRegions" \/ f = "allocatedRegionCount"
        \/ f = "allocatedMemoryRegions" \/ f = "flags" \/ f = "globalRegister"
        \/ f = "pointers" \/ f = "ram" \/ f = "tail"
    BY DEF Fields
  <2> QED BY <2>1, SMT DEF Position, Length
<1> QED BY <1>1, SMT DEF Position, Length, Checked, Reformatted, Dumps, Fields

LEMMA AllOfAField ==
    ASSUME NEW s
    PROVE  /\ AllOf(s) = [f \in Fields |-> s]
           /\ \A f \in Fields : AllOf(s)[f] = s
           /\ \A T : s \in T => AllOf(s) \in [Fields -> T]
BY DEF AllOf

(* Content names the state a whole memory belongs to. *)
LEMMA ContentOf ==
    ASSUME NEW fields
    PROVE  /\ \A s \in States : fields = AllOf(s) => Content(fields) = s
           /\ Content(fields) \in States \cup {Lost}
           /\ Content(fields) \in States => fields = AllOf(Content(fields))
<1>1. \A s \in States : fields = AllOf(s) => fields["ram"] = s
  BY AllOfAField, Positions
<1> QED BY <1>1, Distinct DEF Content

LEMMA SavedImage ==
    ASSUME ram \in [Fields -> States \cup {Torn}],
           calcModel \in {"R47", "C47"}, NEW mode \in {"normal", "confirmation"}
    PROVE  /\ Image("current", "this", ram, mode, calcModel) \in Images
           /\ File(Image("current", "this", ram, mode, calcModel), 0, FALSE) \in Files
<1>1. Image("current", "this", ram, mode, calcModel) \in Images
  BY DEF Image, Images
<1> QED BY <1>1, Positions DEF File, Files, Length

(* What an older build writes, and what it means. *)
LEMMA OldFieldsMean ==
    ASSUME NEW s \in States
    PROVE  /\ OldFieldsOf(s) = [f \in Fields |-> OldFieldsOf(s)[f]]
           /\ \A f \in Fields : OldFieldsOf(s)[f] \in States \cup OldForms
           /\ \A f \in Fields : OldFieldsOf(s)[f] \in OldForms <=> f \in Reformatted
           /\ \A f \in Fields : OldFieldsOf(s)[f] # OutOfRange
<1>1. \A f \in Fields : OldFieldsOf(s)[f] = IF f \in Reformatted THEN OldForm(s) ELSE s
  BY DEF OldFieldsOf
<1>2. OldForm(s) \in OldForms /\ s \notin OldForms /\ s # OutOfRange /\ OutOfRange \notin OldForms
  BY OldFormsDiffer, Distinct DEF OldForms
<1>3. OldFieldsOf(s) = [f \in Fields |-> OldFieldsOf(s)[f]]
  BY DEF OldFieldsOf
<1>4. \A f \in Fields : OldFieldsOf(s)[f] \in States \cup OldForms
  BY <1>1, <1>2
<1>5. \A f \in Fields : OldFieldsOf(s)[f] \in OldForms <=> f \in Reformatted
  BY <1>1, <1>2
<1>6. \A f \in Fields : OldFieldsOf(s)[f] # OutOfRange
  BY <1>4, <1>2, Distinct
<1> QED BY <1>3, <1>4, <1>5, <1>6

(* A file whose fields are all well formed but for one that is checked. *)
LEMMA FileOfImage ==
    ASSUME NEW v \in {"current", "older", "tooOld"}, NEW size \in {"this", "other"},
           NEW fields, fields = [f \in Fields |-> fields[f]],
           \A f \in Fields : fields[f] \in States \cup OldForms \cup {Torn, OutOfRange},
           v # "tooOld" => \A f \in Fields :
                               fields[f] \in OldForms <=> v = "older" /\ f \in Reformatted,
           NEW n \in 0..Length, NEW torn \in BOOLEAN,
           \A f \in Fields : fields[f] = OutOfRange => f \in Checked /\ n = Length,
           file = File(Image(v, size, fields, "normal", "R47"), n, torn)
    PROVE  file \in Files /\ FileInv
<1> DEFINE i == Image(v, size, fields, "normal", "R47")
<1>1. fields \in [Fields -> States \cup OldForms \cup {Torn, OutOfRange}]
  OBVIOUS
<1>2. /\ i.calcMode = "normal" /\ i.calcModel = "R47"
      /\ i.backupVersion = v /\ i.ramSizeInBlocks = size /\ i.fields = fields
  BY DEF Image
<1>3. i \in Images
  BY <1>1 DEF Image, Images
<1> HIDE DEF i
<1>4. file.image = i /\ file.length = n /\ file \in Files
  <2>1. file = File(i, n, torn)
    BY DEF i
  <2> QED BY <1>3, <2>1 DEF File, Files
<1>5. FormsOf(i)
  BY <1>2 DEF FormsOf
<1> QED BY <1>2, <1>4, <1>5 DEF FileInv

(* Another build's file, or a damaged one, is a file like any other. *)
LEMMA Foreign ==
    ASSUME Found(file), file # NoFile
    PROVE  file \in Files /\ FileInv
<1>6. Length \in 0..Length /\ FALSE \in BOOLEAN
  BY DEF Length
<1>0. /\ OutOfRange \notin OldForms
      /\ \A s \in States : /\ s \notin OldForms /\ s # OutOfRange
                            /\ AllOf(s) = [f \in Fields |-> AllOf(s)[f]]
                            /\ \A f \in Fields : AllOf(s)[f] = s
  BY AllOfAField, OldFormsDiffer, Distinct
<1>1. ASSUME NEW s \in States,
             file = File(Image("tooOld", "this", OldFieldsOf(s), "normal", "R47"), Length, FALSE)
      PROVE  file \in Files /\ FileInv
  <2> DEFINE fields == OldFieldsOf(s)
  <2>1. /\ file = File(Image("tooOld", "this", fields, "normal", "R47"), Length, FALSE)
        /\ fields = [f \in Fields |-> fields[f]]
        /\ \A f \in Fields : fields[f] \in States \cup OldForms /\ fields[f] # OutOfRange
    BY <1>1, OldFieldsMean
  <2> HIDE DEF fields
  <2> QED BY <1>6, <2>1, FileOfImage
<1>2. ASSUME NEW s \in States,
             file = File(Image("current", "other", AllOf(s), "normal", "R47"), Length, FALSE)
      PROVE  file \in Files /\ FileInv
  <2> DEFINE fields == AllOf(s)
  <2>1. /\ file = File(Image("current", "other", fields, "normal", "R47"), Length, FALSE)
        /\ fields = [f \in Fields |-> fields[f]]
        /\ \A f \in Fields : fields[f] \in States /\ fields[f] \notin OldForms
        /\ \A f \in Fields : fields[f] # OutOfRange
    BY <1>0, <1>2
  <2> HIDE DEF fields
  <2> QED BY <1>6, <2>1, FileOfImage
<1>3. ASSUME NEW s \in States, NEW g \in Checked,
             file = File(Image("current", "this", [AllOf(s) EXCEPT ![g] = OutOfRange],
                               "normal", "R47"), Length, FALSE)
      PROVE  file \in Files /\ FileInv
  <2> DEFINE bad == [AllOf(s) EXCEPT ![g] = OutOfRange]
  <2>1. bad = [f \in Fields |-> IF f = g THEN OutOfRange ELSE s]
    BY <1>0
  <2>2. file = File(Image("current", "this", bad, "normal", "R47"), Length, FALSE)
    BY <1>3
  <2> HIDE DEF bad
  <2>3. \A f \in Fields : bad[f] \in States \cup {OutOfRange} /\ bad[f] \notin OldForms
    BY <1>0, <2>1
  <2>4. \A f \in Fields : bad[f] = OutOfRange => f \in Checked
    BY <1>0, <2>1
  <2>5. bad = [f \in Fields |-> bad[f]]
    BY <2>1
  <2> QED BY <1>6, <2>2, <2>3, <2>4, <2>5, FileOfImage
<1>4. ASSUME NEW s \in States, NEW g \in Checked,
             file = File(OlderImage([OldFieldsOf(s) EXCEPT ![g] = OutOfRange]), Length, FALSE)
      PROVE  file \in Files /\ FileInv
  <2> DEFINE bad == [OldFieldsOf(s) EXCEPT ![g] = OutOfRange]
  <2>1. bad = [f \in Fields |-> IF f = g THEN OutOfRange ELSE OldFieldsOf(s)[f]]
    BY OldFieldsMean
  <2>2. file = File(Image("older", "this", bad, "normal", "R47"), Length, FALSE)
    BY <1>4 DEF OlderImage
  <2> HIDE DEF bad
  <2>3. g \in Fields /\ g \notin Reformatted
    BY Positions
  <2>4. \A f \in Fields : bad[f] \in States \cup OldForms \cup {OutOfRange}
    BY <2>1, OldFieldsMean
  <2>5. \A f \in Fields : bad[f] \in OldForms <=> f \in Reformatted
    BY <1>0, <2>1, <2>3, OldFieldsMean
  <2>6. \A f \in Fields : bad[f] = OutOfRange => f \in Checked
    BY <2>1, OldFieldsMean
  <2>7. bad = [f \in Fields |-> bad[f]]
    BY <2>1
  <2> QED BY <1>6, <2>2, <2>4, <2>5, <2>6, <2>7, FileOfImage
<1>5. ASSUME NEW s \in States, NEW n \in 0..Length, NEW torn \in BOOLEAN,
             file = File(OlderImage(OldFieldsOf(s)), n, torn)
      PROVE  file \in Files /\ FileInv
  BY <1>5, OldFieldsMean, FileOfImage DEF OlderImage
<1> QED BY <1>1, <1>2, <1>3, <1>4, <1>5 DEF Found

-----------------------------------------------------------------------------
(* restoreCalc(). *)

(* A field means a state, or is as it was read. *)
LEMMA MeaningType ==
    ASSUME NEW i \in Images, FormsOf(i), i.backupVersion # "tooOld", NEW f \in Fields
    PROVE  /\ Meaning(f, i) \in States \cup {Torn, OutOfRange}
           /\ Meaning(f, i) = OutOfRange => i.fields[f] = OutOfRange
           /\ f \notin Reformatted => Meaning(f, i) = i.fields[f]
<1>1. i.fields[f] \in States \cup OldForms \cup {Torn, OutOfRange}
  BY DEF Images
<1>2. CASE i.backupVersion = "older" /\ f \in Reformatted
  <2>1. PICK s \in States : i.fields[f] = OldForm(s)
    BY <1>2 DEF FormsOf, OldForms
  <2>2. Meaning(f, i) = s
    BY <1>2, <2>1 DEF Meaning, OldForm
  <2> QED BY <1>2, <2>2, Distinct
<1>3. CASE ~(i.backupVersion = "older" /\ f \in Reformatted)
  <2>1. i.fields[f] \notin OldForms /\ Meaning(f, i) = i.fields[f]
    BY <1>3 DEF FormsOf, Meaning
  <2> QED BY <1>1, <2>1
<1> QED BY <1>2, <1>3

(* What a file that is used gives: no count and no pointer out of range.    *)
LEMMA RestoredType ==
    ASSUME file \in Files, FileInv, ~Refused, PointersInRange
    PROVE  RestoredFields \in [Fields -> States \cup {Torn}]
<1>1. /\ file.image \in Images /\ file # NoFile /\ FormsOf(file.image)
      /\ file.image.backupVersion # "tooOld"
  BY NoFileIsNone DEF Files, FileInv, Refused, TooOld
<1>2. \A f \in Fields : RestoredFields[f] = RestoredField(f)
  BY DEF RestoredFields
<1>3. \A f \in Fields : RestoredField(f) \in States \cup {Torn, OutOfRange}
  BY <1>1, MeaningType, ResetIsAState DEF RestoredField
<1>4. \A f \in Fields : RestoredField(f) = OutOfRange => f \in Checked
  BY <1>1, MeaningType, ResetIsAState, Distinct DEF RestoredField, FileInv
<1>5. \A f \in Checked : RestoredFields[f] # OutOfRange
  BY DEF Refused, UnusableCount, PointersInRange, Checked
<1>6. \A f \in Fields : RestoredFields[f] \in States \cup {Torn}
  BY <1>2, <1>3, <1>4, <1>5
<1> QED BY <1>6 DEF RestoredFields

(* A whole file of this build or of an older one gives back the state it is *)
(* of.                                                                      *)
LEMMA WholeFile ==
    ASSUME file \in Files, file.length = Length,
           file.image.ramSizeInBlocks = "this", file.image.backupVersion # "tooOld",
           NEW s \in States, MeantBy(file.image) = AllOf(s)
    PROVE  ~Refused /\ PointersInRange /\ RestoredFields = AllOf(s)
<1>1. \A f \in Fields : IsThere(f)
  BY Positions DEF IsThere, Length
<1>2. \A f \in Fields : Meaning(f, file.image) = s
  <2> TAKE f \in Fields
  <2>1. MeantBy(file.image)[f] = Meaning(f, file.image)
    BY DEF MeantBy, Meaning
  <2> QED BY <2>1, AllOfAField
<1>3. RestoredFields = AllOf(s)
  BY <1>1, <1>2 DEF RestoredFields, RestoredField, AllOf
<1>4. \A f \in Checked : RestoredFields[f] # OutOfRange
  BY <1>3, AllOfAField, Positions, Distinct
<1>5. ~UnusableCount /\ PointersInRange
  BY <1>4 DEF UnusableCount, PointersInRange, Checked
<1>6. ~IncompatibleRam /\ ~TooOld
  BY Positions DEF IncompatibleRam, TooOld, IsThere, Length
<1> QED BY <1>3, <1>5, <1>6, NoFileIsNone DEF Refused

-----------------------------------------------------------------------------
(* The invariant. *)

LEMMA InitInv == Init => Inv
<1> SUFFICES ASSUME Init PROVE Inv
  OBVIOUS
<1>1. ram \in [Fields -> States \cup {Torn}]
  BY AllOfAField, ResetIsAState DEF Init
<1>2. file \in Files \cup {NoFile} /\ FileInv
  <2>1. CASE file = NoFile
    BY <2>1 DEF FileInv
  <2>2. CASE file # NoFile
    BY <2>2, Foreign DEF Init
  <2> QED BY <2>1, <2>2
<1> QED BY <1>1, <1>2 DEF Init, Inv, TypeOK, SavingInv, QuestionHasItsFunction,
           SavesRefusedForAReason

(* A start uses what is in the file, or nothing of it. *)
LEMMA InitNativeInv == Inv /\ InitNative => Inv'
<1> SUFFICES ASSUME Inv, InitNative PROVE Inv'
  OBVIOUS
<1> USE DEF Inv, InitNative
<1>1. file \in Files \cup {NoFile} /\ FileInv' /\ file' = file /\ pc' = "on"
  BY DEF TypeOK, FileInv
<1>2. CASE Refused \/ ~PointersInRange
  <2>1. ram' \in [Fields -> States \cup {Torn}]
    BY <1>2, AllOfAField, ResetIsAState
  <2> QED BY <1>1, <1>2, <2>1 DEF TypeOK, SavingInv, QuestionHasItsFunction, SavesRefusedForAReason
<1>3. CASE ~Refused /\ PointersInRange
  <2>1. file \in Files /\ file # NoFile
    BY <1>1, <1>3 DEF Refused
  <2>2. ram' \in [Fields -> States \cup {Torn}]
    BY <1>3, <2>1, RestoredType
  <2>3. calcMode' = "normal" /\ file.image.calcModel = "R47"
    BY <1>3, <2>1 DEF FileInv
  <2>4. calcModel' = IF Position["calcModel"] <= file.length THEN "R47" ELSE "C47"
    BY <1>3, <2>3 DEF IsThere
  <2>5. file.length \in 0..Length /\ Position["calcModel"] \in 1..Length
    BY <2>1, Positions DEF Files
  <2>6. calcModel' = "C47" => file.length < Length
    BY <2>4, <2>5 DEF Length
  <2>7. SavesRefusedForAReason'
    BY <1>1, <2>1, <2>6 DEF SavesRefusedForAReason
  <2> QED BY <1>1, <2>2, <2>3, <2>4, <2>7 DEF TypeOK, SavingInv, QuestionHasItsFunction
<1> QED BY <1>2, <1>3

(* The steps of a save. *)
LEMMA SaveInv ==
    ASSUME Inv, SaveBegins \/ SaveStateValue \/ SaveEnds \/ DiskFull
    PROVE  Inv'
<1> USE DEF Inv
<1>1. CASE SaveBegins
  <2>1. /\ ModeToSave = "normal"
        /\ ram \in [Fields -> States \cup {Torn}] /\ calcModel = "R47"
    BY <1>1 DEF TypeOK, SaveBegins, ModeToSave, LayoutIsPermanent
  <2>2. /\ file' = File(Image("current", "this", ram, "normal", "R47"), 0, FALSE)
        /\ file' \in Files /\ ram' = ram
    BY <1>1, <2>1, SavedImage DEF SaveBegins
  <2>3. /\ file'.image.fields = ram /\ file'.image.calcMode = "normal"
        /\ file'.image.calcModel = "R47" /\ file'.image.backupVersion = "current"
        /\ file'.image.ramSizeInBlocks = "this" /\ file'.torn = FALSE
    BY <2>2 DEF File, Image
  <2>4. FileInv'
    BY <2>1, <2>3, Distinct, OldFormsDiffer DEF FileInv, FormsOf
  <2> QED BY <1>1, <2>1, <2>2, <2>3, <2>4, NoFileIsNone
      DEF SaveBegins, TypeOK, SavingInv, QuestionHasItsFunction, SavesRefusedForAReason
<1>2. CASE SaveStateValue
  <2>1. file \in Files /\ file.length < Length
    BY <1>2, NoFileIsNone DEF SaveStateValue, TypeOK, SavingInv
  <2>2. file' \in Files /\ file'.image = file.image /\ file'.torn = file.torn
    BY <1>2, <2>1 DEF SaveStateValue, Files, Length
  <2>3. file # NoFile /\ file' # NoFile
    BY <2>1, <2>2, NoFileIsNone
  <2>4. \A f \in Fields : file'.image.fields[f] # OutOfRange
    BY <1>2, <2>2, Distinct DEF SaveStateValue, SavingInv, TypeOK
  <2> QED BY <1>2, <2>2, <2>3, <2>4 DEF SaveStateValue, TypeOK, FileInv, SavingInv,
         QuestionHasItsFunction, SavesRefusedForAReason
<1>3. CASE SaveEnds
  BY <1>3 DEF SaveEnds, TypeOK, FileInv, SavingInv, QuestionHasItsFunction, SavesRefusedForAReason
<1>4. CASE DiskFull
  <2>1. file \in Files /\ file # NoFile
    BY <1>4, NoFileIsNone DEF DiskFull, TypeOK, SavingInv
  <2>2. file' \in Files /\ file'.image = file.image /\ file'.length = file.length
    BY <1>4, <2>1 DEF DiskFull, Files
  <2>3. file' # NoFile
    BY <2>2, NoFileIsNone
  <2> QED BY <1>4, <2>1, <2>2, <2>3 DEF DiskFull, TypeOK, FileInv, SavingInv,
         QuestionHasItsFunction, SavesRefusedForAReason
<1> QED BY <1>1, <1>2, <1>3, <1>4

(* The calculator at work, and the end of the process. *)
LEMMA WorkInv ==
    ASSUME Inv,
           \/ \E s \in States : Compute(s)
           \/ SetConfirmationMode \/ FnConfirmationYes \/ FnConfirmationNo
           \/ \E m \in {"R47", "C47"} : FnKeysManagement(m)
           \/ SaveRefused \/ SaveExits \/ Killed \/ Disposed \/ ClearInternalAppData
    PROVE  Inv'
<1> USE DEF Inv
<1> USE DEF TypeOK, FileInv, SavingInv, QuestionHasItsFunction, SavesRefusedForAReason
<1>0. \A s \in States : AllOf(s) \in [Fields -> States \cup {Torn}]
  BY AllOfAField
<1>1. CASE \E s \in States : Compute(s)
  BY <1>0, <1>1 DEF Compute
<1>2. CASE SetConfirmationMode
  BY <1>2 DEF SetConfirmationMode
<1>3. CASE FnConfirmationYes
  BY <1>0, <1>3 DEF FnConfirmationYes
<1>4. CASE FnConfirmationNo
  BY <1>4 DEF FnConfirmationNo
<1>5. CASE \E m \in {"R47", "C47"} : FnKeysManagement(m)
  BY <1>5 DEF FnKeysManagement
<1>6. CASE SaveRefused
  BY <1>6 DEF SaveRefused, vars
<1>7. CASE SaveExits
  BY <1>7 DEF SaveExits
<1>8. CASE Killed
  <2>1. CASE file' = file
    BY <1>8, <2>1 DEF Killed
  <2>2. CASE pc = "saving" /\ file' = [file EXCEPT !.torn = TRUE]
    <3>1. /\ file \in Files /\ file' \in Files
          /\ file'.image = file.image /\ file'.length = file.length
      BY <2>2, NoFileIsNone DEF Files
    <3>2. file # NoFile /\ file' # NoFile
      BY <3>1, NoFileIsNone
    <3> QED BY <1>8, <3>1, <3>2 DEF Killed
  <2> QED BY <1>8, <2>1, <2>2 DEF Killed
<1>9. CASE Disposed
  BY <1>9 DEF Disposed
<1>10. CASE ClearInternalAppData
  BY <1>10 DEF ClearInternalAppData
<1> QED BY <1>1, <1>2, <1>3, <1>4, <1>5, <1>6, <1>7, <1>8, <1>9, <1>10

LEMMA NextInv == Inv /\ [Next]_vars => Inv'
<1> SUFFICES ASSUME Inv, [Next]_vars PROVE Inv'
  OBVIOUS
<1>1. CASE Next
  BY <1>1, InitNativeInv, SaveInv, WorkInv DEF Next
<1>2. CASE UNCHANGED vars
  BY <1>2 DEF vars, Inv, TypeOK, FileInv, SavingInv, QuestionHasItsFunction,
         SavesRefusedForAReason
<1> QED BY <1>1, <1>2

LEMMA AlwaysInv == Spec => []Inv
<1> QED BY InitInv, NextInv, PTL DEF Spec

-----------------------------------------------------------------------------
(* Theorems. *)

(* The calculator's fields, the file and the steps of a save are well      *)
(* formed: nothing out of range is ever in use, whatever file is found     *)
(* (restoreCalc).                                                          *)
THEOREM TypeCorrect == Spec => []TypeOK
<1>1. Inv => TypeOK
  BY DEF Inv
<1> QED BY <1>1, AlwaysInv, PTL

(* A question on the display can always be answered (saveCalc).            *)
THEOREM QuestionsCanBeAnswered == Spec => []QuestionHasItsFunction
<1>1. Inv => QuestionHasItsFunction
  BY DEF Inv
<1> QED BY <1>1, AlwaysInv, PTL

(* Saves are refused for a layout the user picked, or after a file that    *)
(* was cut off before the layout (saveCalc, restoreCalc).                  *)
THEOREM RefusalsHaveAReason == Spec => []SavesRefusedForAReason
<1>1. Inv => SavesRefusedForAReason
  BY DEF Inv
<1> QED BY <1>1, AlwaysInv, PTL

(* A file of a build before 1011, of another pool or with a count or a     *)
(* pointer out of range is refused, early or when much of it is in place   *)
(* and converted, and leaves the calculator reset (restoreCalc).           *)
THEOREM RefusedFileLeavesReset == Spec => RefusedFileIsNotUsed
<1>1. ASSUME Inv, InitNative, Damaged(file)
      PROVE  ram' = AllOf(ResetState) /\ calcModel' = "R47"
  <2>1. CASE file = NoFile
    BY <1>1, <2>1 DEF InitNative, Refused
  <2>2. CASE file # NoFile
    <3>1. file \in Files
      BY <1>1, <2>2 DEF Inv, TypeOK
    <3>2. CASE file.length < 2
      <4>1. ~IsThere("ramSizeInBlocks")
        BY <3>1, <3>2, Positions DEF IsThere, Files, Length
      <4> QED BY <1>1, <4>1 DEF InitNative, Refused, IncompatibleRam
    <3>3. CASE file.image.ramSizeInBlocks # "this"
      BY <1>1, <3>3 DEF InitNative, Refused, IncompatibleRam
    <3>4. CASE file.image.backupVersion = "tooOld"
      BY <1>1, <3>4 DEF InitNative, Refused, TooOld
    <3>5. CASE \E p \in Checked : file.image.fields[p] = OutOfRange
      <4>1. PICK p \in Checked : file.image.fields[p] = OutOfRange
        BY <3>5
      <4>2. p \in Fields /\ file.length = Length
        BY <1>1, <2>2, <4>1, Positions DEF Inv, FileInv
      <4>0. Meaning(p, file.image) = OutOfRange
        BY <4>1, Positions DEF Meaning
      <4>3. RestoredFields[p] = OutOfRange
        BY <4>0, <4>2, Positions DEF RestoredFields, RestoredField, IsThere, Length
      <4>4. UnusableCount \/ ~PointersInRange
        BY <4>3 DEF UnusableCount, PointersInRange, Checked
      <4> QED BY <1>1, <4>4 DEF InitNative, Refused
    <3> QED BY <1>1, <2>2, <3>2, <3>3, <3>4, <3>5 DEF Damaged
  <2> QED BY <2>1, <2>2
<1>2. Inv /\ [Next]_vars =>
        [InitNative /\ Damaged(file) => ram' = AllOf(ResetState) /\ calcModel' = "R47"]_vars
  BY <1>1
<1> QED BY <1>2, AlwaysInv, PTL DEF Spec, RefusedFileIsNotUsed

-----------------------------------------------------------------------------
(* The file keeps the memory. *)

Memory == IF pc = "off" THEN Gone ELSE Content(ram)

LEMMA StoredType == Stored \in States \cup {Nothing, Lost}
BY ContentOf DEF Stored

(* A start, from a file that keeps a state, from none, or from what is lost. *)
LEMMA InitNativeBegins == Inv /\ InitNative => Store!Begin
<1> SUFFICES ASSUME Inv, InitNative PROVE Store!Begin
  OBVIOUS
<1>1. Memory = Gone /\ Memory' = Content(ram') /\ Stored' = Stored
  BY DEF InitNative, Memory, Stored, Content
<1>2. Content(ram') \in States \cup {Lost}
  BY ContentOf
<1>3. CASE Stored = Nothing
  <2>1. file = NoFile
    BY <1>3, ContentOf, Distinct DEF Stored
  <2>2. ram' = AllOf(ResetState)
    BY <2>1 DEF InitNative, Refused
  <2>3. Content(ram') = ResetState
    BY <2>2, ContentOf, ResetIsAState
  <2> QED BY <1>1, <1>3, <2>3 DEF Store!Begin, Memory
<1>4. CASE Stored \in States
  <2>1. /\ file # NoFile /\ file.length = Length
        /\ file.image.ramSizeInBlocks = "this" /\ file.image.backupVersion # "tooOld"
        /\ Stored = Content(MeantBy(file.image))
    BY <1>4, Distinct DEF Stored
  <2>2. file \in Files /\ MeantBy(file.image) = AllOf(Stored)
    BY <1>4, <2>1, ContentOf DEF Inv, TypeOK
  <2>3. ram' = AllOf(Stored)
    BY <1>4, <2>1, <2>2, WholeFile DEF InitNative
  <2>4. Content(ram') = Stored
    BY <1>4, <2>3, ContentOf
  <2> QED BY <1>1, <1>4, <2>4 DEF Store!Begin, Memory
<1>5. CASE Stored = Lost
  BY <1>1, <1>2, <1>5 DEF Store!Begin, Memory
<1> QED BY <1>3, <1>4, <1>5, StoredType

(* What changes the memory and leaves the file alone. *)
LEMMA ChangeOfMemory ==
    ASSUME NEW s \in States, pc = "on", pc' = "on", file' = file,
           Whole(ram) \/ s = ResetState, ram' = AllOf(s)
    PROVE  Store!Change(s)
<1>1. Memory = Content(ram) /\ Memory' = s /\ Stored' = Stored
  BY ContentOf DEF Memory, Content, Stored
<1>2. Memory \in States \/ (Memory = Lost /\ s = ResetState)
  BY <1>1, ContentOf DEF Whole
<1> QED BY <1>1, <1>2 DEF Store!Change, Memory

(* A save first loses what was stored and stores the memory at its end. *)
LEMMA SaveStores ==
    ASSUME Inv, SaveBegins \/ SaveStateValue \/ SaveEnds \/ DiskFull
    PROVE  Store!Rewrite \/ Store!Store \/ (Memory' = Memory /\ Stored' = Stored)
<1>1. /\ pc # "off" /\ pc' # "off" /\ ram' = ram
      /\ Memory' = Memory /\ Memory = Content(ram) /\ Memory # Gone
  BY ContentOf, Distinct
     DEF SaveBegins, SaveStateValue, SaveEnds, DiskFull, Memory, Content
<1>2. CASE SaveBegins
  <2>1. file'.length = 0
    BY <1>2 DEF SaveBegins, File
  <2>2. file' # NoFile
    BY <1>2, SaveInv, NoFileIsNone DEF Inv, SavingInv, SaveBegins
  <2>3. Stored' = Lost
    BY <2>1, <2>2 DEF Stored, Length
  <2> QED BY <1>1, <2>3 DEF Store!Rewrite, Memory
<1>3. CASE SaveStateValue
  <2>1. file \in Files /\ file # NoFile
    BY <1>3, NoFileIsNone DEF SaveStateValue, Inv, TypeOK, SavingInv
  <2>2. /\ file' \in Files /\ file'.image = file.image
        /\ file'.length = file.length + 1
    BY <1>3, <2>1 DEF SaveStateValue, Files, Length
  <2>3. Stored = Lost
    BY <1>3, <2>1 DEF Stored, SaveStateValue, Files, Length
  <2>4. CASE file'.length = Length
    <3>0. MeantBy(file.image) = ram
      <4>1. /\ file.image.backupVersion = "current" /\ file.image.fields = ram
            /\ ram = [f \in Fields |-> ram[f]]
        BY <1>3 DEF SaveStateValue, Inv, SavingInv, TypeOK
      <4> QED BY <4>1 DEF MeantBy
    <3>1. Stored' = Content(ram)
      BY <1>3, <2>1, <2>2, <2>4, <3>0, NoFileIsNone
         DEF Stored, Content, MeantBy, SaveStateValue, Inv, SavingInv
    <3> QED BY <1>1, <3>1 DEF Store!Store, Memory
  <2>5. CASE file'.length # Length
    <3>1. Stored' = Lost
      BY <2>2, <2>5, NoFileIsNone DEF Stored
    <3> QED BY <1>1, <2>3, <3>1
  <2> QED BY <2>4, <2>5
<1>4. CASE SaveEnds
  BY <1>1, <1>4 DEF SaveEnds, Stored, Content
<1>5. CASE DiskFull
  <2>1. file \in Files /\ file # NoFile /\ file.length < Length
    BY <1>5, NoFileIsNone DEF DiskFull, Inv, TypeOK, SavingInv
  <2>2. file' \in Files /\ file'.length = file.length
    BY <1>5, <2>1 DEF DiskFull, Files
  <2>3. Stored = Lost /\ Stored' = Lost
    BY <2>1, <2>2, NoFileIsNone DEF Stored, Files, Length
  <2> QED BY <1>1, <2>3
<1> QED BY <1>2, <1>3, <1>4, <1>5

(* The end of the process, which a save in progress does not survive. *)
LEMMA ProcessEnds ==
    ASSUME Inv, SaveExits \/ Killed \/ Disposed \/ ClearInternalAppData
    PROVE  Store!End
<1>1. Memory' = Gone
  BY DEF SaveExits, Killed, Disposed, ClearInternalAppData, Memory
<1>2. CASE file' = file
  <2>1. Stored' = Stored
    BY <1>2 DEF Stored, Content
  <2> QED BY <1>1, <2>1 DEF Store!End, Memory
<1>3. CASE file' = NoFile
  <2>1. Stored' = Nothing
    BY <1>3 DEF Stored
  <2> QED BY <1>1, <2>1 DEF Store!End, Memory
<1>4. CASE pc = "saving" /\ file.length < Length /\ file' = [file EXCEPT !.torn = TRUE]
  <2>1. file \in Files /\ file # NoFile
    BY <1>4, NoFileIsNone DEF Inv, TypeOK, SavingInv
  <2>2. file' \in Files /\ file'.length = file.length
    BY <1>4, <2>1 DEF Files
  <2>0. file.length < Length
    BY <1>4, Zenon
  <2>3. file.length # Length /\ file'.length # Length /\ file' # NoFile
    BY <2>0, <2>1, <2>2, NoFileIsNone DEF Files, Length
  <2>4. Stored = Lost /\ Stored' = Lost
    BY <2>1, <2>3 DEF Stored
  <2> QED BY <1>1, <2>4 DEF Store!End, Memory
<1> QED BY <1>2, <1>3, <1>4 DEF SaveExits, Killed, Disposed, ClearInternalAppData

LEMMA StepStores == Inv /\ [Next]_vars => [Store!DurableNext]_<<Memory, Stored>>
<1> SUFFICES ASSUME Inv, [Next]_vars
             PROVE  Store!DurableNext \/ (Memory' = Memory /\ Stored' = Stored)
  OBVIOUS
<1>1. CASE InitNative
  BY <1>1, InitNativeBegins DEF Store!DurableNext
<1>2. CASE \E s \in States : Compute(s)
  <2>1. PICK s \in States : Compute(s)
    BY <1>2
  <2>2. Store!Change(s)
    BY <2>1, ChangeOfMemory DEF Compute
  <2> QED BY <2>2 DEF Store!DurableNext
<1>3. CASE FnConfirmationYes
  <2>1. PICK s \in States : (Whole(ram) \/ s = ResetState) /\ ram' = AllOf(s)
    BY <1>3 DEF FnConfirmationYes
  <2>2. Store!Change(s)
    BY <1>3, <2>1, ChangeOfMemory DEF FnConfirmationYes
  <2> QED BY <2>2 DEF Store!DurableNext
<1>4. CASE SaveBegins \/ SaveStateValue \/ SaveEnds \/ DiskFull
  BY <1>4, SaveStores DEF Store!DurableNext
<1>5. CASE SaveExits \/ Killed \/ Disposed \/ ClearInternalAppData
  BY <1>5, ProcessEnds DEF Store!DurableNext
<1>6. CASE \/ SetConfirmationMode \/ FnConfirmationNo \/ SaveRefused \/ UNCHANGED vars
           \/ \E m \in {"R47", "C47"} : FnKeysManagement(m)
  <2>1. pc' = pc /\ ram' = ram /\ file' = file
    BY <1>6 DEF SetConfirmationMode, FnConfirmationNo, SaveRefused, FnKeysManagement, vars
  <2> QED BY <2>1 DEF Memory, Stored, Content
<1> QED BY <1>1, <1>2, <1>3, <1>4, <1>5, <1>6 DEF Next

LEMMA InitStores == Init => Store!DurableInit
BY StoredType DEF Store!DurableInit, Init

(* The memory is kept over the end of the process, whole, unless the file  *)
(* was being written when the process ended or the disk filled up, and     *)
(* what an older build stored is read as it meant it (saveCalc,            *)
(* restoreCalc): Backup implements Durable.                                *)
THEOREM BackupStoresDurably == Spec => StoresDurably
<1>1. Inv /\ [Next]_vars => [Store!DurableNext]_(Store!durableVars)
  BY StepStores DEF Store!durableVars, Memory
<1> QED BY <1>1, InitStores, AlwaysInv, PTL DEF Spec, StoresDurably, Store!DurableSpec
=============================================================================

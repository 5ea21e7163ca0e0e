----------------------------- MODULE StackProofs -----------------------------
(***************************************************************************)
(* Theorems about Stack, for a stack of any size and any numbers.          *)
(***************************************************************************)
EXTENDS Stack, TLAPS

NumberTypes == [type : Types, value : Values]

(* The machines in which each register has the block that bears its name.  *)
Whole == {m \in [header : [Registers -> [type : Types, block : Registers]],
                 ram    : [Registers -> Values]] :
              \A r \in Registers : m.header[r].block = r}

(* In a function that saved the stack, or has just failed, the snapshot is  *)
(* complete if there is something to undo.  When it begins, and after an    *)
(* XEQ that ran no program, it is still what the stack holds.               *)
SavedStepHasSnapshot ==
    /\ undoSavedThisStep /\ thereIsSomethingToUndo
    /\ phase = "called" \/ (phase = "returned" /\ lastErrorCode # "NONE")
    => DOMAIN snapshot = Kept /\ (phase = "called" \/ func = "XEQ" => snapshot = StackNumbers(Machine))

Inv ==
    /\ TypeOK
    /\ phase # "damaged" => Machine \in Whole
    /\ SnapshotIntact
    /\ launcherSaved => launcher = "XEQ"
    /\ SavedStepHasSnapshot

-----------------------------------------------------------------------------
(* Registers, and what is in them. *)

LEMMA Layout ==
    /\ Top \in Nat /\ Top >= 2 /\ NoBlock \notin Registers
    /\ L \in Kept /\ X \in Levels /\ Y \in Levels /\ Top \in Levels
    /\ Levels \subseteq Kept /\ Kept \subseteq Registers /\ Copies \subseteq Registers
    /\ Kept \cap Copies = {} /\ Registers \subseteq Int
    /\ \A r \in Kept : Saved(r) \in Copies
    /\ \A c \in Copies : c - Top - 1 \in Kept /\ Saved(c - Top - 1) = c
    /\ \A r \in Kept : Saved(r) - Top - 1 = r
    /\ LowerLevels \subseteq Levels /\ LowerCopies \subseteq Copies
    /\ \A c \in LowerCopies : c - Top - 1 \in LowerLevels
    /\ \A r \in LowerLevels : Saved(r) \in LowerCopies
    /\ "real" \in Types /\ Zero \in Values
    /\ \A n \in Numbers : n.type \in Types /\ n.value \in Values
<1> USE StackAssumption
<1>1. Top \in Nat /\ Top >= 2 /\ Shuffled \in 1 .. Top
  BY DEF Top
<1>2. /\ Kept = 0 .. Top /\ Copies = {r + Top + 1 : r \in 0 .. Top}
      /\ Levels = 1 .. Top /\ LowerLevels = 1 .. Shuffled
      /\ LowerCopies = {r + Top + 1 : r \in 1 .. Shuffled}
  BY DEF Kept, Copies, Levels, LowerLevels, LowerCopies, Saved, L, X
<1> HIDE StackAssumption
<1>3. /\ NoBlock \notin Registers /\ Kept \cap Copies = {} /\ Registers \subseteq Int
      /\ Kept \subseteq Registers /\ Copies \subseteq Registers /\ Levels \subseteq Kept
  BY <1>1, <1>2 DEF Registers, NoBlock
<1>4. /\ \A r \in Kept : Saved(r) \in Copies /\ Saved(r) - Top - 1 = r
  BY <1>1, <1>2 DEF Saved
<1>4a. \A c \in Copies : c - Top - 1 \in Kept /\ Saved(c - Top - 1) = c
  <2> TAKE c \in Copies
  <2>1. PICK r \in 0 .. Top : c = r + Top + 1
    BY <1>2
  <2> QED BY <2>1, <1>1, <1>2 DEF Saved
<1>5a. \A c \in LowerCopies : c - Top - 1 \in LowerLevels
  <2> TAKE c \in LowerCopies
  <2>1. PICK r \in 1 .. Shuffled : c = r + Top + 1
    BY <1>2
  <2> QED BY <2>1, <1>1, <1>2
<1>5b. LowerCopies \subseteq Copies
  <2> SUFFICES ASSUME NEW c \in LowerCopies PROVE c \in Copies
    OBVIOUS
  <2>1. PICK r \in 1 .. Shuffled : c = r + Top + 1
    BY <1>2
  <2>2. r \in 0 .. Top
    BY <1>1
  <2> QED BY <2>1, <2>2, <1>2
<1>5. /\ LowerLevels \subseteq Levels
      /\ \A r \in LowerLevels : Saved(r) \in LowerCopies
  BY <1>1, <1>2 DEF Saved
<1>6. L \in Kept /\ X \in Levels /\ Y \in Levels /\ Top \in Levels
  BY <1>1, <1>2 DEF L, X, Y
<1>7. "real" \in Types /\ Zero \in Values /\ \A n \in Numbers : n.type \in Types /\ n.value \in Values
  BY StackAssumption DEF Types, Sizes, Values
<1> QED BY <1>1, <1>3, <1>4, <1>4a, <1>5, <1>5a, <1>5b, <1>6, <1>7

LEMMA TypesOfInput == InputTypes \subseteq Types
BY Layout DEF InputTypes

LEMMA NumberOf ==
    ASSUME NEW m \in Whole, NEW r \in Registers
    PROVE  /\ Number(m, r) = [type |-> m.header[r].type, value |-> m.ram[r]]
           /\ Number(m, r) \in NumberTypes
           /\ m.header[r] = [type |-> m.header[r].type, block |-> r]
BY DEF Whole, Number, NumberTypes

(* Where a register's number comes from. *)
From(source, r) == IF r \in DOMAIN source THEN source[r] ELSE r

Taken(m, f) == [header |-> [r \in Registers |-> [type |-> m.header[f[r]].type, block |-> r]],
                ram    |-> [r \in Registers |-> m.ram[f[r]]]]

LEMMA TakenNumbers ==
    ASSUME NEW m \in Whole, NEW f \in [Registers -> Registers]
    PROVE  Taken(m, f) \in Whole /\ \A r \in Registers : Number(Taken(m, f), r) = Number(m, f[r])
<1>1. \A r \in Registers : m.header[f[r]].type \in Types /\ m.ram[f[r]] \in Values
  <2> TAKE r \in Registers
  <2>1. f[r] \in Registers
    OBVIOUS
  <2> QED BY <2>1 DEF Whole
<1>2. Taken(m, f) \in Whole
  BY <1>1 DEF Taken, Whole
<1>3. ASSUME NEW r \in Registers PROVE Number(Taken(m, f), r) = Number(m, f[r])
  <2>1. f[r] \in Registers
    OBVIOUS
  <2>2. Number(m, f[r]) = [type |-> m.header[f[r]].type, value |-> m.ram[f[r]]]
    BY <2>1, NumberOf
  <2>3. /\ Taken(m, f).header[r] = [type |-> m.header[f[r]].type, block |-> r]
        /\ Taken(m, f).ram[r] = m.ram[f[r]]
    BY DEF Taken
  <2> QED BY <2>2, <2>3 DEF Number
<1> QED BY <1>2, <1>3

(* Copies write the numbers of their sources and leave the others alone.   *)
LEMMA CopiedNumbers ==
    ASSUME NEW m \in Whole, NEW source, DOMAIN source \subseteq Registers,
           \A r \in DOMAIN source : source[r] \in Registers
    PROVE  /\ Copied(m, source) \in Whole
           /\ \A r \in Registers : Number(Copied(m, source), r) = Number(m, From(source, r))
<1> DEFINE At(b)  == {r \in DOMAIN source : m.header[r].block = b}
           mem(b) == IF At(b) = {} THEN m.ram[b]
                     ELSE m.ram[m.header[source[CHOOSE r \in At(b) : TRUE]].block]
           head(r) == IF r \in DOMAIN source
                      THEN [m.header[r] EXCEPT !.type = m.header[source[r]].type]
                      ELSE m.header[r]
           f      == [r \in Registers |-> From(source, r)]
<1>1. f \in [Registers -> Registers]
  BY DEF From
<1>2. \A r \in Registers : m.header[r].block = r
  BY DEF Whole
<1>3. ASSUME NEW b \in Registers PROVE mem(b) = m.ram[f[b]]
  <2>1. At(b) = IF b \in DOMAIN source THEN {b} ELSE {}
    BY <1>2
  <2>2. CASE b \in DOMAIN source
    <3>1. At(b) = {b}
      BY <2>1, <2>2
    <3>2. (CHOOSE r \in At(b) : TRUE) = b
      BY <3>1
    <3>3. mem(b) = m.ram[m.header[source[b]].block]
      BY <3>1, <3>2
    <3> QED BY <3>3, <1>2, <2>2 DEF From
  <2>3. CASE b \notin DOMAIN source
    <3>1. At(b) = {}
      BY <2>1, <2>3
    <3> QED BY <3>1, <2>3 DEF From
  <2> QED BY <2>2, <2>3
<1>4. ASSUME NEW r \in Registers
      PROVE  head(r) = [type |-> m.header[f[r]].type, block |-> r]
  <2>1. m.header[r] = [type |-> m.header[r].type, block |-> r]
    BY NumberOf
  <2>2. CASE r \in DOMAIN source
    BY <2>1, <2>2 DEF From
  <2>3. CASE r \notin DOMAIN source
    BY <2>1, <2>3 DEF From
  <2> QED BY <2>2, <2>3
<1>5. Copied(m, source) = [header |-> [r \in Registers |-> head(r)],
                           ram    |-> [b \in Registers |-> mem(b)]]
  BY DEF Copied, Blocks
<1>6. Copied(m, source) = Taken(m, f)
  <2> HIDE DEF head, mem, f
  <2>1. [r \in Registers |-> head(r)] = [r \in Registers |-> [type |-> m.header[f[r]].type, block |-> r]]
    BY <1>4
  <2>2. [b \in Registers |-> mem(b)] = [b \in Registers |-> m.ram[f[b]]]
    BY <1>3
  <2> QED BY <1>5, <2>1, <2>2 DEF Taken
<1>7. \A r \in Registers : f[r] = From(source, r)
  OBVIOUS
<1> HIDE DEF f
<1> QED BY <1>1, <1>6, <1>7, TakenNumbers

(* Moving headers moves numbers, as long as no two registers take the same *)
(* header.                                                                 *)
LEMMA RearrangedNumbers ==
    ASSUME NEW m \in Whole, NEW order,
           \A r \in Registers : From(order, r) \in Registers,
           \A r, q \in Registers : From(order, r) = From(order, q) => r = q
    PROVE  /\ Rearranged(m, order) \in Whole
           /\ \A r \in Registers : Number(Rearranged(m, order), r) = Number(m, From(order, r))
<1> DEFINE f == [r \in Registers |-> From(order, r)]
           k == [m EXCEPT !.header =
                   [r \in Registers |-> IF r \in DOMAIN order THEN m.header[order[r]]
                                        ELSE m.header[r]]]
<1>1. /\ f \in [Registers -> Registers]
      /\ \A r, q \in Registers : f[r] = f[q] => r = q
  OBVIOUS
<1>2. ASSUME NEW r \in Registers
      PROVE  /\ f[r] \in Registers
             /\ k.header[r] = [type |-> m.header[f[r]].type, block |-> f[r]]
             /\ k.header[r].block = f[r]
  <2>1. f[r] \in Registers
    BY <1>1
  <2>2. k.header[r] = m.header[f[r]]
    BY DEF From, Whole
  <2> QED BY <2>1, <2>2, NumberOf
<1>3. k.ram = m.ram
  BY DEF Whole
<1>4. Rearranged(m, order) = Renamed(k)
  BY DEF Rearranged
<1>5. \A r \in Registers : f[r] = From(order, r)
  OBVIOUS
<1> HIDE DEF k, f
<1> DEFINE Sharers(r) == {q \in Registers : k.header[q].block = k.header[r].block}
           name(r) == CHOOSE q \in Sharers(r) : \A p \in Sharers(r) : q <= p
           head(r) == IF k.header[r].block = NoBlock THEN k.header[r]
                      ELSE [k.header[r] EXCEPT !.block = name(r)]
           mem(b)  == IF k.header[b].block = NoBlock THEN Zero ELSE k.ram[k.header[b].block]
<1>6. Renamed(k) = [header |-> [r \in Registers |-> head(r)],
                    ram    |-> [b \in Registers |-> mem(b)]]
  BY DEF Renamed, Blocks
<1>7. ASSUME NEW r \in Registers PROVE name(r) = r
  <2>1. \A q \in Registers : k.header[q].block = f[q]
    BY <1>2
  <2>2. Sharers(r) = {r}
    BY <1>1, <2>1
  <2>3. \A q \in {r} : \A p \in {r} : q <= p
    BY Layout
  <2> QED BY <2>2, <2>3
<1>8. ASSUME NEW r \in Registers
      PROVE  /\ head(r) = [type |-> m.header[f[r]].type, block |-> r]
             /\ mem(r) = m.ram[f[r]]
  <2>0. f[r] \in Registers /\ NoBlock \notin Registers /\ k.header[r].block = f[r]
    BY <1>2, Layout
  <2>1. k.header[r].block # NoBlock
    BY <2>0
  <2>2. name(r) = r
    BY <1>7
  <2>3. k.header[r] = [type |-> m.header[f[r]].type, block |-> f[r]]
    BY <1>2
  <2> HIDE DEF name
  <2>4. head(r) = [k.header[r] EXCEPT !.block = r]
    BY <2>1, <2>2
  <2>5. head(r) = [type |-> m.header[f[r]].type, block |-> r]
    BY <2>3, <2>4
  <2>6. mem(r) = m.ram[f[r]]
    BY <2>1, <1>2, <1>3
  <2> QED BY <2>5, <2>6
<1>9. Renamed(k) = Taken(m, f)
  <2> HIDE DEF head, mem
  <2>1. [r \in Registers |-> head(r)] = [r \in Registers |-> [type |-> m.header[f[r]].type, block |-> r]]
    BY <1>8
  <2>2. [b \in Registers |-> mem(b)] = [b \in Registers |-> m.ram[f[b]]]
    BY <1>8
  <2> QED BY <1>6, <2>1, <2>2 DEF Taken
<1> QED BY <1>1, <1>4, <1>5, <1>9, TakenNumbers

-----------------------------------------------------------------------------
(* What the operations do to the numbers. *)

SameCopies(m, n) == \A c \in Copies : Number(n, c) = Number(m, c)

(* Also when a register has lost its block, or shares it. *)
Loose == [header : [Registers -> [type : Types, block : Blocks \cup {NoBlock}]],
          ram : [Blocks -> Values]]

LEMMA WholeIsLoose == Whole \subseteq Loose
BY DEF Whole, Loose, Blocks

LEMMA RollUpNumbers ==
    ASSUME NEW m \in Whole
    PROVE  RollUp(m) \in Whole /\ SameCopies(m, RollUp(m))
<1> DEFINE order == [r \in Levels |-> IF r = X THEN Top ELSE r - 1]
<1>1. /\ \A r \in Levels : From(order, r) = IF r = X THEN Top ELSE r - 1
      /\ \A r \in Levels : From(order, r) \in Levels
      /\ \A r \in Registers \ Levels : From(order, r) = r
  BY Layout DEF From, Levels, X
<1>2. \A r \in Registers : From(order, r) \in Registers
  BY <1>1, Layout
<1>3. \A r, q \in Levels : From(order, r) = From(order, q) => r = q
  BY <1>1, Layout DEF Levels, X
<1>4. \A r, q \in Registers : From(order, r) = From(order, q) => r = q
  BY <1>1, <1>3
<1>5. \A c \in Copies : c \in Registers \ Levels
  BY Layout
<1>6. RollUp(m) = Rearranged(m, order)
  BY DEF RollUp
<1> HIDE DEF order
<1> QED BY <1>1, <1>2, <1>4, <1>5, <1>6, RearrangedNumbers DEF SameCopies

LEMMA RollDownNumbers ==
    ASSUME NEW m \in Whole
    PROVE  RollDown(m) \in Whole /\ SameCopies(m, RollDown(m))
<1> DEFINE order == [r \in Levels |-> IF r = Top THEN X ELSE r + 1]
<1>1. /\ \A r \in Levels : From(order, r) = IF r = Top THEN X ELSE r + 1
      /\ \A r \in Levels : From(order, r) \in Levels
      /\ \A r \in Registers \ Levels : From(order, r) = r
  BY Layout DEF From, Levels, X
<1>2. \A r \in Registers : From(order, r) \in Registers
  BY <1>1, Layout
<1>3. \A r, q \in Levels : From(order, r) = From(order, q) => r = q
  BY <1>1, Layout DEF Levels, X
<1>4. \A r, q \in Registers : From(order, r) = From(order, q) => r = q
  BY <1>1, <1>3
<1>5. \A c \in Copies : c \in Registers \ Levels
  BY Layout
<1>6. RollDown(m) = Rearranged(m, order)
  BY DEF RollDown
<1> HIDE DEF order
<1> QED BY <1>1, <1>2, <1>4, <1>5, <1>6, RearrangedNumbers DEF SameCopies

LEMMA SwapXYNumbers ==
    ASSUME NEW m \in Whole
    PROVE  SwapXY(m) \in Whole /\ SameCopies(m, SwapXY(m))
<1> DEFINE order == [r \in {X, Y} |-> IF r = X THEN Y ELSE X]
<1>1. /\ \A r \in {X, Y} : From(order, r) = IF r = X THEN Y ELSE X
      /\ \A r \in Registers \ {X, Y} : From(order, r) = r
  BY DEF From
<1>2. /\ \A r \in Registers : From(order, r) \in Registers
      /\ \A r, q \in Registers : From(order, r) = From(order, q) => r = q
  BY <1>1, Layout
<1>3. \A c \in Copies : c \in Registers \ {X, Y}
  BY Layout
<1>4. SwapXY(m) = Rearranged(m, order)
  BY DEF SwapXY
<1> HIDE DEF order
<1> QED BY <1>1, <1>2, <1>3, <1>4, RearrangedNumbers DEF SameCopies

(* The levels that the shuffle takes change places with their copies. *)
LEMMA SwapCopiesNumbers ==
    ASSUME NEW m \in Whole
    PROVE  /\ SwapCopies(m) \in Whole
           /\ \A c \in LowerCopies : Number(SwapCopies(m), c) = Number(m, c - Top - 1)
           /\ \A r \in LowerLevels : Number(SwapCopies(m), r) = Number(m, Saved(r))
           /\ \A r \in Registers \ (LowerLevels \cup LowerCopies) :
                 Number(SwapCopies(m), r) = Number(m, r)
<1> DEFINE order == [r \in LowerLevels \cup LowerCopies |->
                        IF r \in LowerLevels THEN Saved(r) ELSE r - Top - 1]
<1>1. /\ LowerLevels \cap LowerCopies = {}
      /\ LowerLevels \subseteq Registers /\ LowerCopies \subseteq Registers
  BY Layout
<1>2. /\ \A r \in LowerLevels : From(order, r) = Saved(r)
      /\ \A r \in LowerCopies : From(order, r) = r - Top - 1
      /\ \A r \in Registers \ (LowerLevels \cup LowerCopies) : From(order, r) = r
  BY <1>1 DEF From
<1> HIDE DEF order
<1>3. /\ \A r \in LowerLevels : From(order, r) \in LowerCopies
      /\ \A r \in LowerCopies : From(order, r) \in LowerLevels
  BY <1>2, Layout
<1>4. /\ \A r, q \in LowerLevels : From(order, r) = From(order, q) => r = q
      /\ \A r, q \in LowerCopies : From(order, r) = From(order, q) => r = q
  <2>1. \A r, q \in LowerLevels : Saved(r) = Saved(q) => r = q
    <3>1. \A r \in LowerLevels : Saved(r) - Top - 1 = r
      BY Layout
    <3> QED BY <3>1
  <2>2. \A r, q \in LowerCopies : r - Top - 1 = q - Top - 1 => r = q
    <3>1. \A r \in LowerCopies : Saved(r - Top - 1) = r
      BY Layout
    <3> QED BY <3>1
  <2> QED BY <2>1, <2>2, <1>2
<1>5. /\ \A r \in Registers : From(order, r) \in Registers
      /\ \A r, q \in Registers : From(order, r) = From(order, q) => r = q
  BY <1>1, <1>2, <1>3, <1>4
<1>6. SwapCopies(m) = Rearranged(m, order)
  BY DEF SwapCopies, order
<1> QED BY <1>1, <1>2, <1>5, <1>6, RearrangedNumbers

(* A type, or what a block holds, may change. *)
Headers == {h \in [Registers -> [type : Types, block : Registers]] :
                \A r \in Registers : h[r].block = r}

LEMMA HeadersAndMemories ==
    /\ \A m \in Whole : /\ m.header \in Headers /\ m.ram \in [Registers -> Values]
                        /\ m = [header |-> m.header, ram |-> m.ram]
    /\ \A h \in Headers, mem \in [Registers -> Values] : [header |-> h, ram |-> mem] \in Whole
BY DEF Whole, Headers

LEMMA ChangedType ==
    ASSUME NEW header \in Headers, NEW r \in Registers, NEW t \in Types
    PROVE  [header EXCEPT ![r].type = t] \in Headers
<1> DEFINE h == [header EXCEPT ![r].type = t]
<1>1. header \in [Registers -> [type : Types, block : Registers]] /\ header[r].block = r
  BY DEF Headers
<1>2. h = [header EXCEPT ![r] = [header[r] EXCEPT !.type = t]]
  OBVIOUS
<1>3. [header[r] EXCEPT !.type = t] = [type |-> t, block |-> r]
  BY <1>1
<1>4. h = [header EXCEPT ![r] = [type |-> t, block |-> r]]
  BY <1>2, <1>3
<1> HIDE DEF h
<1>5. h \in [Registers -> [type : Types, block : Registers]]
  BY <1>1, <1>4
<1>6. \A q \in Registers : h[q].block = q
  BY <1>1, <1>4 DEF Headers
<1> QED BY <1>5, <1>6 DEF Headers, h

LEMMA WrittenNumbers ==
    ASSUME NEW m \in Whole, NEW r \in Kept,
           NEW number, number.type \in Types, number.value \in Values
    PROVE  /\ Written(m, r, number) \in Whole /\ SameCopies(m, Written(m, r, number))
           /\ WrittenAnyway(m, r, number) \in Whole
           /\ SameCopies(m, WrittenAnyway(m, r, number))
<1>1. r \in Registers /\ r \notin Copies /\ Copies \subseteq Registers
  BY Layout
<1>2. m.header[r].block = r
  BY <1>1 DEF Whole
<1>3. Written(m, r, number) \in Whole /\ WrittenAnyway(m, r, number) \in Whole
  <2> DEFINE h   == [m.header EXCEPT ![r].type = number.type]
             mem == [m.ram EXCEPT ![r] = number.value]
  <2>1. m.header \in Headers /\ m.ram \in [Registers -> Values]
    BY HeadersAndMemories
  <2>2. h \in Headers
    BY <2>1, <1>1, ChangedType
  <2>3. mem \in [Registers -> Values]
    BY <2>1
  <2>4. Written(m, r, number) = [header |-> h, ram |-> mem]
    BY <1>2 DEF Written
  <2>5. WrittenAnyway(m, r, number) = [header |-> m.header, ram |-> mem]
    <3>1. m = [header |-> m.header, ram |-> m.ram]
      BY HeadersAndMemories
    <3> QED BY <1>2, <3>1 DEF WrittenAnyway
  <2> HIDE DEF h, mem
  <2> QED BY <2>1, <2>2, <2>3, <2>4, <2>5, HeadersAndMemories
<1>4. ASSUME NEW c \in Copies
      PROVE  /\ Number(Written(m, r, number), c) = Number(m, c)
             /\ Number(WrittenAnyway(m, r, number), c) = Number(m, c)
  <2>1. c \in Registers /\ c # r /\ m.header[c].block = c
    BY <1>1 DEF Whole
  <2> QED BY <1>1, <1>2, <2>1 DEF Written, WrittenAnyway, Number, Whole
<1> QED BY <1>3, <1>4 DEF SameCopies

LEMMA LiftStackNumbers ==
    ASSUME NEW m \in Whole, NEW aslift \in BOOLEAN
    PROVE  /\ LiftStack(m, aslift) \in Whole /\ SameCopies(m, LiftStack(m, aslift))
           /\ LiftRefused(m, aslift) \in Loose
<1> DEFINE up == IF aslift THEN RollUp(m) ELSE m
<1>1. up \in Whole /\ SameCopies(m, up)
  BY RollUpNumbers DEF SameCopies
<1>2. LiftStack(m, aslift) = [up EXCEPT !.header[X].type = "real"]
  BY DEF LiftStack
<1> HIDE DEF up
<1>3. X \in Registers /\ X \notin Copies /\ Copies \subseteq Registers /\ "real" \in Types
  BY Layout
<1>4. LiftStack(m, aslift) \in Whole
  <2> DEFINE h == [up.header EXCEPT ![X].type = "real"]
  <2>1. /\ up.header \in Headers /\ up.ram \in [Registers -> Values]
        /\ up = [header |-> up.header, ram |-> up.ram]
    BY <1>1, HeadersAndMemories
  <2>2. h \in Headers
    BY <2>1, <1>3, ChangedType
  <2>3. LiftStack(m, aslift) = [header |-> h, ram |-> up.ram]
    BY <1>2, <2>1
  <2> HIDE DEF h
  <2> QED BY <2>1, <2>2, <2>3, HeadersAndMemories
<1>5. ASSUME NEW c \in Copies PROVE Number(LiftStack(m, aslift), c) = Number(up, c)
  <2>1. c \in Registers /\ c # X
    BY <1>3
  <2> QED BY <1>1, <1>2, <2>1 DEF Whole, Number
<1>6. SameCopies(m, LiftStack(m, aslift))
  BY <1>1, <1>5 DEF SameCopies
<1>7. LiftRefused(m, aslift) \in Loose
  <2> DEFINE n == LiftStack(m, aslift)
  <2>1. n.header \in [Registers -> [type : Types, block : Registers \cup {NoBlock}]]
    BY <1>4 DEF Whole
  <2>2. [n.header[X] EXCEPT !.block = NoBlock] \in [type : Types, block : Registers \cup {NoBlock}]
    BY <2>1, <1>3
  <2>3. n = [header |-> n.header, ram |-> n.ram] /\ n.ram \in [Registers -> Values]
    BY <1>4 DEF Whole
  <2> DEFINE x == [n.header[X] EXCEPT !.block = NoBlock]
             h == [n.header EXCEPT ![X] = x]
  <2>4. LiftRefused(m, aslift) = [header |-> h, ram |-> n.ram]
    BY <2>3 DEF LiftRefused
  <2>5. h \in [Registers -> [type : Types, block : Registers \cup {NoBlock}]]
    <3> HIDE DEF x, n
    <3> QED BY <2>1, <2>2 DEF x
  <2> HIDE DEF h, n
  <2> QED BY <2>3, <2>4, <2>5 DEF Loose, Blocks
<1> QED BY <1>4, <1>6, <1>7

LEMMA CopiedWithinKept ==
    ASSUME NEW m \in Whole, NEW source, DOMAIN source \subseteq Kept,
           \A r \in DOMAIN source : source[r] \in Registers
    PROVE  /\ Copied(m, source) \in Whole /\ SameCopies(m, Copied(m, source))
           /\ \A r \in Kept : Number(Copied(m, source), r) = Number(m, From(source, r))
<1>1. DOMAIN source \subseteq Registers /\ Kept \subseteq Registers /\ Copies \subseteq Registers
  BY Layout
<1>2. \A c \in Copies : c \notin DOMAIN source
  BY Layout
<1>3. \A c \in Copies : From(source, c) = c
  BY <1>2 DEF From
<1> QED BY <1>1, <1>3, CopiedNumbers DEF SameCopies

LEMMA DropNumbers ==
    ASSUME NEW m \in Whole
    PROVE  DropX(m) \in Whole /\ SameCopies(m, DropX(m))
<1> DEFINE order == [r \in X .. Top - 1 |-> IF r = Top - 1 THEN X ELSE r + 1]
           n == Rearranged(m, order)
           source == [r \in {Top - 1} |-> Top]
<1>1. /\ \A r \in X .. Top - 1 : From(order, r) = IF r = Top - 1 THEN X ELSE r + 1
      /\ \A r \in X .. Top - 1 : From(order, r) \in X .. Top - 1
      /\ \A r \in Registers \ (X .. Top - 1) : From(order, r) = r
  BY Layout DEF From, X
<1>2. X .. Top - 1 \subseteq Kept /\ X .. Top - 1 \subseteq Registers
  BY Layout DEF Levels, X
<1>3. \A r \in Registers : From(order, r) \in Registers
  BY <1>1, <1>2
<1>4. \A r, q \in X .. Top - 1 : From(order, r) = From(order, q) => r = q
  BY <1>1, Layout DEF X
<1>5. \A r, q \in Registers : From(order, r) = From(order, q) => r = q
  BY <1>1, <1>4
<1>6. \A c \in Copies : c \in Registers \ (X .. Top - 1)
  BY <1>2, Layout
<1> HIDE DEF order
<1>7. n \in Whole /\ SameCopies(m, n)
  BY <1>1, <1>3, <1>5, <1>6, RearrangedNumbers DEF SameCopies
<1>8. DropX(m) = Copied(n, source)
  BY DEF DropX, order
<1>9. DOMAIN source \subseteq Kept /\ \A r \in DOMAIN source : source[r] \in Registers
  BY Layout DEF Levels, X
<1> HIDE DEF n, source
<1> QED BY <1>7, <1>8, <1>9, CopiedWithinKept DEF SameCopies

(* Without its block the level below the top shares the block of the top. *)
LEMMA DropRefusedLoose ==
    ASSUME NEW m \in Whole
    PROVE  DropRefused(m) \in Loose
<1> DEFINE order == [r \in X .. Top - 1 |-> r + 1]
           k == [m EXCEPT !.header =
                   [r \in Registers |-> IF r \in DOMAIN order THEN m.header[order[r]]
                                        ELSE m.header[r]]]
           Sharers(r) == {q \in Registers : k.header[q].block = k.header[r].block}
           name(r) == CHOOSE q \in Sharers(r) : \A p \in Sharers(r) : q <= p
           head(r) == IF k.header[r].block = NoBlock THEN k.header[r]
                      ELSE [k.header[r] EXCEPT !.block = name(r)]
           mem(b)  == IF k.header[b].block = NoBlock THEN Zero ELSE k.ram[k.header[b].block]
<1>1. /\ \A r \in X .. Top - 1 : From(order, r) = r + 1
      /\ \A r \in Registers \ (X .. Top - 1) : From(order, r) = r
      /\ \A r \in Registers : From(order, r) \in Registers
  BY Layout DEF From, X, Levels
<1>2. ASSUME NEW r \in Registers
      PROVE  /\ k.header[r] = [type |-> m.header[From(order, r)].type, block |-> From(order, r)]
             /\ k.header[r].block = From(order, r)
  <2>1. k.header[r] = m.header[From(order, r)]
    BY DEF From, Whole
  <2> QED BY <2>1, <1>1, NumberOf
<1>3. k.ram = m.ram
  BY DEF Whole
<1>4. DropRefused(m) = [header |-> [r \in Registers |-> head(r)],
                        ram    |-> [b \in Registers |-> mem(b)]]
  BY DEF DropRefused, Rearranged, Renamed, Blocks
<1> HIDE DEF k, order
<1>5. ASSUME NEW r \in Registers PROVE name(r) \in Registers
  <2>1. \E q \in Sharers(r) : \A p \in Sharers(r) : q <= p
    <3>1. Sharers(r) = {q \in Registers : From(order, q) = From(order, r)}
      BY <1>2
    <3>2. CASE r = Top
      <4>1. \A q \in Registers : From(order, q) = From(order, r) <=> q \in {Top - 1, Top}
        BY <1>1, <3>2, Layout DEF X, Levels
      <4>2. Top - 1 \in Registers /\ Top \in Registers /\ Top \in Int
        BY Layout DEF X, Levels
      <4>3. Sharers(r) = {Top - 1, Top}
        BY <3>1, <4>1, <4>2
      <4> QED BY <4>2, <4>3
    <3>3. CASE r = Top - 1
      <4>1. \A q \in Registers : From(order, q) = From(order, r) <=> q \in {Top - 1, Top}
        BY <1>1, <3>3, Layout DEF X, Levels
      <4>2. Top - 1 \in Registers /\ Top \in Registers /\ Top \in Int
        BY Layout DEF X, Levels
      <4>3. Sharers(r) = {Top - 1, Top}
        BY <3>1, <4>1, <4>2
      <4> QED BY <4>2, <4>3
    <3>4. CASE r \notin {Top - 1, Top}
      <4>1. \A q \in Registers : From(order, q) = From(order, r) <=> q = r
        BY <1>1, <3>4, Layout DEF X, Levels
      <4>2. Sharers(r) = {r} /\ r \in Int
        BY <3>1, <4>1, Layout
      <4> QED BY <4>2
    <3> QED BY <3>2, <3>3, <3>4
  <2>2. name(r) \in Sharers(r)
    BY <2>1
  <2> HIDE DEF name
  <2> QED BY <2>2
<1> HIDE DEF name
<1>6. ASSUME NEW r \in Registers
      PROVE  /\ head(r) \in [type : Types, block : Registers \cup {NoBlock}]
             /\ mem(r) \in Values
  <2>1. /\ From(order, r) \in Registers /\ name(r) \in Registers
        /\ k.header[r] = [type |-> m.header[From(order, r)].type, block |-> From(order, r)]
        /\ k.header[r].block = From(order, r)
    BY <1>1, <1>2, <1>5
  <2>2. m.header[From(order, r)].type \in Types /\ m.ram[From(order, r)] \in Values
    BY <2>1 DEF Whole
  <2>3. head(r) \in [type : Types, block : Registers \cup {NoBlock}]
    BY <2>1, <2>2
  <2>4. mem(r) \in Values
    BY <2>1, <2>2, <1>3, Layout
  <2> QED BY <2>3, <2>4
<1> HIDE DEF head, mem
<1> QED BY <1>4, <1>6 DEF Loose, Blocks

LEMMA FillNumbers ==
    ASSUME NEW m \in Whole
    PROVE  /\ Copied(m, [r \in Y .. Top |-> X]) \in Whole
           /\ SameCopies(m, Copied(m, [r \in Y .. Top |-> X]))
           /\ \A s \in Y .. Top :
                 [Copied(m, [r \in Y .. s - 1 |-> X]) EXCEPT
                     !.header[s] = [type |-> m.header[X].type, block |-> NoBlock]] \in Loose
<1>1. Y .. Top \subseteq Kept /\ X \in Registers /\ Kept \subseteq Registers
  BY Layout DEF Levels, X, Y
<1>2. \A s \in Y .. Top : Y .. s - 1 \subseteq Kept
  BY <1>1, Layout DEF Y
<1>3. ASSUME NEW s \in Y .. Top
      PROVE  [Copied(m, [r \in Y .. s - 1 |-> X]) EXCEPT
                 !.header[s] = [type |-> m.header[X].type, block |-> NoBlock]] \in Loose
  <2> DEFINE n == Copied(m, [r \in Y .. s - 1 |-> X])
             x == [type |-> m.header[X].type, block |-> NoBlock]
             h == [n.header EXCEPT ![s] = x]
  <2>1. n \in Whole
    BY <1>1, <1>2, CopiedWithinKept
  <2> HIDE DEF n
  <2>2. /\ n.header \in [Registers -> [type : Types, block : Registers \cup {NoBlock}]]
        /\ n.ram \in [Registers -> Values] /\ n = [header |-> n.header, ram |-> n.ram]
    BY <2>1 DEF Whole
  <2>3. x \in [type : Types, block : Registers \cup {NoBlock}]
    BY <1>1 DEF Whole
  <2>4. [n EXCEPT !.header[s] = x] = [header |-> h, ram |-> n.ram]
    BY <2>2
  <2>5. h \in [Registers -> [type : Types, block : Registers \cup {NoBlock}]]
    <3> HIDE DEF x
    <3> QED BY <2>2, <2>3
  <2> HIDE DEF h
  <2>6. [n EXCEPT !.header[s] = x] \in Loose
    BY <2>2, <2>4, <2>5 DEF Loose, Blocks
  <2> QED BY <2>6 DEF n
<1> QED BY <1>1, <1>3, CopiedWithinKept

(* Registers of the stack and L are overwritten; the copies stay. *)
LEMMA OverwrittenNumbers ==
    ASSUME NEW m \in Whole, NEW number, DOMAIN number \subseteq Kept,
           \A r \in DOMAIN number : number[r].type \in Types /\ number[r].value \in Values
    PROVE  /\ Overwritten(m, number) \in Whole /\ SameCopies(m, Overwritten(m, number))
           /\ \A r \in Registers \ DOMAIN number : Number(Overwritten(m, number), r) = Number(m, r)
<1> DEFINE At(b)   == {r \in DOMAIN number : m.header[r].block = b}
           mem(b)  == IF At(b) = {} THEN m.ram[b] ELSE number[CHOOSE r \in At(b) : TRUE].value
           head(r) == IF r \in DOMAIN number THEN [m.header[r] EXCEPT !.type = number[r].type]
                      ELSE m.header[r]
           h   == [r \in Registers |-> head(r)]
           ram1 == [b \in Registers |-> mem(b)]
<1>1. DOMAIN number \subseteq Registers /\ Copies \subseteq Registers
      /\ \A c \in Copies : c \notin DOMAIN number
  BY Layout
<1>2. \A r \in Registers : m.header[r] = [type |-> m.header[r].type, block |-> r]
                           /\ m.header[r].block = r /\ m.header[r].type \in Types
                           /\ m.ram[r] \in Values
  BY NumberOf DEF Whole
<1>3. ASSUME NEW b \in Registers
      PROVE  mem(b) \in Values /\ (b \notin DOMAIN number => mem(b) = m.ram[b])
  <2>1. At(b) = IF b \in DOMAIN number THEN {b} ELSE {}
    BY <1>1, <1>2
  <2>2. CASE b \in DOMAIN number
    <3>1. At(b) = {b} /\ (CHOOSE r \in At(b) : TRUE) \in At(b)
      BY <2>1, <2>2
    <3>2. (CHOOSE r \in At(b) : TRUE) = b
      BY <3>1
    <3>3. mem(b) = number[b].value
      BY <3>1, <3>2
    <3> QED BY <3>3, <2>2
  <2>3. CASE b \notin DOMAIN number
    <3>1. mem(b) = m.ram[b]
      BY <2>1, <2>3
    <3> QED BY <3>1, <2>3, <1>2
  <2> QED BY <2>2, <2>3
<1>4. ASSUME NEW r \in Registers
      PROVE  /\ head(r) \in [type : Types, block : Registers] /\ head(r).block = r
             /\ r \notin DOMAIN number => head(r) = m.header[r]
  <2>1. CASE r \in DOMAIN number
    <3>1. PICK x, t : x = m.header[r] /\ t = number[r].type
      OBVIOUS
    <3>2. x = [type |-> x.type, block |-> r] /\ t \in Types
      BY <1>2, <2>1, <3>1
    <3>3. head(r) = [x EXCEPT !.type = t]
      BY <2>1, <3>1
    <3> HIDE DEF head
    <3>4. head(r) = [type |-> t, block |-> r]
      BY <3>2, <3>3
    <3> QED BY <2>1, <3>2, <3>4
  <2>2. CASE r \notin DOMAIN number
    <3>1. head(r) = m.header[r]
      BY <2>2
    <3>2. m.header[r] \in [type : Types, block : Registers] /\ m.header[r].block = r
      BY DEF Whole
    <3> HIDE DEF head
    <3> QED BY <2>2, <3>1, <3>2
  <2> QED BY <2>1, <2>2
<1>5. Overwritten(m, number) = [header |-> h, ram |-> ram1]
  BY DEF Overwritten, Blocks
<1>6. h \in Headers /\ ram1 \in [Registers -> Values]
  <2> HIDE DEF head, mem
  <2> QED BY <1>3, <1>4 DEF Headers
<1>7. \A c \in Registers \ DOMAIN number : h[c] = m.header[c] /\ ram1[c] = m.ram[c]
  <2> HIDE DEF head, mem
  <2> QED BY <1>1, <1>3, <1>4
<1> HIDE DEF h, ram1
<1>8. ASSUME NEW c \in Registers \ DOMAIN number
      PROVE  Number(Overwritten(m, number), c) = Number(m, c)
  <2>1. h[c] = m.header[c] /\ ram1[c] = m.ram[c] /\ m.header[c].block = c
    BY <1>2, <1>7
  <2>2. PICK n : n = Overwritten(m, number)
    OBVIOUS
  <2>3. n.header = h /\ n.ram = ram1
    BY <1>5, <2>2
  <2>4. Number(n, c) = Number(m, c)
    BY <2>1, <2>3 DEF Number
  <2> QED BY <2>2, <2>4
<1> QED BY <1>1, <1>5, <1>6, <1>8, HeadersAndMemories DEF SameCopies

LEMMA AroundNumbers ==
    ASSUME NEW m \in Whole, NEW n \in Around(m)
    PROVE  n.type \in Types /\ n.value \in Values
<1>1. CASE n \in Numbers
  BY <1>1, Layout
<1>2. ASSUME NEW r \in Kept, n = Number(m, r) PROVE n.type \in Types /\ n.value \in Values
  <2>1. r \in Registers
    BY Layout
  <2> QED BY <1>2, <2>1, NumberOf DEF NumberTypes
<1> QED BY <1>1, <1>2 DEF Around

(* The copies of n are those of h, but for registers of rs that may be laid *)
(* aside.                                                                   *)
LaidAside(h, n, rs) ==
    \A r \in Kept : \/ Number(n, Saved(r)) = Number(h, Saved(r))
                    \/ r \in rs /\ Number(n, Saved(r)) = Number(h, r)

LEMMA AsideNumbers ==
    ASSUME NEW m \in Whole, NEW rs \in SUBSET Kept, NEW source, NEW n, n = Copied(m, source),
           \A c \in DOMAIN source : c \in {Saved(r) : r \in rs} /\ source[c] = c - Top - 1
    PROVE  n \in Whole /\ LaidAside(m, n, rs) /\ \A r \in Kept : Number(n, r) = Number(m, r)
<1>2. \A c \in DOMAIN source : c \in Copies /\ source[c] = c - Top - 1 /\ c - Top - 1 \in rs
  BY Layout
<1>3. DOMAIN source \subseteq Registers /\ \A c \in DOMAIN source : source[c] \in Registers
  <2>1. Copies \subseteq Registers /\ Kept \subseteq Registers
    BY Layout
  <2>2. \A c \in DOMAIN source : source[c] \in rs
    BY <1>2
  <2> QED BY <1>2, <2>1, <2>2
<1>4. n \in Whole /\ \A q \in Registers : Number(n, q) = Number(m, From(source, q))
  BY <1>3, CopiedNumbers
<1>5. ASSUME NEW r \in Kept PROVE Number(n, r) = Number(m, r)
  <2>1. r \in Registers /\ r \notin DOMAIN source
    BY <1>2, Layout
  <2> QED BY <1>4, <2>1 DEF From
<1>6. ASSUME NEW r \in Kept
      PROVE  \/ Number(n, Saved(r)) = Number(m, Saved(r))
             \/ r \in rs /\ Number(n, Saved(r)) = Number(m, r)
  <2>1. Saved(r) \in Registers /\ Saved(r) - Top - 1 = r
    BY Layout
  <2>2. CASE Saved(r) \in DOMAIN source
    BY <1>2, <1>4, <2>1, <2>2 DEF From
  <2>3. CASE Saved(r) \notin DOMAIN source
    BY <1>4, <2>1, <2>3 DEF From
  <2> QED BY <2>2, <2>3
<1> QED BY <1>4, <1>5, <1>6 DEF LaidAside

LEMMA AllAsideNumbers ==
    ASSUME NEW m \in Whole, NEW rs \in SUBSET Kept, NEW n,
           n = Copied(m, Aside(rs)) \/ n \in CopiedOrNot(m, Aside(rs))
    PROVE  n \in Whole /\ LaidAside(m, n, rs) /\ \A r \in Kept : Number(n, r) = Number(m, r)
<1>1. PICK refused, source : /\ source = Aside(rs) \/ source = Without(Aside(rs), refused)
                             /\ n = Copied(m, source)
  BY DEF CopiedOrNot
<1>2. \A c \in DOMAIN source : c \in {Saved(r) : r \in rs} /\ source[c] = c - Top - 1
  BY <1>1 DEF Without, Aside
<1> QED BY <1>1, <1>2, AsideNumbers

LEMMA BackNumbers ==
    ASSUME NEW m \in Whole, NEW rs \in SUBSET Kept, NEW n,
           n = Copied(m, Back(rs)) \/ n \in CopiedOrNot(m, Back(rs))
    PROVE  n \in Whole /\ SameCopies(m, n) /\ \A r \in Kept \ rs : Number(n, r) = Number(m, r)
<1>1. PICK refused, source : /\ source = Back(rs) \/ source = Without(Back(rs), refused)
                             /\ n = Copied(m, source)
  BY DEF CopiedOrNot
<1>2. \A r \in DOMAIN source : r \in rs /\ source[r] = Saved(r)
  BY <1>1 DEF Without, Back
<1>3. DOMAIN source \subseteq Kept /\ \A r \in DOMAIN source : source[r] \in Registers
  <2>1. \A r \in rs : Saved(r) \in Registers
    BY Layout
  <2> QED BY <1>2, <2>1
<1>4. \A r \in Kept \ rs : From(source, r) = r
  BY <1>2 DEF From
<1> QED BY <1>1, <1>3, <1>4, CopiedWithinKept

(* The save: the copies are the stack, which stays as it was. *)
LEMMA SavedNumbers ==
    ASSUME NEW m \in Whole
    PROVE  /\ Copied(m, ToCopies) \in Whole
           /\ \A r \in Kept : /\ Number(Copied(m, ToCopies), Saved(r)) = Number(m, r)
                              /\ Number(Copied(m, ToCopies), r) = Number(m, r)
<1>1. /\ DOMAIN ToCopies = Copies /\ Copies \subseteq Registers /\ Kept \subseteq Registers
      /\ \A c \in Copies : ToCopies[c] = c - Top - 1 /\ ToCopies[c] \in Kept
      /\ \A r \in Kept : r \notin Copies /\ Saved(r) \in Copies /\ Saved(r) - Top - 1 = r
  BY Layout DEF ToCopies
<1>2. \A r \in Kept : From(ToCopies, Saved(r)) = r /\ From(ToCopies, r) = r
  BY <1>1 DEF From
<1> QED BY <1>1, <1>2, CopiedNumbers

(* A refused save leaves blocks and headers in order. *)
LEMMA ClearedWhole ==
    ASSUME NEW m \in Whole, NEW refused, NEW default \in Types
    PROVE  Cleared(m, refused, default) \in Whole
<1> DEFINE h == [r \in Registers |-> IF r \in Copies \ refused
                                     THEN [m.header[r] EXCEPT !.type = default]
                                     ELSE m.header[r]]
           mem == [b \in Blocks |-> IF \E c \in Copies : m.header[c].block = b
                               THEN Zero ELSE m.ram[b]]
<1>1. mem \in [Registers -> Values]
  BY Layout DEF Blocks, Whole
<1>2. ASSUME NEW r \in Registers
      PROVE h[r] \in [type : Types, block : Registers] /\ h[r].block = r
  <2>1. /\ m.header[r] = [type |-> m.header[r].type, block |-> r]
        /\ m.header[r].type \in Types
    BY NumberOf, Layout DEF Whole
  <2> QED BY <2>1
<1>3. h = [r \in Registers |-> h[r]]
  OBVIOUS
<1>4. Cleared(m, refused, default) = [header |-> h, ram |-> mem]
  BY DEF Cleared
<1> HIDE DEF h, mem
<1>5. h \in Headers
  BY <1>2, <1>3 DEF Headers
<1> QED BY <1>1, <1>4, <1>5, HeadersAndMemories

LEMMA FailedSavesWhole ==
    ASSUME Machine \in Whole, NEW out \in FailedSaves
    PROVE  out.machine \in Whole /\ out.damaged \in BOOLEAN
<1>1. PICK failed \in Refusable(Machine, ToCopies) :
         \E default \in InputTypes :
            \E m, kept : m = CopiedDownTo(failed) /\ out = FailedSave(m, kept, default)
  BY DEF FailedSaves
<1>1a. PICK default \in InputTypes :
         \E m, kept : m = CopiedDownTo(failed) /\ out = FailedSave(m, kept, default)
  BY <1>1
<1>1b. PICK m, kept : m = CopiedDownTo(failed) /\ out = FailedSave(m, kept, default)
  BY <1>1a
<1> DEFINE source == [c \in {d \in Copies : d > failed} |-> ToCopies[c]]
<1>2. DOMAIN source \subseteq Registers /\ \A c \in DOMAIN source : source[c] \in Registers
  BY Layout DEF ToCopies
<1>3. m \in Whole
  <2>1. m = Copied(Machine, source)
    BY <1>1b DEF CopiedDownTo
  <2> HIDE DEF source
  <2> QED BY <1>2, <2>1, CopiedNumbers
<1>4. out = [machine |-> Cleared(m, kept, default),
             damaged |-> \E c \in kept : Overruns(m, c, [type |-> default])]
  BY <1>1b DEF FailedSave
<1> QED BY <1>3, <1>4, TypesOfInput, ClearedWhole

(* The recall: but for what is refused the stack is what was saved. *)
LEMMA RecalledNumbers ==
    ASSUME NEW m \in Whole, NEW refused \in SUBSET Refusable(m, Recalled)
    PROVE  /\ Copied(m, Without(Recalled, refused)) \in Whole
           /\ \A r \in Kept :
                 Number(Copied(m, Without(Recalled, refused)), r) =
                     IF r \in refused THEN Number(m, r) ELSE Number(m, Saved(r))
           /\ \A r \in refused : Number(m, r).type # Number(m, Saved(r)).type
<1> DEFINE source == Without(Recalled, refused)
<1>1. /\ DOMAIN source = Kept \ refused
      /\ \A r \in DOMAIN source : source[r] = Saved(r)
  BY DEF Without, Recalled
<1>2. /\ DOMAIN source \subseteq Kept /\ \A r \in DOMAIN source : source[r] \in Registers
      /\ \A r \in Kept : Saved(r) \in Registers /\ r \in Registers
  <2>1. \A r \in Kept : Saved(r) \in Registers /\ r \in Registers
    BY Layout
  <2> HIDE DEF source
  <2> QED BY <1>1, <2>1
<1>3. \A r \in Kept : From(source, r) = IF r \in refused THEN r ELSE Saved(r)
  BY <1>1 DEF From
<1>4. \A r \in refused : r \in Kept /\ m.header[r].type # m.header[Saved(r)].type
  BY DEF Refusable, Recalled
<1>5. \A r \in refused : Number(m, r).type # Number(m, Saved(r)).type
  <2> TAKE r \in refused
  <2>1. r \in Registers /\ Saved(r) \in Registers /\ m.header[r].type # m.header[Saved(r)].type
    BY <1>2, <1>4
  <2>2. Number(m, r).type = m.header[r].type /\ Number(m, Saved(r)).type = m.header[Saved(r)].type
    BY DEF Number
  <2> QED BY <2>1, <2>2
<1> HIDE DEF source
<1>6. Copied(m, source) \in Whole /\ \A r \in Kept : Number(Copied(m, source), r) = Number(m, From(source, r))
  BY <1>2, CopiedWithinKept
<1>7. \A r \in Kept : Number(Copied(m, source), r) =
                     IF r \in refused THEN Number(m, r) ELSE Number(m, Saved(r))
  BY <1>3, <1>6
<1> QED BY <1>5, <1>6, <1>7 DEF source

-----------------------------------------------------------------------------
(* The invariant after a step. *)

(* What the invariant says of the variables that hold no number. *)
Scalars ==
    /\ lastErrorCode \in Errors
    /\ thereIsSomethingToUndo \in BOOLEAN
    /\ ignore1error \in BOOLEAN /\ savedIgnore1error \in BOOLEAN
    /\ phase \in {"idle", "called", "returned", "damaged"}
    /\ func \in Functions \cup {NoFunction}
    /\ phase \in {"called", "returned"} => func # NoFunction
    /\ undoSavedThisStep \in BOOLEAN
    /\ undoSavedThisStep => indexOfItems[func] \in {"ENABLED", "ENABL_XEQ"}
    /\ launcher \in {"XEQ", "RS", NoFunction} /\ launcherSaved \in BOOLEAN
    /\ launcherSaved => launcher = "XEQ"

SavedAndFailing ==
    /\ undoSavedThisStep /\ thereIsSomethingToUndo
    /\ phase = "called" \/ (phase = "returned" /\ lastErrorCode # "NONE")

LEMMA InvGives ==
    ASSUME Inv
    PROVE  /\ Scalars
           /\ DOMAIN snapshot \subseteq Kept
           /\ phase # "damaged" => Machine \in Whole
           /\ SavedAndFailing =>
                 DOMAIN snapshot = Kept /\ (phase = "called" \/ func = "XEQ" => snapshot = StackNumbers(Machine))
           /\ phase # "damaged" =>
                 \A r \in DOMAIN snapshot :
                    thereIsSomethingToUndo /\ Number(Machine, Saved(r)) = snapshot[r]
<1>1. Scalars /\ DOMAIN snapshot \subseteq Kept
  BY DEF Inv, TypeOK, Scalars
<1>2. SavedAndFailing =>
         DOMAIN snapshot = Kept /\ (phase = "called" \/ func = "XEQ" => snapshot = StackNumbers(Machine))
  BY DEF Inv, SavedStepHasSnapshot, SavedAndFailing
<1>3. phase # "damaged" =>
                 \A r \in DOMAIN snapshot :
                    thereIsSomethingToUndo /\ Number(Machine, Saved(r)) = snapshot[r]
  BY DEF Inv, SnapshotIntact
<1> QED BY <1>1, <1>2, <1>3 DEF Inv

LEMMA NoSnapshot ==
    DOMAIN None = {} /\ \A m : StackNumbers(m) # None /\ DOMAIN StackNumbers(m) = Kept
<1>1. DOMAIN None = {}
  BY DEF None
<1>2. \A m : DOMAIN StackNumbers(m) = Kept
  BY DEF StackNumbers
<1> QED BY <1>1, <1>2, Layout

LEMMA Becoming ==
    ASSUME NEW m \in Loose, Becomes(m)
    PROVE  Machine' = m
BY DEF Becomes, Machine, Loose

LEMMA InvAfter ==
    ASSUME NEW m \in Whole, Becomes(m), Scalars', phase' # "damaged",
           DOMAIN snapshot' \subseteq Kept,
           \A r \in DOMAIN snapshot' :
             thereIsSomethingToUndo' /\ Number(m, Saved(r)) = snapshot'[r],
           SavedAndFailing' =>
               DOMAIN snapshot' = Kept /\ (phase' = "called" \/ func' = "XEQ" => snapshot' = StackNumbers(m))
    PROVE  Inv'
<1>1. Machine' = m
  BY WholeIsLoose, Becoming
<1>2. /\ globalRegister' \in [Registers -> [type : Types, block : Blocks \cup {NoBlock}]]
      /\ ram' \in [Blocks -> Values]
  BY WholeIsLoose DEF Becomes, Loose
<1>3. TypeOK' /\ (launcherSaved' => launcher' = "XEQ")
  BY <1>2 DEF TypeOK, Scalars
<1>4. SnapshotIntact'
  BY <1>1 DEF SnapshotIntact
<1>5. SavedStepHasSnapshot'
  BY <1>1 DEF SavedStepHasSnapshot, SavedAndFailing
<1> QED BY <1>1, <1>3, <1>4, <1>5 DEF Inv

LEMMA InvAfterDamage ==
    ASSUME NEW m \in Loose, Becomes(m), Scalars', phase' = "damaged",
           DOMAIN snapshot' \subseteq Kept
    PROVE  Inv'
<1>1. /\ globalRegister' \in [Registers -> [type : Types, block : Blocks \cup {NoBlock}]]
      /\ ram' \in [Blocks -> Values]
  BY DEF Becomes, Loose
<1>2. TypeOK' /\ (launcherSaved' => launcher' = "XEQ")
  BY <1>1 DEF TypeOK, Scalars
<1> QED BY <1>2 DEF Inv, SnapshotIntact, SavedStepHasSnapshot

(* What a function leaves when it changes nothing but levels and L. *)
LEMMA InvAfterFunction ==
    ASSUME Inv, phase = "called", NEW m \in Whole, SameCopies(Machine, m),
           NEW error \in Errors, func = "XEQ" => m = Machine,
           Returns(m, error), UNCHANGED undoState, ignore1error' \in BOOLEAN
    PROVE  Inv'
<1>1. Becomes(m) /\ phase' = "returned" /\ lastErrorCode' = error
  BY DEF Returns
<1>2. Scalars'
  BY InvGives DEF Scalars, Returns, undoState, program
<1>3. UNCHANGED <<snapshot, thereIsSomethingToUndo, func, undoSavedThisStep>>
  BY DEF Returns, undoState
<1>4. \A r \in DOMAIN snapshot' :
             thereIsSomethingToUndo' /\ Number(m, Saved(r)) = snapshot'[r]
  BY <1>3, InvGives, Layout DEF SameCopies
<1>5. SavedAndFailing' => SavedAndFailing
  BY <1>3 DEF SavedAndFailing
<1>6. SavedAndFailing' =>
               DOMAIN snapshot' = Kept /\ (phase' = "called" \/ func' = "XEQ" => snapshot' = StackNumbers(m))
  BY <1>1, <1>3, <1>5, InvGives
<1>7. DOMAIN snapshot' \subseteq Kept
  BY <1>3, InvGives
<1> QED BY <1>1, <1>2, <1>4, <1>6, <1>7, InvAfter

-----------------------------------------------------------------------------
(* Every step preserves the invariant. *)

LEMMA InitInv == Init => Inv
<1> SUFFICES ASSUME Init PROVE Inv
  OBVIOUS
<1>1. Machine \in Whole
  BY Layout DEF Init, Machine, Whole, Blocks
<1>2. /\ globalRegister \in [Registers -> [type : Types, block : Blocks \cup {NoBlock}]]
      /\ ram \in [Blocks -> Values]
  BY <1>1, WholeIsLoose DEF Machine, Loose
<1>3. TypeOK
  BY <1>2, NoSnapshot DEF Init, TypeOK, Errors
<1>4. DOMAIN snapshot = {} /\ ~undoSavedThisStep
  BY NoSnapshot DEF Init
<1> QED BY <1>1, <1>3, <1>4 DEF Init, Inv, SnapshotIntact, SavedStepHasSnapshot

LEMMA BeginSavedInv ==
    ASSUME Inv, NEW f \in Functions, BeginSaved(f)
    PROVE  Inv'
<1>1. Machine \in Whole
  BY InvGives DEF BeginSaved, Saving, MayBegin
<1>2. PICK m : m = Copied(Machine, ToCopies)
  OBVIOUS
<1>3. /\ m \in Whole
      /\ \A r \in Kept : Number(m, Saved(r)) = Number(Machine, r) /\ Number(m, r) = Number(Machine, r)
  BY <1>1, <1>2, SavedNumbers
<1>4. Becomes(m) /\ snapshot' = StackNumbers(Machine) /\ thereIsSomethingToUndo' = TRUE
  BY <1>2 DEF BeginSaved, Saves
<1>5. StackNumbers(Machine) = StackNumbers(m)
  BY <1>3 DEF StackNumbers
<1>6. Scalars' /\ phase' # "damaged"
  BY InvGives DEF Scalars, BeginSaved, Saving, Undoable, Saves, program, Functions, NoFunction, indexOfItems, Errors
<1>7. \A r \in Kept : Number(m, Saved(r)) = snapshot'[r]
  BY <1>3, <1>4 DEF StackNumbers
<1> QED BY <1>3, <1>4, <1>5, <1>6, <1>7, NoSnapshot, InvAfter

LEMMA BeginNotSavedInv ==
    ASSUME Inv, NEW f \in Functions, BeginNotSaved(f)
    PROVE  Inv'
<1>1. Machine \in Whole /\ phase = "idle"
  BY InvGives DEF BeginNotSaved, Saving, MayBegin
<1>2. PICK out \in FailedSaves :
        /\ Becomes(out.machine)
        /\ FailsToSave
        /\ IF out.damaged
           THEN /\ phase' = "damaged"
                /\ UNCHANGED <<lastErrorCode, func, undoSavedThisStep>>
           ELSE IF indexOfItems[f] = "ENABL_XEQ"
           THEN /\ phase' = "called" /\ func' = f /\ undoSavedThisStep' = TRUE
                /\ lastErrorCode' = "NONE"
           ELSE /\ lastErrorCode' = "RAM_FULL"
                /\ UNCHANGED <<phase, func, undoSavedThisStep>>
  BY DEF BeginNotSaved
<1>3. out.machine \in Whole
  BY <1>1, FailedSavesWhole
<1>4. snapshot' = None /\ thereIsSomethingToUndo' = FALSE /\ UNCHANGED <<ignore1error, program>>
  BY <1>2 DEF FailsToSave, BeginNotSaved
<1>5. Scalars'
  <2>1. f # NoFunction
    BY DEF Functions, indexOfItems, NoFunction
  <2> QED BY <1>1, <1>2, <1>4, <2>1, InvGives DEF Scalars, FailsToSave, program, Errors
<1>6. ~SavedAndFailing'
  BY <1>4 DEF SavedAndFailing
<1>7. CASE phase' = "damaged"
  BY <1>2, <1>3, <1>4, <1>5, <1>7, NoSnapshot, WholeIsLoose, InvAfterDamage
<1>8. CASE phase' # "damaged"
  BY <1>2, <1>3, <1>4, <1>5, <1>6, <1>8, NoSnapshot, InvAfter
<1> QED BY <1>7, <1>8

LEMMA BeginUnsavedInv ==
    ASSUME Inv, NEW f \in Functions, BeginUnsaved(f)
    PROVE  Inv'
<1>1. Machine \in Whole /\ phase = "idle"
  BY InvGives DEF BeginUnsaved, MayBegin
<1>2. PICK m : m = Machine
  OBVIOUS
<1>3. m \in Whole /\ Becomes(m)
  BY <1>1, <1>2 DEF BeginUnsaved, registers, Becomes, Machine
<1>4. Scalars' /\ phase' # "damaged" /\ undoSavedThisStep' = FALSE
  <2>1. f # NoFunction
    BY DEF Functions, indexOfItems, NoFunction
  <2> QED BY <2>1, InvGives DEF Scalars, BeginUnsaved, program, Errors
<1>5. \/ snapshot' = None
      \/ UNCHANGED <<thereIsSomethingToUndo, snapshot>>
  BY DEF BeginUnsaved
<1>6. \A r \in DOMAIN snapshot' :
             thereIsSomethingToUndo' /\ Number(m, Saved(r)) = snapshot'[r]
  BY <1>1, <1>2, <1>5, InvGives, NoSnapshot
<1>7. ~SavedAndFailing' /\ DOMAIN snapshot' \subseteq Kept
  BY <1>4, <1>5, InvGives, NoSnapshot DEF SavedAndFailing
<1> QED BY <1>3, <1>4, <1>6, <1>7, InvAfter

(* A function that ends in damage. *)
LEMMA DamagesInv ==
    ASSUME Inv, phase = "called", NEW m \in Loose, Damages(m)
    PROVE  Inv'
<1>1. Becomes(m) /\ phase' = "damaged" /\ Scalars' /\ DOMAIN snapshot' \subseteq Kept
  BY InvGives DEF Damages, Scalars, undoState, program
<1> QED BY <1>1, InvAfterDamage

LEMMA DoneInv ==
    ASSUME Inv, phase = "called", func # "XEQ", NEW m \in Whole, SameCopies(Machine, m),
           NEW error \in Errors, Done(m, error)
    PROVE  Inv'
<1>1. ignore1error' \in BOOLEAN
  BY InvGives DEF Done, Scalars
<1> QED BY <1>1, InvAfterFunction DEF Done

LEMMA ResultInv ==
    ASSUME Inv, phase = "called", func # "XEQ", NEW m \in Whole, SameCopies(Machine, m),
           NEW number, number.type \in Types, number.value \in Values, Result(m, X, number)
    PROVE  Inv'
<1> DEFINE w == Written(m, X, number)
           a == WrittenAnyway(m, X, number)
<1>1. /\ w \in Whole /\ SameCopies(Machine, w)
      /\ a \in Whole /\ SameCopies(Machine, a)
  <2>1. X \in Kept
    BY Layout
  <2>2. w \in Whole /\ SameCopies(m, w) /\ a \in Whole /\ SameCopies(m, a)
    BY <2>1, WrittenNumbers
  <2> HIDE DEF w, a
  <2> QED BY <2>2 DEF SameCopies
<1>2. \/ Done(w, "NONE") \/ Done(a, "RAM_FULL") \/ Damages(m)
  BY DEF Result
<1> HIDE DEF w, a
<1>3. PICK x, y : x = w /\ y = a
  OBVIOUS
<1>4. "NONE" \in Errors /\ "RAM_FULL" \in Errors
  BY DEF Errors
<1>5. CASE Done(w, "NONE")
  BY <1>1, <1>3, <1>4, <1>5, DoneInv
<1>6. CASE Done(a, "RAM_FULL")
  BY <1>1, <1>3, <1>4, <1>6, DoneInv
<1>7. CASE Damages(m)
  BY <1>7, WholeIsLoose, DamagesInv
<1> QED BY <1>2, <1>5, <1>6, <1>7

LEMMA Copies1Inv ==
    ASSUME Inv, phase = "called", func # "XEQ", NEW m \in Whole, SameCopies(Machine, m),
           NEW source, DOMAIN source \subseteq Kept,
           \A r \in DOMAIN source : source[r] \in Registers, Copies1(m, source)
    PROVE  Inv'
<1>1. PICK n : n = Copied(m, source)
  OBVIOUS
<1>2. n \in Whole /\ SameCopies(Machine, n)
  <2>1. n \in Whole /\ SameCopies(m, n)
    BY <1>1, CopiedWithinKept
  <2> QED BY <2>1 DEF SameCopies
<1>3. Done(n, "NONE") \/ Done(m, "RAM_FULL")
  BY <1>1 DEF Copies1
<1>4. "NONE" \in Errors /\ "RAM_FULL" \in Errors
  BY DEF Errors
<1> QED BY <1>2, <1>3, <1>4, DoneInv

LEMMA InPhase ==
    ASSUME Inv, NEW f, Called(f)
    PROVE  /\ phase = "called" /\ func = f
           /\ Machine \in Whole /\ SameCopies(Machine, Machine)
           /\ "NONE" \in Errors /\ "RAM_FULL" \in Errors /\ "ERROR" \in Errors
BY InvGives DEF Called, SameCopies, Errors

LEMMA RollInv == ASSUME Inv, fnRoll PROVE Inv'
<1>1. PICK m \in {RollUp(Machine), RollDown(Machine)} : Done(m, "NONE")
  BY DEF fnRoll
<1>2. Called("ROLL")
  BY DEF fnRoll
<1>3. m \in Whole /\ SameCopies(Machine, m)
  BY <1>2, InPhase, RollUpNumbers, RollDownNumbers
<1> QED BY <1>1, <1>2, <1>3, InPhase, DoneInv

LEMMA SwapXYInv == ASSUME Inv, fnSwapXY PROVE Inv'
<1>1. PICK m : m = SwapXY(Machine)
  OBVIOUS
<1>2. Called("SWAP") /\ Done(m, "NONE")
  BY <1>1 DEF fnSwapXY
<1>3. m \in Whole /\ SameCopies(Machine, m)
  BY <1>1, <1>2, InPhase, SwapXYNumbers
<1> QED BY <1>2, <1>3, InPhase, DoneInv

LEMMA ClXInv == ASSUME Inv, fnClX PROVE Inv'
<1>0. PICK default \in InputTypes : Result(Machine, X, [type |-> default, value |-> Zero])
  BY DEF fnClX
<1>1. PICK m, number : /\ m = Machine /\ number = [type |-> default, value |-> Zero]
                       /\ Result(m, X, number)
  BY <1>0
<1>2. Called("CLX")
  BY DEF fnClX
<1>3. m \in Whole /\ SameCopies(Machine, m)
  BY <1>1, <1>2, InPhase
<1>4. number.type \in Types /\ number.value \in Values
  BY <1>1, Layout, TypesOfInput
<1> QED BY <1>1, <1>2, <1>3, <1>4, InPhase, ResultInv

LEMMA LastXInv == ASSUME Inv, fnLastX PROVE Inv'
<1>1. PICK m \in {Machine, RollUp(Machine)} : Copies1(m, [r \in {X} |-> L])
  BY DEF fnLastX
<1>2. Called("LASTX")
  BY DEF fnLastX
<1>3. m \in Whole /\ SameCopies(Machine, m)
  BY <1>2, InPhase, RollUpNumbers
<1>4. PICK source : source = [r \in {X} |-> L]
  OBVIOUS
<1>5. DOMAIN source \subseteq Kept /\ \A r \in DOMAIN source : source[r] \in Registers
  BY <1>4, Layout
<1> QED BY <1>1, <1>2, <1>3, <1>4, <1>5, InPhase, Copies1Inv

LEMMA ConstantInv == ASSUME Inv, fnConstant PROVE Inv'
<1>1. Called("CONST")
  BY DEF fnConstant
<1>2. PICK aslift \in BOOLEAN :
       \/ \E n \in Numbers :
             n.type = "real" /\ Done(Written(LiftStack(Machine, aslift), X, n), "NONE")
       \/ /\ LiftFrees(Machine, aslift) < Sizes["real"]
          /\ Damages(LiftRefused(Machine, aslift))
  BY DEF fnConstant
<1>3. PICK m, bad : m = LiftStack(Machine, aslift) /\ bad = LiftRefused(Machine, aslift)
  OBVIOUS
<1>4. m \in Whole /\ SameCopies(Machine, m) /\ bad \in Loose
  BY <1>1, <1>3, InPhase, LiftStackNumbers
<1>5. ASSUME NEW n \in Numbers, Done(Written(m, X, n), "NONE") PROVE Inv'
  <2>1. PICK w : w = Written(m, X, n)
    OBVIOUS
  <2>2. X \in Kept /\ n.type \in Types /\ n.value \in Values
    BY Layout
  <2>3. w \in Whole /\ SameCopies(m, w)
    BY <1>4, <2>1, <2>2, WrittenNumbers
  <2>4. SameCopies(Machine, w)
    BY <1>4, <2>3 DEF SameCopies
  <2> QED BY <1>1, <1>5, <2>1, <2>3, <2>4, InPhase, DoneInv
<1>6. ASSUME Damages(bad) PROVE Inv'
  BY <1>1, <1>4, <1>6, InPhase, DamagesInv
<1> QED BY <1>2, <1>3, <1>5, <1>6

LEMMA DropInv == ASSUME Inv, fnDrop PROVE Inv'
<1>1. PICK m, bad : m = DropX(Machine) /\ bad = DropRefused(Machine)
  OBVIOUS
<1>2. Called("DROP") /\ (Done(m, "NONE") \/ Damages(bad))
  BY <1>1 DEF fnDrop
<1>3. m \in Whole /\ SameCopies(Machine, m) /\ bad \in Loose
  BY <1>1, <1>2, InPhase, DropNumbers, DropRefusedLoose
<1>4. CASE Done(m, "NONE")
  BY <1>2, <1>3, <1>4, InPhase, DoneInv
<1>5. CASE Damages(bad)
  BY <1>2, <1>3, <1>5, InPhase, DamagesInv
<1> QED BY <1>2, <1>4, <1>5

LEMMA FillInv == ASSUME Inv, fnFillStack PROVE Inv'
<1>1. Called("FILL")
  BY DEF fnFillStack
<1>2. \/ Done(Copied(Machine, [r \in Y .. Top |-> X]), "NONE")
      \/ \E s \in Y .. Top :
            Damages([Copied(Machine, [r \in Y .. s - 1 |-> X]) EXCEPT
                       !.header[s] = [type |-> globalRegister[X].type, block |-> NoBlock]])
  BY DEF fnFillStack
<1>3a. PICK h : h = Machine
  OBVIOUS
<1>3. h = Machine /\ h.header = globalRegister
  BY <1>3a DEF Machine
<1>4. h \in Whole
  BY <1>1, <1>3, InPhase
<1>5. ASSUME Done(Copied(h, [r \in Y .. Top |-> X]), "NONE") PROVE Inv'
  <2>1. PICK m : m = Copied(h, [r \in Y .. Top |-> X])
    OBVIOUS
  <2>2. m \in Whole /\ SameCopies(h, m)
    BY <1>4, <2>1, FillNumbers
  <2> QED BY <1>1, <1>3, <1>5, <2>1, <2>2, InPhase, DoneInv
<1>6. ASSUME NEW s \in Y .. Top,
             Damages([Copied(h, [r \in Y .. s - 1 |-> X]) EXCEPT
                       !.header[s] = [type |-> h.header[X].type, block |-> NoBlock]])
      PROVE  Inv'
  <2>1. PICK m : m = [Copied(h, [r \in Y .. s - 1 |-> X]) EXCEPT
                        !.header[s] = [type |-> h.header[X].type, block |-> NoBlock]]
    OBVIOUS
  <2>2. m \in Loose
    BY <1>4, <2>1, FillNumbers
  <2>3. Damages(m)
    BY <1>6, <2>1, Zenon
  <2> QED BY <1>1, <2>2, <2>3, InPhase, DamagesInv
<1> QED BY <1>2, <1>3, <1>5, <1>6

(* ENTER saves once more, and may go back to that save by itself. *)
LEMMA EnterInv == ASSUME Inv, fnKeyEnter PROVE Inv'
<1>1. PICK saved : saved = Copied(Machine, ToCopies)
  OBVIOUS
<1>2. PICK lifted, bad : lifted = LiftStack(saved, TRUE) /\ bad = LiftRefused(saved, TRUE)
  OBVIOUS
<1>3. /\ phase = "called" /\ func = "ENTER" /\ UNCHANGED ignore1error
      /\ Machine \in Whole /\ Scalars
  BY InvGives DEF fnKeyEnter, Called
<1>4. /\ saved \in Whole
      /\ \A r \in Kept : Number(saved, Saved(r)) = Number(Machine, r)
  BY <1>1, <1>3, SavedNumbers
<1>5. lifted \in Whole /\ SameCopies(saved, lifted) /\ bad \in Loose
  BY <1>2, <1>4, LiftStackNumbers
<1>6. \A r \in Kept : Number(lifted, Saved(r)) = Number(Machine, r)
  BY <1>4, <1>5, Layout DEF SameCopies
<1>7. \/ /\ Returns(Copied(lifted, [r \in {X} |-> Y]), "NONE")
         /\ Saves
      \/ /\ \E refused \in SUBSET Refusable(lifted, Recalled) :
                Returns(Copied(lifted, Without(Recalled, refused)), "RAM_FULL")
         /\ FailsToSave
      \/ /\ Becomes(bad) /\ phase' = "damaged"
         /\ Saves
         /\ UNCHANGED <<lastErrorCode, func, undoSavedThisStep, program>>
      \/ \E out \in FailedSaves :
         /\ Becomes(out.machine) /\ FailsToSave
         /\ lastErrorCode' = "RAM_FULL"
         /\ phase' = IF out.damaged THEN "damaged" ELSE "returned"
         /\ UNCHANGED <<func, undoSavedThisStep, program>>
  BY <1>1, <1>2 DEF fnKeyEnter
<1>8. ASSUME Returns(Copied(lifted, [r \in {X} |-> Y]), "NONE"), Saves PROVE Inv'
  <2>1. PICK m, source : source = [r \in {X} |-> Y] /\ m = Copied(lifted, source)
    OBVIOUS
  <2>2. DOMAIN source \subseteq Kept /\ \A r \in DOMAIN source : source[r] \in Registers
    BY <2>1, Layout
  <2>3. m \in Whole /\ SameCopies(lifted, m)
    BY <1>5, <2>1, <2>2, CopiedWithinKept
  <2>4. Becomes(m) /\ phase' = "returned" /\ lastErrorCode' = "NONE"
    BY <1>8, <2>1 DEF Returns
  <2>5. /\ Scalars' /\ snapshot' = StackNumbers(Machine) /\ thereIsSomethingToUndo'
        /\ ~SavedAndFailing'
    BY <1>3, <1>8 DEF Scalars, Returns, Saves, program, Errors, SavedAndFailing
  <2>6. \A r \in Kept : Number(m, Saved(r)) = snapshot'[r]
    BY <1>6, <2>3, <2>5, Layout DEF SameCopies, StackNumbers
  <2> QED BY <2>3, <2>4, <2>5, <2>6, NoSnapshot, InvAfter
<1>9. ASSUME NEW refused \in SUBSET Refusable(lifted, Recalled),
             Returns(Copied(lifted, Without(Recalled, refused)), "RAM_FULL"), FailsToSave
      PROVE  Inv'
  <2>1. PICK m : m = Copied(lifted, Without(Recalled, refused))
    OBVIOUS
  <2>2. m \in Whole
    BY <1>5, <2>1, RecalledNumbers
  <2>3. Becomes(m) /\ phase' = "returned"
    BY <1>9, <2>1 DEF Returns
  <2>4. Scalars' /\ snapshot' = None /\ ~SavedAndFailing'
    BY <1>3, <1>9 DEF Scalars, Returns, FailsToSave, program, Errors, SavedAndFailing
  <2> QED BY <2>2, <2>3, <2>4, NoSnapshot, InvAfter
<1>10. ASSUME Becomes(bad), phase' = "damaged", Saves,
              UNCHANGED <<lastErrorCode, func, undoSavedThisStep, program>>
       PROVE  Inv'
  <2>1. Scalars' /\ snapshot' = StackNumbers(Machine)
    BY <1>3, <1>10 DEF Scalars, Saves, program
  <2> QED BY <1>5, <1>10, <2>1, NoSnapshot, InvAfterDamage
<1>11. ASSUME NEW out \in FailedSaves, Becomes(out.machine), FailsToSave,
              lastErrorCode' = "RAM_FULL",
              phase' = IF out.damaged THEN "damaged" ELSE "returned",
              UNCHANGED <<func, undoSavedThisStep, program>>
       PROVE  Inv'
  <2>1. out.machine \in Whole /\ phase' \in {"damaged", "returned"}
    BY <1>3, <1>11, FailedSavesWhole
  <2>2. Scalars' /\ snapshot' = None /\ ~SavedAndFailing'
    BY <1>3, <1>11, <2>1 DEF Scalars, FailsToSave, program, Errors, SavedAndFailing
  <2>3. CASE phase' = "damaged"
    BY <1>11, <2>1, <2>2, <2>3, NoSnapshot, WholeIsLoose, InvAfterDamage
  <2>4. CASE phase' # "damaged"
    BY <1>11, <2>1, <2>2, <2>4, NoSnapshot, InvAfter
  <2> QED BY <2>3, <2>4
<1> QED BY <1>7, <1>8, <1>9, <1>10, <1>11

(* After a save the copies that a function takes for itself get the numbers *)
(* they have; in a program the snapshot forgets them.                       *)
LEMMA ScratchesInv ==
    ASSUME Inv, phase = "called", func # "XEQ", NEW n \in Whole, NEW rs \in SUBSET Kept,
           LaidAside(Machine, n, rs), NEW error \in Errors, Scratches(n, error, rs)
    PROVE  Inv'
<1>1. /\ Becomes(n) /\ phase' = "returned" /\ lastErrorCode' = error
      /\ UNCHANGED <<func, undoSavedThisStep, program>>
      /\ UNCHANGED <<thereIsSomethingToUndo, savedIgnore1error, ignore1error>>
      /\ snapshot' = Forgotten(rs)
  BY DEF Scratches, Returns
<1>2. Scalars'
  BY <1>1, InvGives DEF Scalars, program
<1>3. CASE undoSavedThisStep
  <2>1. snapshot' = snapshot
    BY <1>1, <1>3 DEF Forgotten
  <2>2. ASSUME NEW r \in DOMAIN snapshot'
        PROVE  thereIsSomethingToUndo' /\ Number(n, Saved(r)) = snapshot'[r]
    <3>1. r \in Kept /\ thereIsSomethingToUndo /\ Number(Machine, Saved(r)) = snapshot[r]
      BY <2>1, <2>2, InvGives
    <3>2. snapshot = StackNumbers(Machine)
      BY <1>3, <3>1, InvGives DEF SavedAndFailing
    <3>3. snapshot[r] = Number(Machine, r)
      BY <3>1, <3>2 DEF StackNumbers
    <3> QED BY <1>1, <2>1, <3>1, <3>3 DEF LaidAside
  <2>3. SavedAndFailing' => DOMAIN snapshot' = Kept
    BY <1>1, <2>1, InvGives DEF SavedAndFailing
  <2>4. DOMAIN snapshot' \subseteq Kept
    BY <2>1, InvGives
  <2> QED BY <1>1, <1>2, <2>2, <2>3, <2>4, InvAfter
<1>4. CASE ~undoSavedThisStep
  <2>1. /\ DOMAIN snapshot' = DOMAIN snapshot \ rs
        /\ \A r \in DOMAIN snapshot' : snapshot'[r] = snapshot[r]
    BY <1>1, <1>4 DEF Forgotten
  <2>2. ASSUME NEW r \in DOMAIN snapshot'
        PROVE  thereIsSomethingToUndo' /\ Number(n, Saved(r)) = snapshot'[r]
    <3>1. r \in Kept /\ r \notin rs /\ thereIsSomethingToUndo
          /\ Number(Machine, Saved(r)) = snapshot[r]
      BY <2>1, <2>2, InvGives
    <3> QED BY <1>1, <2>1, <3>1 DEF LaidAside
  <2>3. ~SavedAndFailing' /\ DOMAIN snapshot' \subseteq Kept
    BY <1>1, <1>4, <2>1, InvGives DEF SavedAndFailing
  <2> QED BY <1>1, <1>2, <2>2, <2>3, InvAfter
<1> QED BY <1>3, <1>4

(* The shuffle lays the levels aside by exchanging them with their copies.  *)
LEMMA ShuffleInv == ASSUME Inv, fnShuffle PROVE Inv'
<1>1. /\ phase = "called" /\ func = "SHUFFLE" /\ Machine \in Whole
  BY InvGives DEF fnShuffle, Called
<1>2. PICK h : h = Machine
  OBVIOUS
<1>3. PICK order \in [LowerLevels -> LowerLevels] :
         LET m      == SwapCopies(h)
             source == [r \in LowerLevels |-> Saved(order[r])]
         IN \E refused \in SUBSET Refusable(m, source) :
               Scratches(Copied(m, Without(source, refused)), ErrorAfter("NONE", refused),
                         LowerLevels)
  BY <1>2 DEF fnShuffle
<1>4. PICK m, source : m = SwapCopies(h) /\ source = [r \in LowerLevels |-> Saved(order[r])]
  OBVIOUS
<1>5. PICK refused : Scratches(Copied(m, Without(source, refused)), ErrorAfter("NONE", refused),
                               LowerLevels)
  BY <1>3, <1>4
<1>6. PICK n, some : some = Without(source, refused) /\ n = Copied(m, some)
  OBVIOUS
<1>7. /\ m \in Whole
      /\ \A c \in LowerCopies : Number(m, c) = Number(h, c - Top - 1)
      /\ \A c \in Registers \ (LowerLevels \cup LowerCopies) : Number(m, c) = Number(h, c)
  BY <1>1, <1>2, <1>4, SwapCopiesNumbers
<1>8. DOMAIN some \subseteq Kept /\ \A r \in DOMAIN some : some[r] \in Registers
  <2>1. DOMAIN some \subseteq LowerLevels /\ \A r \in DOMAIN some : some[r] = Saved(order[r])
    BY <1>4, <1>6 DEF Without
  <2>2. LowerLevels \subseteq Kept /\ \A r \in LowerLevels : Saved(r) \in Registers
    BY Layout
  <2>3. \A r \in LowerLevels : order[r] \in LowerLevels
    OBVIOUS
  <2> QED BY <2>1, <2>2, <2>3
<1>9. n \in Whole /\ SameCopies(m, n)
  BY <1>6, <1>7, <1>8, CopiedWithinKept
<1>10. ASSUME NEW r \in Kept
       PROVE  \/ Number(n, Saved(r)) = Number(h, Saved(r))
              \/ r \in LowerLevels /\ Number(n, Saved(r)) = Number(h, r)
  <2>1. /\ Saved(r) \in Copies /\ Saved(r) \in Registers /\ Saved(r) \notin LowerLevels
        /\ Saved(r) - Top - 1 = r
    BY Layout
  <2>2. Number(n, Saved(r)) = Number(m, Saved(r))
    BY <1>9, <2>1 DEF SameCopies
  <2>3. CASE Saved(r) \in LowerCopies
    <3>1. Saved(r) - Top - 1 \in LowerLevels
      BY <2>3, Layout
    <3>2. r \in LowerLevels
      BY <2>1, <3>1
    <3> QED BY <1>7, <2>1, <2>2, <2>3, <3>2
  <2>4. CASE Saved(r) \notin LowerCopies
    BY <1>7, <2>1, <2>2, <2>4
  <2> QED BY <2>3, <2>4
<1>11. LaidAside(h, n, LowerLevels) /\ LowerLevels \in SUBSET Kept
  BY <1>10, Layout DEF LaidAside
<1>12. PICK error : error = ErrorAfter("NONE", refused)
  OBVIOUS
<1>13. error \in Errors /\ Scratches(n, error, LowerLevels)
  BY <1>5, <1>6, <1>12 DEF ErrorAfter, Errors
<1> QED BY <1>1, <1>2, <1>9, <1>11, <1>13, ScratchesInv

(* Arithmetic in the registers of the stack, after a first step to m that   *)
(* laid aside "first".                                                      *)
LEMMA ArithmeticInv ==
    ASSUME Inv, phase = "called", func # "XEQ", NEW m \in Whole,
           NEW first \in SUBSET Kept, NEW aside \in SUBSET Kept, NEW scratch \in SUBSET Kept,
           NEW result \in SUBSET Kept, LaidAside(Machine, m, first),
           \A r \in aside : Number(m, r) = Number(Machine, r),
           Arithmetic(m, aside, scratch, result, first \cup aside)
    PROVE  Inv'
<1>1. PICK laid \in CopiedOrNot(m, Aside(aside)) :
       \/ \E left \in SUBSET (scratch \ result) :
          \E number \in [left \cup result -> Around(laid)],
             error \in Ends(left = {} /\ AllCopied(m, laid, Aside(aside))) :
             /\ \A r \in left : number[r].type # laid.header[Saved(r)].type
             /\ Scratches(Copied(Overwritten(laid, number), Back((scratch \ result) \ left)),
                          error, first \cup aside)
       \/ Damages(laid)
  BY DEF Arithmetic
<1>2. laid \in Whole /\ LaidAside(m, laid, aside)
  BY <1>1, AllAsideNumbers
<1>3. LaidAside(Machine, laid, first \cup aside)
  BY <1>2 DEF LaidAside
<1>4. ASSUME NEW left \in SUBSET (scratch \ result),
             NEW number \in [left \cup result -> Around(laid)],
             NEW error \in Ends(left = {} /\ AllCopied(m, laid, Aside(aside))),
             Scratches(Copied(Overwritten(laid, number), Back((scratch \ result) \ left)),
                       error, first \cup aside)
      PROVE  Inv'
  <2>1. PICK used, n, rs : /\ used = Overwritten(laid, number) /\ rs = (scratch \ result) \ left
                           /\ n = Copied(used, Back(rs))
    OBVIOUS
  <2>2. used \in Whole /\ SameCopies(laid, used)
    <3>1. DOMAIN number = left \cup result /\ DOMAIN number \subseteq Kept
      OBVIOUS
    <3>2. \A r \in DOMAIN number : number[r] \in Around(laid)
      OBVIOUS
    <3> QED BY <1>2, <2>1, <3>1, <3>2, AroundNumbers, OverwrittenNumbers
  <2>3. n \in Whole /\ SameCopies(used, n)
    <3>1. rs \in SUBSET Kept
      BY <2>1
    <3> QED BY <2>1, <2>2, <3>1, BackNumbers
  <2>4. LaidAside(Machine, n, first \cup aside)
    BY <1>3, <2>2, <2>3, Layout DEF LaidAside, SameCopies
  <2>5. error \in Errors /\ first \cup aside \in SUBSET Kept
    BY DEF Ends, Errors
  <2>6. Scratches(n, error, first \cup aside)
    BY <1>4, <2>1
  <2> QED BY <2>3, <2>4, <2>5, <2>6, ScratchesInv
<1>5. ASSUME Damages(laid) PROVE Inv'
  BY <1>2, <1>5, WholeIsLoose, DamagesInv
<1> QED BY <1>1, <1>4, <1>5

LEMMA RecallOpInv == ASSUME Inv, fnRecallOp PROVE Inv'
<1>1. Called("RCLOP")
  BY DEF fnRecallOp
<1>1a. PICK first \in {{}, {L}}, scratch \in {{}, {Y}} :
         LET m     == Copied(Machine, Aside(first))
             lastX == [r \in {L} |-> X]
             aside == IF Running THEN scratch ELSE {}
         IN \/ Done(Machine, "RAM_FULL")
            \/ Scratches(m, "RAM_FULL", first)
            \/ Arithmetic(Copied(m, lastX), aside, scratch, {X}, first \cup aside)
  BY DEF fnRecallOp
<1>2. PICK m, lastX, aside :
         /\ m = Copied(Machine, Aside(first))
         /\ lastX = [r \in {L} |-> X]
         /\ aside = IF Running THEN scratch ELSE {}
         /\ \/ Done(Machine, "RAM_FULL")
            \/ Scratches(m, "RAM_FULL", first)
            \/ Arithmetic(Copied(m, lastX), aside, scratch, {X}, first \cup aside)
  BY <1>1a
<1>3. /\ first \in SUBSET Kept /\ scratch \in SUBSET Kept /\ aside \in SUBSET Kept
      /\ {X} \in SUBSET Kept /\ \A r \in aside : r # L
  BY <1>2, Layout DEF L, Y
<1>4. m \in Whole /\ LaidAside(Machine, m, first) /\ \A r \in Kept : Number(m, r) = Number(Machine, r)
  BY <1>1, <1>2, <1>3, InPhase, AllAsideNumbers
<1>5. PICK n : n = Copied(m, lastX)
  OBVIOUS
<1>6. /\ DOMAIN lastX \subseteq Kept /\ \A r \in DOMAIN lastX : lastX[r] \in Registers
      /\ \A r \in aside : From(lastX, r) = r
  BY <1>2, <1>3, Layout DEF From
<1>7. /\ n \in Whole /\ SameCopies(m, n)
      /\ \A r \in Kept : Number(n, r) = Number(m, From(lastX, r))
  BY <1>4, <1>5, <1>6, CopiedWithinKept
<1>8. LaidAside(Machine, n, first) /\ \A r \in aside : Number(n, r) = Number(Machine, r)
  <2>1. LaidAside(Machine, n, first)
    BY <1>4, <1>7, Layout DEF LaidAside, SameCopies
  <2>2. ASSUME NEW r \in aside PROVE Number(n, r) = Number(Machine, r)
    <3>1. r \in Kept /\ From(lastX, r) = r
      BY <1>3, <1>6
    <3>2. Number(n, r) = Number(m, From(lastX, r))
      BY <1>7, <3>1
    <3> QED BY <1>4, <3>1, <3>2
  <2> QED BY <2>1, <2>2
<1>9. CASE Done(Machine, "RAM_FULL")
  <2>1. PICK h : h = Machine
    OBVIOUS
  <2> QED BY <1>1, <1>9, <2>1, InPhase, DoneInv
<1>10. CASE Scratches(m, "RAM_FULL", first)
  BY <1>1, <1>3, <1>4, <1>10, InPhase, ScratchesInv
<1>11. CASE Arithmetic(n, aside, scratch, {X}, first \cup aside)
  BY <1>1, <1>3, <1>7, <1>8, <1>11, InPhase, ArithmeticInv
<1> QED BY <1>2, <1>5, <1>9, <1>10, <1>11

LEMMA StoreOpInv == ASSUME Inv, fnStoreOp PROVE Inv'
<1>1. Called("STOOP")
  BY DEF fnStoreOp
<1>1a. PICK scratch \in {{X}, {X, Y}, {L, X, Y}}, result \in {{}} \cup {{r} : r \in Kept} :
         LET aside == IF Running \/ scratch = {X} THEN scratch ELSE {}
         IN Arithmetic(Machine, aside, scratch, result, aside)
  BY DEF fnStoreOp
<1>2. PICK aside, h :
         /\ aside = IF Running \/ scratch = {X} THEN scratch ELSE {}
         /\ h = Machine
         /\ Arithmetic(h, aside, scratch, result, aside)
  BY <1>1a
<1>3. scratch \in SUBSET Kept /\ aside \in SUBSET Kept /\ result \in SUBSET Kept
  BY <1>2, Layout
<1>4. {} \in SUBSET Kept /\ {} \cup aside = aside
  OBVIOUS
<1>5. h \in Whole /\ LaidAside(Machine, h, {}) /\ \A r \in aside : Number(h, r) = Number(Machine, r)
  BY <1>1, <1>2, InPhase DEF LaidAside
<1> QED BY <1>1, <1>2, <1>3, <1>4, <1>5, InPhase, ArithmeticInv

LEMMA AlphaTrimInv == ASSUME Inv, fnAlphaTrim PROVE Inv'
<1>1. Called("ATRIM")
  BY DEF fnAlphaTrim
<1>2. PICK h : h = Machine
  OBVIOUS
<1>3. h \in Whole /\ SameCopies(Machine, h) /\ {L} \in SUBSET Kept /\ {X} \in SUBSET Kept
  BY <1>1, <1>2, InPhase, Layout
<1>4. \/ Done(h, "ERROR")
      \/ \E n \in Around(h) :
          \E back \in CopiedOrNot(Overwritten(h, [r \in {X} |-> n]), Back({X})) :
          \E laid \in CopiedOrNot(back, Aside({L})) :
          \E error \in Errors : Scratches(laid, error, {L})
  BY <1>2 DEF fnAlphaTrim, Ends, Errors
<1>5. ASSUME NEW n \in Around(h),
             NEW back \in CopiedOrNot(Overwritten(h, [r \in {X} |-> n]), Back({X})),
             NEW laid \in CopiedOrNot(back, Aside({L})),
             NEW error \in Errors, Scratches(laid, error, {L})
      PROVE  Inv'
  <2>1. PICK number : number = [r \in {X} |-> n]
    OBVIOUS
  <2>2. DOMAIN number \subseteq Kept /\ \A r \in DOMAIN number : number[r].type \in Types /\ number[r].value \in Values
    <3>1. n.type \in Types /\ n.value \in Values
      BY <1>3, <1>5, AroundNumbers
    <3> QED BY <1>3, <2>1, <3>1
  <2>3. PICK used : used = Overwritten(h, number)
    OBVIOUS
  <2>4. used \in Whole /\ SameCopies(h, used)
    BY <1>3, <2>2, <2>3, OverwrittenNumbers
  <2>5. /\ back \in Whole /\ SameCopies(used, back)
        /\ \A r \in Kept \ {X} : Number(back, r) = Number(used, r)
    BY <1>3, <1>5, <2>1, <2>3, <2>4, BackNumbers
  <2>6. laid \in Whole /\ LaidAside(back, laid, {L})
    BY <1>3, <1>5, <2>5, AllAsideNumbers
  <2>7. Number(back, L) = Number(h, L)
    <3>1. L \in Kept /\ L # X /\ L \in Registers
      BY Layout DEF L, X
    <3>2. Number(used, L) = Number(h, L)
      BY <1>3, <2>1, <2>2, <2>3, <3>1, OverwrittenNumbers
    <3>3. Number(back, L) = Number(used, L)
      BY <2>5, <3>1
    <3> QED BY <3>2, <3>3
  <2>8. LaidAside(Machine, laid, {L})
    BY <1>2, <2>4, <2>5, <2>6, <2>7, Layout DEF LaidAside, SameCopies
  <2> QED BY <1>1, <1>3, <1>5, <2>6, <2>8, InPhase, ScratchesInv
<1>6. CASE Done(h, "ERROR")
  BY <1>1, <1>3, <1>6, InPhase, DoneInv
<1> QED BY <1>4, <1>5, <1>6

LEMMA MonadicInv == ASSUME Inv, fnMonadic PROVE Inv'
<1>1. PICK h, m : h = Machine /\ m = Copied(h, [r \in {L} |-> X])
  OBVIOUS
<1>2. /\ Called("MONADIC")
      /\ \/ Done(h, "RAM_FULL")
         \/ Done(m, "ERROR")
         \/ \E n \in Numbers : Result(m, X, n)
  BY <1>1 DEF fnMonadic
<1>3. h \in Whole /\ SameCopies(Machine, h)
  BY <1>1, <1>2, InPhase
<1>4. m \in Whole /\ SameCopies(Machine, m)
  <2>1. PICK source : source = [r \in {L} |-> X]
    OBVIOUS
  <2>2. DOMAIN source \subseteq Kept /\ \A r \in DOMAIN source : source[r] \in Registers
    BY <2>1, Layout
  <2> QED BY <1>1, <1>3, <2>1, <2>2, CopiedWithinKept DEF SameCopies
<1>5. CASE Done(h, "RAM_FULL")
  BY <1>2, <1>3, <1>5, InPhase, DoneInv
<1>6. CASE Done(m, "ERROR")
  BY <1>2, <1>4, <1>6, InPhase, DoneInv
<1>7. ASSUME NEW n \in Numbers, Result(m, X, n) PROVE Inv'
  BY <1>2, <1>4, <1>7, Layout, InPhase, ResultInv
<1> QED BY <1>2, <1>5, <1>6, <1>7

LEMMA SetFlagInv == ASSUME Inv, fnSetFlag PROVE Inv'
<1>1. PICK h : h = Machine
  OBVIOUS
<1>2. Called("SF") /\ Returns(h, "NONE") /\ ignore1error' = TRUE /\ UNCHANGED undoState
  BY <1>1 DEF fnSetFlag
<1>3. h \in Whole /\ SameCopies(Machine, h)
  BY <1>1, <1>2, InPhase
<1> QED BY <1>1, <1>2, <1>3, InPhase, InvAfterFunction

LEMMA RaiseErrorInv == ASSUME Inv, fnRaiseError PROVE Inv'
<1>1. PICK h : h = Machine
  OBVIOUS
<1>2. Called("ERR") /\ Done(h, "ERROR")
  BY <1>1 DEF fnRaiseError
<1> QED BY <1>1, <1>2, InPhase, DoneInv

LEMMA ExecuteInv == ASSUME Inv, fnExecute PROVE Inv'
<1>1. PICK h : h = Machine
  OBVIOUS
<1>2. Called("XEQ") /\ Done(h, "ERROR")
  BY <1>1 DEF fnExecute
<1>3. Returns(h, "ERROR") /\ UNCHANGED undoState /\ ignore1error' \in BOOLEAN
  BY <1>2, InvGives DEF Done, Scalars
<1> QED BY <1>1, <1>2, <1>3, InPhase, InvAfterFunction

LEMMA UndoInv == ASSUME Inv, fnUndo PROVE Inv'
<1>1. /\ phase = "called" /\ func = "UNDO" /\ Machine \in Whole /\ Scalars
      /\ DOMAIN snapshot \subseteq Kept
      /\ phase' = "returned" /\ UNCHANGED <<func, undoSavedThisStep, program>>
  BY InvGives DEF fnUndo, Called
<1>2. ~undoSavedThisStep
  BY <1>1 DEF Scalars, indexOfItems
<1>3. ~SavedAndFailing'
  BY <1>1, <1>2 DEF SavedAndFailing
<1>4. PICK h : h = Machine
  OBVIOUS
<1>5. CASE thereIsSomethingToUndo
  <2>1. PICK refused \in SUBSET Refusable(h, Recalled) :
              Recall(h, refused) /\ lastErrorCode' = ErrorAfter("NONE", refused)
    BY <1>4, <1>5 DEF fnUndo
  <2>2. PICK m : m = Copied(h, Without(Recalled, refused))
    OBVIOUS
  <2>3. m \in Whole
    BY <1>1, <1>4, <2>2, RecalledNumbers
  <2>4. Becomes(m) /\ snapshot' = None
    BY <2>1, <2>2 DEF Recall
  <2>5. ignore1error' = savedIgnore1error
    BY <1>5 DEF fnUndo
  <2>6. Scalars'
    BY <1>1, <2>1, <2>5 DEF Scalars, Recall, ErrorAfter, Errors, program
  <2> QED BY <1>1, <1>3, <2>3, <2>4, <2>6, NoSnapshot, InvAfter
<1>6. CASE ~thereIsSomethingToUndo
  <2>1. UNCHANGED <<registers, lastErrorCode, undoState, ignore1error>>
    BY <1>6 DEF fnUndo
  <2>2. Becomes(h) /\ h \in Whole
    BY <1>1, <1>4, <2>1 DEF registers, Becomes, Machine
  <2>3. Scalars' /\ UNCHANGED <<snapshot, thereIsSomethingToUndo>>
    BY <1>1, <2>1 DEF Scalars, undoState, program
  <2>4. \A r \in DOMAIN snapshot' :
             thereIsSomethingToUndo' /\ Number(h, Saved(r)) = snapshot'[r]
    BY <1>1, <1>4, <2>3, InvGives
  <2> QED BY <1>1, <1>3, <2>2, <2>3, <2>4, InvAfter
<1> QED BY <1>5, <1>6

LEMMA UnchangedMachine ==
    ASSUME Inv, phase # "damaged", UNCHANGED registers
    PROVE  Machine' = Machine /\ Machine \in Whole /\ Becomes(Machine)
BY InvGives DEF registers, Machine, Becomes

LEMMA Launchers ==
    /\ indexOfItems["XEQ"] = "ENABLED" /\ indexOfItems["RS"] = "UNCHANGED"
    /\ "XEQ" \in Functions /\ "RS" \in Functions /\ NoFunction \notin Functions
    /\ "XEQ" # NoFunction /\ "RS" # NoFunction
BY DEF indexOfItems, Functions, NoFunction

LEMMA RunProgramInv == ASSUME Inv, RunProgram PROVE Inv'
<1>1. /\ phase = "called" /\ func \in {"XEQ", "RS"} /\ phase' = "idle" /\ Scalars
      /\ UNCHANGED <<registers, lastErrorCode, undoState, ignore1error>>
  BY InvGives DEF RunProgram, Called
<1>2. PICK h : h = Machine
  OBVIOUS
<1>3. h \in Whole /\ Becomes(h)
  BY <1>1, <1>2, UnchangedMachine
<1>4. Scalars'
  <2>1. /\ launcher' = func /\ launcherSaved' = undoSavedThisStep
        /\ func' = NoFunction /\ undoSavedThisStep' = FALSE
        /\ UNCHANGED <<lastErrorCode, thereIsSomethingToUndo, savedIgnore1error, ignore1error>>
    BY DEF RunProgram, undoState
  <2>2. undoSavedThisStep => func = "XEQ"
    BY <1>1, Launchers DEF Scalars
  <2> QED BY <1>1, <2>1, <2>2 DEF Scalars
<1>5. /\ ~SavedAndFailing' /\ DOMAIN snapshot' \subseteq Kept
      /\ \A r \in DOMAIN snapshot' :
             thereIsSomethingToUndo' /\ Number(h, Saved(r)) = snapshot'[r]
  BY <1>1, <1>2, InvGives DEF SavedAndFailing, undoState
<1> QED BY <1>1, <1>3, <1>4, <1>5, InvAfter

LEMMA StopProgramInv == ASSUME Inv, StopProgram PROVE Inv'
<1>1. /\ phase = "idle" /\ launcher # NoFunction /\ phase' = "returned" /\ Scalars
      /\ UNCHANGED <<registers, lastErrorCode, savedIgnore1error, ignore1error>>
      /\ thereIsSomethingToUndo' = (lastErrorCode = "NONE" /\ thereIsSomethingToUndo)
      /\ snapshot' = IF thereIsSomethingToUndo' THEN snapshot ELSE None
  BY InvGives DEF StopProgram, AfterProgram
<1>2. PICK h : h = Machine
  OBVIOUS
<1>3. h \in Whole /\ Becomes(h)
  BY <1>1, <1>2, UnchangedMachine
<1>4. Scalars'
  <2>1. /\ func' = launcher /\ undoSavedThisStep' = launcherSaved
        /\ launcher' = NoFunction /\ launcherSaved' = FALSE
    BY DEF StopProgram
  <2>2. /\ func' \in Functions /\ func' # NoFunction
        /\ undoSavedThisStep' => indexOfItems[func'] = "ENABLED"
    BY <1>1, <2>1, Launchers DEF Scalars
  <2>3. thereIsSomethingToUndo' \in BOOLEAN
    BY <1>1
  <2> QED BY <1>1, <2>1, <2>2, <2>3 DEF Scalars
<1>5. /\ ~SavedAndFailing' /\ DOMAIN snapshot' \subseteq Kept
      /\ \A r \in DOMAIN snapshot' :
             thereIsSomethingToUndo' /\ Number(h, Saved(r)) = snapshot'[r]
  BY <1>1, <1>2, InvGives, NoSnapshot DEF SavedAndFailing
<1> QED BY <1>1, <1>3, <1>4, <1>5, InvAfter

LEMMA FailedInv == ASSUME Inv, Failed PROVE Inv'
<1>1. /\ phase = "returned" /\ phase' = "idle" /\ Scalars /\ Machine \in Whole
      /\ DOMAIN snapshot \subseteq Kept
      /\ ignore1error' = FALSE /\ func' = NoFunction /\ undoSavedThisStep' = FALSE
      /\ UNCHANGED program
  BY InvGives DEF Failed
<1>2. PICK h : h = Machine
  OBVIOUS
<1>3. ~SavedAndFailing'
  BY <1>1 DEF SavedAndFailing
<1>4. CASE Undoes(func, undoSavedThisStep)
  <2>1. PICK refused \in SUBSET Refusable(h, Recalled) :
                  /\ Recall(h, refused)
                  /\ lastErrorCode' = IF ignore1error THEN "NONE"
                                      ELSE ErrorAfter(lastErrorCode, refused)
    BY <1>2, <1>4 DEF Failed
  <2>2. PICK m : m = Copied(h, Without(Recalled, refused))
    OBVIOUS
  <2>3. m \in Whole
    BY <1>1, <1>2, <2>2, RecalledNumbers
  <2>4. Becomes(m) /\ snapshot' = None
    BY <2>1, <2>2 DEF Recall
  <2>5. Scalars'
    BY <1>1, <2>1 DEF Scalars, Recall, ErrorAfter, Errors, program
  <2> QED BY <1>1, <1>3, <2>3, <2>4, <2>5, NoSnapshot, InvAfter
<1>5. CASE ~Undoes(func, undoSavedThisStep)
  <2>1. /\ UNCHANGED <<registers, undoState>>
        /\ lastErrorCode' = IF ignore1error THEN "NONE" ELSE lastErrorCode
    BY <1>5 DEF Failed
  <2>2. h \in Whole /\ Becomes(h)
    BY <1>1, <1>2, <2>1, UnchangedMachine
  <2>3. Scalars' /\ UNCHANGED <<snapshot, thereIsSomethingToUndo>>
    BY <1>1, <2>1 DEF Scalars, undoState, program, Errors
  <2>4. \A r \in DOMAIN snapshot' :
             thereIsSomethingToUndo' /\ Number(h, Saved(r)) = snapshot'[r]
    BY <1>1, <1>2, <2>3, InvGives
  <2> QED BY <1>1, <1>3, <2>2, <2>3, <2>4, InvAfter
<1> QED BY <1>4, <1>5

LEMMA SucceededInv == ASSUME Inv, Succeeded PROVE Inv'
<1>1. /\ phase = "returned" /\ phase' = "idle" /\ Scalars
      /\ UNCHANGED <<registers, lastErrorCode, undoState, ignore1error, program>>
      /\ func' = NoFunction /\ undoSavedThisStep' = FALSE
  BY InvGives DEF Succeeded
<1>2. PICK h : h = Machine
  OBVIOUS
<1>3. h \in Whole /\ Becomes(h)
  BY <1>1, <1>2, UnchangedMachine
<1>4. Scalars'
  BY <1>1 DEF Scalars, undoState, program
<1>5. /\ ~SavedAndFailing' /\ DOMAIN snapshot' \subseteq Kept
      /\ \A r \in DOMAIN snapshot' :
             thereIsSomethingToUndo' /\ Number(h, Saved(r)) = snapshot'[r]
  BY <1>1, <1>2, InvGives DEF SavedAndFailing, undoState
<1> QED BY <1>1, <1>3, <1>4, <1>5, InvAfter

LEMMA RestartInv == ASSUME Restart PROVE Inv'
<1>1. Init'
  BY DEF Restart, Init
<1>2. (Init => Inv)'
  BY InitInv, PTL
<1> QED BY <1>1, <1>2

LEMMA StutterInv == ASSUME Inv, UNCHANGED vars PROVE Inv'
<1>1. UNCHANGED <<globalRegister, ram, lastErrorCode, thereIsSomethingToUndo, savedIgnore1error,
                  snapshot, ignore1error, phase, func, undoSavedThisStep, launcher, launcherSaved>>
  BY DEF vars, registers, undoState, program
<1>2. Machine' = Machine
  BY <1>1 DEF Machine
<1>3. TypeOK' /\ (launcherSaved' => launcher' = "XEQ")
  BY <1>1 DEF Inv, TypeOK
<1>4. SnapshotIntact' /\ SavedStepHasSnapshot'
  BY <1>1, <1>2 DEF Inv, SnapshotIntact, SavedStepHasSnapshot
<1> QED BY <1>1, <1>2, <1>3, <1>4 DEF Inv

LEMMA NextInv == Inv /\ [Next]_vars => Inv'
<1> SUFFICES ASSUME Inv, [Next]_vars PROVE Inv'
  OBVIOUS
<1>1. CASE \E f \in Functions : BeginSaved(f) \/ BeginNotSaved(f) \/ BeginUnsaved(f)
  BY <1>1, BeginSavedInv, BeginNotSavedInv, BeginUnsavedInv
<1>2. CASE Function
  BY <1>2, DropInv, RollInv, SwapXYInv, ClXInv, FillInv, EnterInv, ConstantInv, LastXInv,
     ShuffleInv, MonadicInv, RecallOpInv, StoreOpInv, AlphaTrimInv, SetFlagInv, RaiseErrorInv, UndoInv, ExecuteInv DEF Function
<1>3. CASE RunProgram
  BY <1>3, RunProgramInv
<1>4. CASE StopProgram
  BY <1>4, StopProgramInv
<1>5. CASE Failed
  BY <1>5, FailedInv
<1>6. CASE Succeeded
  BY <1>6, SucceededInv
<1>7. CASE Restart
  BY <1>7, RestartInv
<1>8. CASE UNCHANGED vars
  BY <1>8, StutterInv
<1> QED BY <1>1, <1>2, <1>3, <1>4, <1>5, <1>6, <1>7, <1>8 DEF Next

LEMMA Invariance == Spec => []Inv
BY InitInv, NextInv, PTL DEF Spec

-----------------------------------------------------------------------------
(* The theorems. *)

(* The variables of Stack have their types, whatever the pool refuses.      *)
THEOREM TypeCorrect == Spec => []TypeOK
<1>1. Inv => TypeOK
  BY DEF Inv
<1> QED BY <1>1, Invariance, PTL

(* For a stack of any size and any order of functions, no two registers     *)
(* ever share a block and none is without, as long as no refusal that the   *)
(* code does not look at has done its damage.                               *)
THEOREM BlocksHaveOneOwner == Spec => []OneOwner
<1>1. Inv => OneOwner
  <2> SUFFICES ASSUME Inv, phase # "damaged"
               PROVE  /\ \A r \in Registers : globalRegister[r].block # NoBlock
                      /\ \A r, q \in Registers :
                            globalRegister[r].block = globalRegister[q].block => r = q
    BY DEF OneOwner
  <2>1. \A r \in Registers : globalRegister[r].block = r
    BY InvGives DEF Whole, Machine
  <2>2. NoBlock \notin Registers
    BY Layout
  <2> QED BY <2>1, <2>2
<1> QED BY <1>1, Invariance, PTL

(* The copies of saveForUndo stay the stack of the save until UNDO uses     *)
(* them or they are given up, but for those that the shuffle, the recall    *)
(* and store arithmetic and the string functions of a running program take  *)
(* for themselves.                                                          *)
THEOREM SnapshotStaysIntact == Spec => []SnapshotIntact
<1>1. Inv => SnapshotIntact
  BY DEF Inv
<1> QED BY <1>1, Invariance, PTL

LEMMA RecalledAfter ==
    ASSUME NEW h \in Whole, h = Machine, NEW refused \in SUBSET Refusable(h, Recalled),
           Recall(h, refused), NEW r \in Kept, Number(h, Saved(r)) = snapshot[r]
    PROVE  \/ Number(Machine', r) = snapshot[r]
           \/ /\ Number(Machine', r) = Number(Machine, r)
              /\ Number(Machine', r).type # snapshot[r].type
              /\ refused # {}
<1>1. PICK m : m = Copied(h, Without(Recalled, refused))
  OBVIOUS
<1>2. /\ m \in Whole
      /\ \A q \in Kept : Number(m, q) = IF q \in refused THEN Number(h, q) ELSE Number(h, Saved(q))
      /\ \A q \in refused : Number(h, q).type # Number(h, Saved(q)).type
  BY <1>1, RecalledNumbers
<1>3. Machine' = m
  BY <1>1, <1>2, WholeIsLoose, Becoming DEF Recall
<1> QED BY <1>2, <1>3

(* After an error reallyRunFunction goes on with what it does after one. *)
LEMMA OnlyFailed ==
    ASSUME Next, phase = "returned", lastErrorCode # "NONE"
    PROVE  Failed
BY DEF Next, MayBegin, BeginSaved, BeginNotSaved, BeginUnsaved, Saving, Function, Called,
   fnDrop, fnRoll, fnSwapXY, fnClX, fnFillStack, fnKeyEnter, fnConstant, fnLastX, fnShuffle,
   fnMonadic, fnRecallOp, fnStoreOp, fnAlphaTrim, fnSetFlag, fnRaiseError, fnUndo, fnExecute,
   RunProgram, StopProgram, Succeeded, Restart

(* Going back after an error, and UNDO, are exact but for the registers     *)
(* that memory was refused for.                                             *)
THEOREM RecallIsExact == Spec => RecallsSnapshot
<1>1. ASSUME Inv, Next, thereIsSomethingToUndo,
             phase = "returned", lastErrorCode # "NONE", undoSavedThisStep, NEW r \in Kept
      PROVE  IsBack(r)
  <2>1. PICK h : h = Machine
    OBVIOUS
  <2>2. h \in Whole /\ DOMAIN snapshot = Kept
    BY <1>1, <2>1, InvGives DEF SavedAndFailing
  <2>3. \A q \in Kept : Number(h, Saved(q)) = snapshot[q]
    BY <1>1, <2>1, <2>2, InvGives
  <2>4. Failed
    BY <1>1, OnlyFailed
  <2>5. Undoes(func, undoSavedThisStep)
    BY <1>1, <2>4, InvGives DEF Undoes, Scalars
  <2>6. PICK refused \in SUBSET Refusable(h, Recalled) :
                  /\ Recall(h, refused)
                  /\ lastErrorCode' = IF ignore1error THEN "NONE"
                                      ELSE ErrorAfter(lastErrorCode, refused)
    BY <2>1, <2>4, <2>5 DEF Failed
  <2> QED BY <1>1, <2>1, <2>2, <2>3, <2>6, RecalledAfter DEF ErrorAfter, IsBack
<1>2. ASSUME Inv, Next, thereIsSomethingToUndo, Called("UNDO"), NEW r \in DOMAIN snapshot
      PROVE  IsBack(r)
  <2>1. PICK h : h = Machine
    OBVIOUS
  <2>2. h \in Whole /\ r \in Kept /\ Number(h, Saved(r)) = snapshot[r]
    BY <1>2, <2>1, InvGives DEF Called
  <2>3. fnUndo
    BY <1>2 DEF Next, MayBegin, BeginSaved, BeginNotSaved, BeginUnsaved, Saving, Function, Called,
       fnDrop, fnRoll, fnSwapXY, fnClX, fnFillStack, fnKeyEnter, fnConstant, fnLastX, fnShuffle,
       fnMonadic, fnRecallOp, fnStoreOp, fnAlphaTrim, fnSetFlag, fnRaiseError, fnExecute, RunProgram,
       StopProgram, Failed, Succeeded, Restart
  <2>4. PICK refused \in SUBSET Refusable(h, Recalled) :
                  Recall(h, refused) /\ lastErrorCode' = ErrorAfter("NONE", refused)
    BY <1>2, <2>1, <2>3 DEF fnUndo
  <2> QED BY <2>1, <2>2, <2>4, RecalledAfter DEF ErrorAfter, IsBack
<1>3. Inv /\ [Next]_vars => [RecallStep]_vars
  BY <1>1, <1>2 DEF RecallStep
<1> QED BY <1>3, Invariance, PTL DEF Spec, RecallsSnapshot

(* Neither XEQ nor R/S takes the stack back when the program they ran stops *)
(* with an error.                                                           *)
THEOREM ErrorsLeaveTheStack == Spec => ProgramErrorStays
<1>1. Inv /\ [Next]_vars => [ErrorStep]_vars
  <2> SUFFICES ASSUME Inv, Next, phase = "returned", lastErrorCode # "NONE", func \in {"XEQ", "RS"}
               PROVE  StackNumbers(Machine') = StackNumbers(Machine)
    BY DEF ErrorStep
  <2>1. PICK h : h = Machine
    OBVIOUS
  <2>2. Failed
    BY OnlyFailed
  <2>3. CASE Undoes(func, undoSavedThisStep)
    <3>1. func = "XEQ" /\ SavedAndFailing
      BY <2>3 DEF Undoes, indexOfItems, SavedAndFailing
    <3>2. h \in Whole /\ DOMAIN snapshot = Kept /\ snapshot = StackNumbers(h)
      BY <2>1, <3>1, InvGives
    <3>3. \A r \in Kept : Number(h, Saved(r)) = snapshot[r]
      BY <2>1, <3>2, InvGives
    <3>4. PICK refused \in SUBSET Refusable(h, Recalled) : Recall(h, refused)
      BY <2>1, <2>2, <2>3 DEF Failed
    <3>5. \A r \in Kept : Number(Machine', r) = snapshot[r] \/ Number(Machine', r) = Number(h, r)
      BY <2>1, <3>2, <3>3, <3>4, RecalledAfter
    <3>6. \A r \in Kept : snapshot[r] = Number(h, r)
      BY <3>2 DEF StackNumbers
    <3> QED BY <2>1, <3>5, <3>6 DEF StackNumbers
  <2>4. CASE ~Undoes(func, undoSavedThisStep)
    <3>1. UNCHANGED registers
      BY <2>2, <2>4 DEF Failed
    <3> QED BY <3>1, UnchangedMachine
  <2> QED BY <2>3, <2>4
<1> QED BY <1>1, Invariance, PTL DEF Spec, ProgramErrorStays

=============================================================================

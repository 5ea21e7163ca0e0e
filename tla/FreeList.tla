------------------------------ MODULE FreeList ------------------------------
(***************************************************************************)
(* The calculator's memory pool: RAM_SIZE_IN_BLOCKS blocks addressed from  *)
(* 0, the heap from HeapStart upwards and the program area at the top.     *)
(* core/freeList.c keeps the free part of the heap as a sorted table of    *)
(* regions and carves requests out of it best-fit; memory.c wraps it for   *)
(* the calculator (c47MemInBlocks) and moves the border between heap and   *)
(* program area (resizeProgramMemory).                                     *)
(*                                                                         *)
(* The callers are abstracted to one client that gives back what it got,   *)
(* with the size it asked for, as freeList.h demands.                      *)
(***************************************************************************)
EXTENDS Integers, Sequences, SequencesExt, FiniteSetsExt

CONSTANTS
    RAM_SIZE_IN_BLOCKS,    \* 65534 in the application
    MAX_FREE_REGIONS,      \* 200 in the application
    HeapStart,             \* first block after the reserved variables
    RequestSizes,          \* sizes the client asks for, in blocks
    ProgramSizes,          \* sizes resizeProgramMemory is called with
    MaxHeld,               \* bound: blocks of memory the client holds at once
    TightHeap              \* may the program area be resized while the last
                           \* free region does not adjoin it?

ASSUME PoolAssumption ==
    /\ RAM_SIZE_IN_BLOCKS \in Nat /\ 2 <= RAM_SIZE_IN_BLOCKS /\ RAM_SIZE_IN_BLOCKS <= 65534
    /\ HeapStart \in 0..(RAM_SIZE_IN_BLOCKS - 2)
    /\ MAX_FREE_REGIONS \in 1..RAM_SIZE_IN_BLOCKS
    /\ RequestSizes \subseteq 0..RAM_SIZE_IN_BLOCKS
    /\ \A n \in ProgramSizes : n \in Nat /\ n <= 65535
    /\ MaxHeld \in Nat
    /\ TightHeap \in BOOLEAN

VARIABLES
    freeMemoryRegions,        \* sequence of [blockAddress, sizeInBlocks]
    allocatedMemoryRegions,   \* address -> size the client asked for
    c47MemInBlocks,           \* what the calculator believes it owns
    beginOfProgramMemory,     \* first block of the program area
    answeredNull,             \* the last request was answered NULL
    overlapReported,          \* "This suggests there was double-free!"
    exitCode                  \* 0 running, -2 region table full, -3 no room

vars == <<freeMemoryRegions, allocatedMemoryRegions, c47MemInBlocks,
          beginOfProgramMemory, answeredNull, overlapReported, exitCode>>

Region(a, n) == [blockAddress |-> a, sizeInBlocks |-> n]
RegionEnd(r) == r.blockAddress + r.sizeInBlocks

(* A request for no block is served, and given back, as one of one block. *)
AtLeastOne(n) == IF n = 0 THEN 1 ELSE n

-----------------------------------------------------------------------------
(* The region table.                                                       *)

(* Mutant: an exact fit is passed over. *)
BestFitMissesExact(regions, n) ==
    LET fits == {i \in DOMAIN regions : regions[i].sizeInBlocks > n}
    IN  IF fits = {} THEN 0 ELSE Min(fits)

(* The region a request is carved from: the first that fits exactly, else  *)
(* the first of the smallest that are larger; 0 when there is none.        *)
BestFit(regions, n) ==
    LET fits == {i \in DOMAIN regions : regions[i].sizeInBlocks >= n}
        best == {i \in fits : \A k \in fits :
                    regions[i].sizeInBlocks <= regions[k].sizeInBlocks}
    IN  IF fits = {} THEN 0 ELSE Min(best)

(* Mutant: the remainder shrinks but keeps its address. *)
CarveKeepsAddress(regions, i, n) ==
    IF regions[i].sizeInBlocks = n
      THEN RemoveAt(regions, i)
      ELSE [regions EXCEPT ![i].sizeInBlocks = @ - n]

(* What is left of the table once n blocks are carved out of region i. *)
Carve(regions, i, n) ==
    IF regions[i].sizeInBlocks = n
      THEN RemoveAt(regions, i)
      ELSE [regions EXCEPT ![i] = Region(@.blockAddress + n,
                                         @.sizeInBlocks - n)]

(* Mutants: blocks that come back are not joined to what follows them, or  *)
(* not to what precedes them.                                              *)
StartingAtNone(regions, addr) == {}
EndingAtNone(regions, addr) == {}

(* The region that starts at addr, if the scan reaches it: it stops at the *)
(* first region that starts above addr.                                    *)
StartingAt(regions, addr) ==
    {i \in DOMAIN regions :
        /\ regions[i].blockAddress = addr
        /\ \A k \in 1..(i - 1) : regions[k].blockAddress < addr}

(* The region that ends at addr, found by the scan that stops at the first *)
(* region that ends above addr.                                            *)
EndingAt(regions, addr) ==
    {i \in DOMAIN regions :
        /\ RegionEnd(regions[i]) = addr
        /\ \A k \in 1..(i - 1) : RegionEnd(regions[k]) < addr}

InsertSorted(regions, r) ==
    InsertAt(regions,
             1 + Cardinality({i \in DOMAIN regions :
                                 \A k \in 1..i : regions[k].blockAddress
                                                   < r.blockAddress}),
             r)

(* The check both freeing functions run on the table before they insert.   *)
Overlap(regions) ==
    \E i \in 2..Len(regions) :
        RegionEnd(regions[i - 1]) >= regions[i].blockAddress

(* Mutant: the table may grow past its last entry. *)
OutcomeUnbounded(regions, placed, r) ==
    [regions  |-> IF placed THEN regions ELSE InsertSorted(regions, r),
     overlap  |-> Overlap(regions),
     exitCode |-> 0]

(* freeListFree and freeListReduce answer with the table they leave,       *)
(* whether the region still has to be entered in it, and what the overlap  *)
(* check saw.                                                              *)
Outcome(regions, placed, r) ==
    LET full == ~placed /\ Len(regions) = MAX_FREE_REGIONS
    IN  [regions  |-> IF placed \/ full THEN regions
                                        ELSE InsertSorted(regions, r),
         overlap  |-> Overlap(regions),
         exitCode |-> IF full THEN -2 ELSE 0]

(* Blocks a .. a+n-1 come back: they are first joined to the region that   *)
(* follows them, then to the one that precedes them.                       *)
FreeListFree(regions, a, n) ==
    LET after  == StartingAt(regions, a + n)
        joined == IF after = {} THEN regions
                  ELSE LET j == CHOOSE j \in after : TRUE
                       IN  [regions EXCEPT ![j] =
                              Region(a, @.sizeInBlocks + n)]
        size   == IF after = {} THEN n
                  ELSE joined[CHOOSE j \in after : TRUE].sizeInBlocks
        before == EndingAt(joined, a)
        merged == IF before = {} THEN joined
                  ELSE LET i == CHOOSE i \in before : TRUE
                           grown == [joined EXCEPT ![i] =
                              Region(@.blockAddress, @.sizeInBlocks + size)]
                       IN  IF after = {} THEN grown
                           ELSE RemoveAt(grown, CHOOSE j \in after : TRUE)
    IN  Outcome(merged, after # {} \/ before # {}, Region(a, n))

(* The blocks above the first new ones of the allocation at a come back. *)
FreeListReduce(regions, a, old, new) ==
    LET after  == StartingAt(regions, a + old)
        joined == IF after = {} THEN regions
                  ELSE LET j == CHOOSE j \in after : TRUE
                       IN  [regions EXCEPT ![j] =
                              Region(a + new, @.sizeInBlocks + (old - new))]
    IN  Outcome(joined, after # {}, Region(a + new, old - new))

-----------------------------------------------------------------------------
(* Calls of the calculator. *)

Held == DOMAIN allocatedMemoryRegions

Init ==
    /\ freeMemoryRegions =
         <<Region(HeapStart, RAM_SIZE_IN_BLOCKS - HeapStart - 1)>>
    /\ allocatedMemoryRegions = <<>>
    /\ c47MemInBlocks = 0
    /\ beginOfProgramMemory = RAM_SIZE_IN_BLOCKS - 1
    /\ answeredNull = FALSE
    /\ overlapReported = FALSE
    /\ exitCode = 0

Without(a) == [b \in Held \ {a} |-> allocatedMemoryRegions[b]]

With(sizes, a, n) == [b \in {a} \cup DOMAIN sizes |-> IF b = a THEN n ELSE sizes[b]]

(* The table and the exit code after a freeing function. *)
Commit(out) ==
    /\ freeMemoryRegions' = out.regions
    /\ overlapReported' = (overlapReported \/ out.overlap)
    /\ exitCode' = out.exitCode

AllocC47Blocks(n) ==
    /\ exitCode = 0
    /\ Cardinality(Held) < MaxHeld
    /\ LET size == AtLeastOne(n)
           i    == BestFit(freeMemoryRegions, size)
       IN  /\ i # 0
           /\ LET a == freeMemoryRegions[i].blockAddress
              IN  allocatedMemoryRegions' = With(allocatedMemoryRegions, a, n)
           /\ freeMemoryRegions' = Carve(freeMemoryRegions, i, size)
    /\ c47MemInBlocks' = c47MemInBlocks + n
    /\ answeredNull' = FALSE
    /\ UNCHANGED <<beginOfProgramMemory, overlapReported, exitCode>>

(* NULL is returned, by alloc or by realloc, and nothing else changes: the *)
(* caller keeps what it had and reports ERROR_RAM_FULL.                    *)
AllocFails(n) ==
    /\ exitCode = 0
    /\ BestFit(freeMemoryRegions, AtLeastOne(n)) = 0
    /\ answeredNull' = TRUE
    /\ UNCHANGED <<freeMemoryRegions, allocatedMemoryRegions, c47MemInBlocks,
                   beginOfProgramMemory, overlapReported, exitCode>>

(* Mutant: the pool is credited with what the table gets back. *)
FreeCreditsRounded(a) ==
    /\ exitCode = 0
    /\ c47MemInBlocks' = c47MemInBlocks - AtLeastOne(allocatedMemoryRegions[a])
    /\ allocatedMemoryRegions' = Without(a)
    /\ Commit(FreeListFree(freeMemoryRegions, a,
                           AtLeastOne(allocatedMemoryRegions[a])))
    /\ UNCHANGED <<beginOfProgramMemory, answeredNull>>

FreeC47Blocks(a) ==
    /\ exitCode = 0
    /\ c47MemInBlocks' = c47MemInBlocks - allocatedMemoryRegions[a]
    /\ allocatedMemoryRegions' = Without(a)
    /\ Commit(FreeListFree(freeMemoryRegions, a,
                           AtLeastOne(allocatedMemoryRegions[a])))
    /\ UNCHANGED <<beginOfProgramMemory, answeredNull>>

(* Every caller asks for fewer blocks than it has; for none it frees. *)
ReduceC47Blocks(a, new) ==
    /\ exitCode = 0
    /\ new \in 1..(allocatedMemoryRegions[a] - 1)
    /\ allocatedMemoryRegions' = [allocatedMemoryRegions EXCEPT ![a] = new]
    /\ c47MemInBlocks' = c47MemInBlocks + new - allocatedMemoryRegions[a]
    /\ Commit(FreeListReduce(freeMemoryRegions, a,
                             allocatedMemoryRegions[a], new))
    /\ UNCHANGED <<beginOfProgramMemory, answeredNull>>

(* The new block is taken before the old one is given back. *)
ReallocC47Blocks(a, n) ==
    /\ exitCode = 0
    /\ LET size == AtLeastOne(n)
           i    == BestFit(freeMemoryRegions, size)
           new  == freeMemoryRegions[i].blockAddress
       IN  /\ i # 0
           /\ allocatedMemoryRegions' = With(Without(a), new, n)
           /\ Commit(FreeListFree(Carve(freeMemoryRegions, i, size), a,
                                  AtLeastOne(allocatedMemoryRegions[a])))
    /\ c47MemInBlocks' = c47MemInBlocks + n - allocatedMemoryRegions[a]
    /\ answeredNull' = FALSE
    /\ UNCHANGED beginOfProgramMemory

(* The last free region ends where the program area begins. *)
TailAdjoins ==
    LET last == Len(freeMemoryRegions)
    IN  last # 0 /\ RegionEnd(freeMemoryRegions[last]) = beginOfProgramMemory

(* The program area grows downwards out of the last free region and        *)
(* shrinks into it, wherever that region is.  With no region left the code *)
(* works on the entry in front of the table: what it reads there is        *)
(* arbitrary, too little or enough, and what it writes is not a region.    *)
ResizeProgramMemory(n) ==
    LET delta == AtLeastOne(n) - (RAM_SIZE_IN_BLOCKS - beginOfProgramMemory)
        last  == Len(freeMemoryRegions)
        sizes == IF last = 0 THEN {0, RAM_SIZE_IN_BLOCKS}
                 ELSE {freeMemoryRegions[last].sizeInBlocks}
    IN  /\ exitCode = 0
        /\ TightHeap \/ TailAdjoins
        /\ delta # 0
        /\ \E size \in sizes :
             IF delta > size
               THEN /\ exitCode' = -3
                    /\ UNCHANGED <<freeMemoryRegions, beginOfProgramMemory>>
               ELSE /\ freeMemoryRegions' =
                         IF last = 0 THEN <<>>
                         ELSE [freeMemoryRegions EXCEPT ![last].sizeInBlocks = @ - delta]
                    /\ beginOfProgramMemory' = beginOfProgramMemory - delta
                    /\ UNCHANGED exitCode
        /\ UNCHANGED <<allocatedMemoryRegions, c47MemInBlocks, answeredNull,
                       overlapReported>>

(* exit(-2) and exit(-3) end the process. *)
Exited == exitCode # 0 /\ UNCHANGED vars

Next ==
    \/ \E n \in RequestSizes : AllocC47Blocks(n) \/ AllocFails(n)
    \/ \E a \in Held : \/ FreeC47Blocks(a)
                       \/ \E n \in RequestSizes : ReduceC47Blocks(a, n)
                       \/ \E n \in RequestSizes : ReallocC47Blocks(a, n)
    \/ \E n \in ProgramSizes : ResizeProgramMemory(n)
    \/ Exited

Spec == Init /\ [][Next]_vars

-----------------------------------------------------------------------------
(* Properties. *)

Cells(r) == r.blockAddress..(RegionEnd(r) - 1)
OwnedCells(a) == a..(a + AtLeastOne(allocatedMemoryRegions[a]) - 1)
ProgramCells == beginOfProgramMemory..(RAM_SIZE_IN_BLOCKS - 1)

TypeOK ==
    /\ freeMemoryRegions \in
         Seq([blockAddress : 0..RAM_SIZE_IN_BLOCKS, sizeInBlocks : 0..RAM_SIZE_IN_BLOCKS])
    /\ Len(freeMemoryRegions) <= MAX_FREE_REGIONS
    /\ Held \subseteq HeapStart..(RAM_SIZE_IN_BLOCKS - 1)
    /\ \A a \in Held : allocatedMemoryRegions[a] \in 0..RAM_SIZE_IN_BLOCKS
    /\ c47MemInBlocks \in Nat
    /\ beginOfProgramMemory \in HeapStart..(RAM_SIZE_IN_BLOCKS - 1)
    /\ answeredNull \in BOOLEAN /\ overlapReported \in BOOLEAN
    /\ exitCode \in {0, -2, -3}

(* Every block of the heap is free, or belongs to one allocation, or to    *)
(* the program area, and to one of them only: carving, joining and the     *)
(* moving border lose no block and hand none out twice (freeListAlloc,     *)
(* freeListFree, freeListReduce, resizeProgramMemory).                     *)
HeapIsPartitioned ==
    exitCode = 0 =>
      \A c \in HeapStart..(RAM_SIZE_IN_BLOCKS - 1) :
        Cardinality({i \in DOMAIN freeMemoryRegions : c \in Cells(freeMemoryRegions[i])})
        + Cardinality({a \in Held : c \in OwnedCells(a)})
        + (IF c \in ProgramCells THEN 1 ELSE 0) = 1

(* The table is sorted by address and no two regions touch: what a caller  *)
(* frees is always joined with its neighbours, on both sides.              *)
RegionsAreJoined ==
    \A i \in 2..Len(freeMemoryRegions) :
        RegionEnd(freeMemoryRegions[i - 1]) < freeMemoryRegions[i].blockAddress

(* The check for a double free in freeListFree and freeListReduce stays    *)
(* silent while every caller frees what it was given, once.                *)
NoFalseDoubleFree == ~overlapReported

(* c47MemInBlocks, kept by the wrappers of memory.c from the sizes their   *)
(* callers pass, is the sum of what the callers hold.                      *)
AccountingIsExact ==
    c47MemInBlocks = 
        MapThenSumSet(LAMBDA a : allocatedMemoryRegions[a], Held)

-----------------------------------------------------------------------------
(* The promise of BlockPool, read off the allocator's own state. *)
Pool == INSTANCE BlockPool WITH
    Ram <- RAM_SIZE_IN_BLOCKS, Heap <- HeapStart, Sizes <- RequestSizes,
    owned <- allocatedMemoryRegions, border <- beginOfProgramMemory,
    refused <- answeredNull, ended <- (exitCode # 0)

(* The allocator is an implementation of the pool: it never grants what is *)
(* taken, and it refuses a request only when no run of free blocks holds   *)
(* it, so no free block is lost to a caller by a missed join               *)
(* (freeListAlloc, freeListFree, freeListReduce, resizeProgramMemory).     *)
ImplementsBlockPool == Pool!PoolSpec
=============================================================================

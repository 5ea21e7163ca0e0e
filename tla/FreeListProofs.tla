--------------------------- MODULE FreeListProofs ----------------------------
(***************************************************************************)
(* Theorems about FreeList, for a pool of any size, any requests and any   *)
(* number of regions, as long as the program area only moves where the     *)
(* last free region adjoins it (TightHeap = FALSE).                        *)
(***************************************************************************)
EXTENDS FreeList, FiniteSetTheorems, WellFoundedInduction, TLAPS

Regions == [blockAddress : Nat, sizeInBlocks : Nat]

(* Region r holds block c. *)
Has(r, c) == r.blockAddress <= c /\ c < RegionEnd(r)

IsFree(regions, c) == \E i \in DOMAIN regions : Has(regions[i], c)

(* A table of regions of blocks from..to-1: sorted, with a block that is   *)
(* not free between any two, and only a region at the end may be empty.    *)
Table(regions, from, to) ==
    /\ regions \in Seq(Regions)
    /\ \A i, j \in DOMAIN regions :
          i < j => RegionEnd(regions[i]) < regions[j].blockAddress
    /\ \A i \in DOMAIN regions :
          /\ from <= regions[i].blockAddress /\ RegionEnd(regions[i]) <= to
          /\ regions[i].sizeInBlocks = 0 => regions[i].blockAddress = to

(* The entries other than i are those of such a table. *)
TableBut(regions, i, from, to) ==
    /\ \A k, l \in DOMAIN regions \ {i} :
          k < l => RegionEnd(regions[k]) < regions[l].blockAddress
    /\ \A k \in DOMAIN regions \ {i} :
          /\ from <= regions[k].blockAddress /\ RegionEnd(regions[k]) <= to
          /\ regions[k].sizeInBlocks = 0 => regions[k].blockAddress = to

(* Region r may be their entry i. *)
FitsAt(r, regions, i, from, to) ==
    /\ from <= r.blockAddress /\ RegionEnd(r) <= to
    /\ r.sizeInBlocks = 0 => r.blockAddress = to
    /\ \A k \in DOMAIN regions : k < i => RegionEnd(regions[k]) < r.blockAddress
    /\ \A k \in DOMAIN regions : i < k => RegionEnd(r) < regions[k].blockAddress

(* Block c is one of a .. a+n-1. *)
Among(c, a, n) == a <= c /\ c < a + n

(* Blocks a .. a+n-1 are of from .. to-1 and not free. *)
InUse(regions, a, n, from, to) ==
    /\ Table(regions, from, to)
    /\ a \in Nat /\ n \in Nat \ {0} /\ from <= a /\ a + n <= to
    /\ \A c \in Int : Among(c, a, n) => ~IsFree(regions, c)

(* Blocks a .. a+n-1 are given back to the table, out is what is answered. *)
GivesBack(out, regions, a, n, from, to) ==
    /\ Table(out.regions, from, to) /\ Len(out.regions) <= MAX_FREE_REGIONS
    /\ ~out.overlap
    /\ out.exitCode \in {0, -2}
    /\ out.exitCode = 0 =>
          \A c \in Int : IsFree(out.regions, c) <=> IsFree(regions, c) \/ Among(c, a, n)

LEMMA Parameters ==
    /\ RAM_SIZE_IN_BLOCKS \in Nat /\ 2 <= RAM_SIZE_IN_BLOCKS
    /\ HeapStart \in Nat /\ HeapStart <= RAM_SIZE_IN_BLOCKS - 2
    /\ MAX_FREE_REGIONS \in Nat \ {0}
    /\ \A n \in RequestSizes : n \in Nat /\ n <= RAM_SIZE_IN_BLOCKS
    /\ \A n \in ProgramSizes : n \in Nat
BY PoolAssumption

-----------------------------------------------------------------------------
(* Minima and sequences. *)

LEMMA MinOf ==
    ASSUME NEW S \in SUBSET Nat, S # {}
    PROVE  Min(S) \in S /\ \A x \in S : Min(S) <= x
<1>1. \E x \in S : \A y \in S : ~(<<y, x>> \in OpToRel(<, Nat))
  BY NatLessThanWellFounded, WFMin
<1>2. PICK x \in S : \A y \in S : ~(<<y, x>> \in OpToRel(<, Nat))
  BY <1>1
<1>3. \A y \in S : ~(y < x)
  BY <1>2 DEF OpToRel
<1>4. \A y \in S : x <= y
  BY <1>3
<1> QED BY <1>4 DEF Min

(* t is s without its entry i. *)
Shorter(t, s, i) ==
    /\ t \in Seq(Regions) /\ Len(t) = Len(s) - 1
    /\ \A k \in DOMAIN s : k < i => t[k] = s[k]
    /\ \A k \in DOMAIN s : i <= k /\ k < Len(s) => t[k] = s[k + 1]

LEMMA RemovedAt ==
    ASSUME NEW s \in Seq(Regions), NEW i \in DOMAIN s
    PROVE  Shorter(RemoveAt(s, i), s, i)
<1> DEFINE n == Len(s)
           p == SubSeq(s, 1, i - 1)
           q == SubSeq(s, i + 1, n)
<1>0. n \in Nat /\ DOMAIN s = 1 .. n /\ i \in 1 .. n
  OBVIOUS
<1>1. p \in Seq(Regions) /\ Len(p) = i - 1 /\ \A k \in 1 .. i - 1 : p[k] = s[k]
  OBVIOUS
<1>2. q \in Seq(Regions) /\ Len(q) = n - i /\ \A k \in 1 .. n - i : q[k] = s[k + i]
  OBVIOUS
<1>6. RemoveAt(s, i) = p \o q
  BY DEF RemoveAt, p, q
<1> HIDE DEF n, p, q
<1>3. p \o q \in Seq(Regions) /\ Len(p \o q) = n - 1
  <2>1. p \in Seq(Regions) /\ q \in Seq(Regions)
    BY <1>1, <1>2
  <2>2. p \o q \in Seq(Regions) /\ Len(p \o q) = Len(p) + Len(q)
    BY <2>1
  <2>3. Len(p) + Len(q) = n - 1
    BY <1>0, <1>1, <1>2
  <2> QED BY <2>2, <2>3
<1>4. \A k \in 1 .. i - 1 : (p \o q)[k] = s[k]
  BY <1>0, <1>1, <1>2
<1>5. \A k \in i .. n - 1 : (p \o q)[k] = s[k + 1]
  <2> TAKE k \in i .. n - 1
  <2>1. k - (i - 1) \in 1 .. n - i /\ (k - (i - 1)) + i = k + 1
    BY <1>0
  <2>2. (p \o q)[k] = q[k - (i - 1)]
    BY <1>0, <1>1, <1>2
  <2>3. q[k - (i - 1)] = s[(k - (i - 1)) + i]
    BY <1>2, <2>1
  <2> QED BY <2>1, <2>2, <2>3
<1> DEFINE t == p \o q
<1> HIDE DEF t
<1>7. /\ \A k \in 1 .. n : k < i => t[k] = s[k]
      /\ \A k \in 1 .. n : i <= k /\ k < n => t[k] = s[k + 1]
  <2>1. \A k \in 1 .. i - 1 : t[k] = s[k]
    BY <1>4 DEF t
  <2>2. \A k \in i .. n - 1 : t[k] = s[k + 1]
    BY <1>5 DEF t
  <2> QED BY <1>0, <2>1, <2>2
<1>8. Shorter(t, s, i)
  BY <1>0, <1>3, <1>7 DEF Shorter, n, t
<1> QED BY <1>6, <1>8 DEF t

(* t is s with e put in as entry i. *)
Longer(t, s, i, e) ==
    /\ t \in Seq(Regions) /\ Len(t) = Len(s) + 1
    /\ t[i] = e
    /\ \A k \in DOMAIN s : k < i => t[k] = s[k]
    /\ \A k \in DOMAIN s : i <= k => t[k + 1] = s[k]

LEMMA InsertedAt ==
    ASSUME NEW s \in Seq(Regions), NEW i \in 1 .. Len(s) + 1, NEW e \in Regions
    PROVE  Longer(InsertAt(s, i, e), s, i, e)
<1> DEFINE n == Len(s)
           p == SubSeq(s, 1, i - 1)
           q == SubSeq(s, i, n)
<1>0. n \in Nat /\ DOMAIN s = 1 .. n /\ i \in 1 .. n + 1
  OBVIOUS
<1>1. p \in Seq(Regions) /\ Len(p) = i - 1 /\ \A k \in 1 .. i - 1 : p[k] = s[k]
  OBVIOUS
<1>2. q \in Seq(Regions) /\ Len(q) = n - i + 1 /\ \A k \in 1 .. n - i + 1 : q[k] = s[k + i - 1]
  OBVIOUS
<1>3. InsertAt(s, i, e) = (p \o <<e>>) \o q
  BY DEF InsertAt, p, q
<1> HIDE DEF n, p, q
<1>4. p \o <<e>> \in Seq(Regions) /\ Len(p \o <<e>>) = i
  BY <1>0, <1>1
<1>5. (p \o <<e>>)[i] = e /\ \A k \in 1 .. i - 1 : (p \o <<e>>)[k] = s[k]
  BY <1>0, <1>1
<1> DEFINE r == p \o <<e>>
           t == r \o q
<1> HIDE DEF r, t
<1>6. r \in Seq(Regions) /\ Len(r) = i /\ r[i] = e /\ \A k \in 1 .. i - 1 : r[k] = s[k]
  BY <1>4, <1>5 DEF r
<1>7. t \in Seq(Regions) /\ Len(t) = n + 1
  <2>1. r \in Seq(Regions) /\ q \in Seq(Regions)
    BY <1>2, <1>6
  <2>2. Len(r \o q) = Len(r) + Len(q)
    BY <2>1
  <2>3. r \o q \in Seq(Regions)
    BY <2>1
  <2>4. Len(r) + Len(q) = n + 1
    BY <1>0, <1>2, <1>6
  <2> QED BY <2>2, <2>3, <2>4 DEF t
<1>8. \A k \in 1 .. i : t[k] = r[k]
  BY <1>0, <1>2, <1>6 DEF t
<1>9. \A k \in i .. n : t[k + 1] = s[k]
  <2> TAKE k \in i .. n
  <2>1. (k + 1) - i \in 1 .. n - i + 1 /\ ((k + 1) - i) + i - 1 = k
    BY <1>0
  <2>2. (r \o q)[k + 1] = q[(k + 1) - i]
    BY <1>0, <1>2, <1>6
  <2> QED BY <1>2, <2>1, <2>2 DEF t
<1>10. /\ t[i] = e
       /\ \A k \in 1 .. n : k < i => t[k] = s[k]
       /\ \A k \in 1 .. n : i <= k => t[k + 1] = s[k]
  BY <1>0, <1>6, <1>8, <1>9
<1>11. Longer(t, s, i, e)
  BY <1>0, <1>7, <1>10 DEF Longer, n
<1> QED BY <1>3, <1>11 DEF r, t
-----------------------------------------------------------------------------
(* Tables. *)

LEMMA Entries ==
    ASSUME NEW R \in Seq(Regions)
    PROVE  /\ Len(R) \in Nat /\ DOMAIN R = 1 .. Len(R)
           /\ \A k \in DOMAIN R :
                 /\ k \in Nat /\ R[k] \in Regions
                 /\ R[k].blockAddress \in Nat /\ R[k].sizeInBlocks \in Nat
                 /\ RegionEnd(R[k]) = R[k].blockAddress + R[k].sizeInBlocks
                 /\ RegionEnd(R[k]) \in Nat
<1>1. Len(R) \in Nat /\ DOMAIN R = 1 .. Len(R)
  OBVIOUS
<1>2. \A k \in DOMAIN R : k \in Nat /\ R[k] \in Regions
  BY <1>1
<1>3. \A r \in Regions : /\ r.blockAddress \in Nat /\ r.sizeInBlocks \in Nat
                         /\ RegionEnd(r) = r.blockAddress + r.sizeInBlocks
                         /\ RegionEnd(r) \in Nat
  BY DEF Regions, RegionEnd
<1> QED BY <1>1, <1>2, <1>3

LEMMA RegionIs ==
    ASSUME NEW a \in Nat, NEW n \in Nat
    PROVE  /\ Region(a, n) \in Regions
           /\ Region(a, n).blockAddress = a /\ Region(a, n).sizeInBlocks = n
           /\ RegionEnd(Region(a, n)) = a + n
BY DEF Region, Regions, RegionEnd

(* Entry i of a table becomes r. *)
LEMMA Replaced ==
    ASSUME NEW R \in Seq(Regions), NEW i \in DOMAIN R, NEW r \in Regions,
           NEW from \in Int, NEW to \in Int,
           TableBut(R, i, from, to),
           FitsAt(r, R, i, from, to),
           NEW T, T = [R EXCEPT ![i] = r]
    PROVE  /\ Table(T, from, to) /\ Len(T) = Len(R)
           /\ \A c \in Int : IsFree(T, c) <=>
                    Has(r, c) \/ \E k \in DOMAIN R \ {i} : Has(R[k], c)
<1>1. T \in Seq(Regions) /\ Len(T) = Len(R) /\ DOMAIN T = DOMAIN R
  OBVIOUS
<1>2. T[i] = r /\ \A k \in DOMAIN R \ {i} : T[k] = R[k]
  OBVIOUS
<1>3. \A k, l \in DOMAIN T : k < l => RegionEnd(T[k]) < T[l].blockAddress
  BY <1>1, <1>2, Entries DEF TableBut, FitsAt
<1>4. \A k \in DOMAIN T :
          /\ from <= T[k].blockAddress /\ RegionEnd(T[k]) <= to
          /\ T[k].sizeInBlocks = 0 => T[k].blockAddress = to
  BY <1>1, <1>2 DEF TableBut, FitsAt
<1>5. \A c \in Int : IsFree(T, c) <=>
                    Has(r, c) \/ \E k \in DOMAIN R \ {i} : Has(R[k], c)
  BY <1>1, <1>2 DEF IsFree
<1> QED BY <1>1, <1>3, <1>4, <1>5 DEF Table

(* Entry i is taken out of what is a table but for that entry. *)
LEMMA Removed ==
    ASSUME NEW R \in Seq(Regions), NEW i \in DOMAIN R,
           NEW from \in Int, NEW to \in Int,
           TableBut(R, i, from, to),
           NEW T, T = RemoveAt(R, i)
    PROVE  /\ Table(T, from, to) /\ Len(T) = Len(R) - 1
           /\ \A c \in Int : IsFree(T, c) <=>
                    \E k \in DOMAIN R \ {i} : Has(R[k], c)
<1>1. PICK len \in Nat : len = Len(R) /\ DOMAIN R = 1 .. len /\ i \in 1 .. len
  BY Entries
<1>2. /\ T \in Seq(Regions) /\ Len(T) = len - 1
      /\ \A k \in 1 .. len : k < i => T[k] = R[k]
      /\ \A k \in 1 .. len : i <= k /\ k < len => T[k] = R[k + 1]
  <2>1. Shorter(T, R, i)
    BY RemovedAt
  <2> QED BY <1>1, <2>1 DEF Shorter
<1>3. DOMAIN T = 1 .. len - 1
  BY <1>2
<1>4. \A k \in DOMAIN T : \E l \in DOMAIN R \ {i} :
          l = (IF k < i THEN k ELSE k + 1) /\ T[k] = R[l]
  BY <1>1, <1>2, <1>3
<1>5. \A l \in DOMAIN R \ {i} : \E k \in DOMAIN T : T[k] = R[l]
  <2> TAKE l \in DOMAIN R \ {i}
  <2>1. CASE l < i
    BY <1>1, <1>2, <1>3, <2>1
  <2>2. CASE l > i
    <3>1. l - 1 \in i .. len - 1 /\ l - 1 \in DOMAIN T /\ (l - 1) + 1 = l
      BY <1>1, <1>3, <2>2
    <3> QED BY <1>2, <3>1
  <2> QED BY <1>1, <2>1, <2>2
<1>6. \A k, l \in DOMAIN T : k < l => RegionEnd(T[k]) < T[l].blockAddress
  <2> TAKE k, l \in DOMAIN T
  <2> HAVE k < l
  <2>1. PICK x \in DOMAIN R \ {i} : x = (IF k < i THEN k ELSE k + 1) /\ T[k] = R[x]
    BY <1>4
  <2>2. PICK y \in DOMAIN R \ {i} : y = (IF l < i THEN l ELSE l + 1) /\ T[l] = R[y]
    BY <1>4
  <2>3. x < y
    BY <1>1, <1>3, <2>1, <2>2
  <2> QED BY <2>1, <2>2, <2>3 DEF TableBut
<1>7. \A k \in DOMAIN T :
          /\ from <= T[k].blockAddress /\ RegionEnd(T[k]) <= to
          /\ T[k].sizeInBlocks = 0 => T[k].blockAddress = to
  BY <1>4 DEF TableBut
<1>8. \A c \in Int : IsFree(T, c) <=> \E k \in DOMAIN R \ {i} : Has(R[k], c)
  BY <1>4, <1>5 DEF IsFree
<1> QED BY <1>1, <1>2, <1>6, <1>7, <1>8 DEF Table
-----------------------------------------------------------------------------
(* Taking blocks. *)

LEMMA BestFitIs ==
    ASSUME NEW R \in Seq(Regions), NEW n \in Nat \ {0}
    PROVE  /\ BestFit(R, n) = 0 => \A i \in DOMAIN R : R[i].sizeInBlocks < n
           /\ BestFit(R, n) # 0 =>
                 BestFit(R, n) \in DOMAIN R /\ R[BestFit(R, n)].sizeInBlocks >= n
<1> DEFINE fits == {i \in DOMAIN R : R[i].sizeInBlocks >= n}
           best == {i \in fits : \A k \in fits : R[i].sizeInBlocks <= R[k].sizeInBlocks}
           sizes == {R[i].sizeInBlocks : i \in fits}
<1>0. \A i \in DOMAIN R : i \in Nat \ {0} /\ R[i] \in Regions
  OBVIOUS
<1>1. CASE fits = {}
  <2>1. BestFit(R, n) = 0
    BY <1>1 DEF BestFit
  <2>2. \A i \in DOMAIN R : R[i].sizeInBlocks \in Nat
    BY <1>0 DEF Regions
  <2> QED BY <1>1, <2>1, <2>2
<1>2. CASE fits # {}
  <2>1. sizes \in SUBSET Nat /\ sizes # {}
    BY <1>0, <1>2 DEF Regions
  <2>2. PICK m \in sizes : \A x \in sizes : m <= x
    BY <2>1, MinOf
  <2>3. best # {}
    BY <2>2
  <2>4. best \in SUBSET Nat /\ best \subseteq fits
    BY <1>0
  <2> HIDE DEF best
  <2>5. Min(best) \in best
    BY <2>3, <2>4, MinOf
  <2>6. BestFit(R, n) = Min(best)
    BY <1>2 DEF BestFit, best
  <2>7. Min(best) \in fits
    BY <2>4, <2>5
  <2> QED BY <1>0, <2>6, <2>7
<1> QED BY <1>1, <1>2

LEMMA TableFacts ==
    ASSUME NEW R, NEW from, NEW to, Table(R, from, to)
    PROVE  /\ R \in Seq(Regions)
           /\ \A i, j \in DOMAIN R : i < j => RegionEnd(R[i]) < R[j].blockAddress
           /\ \A i \in DOMAIN R :
                 /\ from <= R[i].blockAddress /\ RegionEnd(R[i]) <= to
                 /\ R[i].sizeInBlocks = 0 => R[i].blockAddress = to
BY DEF Table

LEMMA Increasing ==
    ASSUME NEW R, NEW from, NEW to, Table(R, from, to)
    PROVE  \A k, l \in DOMAIN R : k < l => /\ R[k].blockAddress < R[l].blockAddress
                                           /\ RegionEnd(R[k]) < RegionEnd(R[l])
<1> SUFFICES ASSUME NEW k \in DOMAIN R, NEW l \in DOMAIN R, k < l
             PROVE  /\ R[k].blockAddress < R[l].blockAddress
                    /\ RegionEnd(R[k]) < RegionEnd(R[l])
  OBVIOUS
<1>1. R \in Seq(Regions) /\ RegionEnd(R[k]) < R[l].blockAddress
  BY TableFacts
<1>2. PICK x \in Nat, y \in Nat :
          x = R[k].blockAddress /\ y = R[k].sizeInBlocks /\ RegionEnd(R[k]) = x + y
  BY <1>1, Entries
<1>3. PICK u \in Nat, v \in Nat :
          u = R[l].blockAddress /\ v = R[l].sizeInBlocks /\ RegionEnd(R[l]) = u + v
  BY <1>1, Entries
<1>4. x + y < u
  BY <1>1, <1>2, <1>3
<1>5. x < u /\ x + y < u + v
  BY <1>4
<1>6. R[k].blockAddress < R[l].blockAddress
  BY <1>2, <1>3, <1>5
<1>7. RegionEnd(R[k]) < RegionEnd(R[l])
  BY <1>2, <1>3, <1>5
<1> QED BY <1>6, <1>7

(* No block is in two regions. *)
LEMMA InOneRegion ==
    ASSUME NEW R, NEW from, NEW to, Table(R, from, to)
    PROVE  \A c \in Int : \A i, j \in DOMAIN R : Has(R[i], c) /\ Has(R[j], c) => i = j
<1>1. \A i, j \in DOMAIN R : i # j => i < j \/ j < i
  BY TableFacts, Entries
<1>2. \A i, j \in DOMAIN R : \A c \in Int : i < j => ~(Has(R[i], c) /\ Has(R[j], c))
  BY TableFacts, Entries DEF Has
<1> QED BY <1>1, <1>2

(* The carved table has the blocks it had but the first n of region i. *)
LEMMA Carved ==
    ASSUME NEW R, NEW from \in Int, NEW to \in Int, Table(R, from, to),
           NEW i \in DOMAIN R, NEW n \in Nat \ {0}, R[i].sizeInBlocks >= n
    PROVE  /\ Table(Carve(R, i, n), from, to)
           /\ Len(Carve(R, i, n)) <= Len(R)
           /\ \A c \in Int : IsFree(Carve(R, i, n), c) <=>
                    /\ IsFree(R, c)
                    /\ ~(R[i].blockAddress <= c /\ c < R[i].blockAddress + n)
<1> DEFINE Taken(c) == R[i].blockAddress <= c /\ c < R[i].blockAddress + n
<1>1. R \in Seq(Regions)
  BY TableFacts
<1>2. TableBut(R, i, from, to)
  BY TableFacts DEF TableBut
<1>3. \A c \in Int : \A k \in DOMAIN R \ {i} : Has(R[k], c) => ~Has(R[i], c)
  BY InOneRegion
<1>4. \A c \in Int : Taken(c) => Has(R[i], c)
  BY <1>1, Entries DEF Has
<1>5. \A c \in Int : IsFree(R, c) <=> Has(R[i], c) \/ \E k \in DOMAIN R \ {i} : Has(R[k], c)
  BY DEF IsFree
<1>6. CASE R[i].sizeInBlocks = n
  <2>1. PICK T : T = RemoveAt(R, i)
    OBVIOUS
  <2>2. /\ Table(T, from, to) /\ Len(T) = Len(R) - 1
        /\ \A c \in Int : IsFree(T, c) <=> \E k \in DOMAIN R \ {i} : Has(R[k], c)
    BY <1>1, <1>2, <2>1, Removed
  <2>3. \A c \in Int : Has(R[i], c) <=> Taken(c)
    BY <1>1, <1>6, Entries DEF Has
  <2>4. \A c \in Int : IsFree(T, c) <=> IsFree(R, c) /\ ~Taken(c)
    BY <1>3, <1>5, <2>2, <2>3
  <2>5. Carve(R, i, n) = T
    BY <1>6, <2>1 DEF Carve
  <2>6. Len(R) - 1 <= Len(R)
    BY <1>1, Entries
  <2> QED BY <2>2, <2>4, <2>5, <2>6
<1>7. CASE R[i].sizeInBlocks # n
  <2>1. PICK r : r = Region(R[i].blockAddress + n, R[i].sizeInBlocks - n)
    OBVIOUS
  <2>2. R[i].blockAddress + n \in Nat /\ R[i].sizeInBlocks - n \in Nat \ {0}
    BY <1>1, <1>7, Entries
  <2>3. /\ r \in Regions /\ r.blockAddress = R[i].blockAddress + n
        /\ r.sizeInBlocks = R[i].sizeInBlocks - n
        /\ RegionEnd(r) = R[i].blockAddress + n + (R[i].sizeInBlocks - n)
    BY <2>1, <2>2, RegionIs
  <2>4. RegionEnd(r) = RegionEnd(R[i]) /\ r.sizeInBlocks # 0
    <3>1. PICK a \in Nat, s \in Nat :
             /\ a = R[i].blockAddress /\ s = R[i].sizeInBlocks /\ RegionEnd(R[i]) = a + s
      BY <1>1, Entries
    <3> QED BY <2>2, <2>3, <3>1
  <2>5. PICK T : T = [R EXCEPT ![i] = r]
    OBVIOUS
  <2>6. FitsAt(r, R, i, from, to)
    BY <1>1, <2>3, <2>4, Entries, TableFacts DEF FitsAt
  <2>7. /\ Table(T, from, to) /\ Len(T) = Len(R)
        /\ \A c \in Int : IsFree(T, c) <=>
                 Has(r, c) \/ \E k \in DOMAIN R \ {i} : Has(R[k], c)
    <3>1. R \in Seq(Regions) /\ r \in Regions
      BY <1>1, <2>3
    <3> HIDE DEF Taken
    <3> QED BY <1>2, <2>5, <2>6, <3>1, Replaced
  <2>8. \A c \in Int : Has(r, c) <=> Has(R[i], c) /\ ~Taken(c)
    BY <1>1, <2>3, <2>4, Entries DEF Has
  <2>9. \A c \in Int : IsFree(T, c) <=> IsFree(R, c) /\ ~Taken(c)
    BY <1>3, <1>4, <1>5, <2>7, <2>8
  <2>10. Carve(R, i, n) = T
    BY <1>7, <2>1, <2>5 DEF Carve
  <2>11. Len(R) <= Len(R)
    BY <1>1, Entries
  <2> QED BY <2>7, <2>9, <2>10, <2>11
<1> QED BY <1>6, <1>7
-----------------------------------------------------------------------------
(* Giving blocks back. *)

LEMMA ApartRegions ==
    ASSUME NEW R, NEW from \in Int, NEW to \in Int, Table(R, from, to),
           NEW a \in Nat, NEW n \in Nat \ {0}, a + n <= to,
           \A c \in Int : Among(c, a, n) => ~IsFree(R, c)
    PROVE  \A k \in DOMAIN R : RegionEnd(R[k]) <= a \/ a + n <= R[k].blockAddress
<1> TAKE k \in DOMAIN R
<1>1. PICK x \in Nat, y \in Nat :
          x = R[k].blockAddress /\ y = R[k].sizeInBlocks /\ RegionEnd(R[k]) = x + y
  BY TableFacts, Entries
<1>2. y = 0 => x = to
  BY <1>1, TableFacts
<1>3. \A c \in Int : x <= c /\ c < x + y => ~Among(c, a, n)
  BY <1>1 DEF IsFree, Has
<1>4. CASE x <= a
  <2>1. ~(a < x + y)
    BY <1>3, <1>4 DEF Among
  <2> QED BY <1>1, <2>1
<1>5. CASE a < x
  <2>1. y # 0 => ~(x < a + n)
    BY <1>3, <1>5 DEF Among
  <2> QED BY <1>1, <1>2, <2>1
<1> QED BY <1>1, <1>4, <1>5

LEMMA StartingAtIs ==
    ASSUME NEW R, NEW from \in Int, NEW to \in Int, Table(R, from, to), NEW x \in Nat
    PROVE  \/ /\ StartingAt(R, x) = {}
              /\ \A k \in DOMAIN R : R[k].blockAddress # x
           \/ \E j \in DOMAIN R : StartingAt(R, x) = {j} /\ R[j].blockAddress = x
<1>1. /\ R \in Seq(Regions)
      /\ \A k, l \in DOMAIN R : k < l => R[k].blockAddress < R[l].blockAddress
  BY TableFacts, Increasing
<1>2. ASSUME NEW j \in DOMAIN R, R[j].blockAddress = x
      PROVE  StartingAt(R, x) = {j}
  <2>1. \A k \in DOMAIN R : R[k].blockAddress = x => k = j
    BY <1>1, <1>2, Entries
  <2>2. \A k \in 1 .. (j - 1) : k \in DOMAIN R /\ k < j
    BY <1>1, Entries
  <2>3. j \in StartingAt(R, x)
    BY <1>1, <1>2, <2>2 DEF StartingAt
  <2>4. StartingAt(R, x) \subseteq {j}
    BY <2>1 DEF StartingAt
  <2> QED BY <2>3, <2>4
<1>3. CASE \A k \in DOMAIN R : R[k].blockAddress # x
  BY <1>3 DEF StartingAt
<1> QED BY <1>2, <1>3

LEMMA EndingAtIs ==
    ASSUME NEW R, NEW from \in Int, NEW to \in Int, Table(R, from, to), NEW x \in Nat,
           NEW J, DOMAIN J = DOMAIN R,
           \A k \in DOMAIN R : RegionEnd(J[k]) = RegionEnd(R[k])
    PROVE  \/ /\ EndingAt(J, x) = {}
              /\ \A k \in DOMAIN R : RegionEnd(R[k]) # x
           \/ \E i \in DOMAIN R : EndingAt(J, x) = {i} /\ RegionEnd(R[i]) = x
<1>1. /\ R \in Seq(Regions)
      /\ \A k, l \in DOMAIN R : k < l => RegionEnd(R[k]) < RegionEnd(R[l])
  BY TableFacts, Increasing
<1>2. ASSUME NEW j \in DOMAIN R, RegionEnd(R[j]) = x
      PROVE  EndingAt(J, x) = {j}
  <2>1. \A k \in DOMAIN R : RegionEnd(R[k]) = x => k = j
    BY <1>1, <1>2, Entries
  <2>2. \A k \in 1 .. (j - 1) : k \in DOMAIN R /\ k < j
    BY <1>1, Entries
  <2>3. j \in EndingAt(J, x)
    BY <1>1, <1>2, <2>2 DEF EndingAt
  <2>4. EndingAt(J, x) \subseteq {j}
    BY <2>1 DEF EndingAt
  <2> QED BY <2>3, <2>4
<1>3. CASE \A k \in DOMAIN R : RegionEnd(R[k]) # x
  BY <1>3 DEF EndingAt
<1> QED BY <1>2, <1>3

LEMMA OverlapsNot ==
    ASSUME NEW R, NEW from \in Int, NEW to \in Int, Table(R, from, to)
    PROVE  ~Overlap(R)
<1> SUFFICES ASSUME NEW i \in 2 .. Len(R), RegionEnd(R[i - 1]) >= R[i].blockAddress
             PROVE FALSE
  BY DEF Overlap
<1>1. R \in Seq(Regions)
  BY TableFacts
<1>2. i - 1 \in DOMAIN R /\ i \in DOMAIN R /\ i - 1 < i
  BY <1>1, Entries
<1>3. RegionEnd(R[i - 1]) < R[i].blockAddress
  BY <1>2, TableFacts
<1> QED BY <1>1, <1>2, <1>3, Entries

LEMMA Joined ==
    ASSUME NEW R, NEW a \in Nat, NEW n \in Nat, NEW from \in Int, NEW to \in Int,
           NEW M, Table(M, from, to), Len(M) <= MAX_FREE_REGIONS, NEW r,
           \A c \in Int : IsFree(M, c) <=> IsFree(R, c) \/ Among(c, a, n)
    PROVE  GivesBack(Outcome(M, TRUE, r), R, a, n, from, to)
<1> DEFINE out == Outcome(M, TRUE, r)
<1>1. out.regions = M /\ out.overlap = Overlap(M) /\ out.exitCode = 0
  BY DEF Outcome
<1> HIDE DEF out
<1> QED BY <1>1, OverlapsNot DEF GivesBack, out

(* The place InsertSorted finds is the first whose region is not below r. *)
LEMMA PlaceOf ==
    ASSUME NEW R \in Seq(Regions), NEW x \in Nat
    PROVE  \E m \in 1 .. Len(R) + 1 :
              /\ 1 + Cardinality({i \in DOMAIN R :
                        \A k \in 1 .. i : R[k].blockAddress < x}) = m
              /\ \A k \in DOMAIN R : k < m => R[k].blockAddress < x
              /\ m \in DOMAIN R => R[m].blockAddress >= x
<1> DEFINE stops == {m \in 1 .. Len(R) + 1 : m \in DOMAIN R => R[m].blockAddress >= x}
           below == {i \in DOMAIN R : \A k \in 1 .. i : R[k].blockAddress < x}
<1>1. Len(R) + 1 \in stops /\ stops \in SUBSET Nat
  BY Entries
<1>2. PICK m \in stops : \A k \in stops : m <= k
  BY <1>1, MinOf
<1>3. m \in 1 .. Len(R) + 1 /\ (m \in DOMAIN R => R[m].blockAddress >= x)
  BY <1>2
<1>4. ASSUME NEW k \in DOMAIN R, k < m PROVE R[k].blockAddress < x
  <2>1. k \notin stops
    BY <1>2, <1>3, <1>4, Entries
  <2>2. k \in 1 .. Len(R) + 1
    BY Entries
  <2> QED BY <2>1, <2>2, Entries
<1>5. below = 1 .. m - 1
  <2>1. ASSUME NEW i \in below PROVE i \in 1 .. m - 1
    <3>1. i \in DOMAIN R /\ (m \in 1 .. i => R[m].blockAddress < x)
      OBVIOUS
    <3>2. m \in 1 .. i => m \in DOMAIN R
      BY <3>1, Entries
    <3> QED BY <1>3, <3>1, <3>2, Entries
  <2>2. ASSUME NEW i \in 1 .. m - 1 PROVE i \in below
    <3>1. i \in DOMAIN R
      BY <1>3, Entries
    <3>2. \A k \in 1 .. i : k \in DOMAIN R /\ k < m
      BY <1>3, Entries
    <3> QED BY <1>4, <3>1, <3>2
  <2> QED BY <2>1, <2>2
<1>6. Cardinality(1 .. m - 1) = m - 1
  <2>1. 1 \in Int /\ m - 1 \in Int
    BY <1>3, Entries
  <2>2. Cardinality(1 .. m - 1) = IF 1 > m - 1 THEN 0 ELSE (m - 1) - 1 + 1
    BY <2>1, FS_Interval
  <2> QED BY <1>3, <2>2, Entries
<1>7. 1 + Cardinality(below) = m
  <2>1. m \in Nat
    BY <1>3, Entries
  <2> HIDE DEF below
  <2> QED BY <1>5, <1>6, <2>1
<1> QED BY <1>3, <1>4, <1>7

(* Blocks that touch no region become one of their own. *)
LEMMA Inserted ==
    ASSUME NEW R, NEW from \in Int, NEW to \in Int, NEW a, NEW n,
           InUse(R, a, n, from, to),
           \A k \in DOMAIN R : R[k].blockAddress # a + n /\ RegionEnd(R[k]) # a
    PROVE  /\ Table(InsertSorted(R, Region(a, n)), from, to)
           /\ Len(InsertSorted(R, Region(a, n))) = Len(R) + 1
           /\ \A c \in Int : IsFree(InsertSorted(R, Region(a, n)), c)
                                <=> IsFree(R, c) \/ Among(c, a, n)
<1> Table(R, from, to) /\ a \in Nat /\ n \in Nat \ {0} /\ from <= a /\ a + n <= to
  BY DEF InUse
<1> \A c \in Int : Among(c, a, n) => ~IsFree(R, c)
  BY DEF InUse
<1>0. R \in Seq(Regions)
  BY TableFacts
<1>1. PICK r : r = Region(a, n)
  OBVIOUS
<1>2. /\ r \in Regions /\ r.blockAddress = a /\ r.sizeInBlocks = n
      /\ RegionEnd(r) = a + n
  BY <1>1, RegionIs
<1>3. PICK m \in 1 .. Len(R) + 1 :
         /\ 1 + Cardinality({i \in DOMAIN R :
                  \A k \in 1 .. i : R[k].blockAddress < a}) = m
         /\ \A k \in DOMAIN R : k < m => R[k].blockAddress < a
         /\ m \in DOMAIN R => R[m].blockAddress >= a
  BY <1>0, PlaceOf
<1>4. PICK T : T = InsertAt(R, m, r)
  OBVIOUS
<1>5. InsertSorted(R, r) = T
  BY <1>2, <1>3, <1>4 DEF InsertSorted
<1>6. PICK len \in Nat : len = Len(R) /\ DOMAIN R = 1 .. len /\ m \in 1 .. len + 1
  BY <1>0, <1>3, Entries
<1>7. /\ T \in Seq(Regions) /\ Len(T) = len + 1 /\ T[m] = r
      /\ \A k \in 1 .. len : k < m => T[k] = R[k]
      /\ \A k \in 1 .. len : m <= k => T[k + 1] = R[k]
  <2>1. Longer(T, R, m, r)
    BY <1>0, <1>2, <1>3, <1>4, InsertedAt
  <2> QED BY <1>6, <2>1 DEF Longer
<1>8. DOMAIN T = 1 .. len + 1
  BY <1>6, <1>7
<1>9. \A k \in DOMAIN R : k < m => RegionEnd(R[k]) < a
  <2> SUFFICES ASSUME NEW k \in DOMAIN R, k < m PROVE RegionEnd(R[k]) < a
    OBVIOUS
  <2>1. R[k].blockAddress < a /\ R[k].blockAddress \in Nat /\ RegionEnd(R[k]) \in Nat
    BY <1>0, <1>3, Entries
  <2>2. RegionEnd(R[k]) <= a \/ a + n <= R[k].blockAddress
    BY ApartRegions
  <2>3. RegionEnd(R[k]) <= a /\ RegionEnd(R[k]) # a
    BY <2>1, <2>2
  <2> QED BY <2>1, <2>3
<1>10. \A k \in DOMAIN R : m <= k => a + n < R[k].blockAddress
  <2> SUFFICES ASSUME NEW k \in DOMAIN R, m <= k PROVE a + n < R[k].blockAddress
    OBVIOUS
  <2>1. m \in DOMAIN R /\ m \in Nat /\ k \in Nat
    BY <1>6
  <2>2. R[m].blockAddress >= a /\ R[m].blockAddress \in Nat
    BY <1>0, <1>3, <2>1, Entries
  <2>3. PICK x \in Nat, y \in Nat :
            x = R[k].blockAddress /\ y = R[k].sizeInBlocks /\ RegionEnd(R[k]) = x + y
    BY <1>0, Entries
  <2>4. x >= a
    <3>1. CASE m = k
      BY <2>2, <2>3, <3>1
    <3>2. CASE m < k
      <4>1. R[m].blockAddress < R[k].blockAddress
        BY <2>1, <3>2, Increasing
      <4> QED BY <2>2, <2>3, <4>1
    <3> QED BY <2>1, <3>1, <3>2
  <2>5. x + y <= a \/ a + n <= x
    BY <2>3, ApartRegions
  <2>6. y = 0 => x = to
    BY <2>3, TableFacts
  <2>7. x # a + n
    BY <2>3
  <2>8. a + n < x
    BY <2>4, <2>5, <2>6, <2>7
  <2> QED BY <2>3, <2>8
<1>11. \A k \in DOMAIN T :
          \/ k < m /\ k \in DOMAIN R /\ T[k] = R[k]
          \/ k = m /\ T[k] = r
          \/ m < k /\ k - 1 \in DOMAIN R /\ m <= k - 1 /\ T[k] = R[k - 1]
  <2> TAKE k \in DOMAIN T
  <2>1. CASE k < m
    BY <1>6, <1>7, <1>8, <2>1
  <2>2. CASE m < k
    <3>1. k - 1 \in 1 .. len /\ m <= k - 1 /\ (k - 1) + 1 = k
      BY <1>6, <1>8, <2>2
    <3> QED BY <1>6, <1>7, <2>2, <3>1
  <2> QED BY <1>6, <1>7, <1>8, <2>1, <2>2
<1>12. \A k \in DOMAIN R : \E l \in DOMAIN T : T[l] = R[k]
  <2> TAKE k \in DOMAIN R
  <2>1. k \in DOMAIN T /\ k + 1 \in DOMAIN T
    BY <1>6, <1>8
  <2> QED BY <1>6, <1>7, <2>1
<1>13. \A k, l \in DOMAIN T : k < l => RegionEnd(T[k]) < T[l].blockAddress
  <2> SUFFICES ASSUME NEW k \in DOMAIN T, NEW l \in DOMAIN T, k < l
               PROVE  RegionEnd(T[k]) < T[l].blockAddress
    OBVIOUS
  <2>0. k \in Nat /\ l \in Nat /\ m \in Nat
    BY <1>6, <1>8
  <2>1. CASE l < m
    <3>1. T[k] = R[k] /\ T[l] = R[l] /\ k \in DOMAIN R /\ l \in DOMAIN R
      BY <1>11, <2>0, <2>1
    <3> QED BY <3>1, TableFacts
  <2>2. CASE l = m
    <3>1. T[k] = R[k] /\ k \in DOMAIN R /\ k < m
      BY <1>11, <2>0, <2>2
    <3>2. T[l] = r
      BY <1>7, <2>2
    <3> QED BY <1>2, <1>9, <3>1, <3>2
  <2>3. CASE m < l /\ k < m
    <3>1. T[k] = R[k] /\ T[l] = R[l - 1] /\ k \in DOMAIN R /\ l - 1 \in DOMAIN R /\ k < l - 1
      BY <1>11, <2>0, <2>3
    <3> QED BY <3>1, TableFacts
  <2>4. CASE m < l /\ k = m
    <3>1. T[l] = R[l - 1] /\ l - 1 \in DOMAIN R /\ m <= l - 1
      BY <1>11, <2>0, <2>4
    <3>2. T[k] = r
      BY <1>7, <2>4
    <3> QED BY <1>2, <1>10, <3>1, <3>2
  <2>5. CASE m < k
    <3>1. /\ T[k] = R[k - 1] /\ T[l] = R[l - 1]
          /\ k - 1 \in DOMAIN R /\ l - 1 \in DOMAIN R /\ k - 1 < l - 1
      BY <1>11, <2>0, <2>5
    <3> QED BY <3>1, TableFacts
  <2> QED BY <2>0, <2>1, <2>2, <2>3, <2>4, <2>5
<1>14. \A k \in DOMAIN T :
          /\ from <= T[k].blockAddress /\ RegionEnd(T[k]) <= to
          /\ T[k].sizeInBlocks = 0 => T[k].blockAddress = to
  <2> TAKE k \in DOMAIN T
  <2>1. ASSUME NEW l \in DOMAIN R, T[k] = R[l]
        PROVE  /\ from <= T[k].blockAddress /\ RegionEnd(T[k]) <= to
               /\ T[k].sizeInBlocks = 0 => T[k].blockAddress = to
    BY <2>1, TableFacts
  <2> QED BY <1>2, <1>11, <2>1
<1>15. \A c \in Int : Has(r, c) <=> Among(c, a, n)
  BY <1>2 DEF Has, Among
<1>16. \A c \in Int : IsFree(T, c) <=> IsFree(R, c) \/ Has(r, c)
  <2> TAKE c \in Int
  <2>1. m \in DOMAIN T
    BY <1>6, <1>8
  <2>2. ASSUME IsFree(T, c) PROVE IsFree(R, c) \/ Has(r, c)
    BY <1>11, <2>2 DEF IsFree
  <2>3. ASSUME IsFree(R, c) \/ Has(r, c) PROVE IsFree(T, c)
    BY <1>7, <1>12, <2>1, <2>3 DEF IsFree
  <2> QED BY <2>2, <2>3
<1>17. Table(T, from, to)
  BY <1>7, <1>13, <1>14 DEF Table
<1> QED BY <1>1, <1>5, <1>6, <1>7, <1>15, <1>16, <1>17

LEMMA NotJoined ==
    ASSUME NEW R, NEW from \in Int, NEW to \in Int, NEW a, NEW n,
           InUse(R, a, n, from, to), Len(R) <= MAX_FREE_REGIONS,
           \A k \in DOMAIN R : R[k].blockAddress # a + n /\ RegionEnd(R[k]) # a
    PROVE  GivesBack(Outcome(R, FALSE, Region(a, n)), R, a, n, from, to)
<1> DEFINE out == Outcome(R, FALSE, Region(a, n))
<1>1. /\ Table(R, from, to) /\ a \in Nat /\ n \in Nat \ {0} /\ from <= a /\ a + n <= to
      /\ \A c \in Int : Among(c, a, n) => ~IsFree(R, c)
  BY DEF InUse
<1>2. ~out.overlap
  BY <1>1, OverlapsNot DEF Outcome
<1>3. Len(R) \in Nat /\ MAX_FREE_REGIONS \in Nat
  <2>1. R \in Seq(Regions)
    BY <1>1, TableFacts
  <2>2. MAX_FREE_REGIONS \in Nat
    BY Parameters
  <2> QED BY <2>1, <2>2, Entries
<1>4. CASE Len(R) = MAX_FREE_REGIONS
  <2>1. out.regions = R /\ out.exitCode = -2
    BY <1>4 DEF Outcome
  <2> HIDE DEF out
  <2>2. out.exitCode # 0 /\ out.exitCode \in {0, -2}
    BY <2>1
  <2>3. Table(out.regions, from, to) /\ Len(out.regions) <= MAX_FREE_REGIONS
    BY <1>1, <2>1
  <2>4. GivesBack(out, R, a, n, from, to)
    BY <1>2, <2>2, <2>3 DEF GivesBack
  <2> QED BY <2>4 DEF out
<1>5. CASE Len(R) # MAX_FREE_REGIONS
  <2>1. PICK T : T = InsertSorted(R, Region(a, n))
    OBVIOUS
  <2>2. out.regions = T /\ out.exitCode = 0
    BY <1>5, <2>1 DEF Outcome
  <2>3. /\ Table(T, from, to) /\ Len(T) = Len(R) + 1
        /\ \A c \in Int : IsFree(T, c) <=> IsFree(R, c) \/ Among(c, a, n)
    BY <2>1, Inserted
  <2>4. Len(T) <= MAX_FREE_REGIONS
    BY <1>3, <1>5, <2>3
  <2> HIDE DEF out
  <2> QED BY <1>2, <2>2, <2>3, <2>4 DEF GivesBack, out
<1> QED BY <1>4, <1>5

(* The blocks are joined to region j, which starts where they end. *)
LEMMA JoinedToNext ==
    ASSUME NEW R, NEW from \in Int, NEW to \in Int, NEW a, NEW n,
           InUse(R, a, n, from, to), Len(R) <= MAX_FREE_REGIONS,
           NEW j \in DOMAIN R, R[j].blockAddress = a + n,
           \A k \in DOMAIN R : RegionEnd(R[k]) # a,
           NEW M, M = [R EXCEPT ![j] = Region(a, R[j].sizeInBlocks + n)], NEW r
    PROVE  GivesBack(Outcome(M, TRUE, r), R, a, n, from, to)
<1>1. /\ Table(R, from, to) /\ a \in Nat /\ n \in Nat \ {0} /\ from <= a /\ a + n <= to
      /\ \A c \in Int : Among(c, a, n) => ~IsFree(R, c)
  BY DEF InUse
<1>2. R \in Seq(Regions)
  BY <1>1, TableFacts
<1>3. PICK s \in Nat : s = R[j].sizeInBlocks /\ RegionEnd(R[j]) = a + n + s
  BY <1>2, Entries
<1>4. PICK g : g = Region(a, s + n)
  OBVIOUS
<1>5. /\ g \in Regions /\ g.blockAddress = a /\ g.sizeInBlocks = s + n
      /\ RegionEnd(g) = a + (s + n)
  <2>1. a \in Nat /\ s + n \in Nat
    BY <1>1, <1>3
  <2> QED BY <1>4, <2>1, RegionIs
<1>6. RegionEnd(g) = RegionEnd(R[j]) /\ g.sizeInBlocks # 0
  BY <1>1, <1>3, <1>5
<1>7. \A k \in DOMAIN R : k < j => RegionEnd(R[k]) < a
  <2> SUFFICES ASSUME NEW k \in DOMAIN R, k < j PROVE RegionEnd(R[k]) < a
    OBVIOUS
  <2>1. R[k].blockAddress < a + n
    BY <1>1, Increasing
  <2>2. RegionEnd(R[k]) <= a \/ a + n <= R[k].blockAddress
    BY <1>1, ApartRegions
  <2>3. R[k].blockAddress \in Nat /\ RegionEnd(R[k]) \in Nat
    BY <1>2, Entries
  <2>4. RegionEnd(R[k]) <= a /\ RegionEnd(R[k]) # a
    BY <1>1, <2>1, <2>2, <2>3
  <2> QED BY <1>1, <2>3, <2>4
<1>8. FitsAt(g, R, j, from, to)
  BY <1>1, <1>5, <1>6, <1>7, TableFacts DEF FitsAt
<1>9. TableBut(R, j, from, to)
  BY <1>1, TableFacts DEF TableBut
<1>10. M = [R EXCEPT ![j] = g]
  BY <1>3, <1>4
<1>11. /\ Table(M, from, to) /\ Len(M) = Len(R)
       /\ \A c \in Int : IsFree(M, c) <=> Has(g, c) \/ \E k \in DOMAIN R \ {j} : Has(R[k], c)
  BY <1>2, <1>5, <1>8, <1>9, <1>10, Replaced
<1>12. \A c \in Int : Has(g, c) <=> Has(R[j], c) \/ Among(c, a, n)
  <2>1. \A c \in Int : Has(R[j], c) <=> a + n <= c /\ c < a + n + s
    BY <1>3 DEF Has
  <2> QED BY <1>1, <1>3, <1>5, <2>1 DEF Has, Among
<1>13. \A c \in Int : IsFree(M, c) <=> IsFree(R, c) \/ Among(c, a, n)
  BY <1>11, <1>12 DEF IsFree
<1>14. Len(M) <= MAX_FREE_REGIONS
  BY <1>11
<1> QED BY <1>1, <1>11, <1>13, <1>14, Joined

(* The blocks are joined to region i, which ends where they start. *)
LEMMA JoinedToPrevious ==
    ASSUME NEW R, NEW from \in Int, NEW to \in Int, NEW a, NEW n,
           InUse(R, a, n, from, to), Len(R) <= MAX_FREE_REGIONS,
           NEW i \in DOMAIN R, RegionEnd(R[i]) = a,
           \A k \in DOMAIN R : R[k].blockAddress # a + n,
           NEW M, M = [R EXCEPT ![i] = Region(R[i].blockAddress, R[i].sizeInBlocks + n)],
           NEW r
    PROVE  GivesBack(Outcome(M, TRUE, r), R, a, n, from, to)
<1>1. /\ Table(R, from, to) /\ a \in Nat /\ n \in Nat \ {0} /\ from <= a /\ a + n <= to
      /\ \A c \in Int : Among(c, a, n) => ~IsFree(R, c)
  BY DEF InUse
<1>2. R \in Seq(Regions)
  BY <1>1, TableFacts
<1>3. PICK x \in Nat, s \in Nat : x = R[i].blockAddress /\ s = R[i].sizeInBlocks /\ x + s = a
  BY <1>2, Entries
<1>4. PICK g : g = Region(x, s + n)
  OBVIOUS
<1>5. /\ g \in Regions /\ g.blockAddress = x /\ g.sizeInBlocks = s + n
      /\ RegionEnd(g) = x + (s + n)
  <2>1. x \in Nat /\ s + n \in Nat
    BY <1>1, <1>3
  <2> QED BY <1>4, <2>1, RegionIs
<1>6. RegionEnd(g) = a + n /\ g.sizeInBlocks # 0
  BY <1>1, <1>3, <1>5
<1>7. \A k \in DOMAIN R : i < k => a + n < R[k].blockAddress
  <2> SUFFICES ASSUME NEW k \in DOMAIN R, i < k PROVE a + n < R[k].blockAddress
    OBVIOUS
  <2>1. RegionEnd(R[i]) < RegionEnd(R[k])
    BY <1>1, Increasing
  <2>2. RegionEnd(R[k]) <= a \/ a + n <= R[k].blockAddress
    BY <1>1, ApartRegions
  <2>3. R[k].blockAddress \in Nat /\ RegionEnd(R[k]) \in Nat
    BY <1>2, Entries
  <2>4. a + n <= R[k].blockAddress /\ R[k].blockAddress # a + n
    BY <1>1, <2>1, <2>2, <2>3
  <2> QED BY <1>1, <2>3, <2>4
<1>8. FitsAt(g, R, i, from, to)
  BY <1>1, <1>3, <1>5, <1>6, <1>7, TableFacts DEF FitsAt
<1>9. TableBut(R, i, from, to)
  BY <1>1, TableFacts DEF TableBut
<1>10. M = [R EXCEPT ![i] = g]
  BY <1>3, <1>4
<1>11. /\ Table(M, from, to) /\ Len(M) = Len(R)
       /\ \A c \in Int : IsFree(M, c) <=> Has(g, c) \/ \E k \in DOMAIN R \ {i} : Has(R[k], c)
  BY <1>2, <1>5, <1>8, <1>9, <1>10, Replaced
<1>12. \A c \in Int : Has(g, c) <=> Has(R[i], c) \/ Among(c, a, n)
  <2>1. \A c \in Int : Has(R[i], c) <=> x <= c /\ c < x + s
    BY <1>2, <1>3, Entries DEF Has
  <2> QED BY <1>1, <1>3, <1>5, <2>1 DEF Has, Among
<1>13. \A c \in Int : IsFree(M, c) <=> IsFree(R, c) \/ Among(c, a, n)
  BY <1>11, <1>12 DEF IsFree
<1>14. Len(M) <= MAX_FREE_REGIONS
  BY <1>11
<1> QED BY <1>1, <1>11, <1>13, <1>14, Joined

(* The blocks join region i and region j; entry j is taken out. *)
LEMMA JoinedToBoth ==
    ASSUME NEW R, NEW from \in Int, NEW to \in Int, NEW a, NEW n,
           InUse(R, a, n, from, to), Len(R) <= MAX_FREE_REGIONS,
           NEW i \in DOMAIN R, RegionEnd(R[i]) = a,
           NEW j \in DOMAIN R, R[j].blockAddress = a + n,
           NEW g, g = Region(R[i].blockAddress, R[i].sizeInBlocks + (R[j].sizeInBlocks + n)),
           NEW G \in Seq(Regions), DOMAIN G = DOMAIN R, G[i] = g,
           \A k \in DOMAIN R \ {i, j} : G[k] = R[k],
           NEW r
    PROVE  GivesBack(Outcome(RemoveAt(G, j), TRUE, r), R, a, n, from, to)
<1>1. /\ Table(R, from, to) /\ a \in Nat /\ n \in Nat \ {0} /\ from <= a /\ a + n <= to
      /\ \A c \in Int : Among(c, a, n) => ~IsFree(R, c)
  BY DEF InUse
<1>2. R \in Seq(Regions)
  BY <1>1, TableFacts
<1>3. PICK x \in Nat, s \in Nat : x = R[i].blockAddress /\ s = R[i].sizeInBlocks /\ x + s = a
  BY <1>2, Entries
<1>4. PICK t \in Nat : t = R[j].sizeInBlocks /\ RegionEnd(R[j]) = a + n + t
  BY <1>2, Entries
<1>5. PICK z \in Nat : z = s + (t + n) /\ x + z = a + n + t /\ z # 0
  <2>1. PICK p \in Nat : p = n /\ p # 0
    BY <1>1
  <2>2. x + (s + (t + p)) = x + s + p + t /\ s + (t + p) # 0 /\ s + (t + p) \in Nat
    BY <2>1
  <2> QED BY <1>3, <2>1, <2>2
<1>6. /\ g.blockAddress = x /\ g.sizeInBlocks # 0
      /\ RegionEnd(g) = RegionEnd(R[j]) /\ RegionEnd(g) = a + n + t
  <2>1. g = Region(x, z)
    BY <1>3, <1>4, <1>5
  <2>2. /\ Region(x, z).blockAddress = x /\ Region(x, z).sizeInBlocks = z
        /\ RegionEnd(Region(x, z)) = x + z
    BY RegionIs
  <2>3. g.blockAddress = x /\ g.sizeInBlocks = z /\ RegionEnd(g) = x + z
    BY <2>1, <2>2
  <2> QED BY <1>4, <1>5, <2>3
<1>7. i # j
  BY <1>1, <1>3
<1>8. \A k \in DOMAIN R : i < k /\ k # j => j < k
  <2> SUFFICES ASSUME NEW k \in DOMAIN R, i < k, k # j, ~(j < k) PROVE FALSE
    OBVIOUS
  <2>1. k < j
    BY <1>2, Entries
  <2>2. R[k].blockAddress < a + n
    BY <1>1, <2>1, Increasing
  <2>3. a < RegionEnd(R[k])
    BY <1>1, Increasing
  <2>4. RegionEnd(R[k]) <= a \/ a + n <= R[k].blockAddress
    BY <1>1, ApartRegions
  <2>5. R[k].blockAddress \in Nat /\ RegionEnd(R[k]) \in Nat
    BY <1>2, Entries
  <2> QED BY <1>1, <2>2, <2>3, <2>4, <2>5
<1>9. TableBut(G, j, from, to)
  <2>1. \A k, l \in DOMAIN G \ {j} : k < l => RegionEnd(G[k]) < G[l].blockAddress
    <3> SUFFICES ASSUME NEW k \in DOMAIN R \ {j}, NEW l \in DOMAIN R \ {j}, k < l
                 PROVE  RegionEnd(G[k]) < G[l].blockAddress
      OBVIOUS
    <3>1. CASE k = i
      <4>1. j < l /\ G[l] = R[l]
        BY <1>2, <1>8, <3>1, Entries
      <4>2. RegionEnd(R[j]) < R[l].blockAddress
        BY <1>1, <4>1, TableFacts
      <4> QED BY <1>6, <3>1, <4>1, <4>2
    <3>2. CASE l = i
      <4>1. G[k] = R[k] /\ G[l].blockAddress = R[l].blockAddress
        BY <1>2, <1>3, <1>6, <3>2, Entries
      <4> QED BY <1>1, <4>1, TableFacts
    <3>3. CASE k # i /\ l # i
      BY <1>1, <3>3, TableFacts
    <3> QED BY <3>1, <3>2, <3>3
  <2>2. \A k \in DOMAIN G \ {j} :
          /\ from <= G[k].blockAddress /\ RegionEnd(G[k]) <= to
          /\ G[k].sizeInBlocks = 0 => G[k].blockAddress = to
    <3> TAKE k \in DOMAIN G \ {j}
    <3>1. CASE k = i
      BY <1>1, <1>3, <1>6, <3>1, TableFacts
    <3>2. CASE k # i
      BY <1>1, <3>2, TableFacts
    <3> QED BY <3>1, <3>2
  <2> QED BY <2>1, <2>2 DEF TableBut
<1>10. PICK M : M = RemoveAt(G, j)
  OBVIOUS
<1>11. /\ Table(M, from, to) /\ Len(M) = Len(G) - 1
       /\ \A c \in Int : IsFree(M, c) <=> \E k \in DOMAIN G \ {j} : Has(G[k], c)
  BY <1>9, <1>10, Removed
<1>12. \A c \in Int : Has(g, c) <=> Has(R[i], c) \/ Has(R[j], c) \/ Among(c, a, n)
  <2>1. \A c \in Int : Has(R[i], c) <=> x <= c /\ c < x + s
    BY <1>2, <1>3, Entries DEF Has
  <2>2. \A c \in Int : Has(R[j], c) <=> a + n <= c /\ c < a + n + t
    BY <1>4 DEF Has
  <2>3. \A c \in Int : Has(g, c) <=> x <= c /\ c < a + n + t
    BY <1>6 DEF Has
  <2>4. \A c \in Int : x <= c /\ c < a + n + t <=>
            \/ x <= c /\ c < x + s
            \/ a + n <= c /\ c < a + n + t
            \/ a <= c /\ c < a + n
    <3>1. PICK y \in Nat, p \in Nat : y = a /\ p = n /\ x <= y
      BY <1>1, <1>3
    <3>2. \A c \in Int : x <= c /\ c < y + p + t <=>
            \/ x <= c /\ c < y
            \/ y + p <= c /\ c < y + p + t
            \/ y <= c /\ c < y + p
      BY <3>1
    <3> QED BY <1>3, <3>1, <3>2
  <2> QED BY <2>1, <2>2, <2>3, <2>4 DEF Among
<1>13. \A c \in Int : IsFree(M, c) <=> IsFree(R, c) \/ Among(c, a, n)
  BY <1>7, <1>11, <1>12 DEF IsFree
<1>14. Len(M) <= MAX_FREE_REGIONS
  <2>1. Len(G) = Len(R) /\ Len(R) \in Nat
    BY <1>2, Entries
  <2> QED BY <1>11, <2>1, Parameters
<1>15. GivesBack(Outcome(M, TRUE, r), R, a, n, from, to)
  BY <1>1, <1>11, <1>13, <1>14, Joined
<1> QED BY <1>10, <1>15

(* freeListFree puts back the blocks it is given and no others. *)
LEMMA Freed ==
    ASSUME NEW R, NEW from \in Int, NEW to \in Int, NEW a, NEW n,
           InUse(R, a, n, from, to), Len(R) <= MAX_FREE_REGIONS
    PROVE  GivesBack(FreeListFree(R, a, n), R, a, n, from, to)
<1>1. Table(R, from, to) /\ a \in Nat /\ n \in Nat \ {0} /\ R \in Seq(Regions)
  BY TableFacts DEF InUse
<1>2. CASE /\ StartingAt(R, a + n) = {}
           /\ \A k \in DOMAIN R : R[k].blockAddress # a + n
  <2>1. CASE EndingAt(R, a) = {} /\ \A k \in DOMAIN R : RegionEnd(R[k]) # a
    <3>1. FreeListFree(R, a, n) = Outcome(R, FALSE, Region(a, n))
      BY <1>2, <2>1 DEF FreeListFree
    <3>2. \A k \in DOMAIN R : R[k].blockAddress # a + n /\ RegionEnd(R[k]) # a
      BY <1>2, <2>1
    <3> QED BY <3>1, <3>2, NotJoined
  <2>2. ASSUME NEW i \in DOMAIN R, EndingAt(R, a) = {i}, RegionEnd(R[i]) = a
        PROVE  GivesBack(FreeListFree(R, a, n), R, a, n, from, to)
    <3>1. PICK M : M = [R EXCEPT ![i] = Region(R[i].blockAddress, R[i].sizeInBlocks + n)]
      OBVIOUS
    <3>2. FreeListFree(R, a, n) = Outcome(M, TRUE, Region(a, n))
      BY <1>2, <2>2, <3>1 DEF FreeListFree
    <3>3. \A k \in DOMAIN R : R[k].blockAddress # a + n
      BY <1>2
    <3>4. GivesBack(Outcome(M, TRUE, Region(a, n)), R, a, n, from, to)
      BY <2>2, <3>1, <3>3, JoinedToPrevious
    <3> QED BY <3>2, <3>4
  <2> QED BY <1>1, <2>1, <2>2, EndingAtIs
<1>3. ASSUME NEW j \in DOMAIN R, StartingAt(R, a + n) = {j}, R[j].blockAddress = a + n
      PROVE  GivesBack(FreeListFree(R, a, n), R, a, n, from, to)
  <2>1. PICK J : J = [R EXCEPT ![j] = Region(a, R[j].sizeInBlocks + n)]
    OBVIOUS
  <2>2. PICK s \in Nat : s = R[j].sizeInBlocks /\ RegionEnd(R[j]) = a + n + s
    BY <1>1, <1>3, Entries
  <2>3. /\ Region(a, s + n) \in Regions /\ Region(a, s + n).sizeInBlocks = s + n
        /\ RegionEnd(Region(a, s + n)) = a + (s + n)
    <3>1. s + n \in Nat
      BY <1>1, <2>2
    <3> QED BY <1>1, <3>1, RegionIs
  <2>4. /\ J \in Seq(Regions) /\ DOMAIN J = DOMAIN R
        /\ J[j] = Region(a, s + n) /\ \A k \in DOMAIN R \ {j} : J[k] = R[k]
    BY <1>1, <1>3, <2>1, <2>2, <2>3
  <2>5. J[j].sizeInBlocks = R[j].sizeInBlocks + n
    BY <2>2, <2>3, <2>4
  <2>6. RegionEnd(J[j]) = RegionEnd(R[j])
    BY <1>1, <2>2, <2>3, <2>4
  <2>7. \A k \in DOMAIN R : RegionEnd(J[k]) = RegionEnd(R[k])
    BY <2>4, <2>6
  <2>8. CASE EndingAt(J, a) = {} /\ \A k \in DOMAIN R : RegionEnd(R[k]) # a
    <3>1. FreeListFree(R, a, n) = Outcome(J, TRUE, Region(a, n))
      BY <1>3, <2>1, <2>8 DEF FreeListFree
    <3>2. \A k \in DOMAIN R : RegionEnd(R[k]) # a
      BY <2>8
    <3>3. GivesBack(Outcome(J, TRUE, Region(a, n)), R, a, n, from, to)
      BY <1>3, <2>1, <3>2, JoinedToNext
    <3> QED BY <3>1, <3>3
  <2>9. ASSUME NEW i \in DOMAIN R, EndingAt(J, a) = {i}, RegionEnd(R[i]) = a
        PROVE  GivesBack(FreeListFree(R, a, n), R, a, n, from, to)
    <3>1. i # j
      BY <1>1, <2>2, <2>9
    <3>2. PICK g : g = Region(R[i].blockAddress, R[i].sizeInBlocks + (R[j].sizeInBlocks + n))
      OBVIOUS
    <3>3. g \in Regions
      <4>1. R[i].blockAddress \in Nat /\ R[i].sizeInBlocks \in Nat
        BY <1>1, Entries
      <4>2. R[i].sizeInBlocks + (s + n) \in Nat
        BY <1>1, <4>1
      <4> QED BY <2>2, <3>2, <4>1, <4>2, RegionIs
    <3>4. PICK G : G = [J EXCEPT ![i] = g]
      OBVIOUS
    <3>5. /\ G \in Seq(Regions) /\ DOMAIN G = DOMAIN R /\ G[i] = g
          /\ \A k \in DOMAIN R \ {i, j} : G[k] = R[k]
      BY <2>4, <3>3, <3>4
    <3>6. /\ J[i].blockAddress = R[i].blockAddress
          /\ J[i].sizeInBlocks = R[i].sizeInBlocks
      BY <2>4, <3>1
    <3>7. G = [J EXCEPT ![i] = Region(J[i].blockAddress,
                                      J[i].sizeInBlocks + J[j].sizeInBlocks)]
      BY <2>5, <3>2, <3>4, <3>6
    <3>8. FreeListFree(R, a, n) = Outcome(RemoveAt(G, j), TRUE, Region(a, n))
      BY <1>3, <2>1, <2>9, <3>7 DEF FreeListFree
    <3>9. GivesBack(Outcome(RemoveAt(G, j), TRUE, Region(a, n)), R, a, n, from, to)
      BY <1>3, <2>9, <3>2, <3>5, JoinedToBoth
    <3> QED BY <3>8, <3>9
  <2> QED BY <1>1, <2>4, <2>7, <2>8, <2>9, EndingAtIs
<1>4. a + n \in Nat
  BY <1>1
<1> QED BY <1>1, <1>2, <1>3, <1>4, StartingAtIs

(* freeListReduce puts back the end of an allocation, whose beginning stays. *)
LEMMA Reduced ==
    ASSUME NEW R, NEW from \in Int, NEW to \in Int, NEW a \in Nat,
           NEW old \in Nat, NEW new \in 1 .. old - 1,
           InUse(R, a, old, from, to), Len(R) <= MAX_FREE_REGIONS
    PROVE  GivesBack(FreeListReduce(R, a, old, new), R, a + new, old - new, from, to)
<1> DEFINE b == a + new
           n == old - new
<1>1. /\ b \in Nat /\ n \in Nat \ {0} /\ b + n = a + old
      /\ a < b
  OBVIOUS
<1>2. /\ Table(R, from, to) /\ R \in Seq(Regions)
      /\ from <= a /\ a + old <= to
      /\ \A c \in Int : Among(c, a, old) => ~IsFree(R, c)
  BY TableFacts DEF InUse
<1>3. \A c \in Int : Among(c, b, n) => Among(c, a, old)
  BY <1>1 DEF Among
<1>4. InUse(R, b, n, from, to)
  <2>1. from <= b /\ b + n <= to
    BY <1>1, <1>2
  <2> HIDE DEF b, n
  <2> QED BY <1>1, <1>2, <1>3, <2>1 DEF InUse
<1>5. \A k \in DOMAIN R : RegionEnd(R[k]) # b
  <2> SUFFICES ASSUME NEW k \in DOMAIN R, RegionEnd(R[k]) = b PROVE FALSE
    OBVIOUS
  <2>1. PICK x \in Nat, y \in Nat :
            x = R[k].blockAddress /\ y = R[k].sizeInBlocks /\ x + y = b
    BY <1>2, Entries
  <2>2. y # 0
    BY <1>1, <1>2, <2>1, TableFacts
  <2>3. Has(R[k], b - 1)
    <3>1. x <= b - 1 /\ b - 1 < b
      BY <2>1, <2>2
    <3> QED BY <2>1, <3>1 DEF Has
  <2>4. Among(b - 1, a, old) /\ b - 1 \in Int
    BY <1>1 DEF Among
  <2> QED BY <1>2, <2>3, <2>4 DEF IsFree
<1>6. CASE /\ StartingAt(R, a + old) = {}
           /\ \A k \in DOMAIN R : R[k].blockAddress # a + old
  <2>1. FreeListReduce(R, a, old, new) = Outcome(R, FALSE, Region(b, n))
    BY <1>6 DEF FreeListReduce
  <2>2. \A k \in DOMAIN R : R[k].blockAddress # b + n /\ RegionEnd(R[k]) # b
    BY <1>1, <1>5, <1>6
  <2> HIDE DEF b, n
  <2>3. GivesBack(Outcome(R, FALSE, Region(b, n)), R, b, n, from, to)
    BY <1>4, <2>2, NotJoined
  <2> QED BY <2>1, <2>3 DEF b, n
<1>7. ASSUME NEW j \in DOMAIN R, StartingAt(R, a + old) = {j}, R[j].blockAddress = a + old
      PROVE  GivesBack(FreeListReduce(R, a, old, new), R, b, n, from, to)
  <2>1. PICK J : J = [R EXCEPT ![j] = Region(b, R[j].sizeInBlocks + n)]
    OBVIOUS
  <2>2. FreeListReduce(R, a, old, new) = Outcome(J, TRUE, Region(b, n))
    BY <1>7, <2>1 DEF FreeListReduce
  <2>3. R[j].blockAddress = b + n
    BY <1>1, <1>7
  <2> HIDE DEF b, n
  <2> QED BY <1>4, <1>5, <2>1, <2>2, <2>3, JoinedToNext
<1>8. a + old \in Nat
  OBVIOUS
<1> QED BY <1>2, <1>6, <1>7, <1>8, StartingAtIs
-----------------------------------------------------------------------------
(* What the client holds. *)

Occupied(own, c) == \E a \in DOMAIN own : Among(c, a, AtLeastOne(own[a]))

(* Blocks of from .. to-1, none held twice. *)
Holdings(own, from, to) ==
    /\ \A a \in DOMAIN own :
          /\ a \in Nat /\ from <= a
          /\ own[a] \in Nat /\ own[a] <= RAM_SIZE_IN_BLOCKS
          /\ AtLeastOne(own[a]) \in Nat \ {0}
          /\ a + AtLeastOne(own[a]) <= to
    /\ \A a, b \in DOMAIN own : \A c \in Int :
          Among(c, a, AtLeastOne(own[a])) /\ Among(c, b, AtLeastOne(own[b])) => a = b

LEMMA AtLeastOneIs ==
    ASSUME NEW n \in Nat
    PROVE  AtLeastOne(n) \in Nat \ {0} /\ n <= AtLeastOne(n) /\ (n # 0 => AtLeastOne(n) = n)
BY DEF AtLeastOne

LEMMA Granted ==
    ASSUME NEW own, NEW from \in Nat, NEW to \in Nat, Holdings(own, from, to),
           NEW a \in Nat, NEW n \in Nat, n <= RAM_SIZE_IN_BLOCKS,
           from <= a, a + AtLeastOne(n) <= to,
           \A c \in Int : Among(c, a, AtLeastOne(n)) => ~Occupied(own, c)
    PROVE  /\ Holdings(With(own, a, n), from, to)
           /\ \A c \in Int : Occupied(With(own, a, n), c) <=>
                    Occupied(own, c) \/ Among(c, a, AtLeastOne(n))
<1>1. PICK new : new = With(own, a, n)
  OBVIOUS
<1>2. AtLeastOne(n) \in Nat \ {0}
  BY AtLeastOneIs
<1>3. a \notin DOMAIN own
  <2>1. Among(a, a, AtLeastOne(n)) /\ (a \in DOMAIN own => Among(a, a, AtLeastOne(own[a])))
    BY <1>2 DEF Among, Holdings
  <2> QED BY <2>1 DEF Occupied
<1>4. /\ DOMAIN new = {a} \cup DOMAIN own /\ new[a] = n
      /\ \A b \in DOMAIN own : b # a /\ new[b] = own[b]
  BY <1>1, <1>3 DEF With
<1>5. \A c \in Int : Occupied(new, c) <=> Occupied(own, c) \/ Among(c, a, AtLeastOne(n))
  BY <1>4 DEF Occupied
<1>6. \A b \in DOMAIN new :
          /\ b \in Nat /\ from <= b /\ new[b] \in Nat /\ new[b] <= RAM_SIZE_IN_BLOCKS
          /\ AtLeastOne(new[b]) \in Nat \ {0} /\ b + AtLeastOne(new[b]) <= to
  BY <1>2, <1>4 DEF Holdings
<1>7. \A x, y \in DOMAIN new : \A c \in Int :
          Among(c, x, AtLeastOne(new[x])) /\ Among(c, y, AtLeastOne(new[y])) => x = y
  BY <1>4 DEF Holdings, Occupied
<1>8. Holdings(new, from, to)
  BY <1>6, <1>7 DEF Holdings
<1> QED BY <1>1, <1>5, <1>8

LEMMA Released ==
    ASSUME NEW own, NEW from \in Nat, NEW to \in Nat, Holdings(own, from, to),
           NEW a \in DOMAIN own, NEW new, new = [b \in DOMAIN own \ {a} |-> own[b]]
    PROVE  /\ Holdings(new, from, to)
           /\ \A c \in Int : Occupied(new, c) <=>
                    Occupied(own, c) /\ ~Among(c, a, AtLeastOne(own[a]))
<1>1. DOMAIN new = DOMAIN own \ {a} /\ \A b \in DOMAIN new : new[b] = own[b]
  OBVIOUS
<1>2. Holdings(new, from, to)
  BY <1>1 DEF Holdings
<1>3. \A c \in Int : Occupied(new, c) <=>
                    Occupied(own, c) /\ ~Among(c, a, AtLeastOne(own[a]))
  BY <1>1 DEF Occupied, Holdings
<1> QED BY <1>2, <1>3

LEMMA Shrunk ==
    ASSUME NEW own, NEW from \in Nat, NEW to \in Nat, Holdings(own, from, to),
           NEW a \in DOMAIN own, NEW n \in 1 .. own[a] - 1,
           NEW new, new = [own EXCEPT ![a] = n]
    PROVE  /\ Holdings(new, from, to)
           /\ \A c \in Int : Occupied(new, c) <=>
                    Occupied(own, c) /\ ~Among(c, a + n, own[a] - n)
<1>1. PICK old \in Nat : old = own[a] /\ n < old /\ n \in Nat /\ n # 0
  BY DEF Holdings
<1>2. AtLeastOne(n) = n /\ AtLeastOne(own[a]) = old
  BY <1>1, AtLeastOneIs
<1>3. /\ DOMAIN new = DOMAIN own /\ new[a] = n
      /\ \A b \in DOMAIN own \ {a} : new[b] = own[b]
  OBVIOUS
<1>4. a \in Nat /\ from <= a /\ a + old <= to /\ old <= RAM_SIZE_IN_BLOCKS
  BY <1>1, <1>2 DEF Holdings
<1>5. a + n <= to /\ n <= RAM_SIZE_IN_BLOCKS
  BY <1>1, <1>4, Parameters
<1>6. \A c \in Int : Among(c, a, n) <=> Among(c, a, old) /\ ~Among(c, a + n, old - n)
  BY <1>1, <1>4 DEF Among
<1>7. \A b \in DOMAIN new :
          /\ b \in Nat /\ from <= b /\ new[b] \in Nat /\ new[b] <= RAM_SIZE_IN_BLOCKS
          /\ AtLeastOne(new[b]) \in Nat \ {0} /\ b + AtLeastOne(new[b]) <= to
  BY <1>1, <1>2, <1>3, <1>4, <1>5 DEF Holdings
<1>8. \A b \in DOMAIN own : \A c \in Int :
          Among(c, b, AtLeastOne(new[b])) => Among(c, b, AtLeastOne(own[b]))
  BY <1>2, <1>3, <1>6
<1>9. \A x, y \in DOMAIN own : \A c \in Int :
          Among(c, x, AtLeastOne(new[x])) /\ Among(c, y, AtLeastOne(new[y])) => x = y
  BY <1>8 DEF Holdings
<1>10. Holdings(new, from, to)
  BY <1>3, <1>7, <1>9 DEF Holdings
<1>11. \A c \in Int : Among(c, a + n, old - n) => Among(c, a, old)
  BY <1>1, <1>4 DEF Among
<1>12. \A c \in Int : \A b \in DOMAIN own \ {a} :
          Among(c, b, AtLeastOne(own[b])) => ~Among(c, a + n, old - n)
  BY <1>2, <1>11 DEF Holdings
<1>13. \A c \in Int : Occupied(new, c) <=>
                    Occupied(own, c) /\ ~Among(c, a + n, old - n)
  <2> TAKE c \in Int
  <2>1. Occupied(new, c) <=> \/ Among(c, a, n)
                             \/ \E b \in DOMAIN own \ {a} : Among(c, b, AtLeastOne(own[b]))
    BY <1>2, <1>3 DEF Occupied
  <2>2. Occupied(own, c) <=> \/ Among(c, a, old)
                             \/ \E b \in DOMAIN own \ {a} : Among(c, b, AtLeastOne(own[b]))
    BY <1>2 DEF Occupied
  <2> QED BY <1>6, <1>12, <2>1, <2>2
<1> QED BY <1>1, <1>10, <1>13
-----------------------------------------------------------------------------
(* The invariant. *)

Whole(R, own, begin) ==
    /\ begin \in Nat /\ HeapStart <= begin /\ begin <= RAM_SIZE_IN_BLOCKS - 1
    /\ Table(R, HeapStart, begin) /\ Len(R) <= MAX_FREE_REGIONS
    /\ Holdings(own, HeapStart, begin)

(* A block of the heap is free or held. *)
Parted(R, own, begin) ==
    \A c \in Int : HeapStart <= c /\ c < begin => (IsFree(R, c) <=> ~Occupied(own, c))

Inv ==
    /\ exitCode \in {0, -2, -3}
    /\ answeredNull \in BOOLEAN
    /\ overlapReported = FALSE
    /\ Whole(freeMemoryRegions, allocatedMemoryRegions, beginOfProgramMemory)
    /\ exitCode = 0 =>
         Parted(freeMemoryRegions, allocatedMemoryRegions, beginOfProgramMemory)

LEMMA WholeFacts ==
    ASSUME NEW R, NEW own, NEW begin, Whole(R, own, begin)
    PROVE  /\ begin \in Nat /\ HeapStart \in Nat
           /\ HeapStart <= begin /\ begin <= RAM_SIZE_IN_BLOCKS - 1
           /\ Table(R, HeapStart, begin) /\ Len(R) <= MAX_FREE_REGIONS
           /\ Holdings(own, HeapStart, begin)
           /\ R \in Seq(Regions)
BY Parameters, TableFacts DEF Whole

LEMMA InitInv == Init => Inv
<1> SUFFICES ASSUME Init PROVE Inv
  OBVIOUS
<1>1. PICK n \in Nat : n = RAM_SIZE_IN_BLOCKS - HeapStart - 1 /\ n # 0
                       /\ HeapStart + n = RAM_SIZE_IN_BLOCKS - 1
  BY Parameters
<1>2. PICK r : r = Region(HeapStart, n)
  OBVIOUS
<1>3. /\ r \in Regions /\ r.blockAddress = HeapStart /\ r.sizeInBlocks = n
      /\ RegionEnd(r) = RAM_SIZE_IN_BLOCKS - 1
  <2>1. HeapStart \in Nat
    BY Parameters
  <2>2. /\ r \in Regions /\ r.blockAddress = HeapStart /\ r.sizeInBlocks = n
        /\ RegionEnd(r) = HeapStart + n
    BY <1>2, <2>1, RegionIs
  <2> QED BY <1>1, <2>2
<1>4. PICK begin \in Nat : /\ begin = RAM_SIZE_IN_BLOCKS - 1
                           /\ HeapStart <= begin /\ begin <= RAM_SIZE_IN_BLOCKS - 1
  BY Parameters
<1>5. <<r>> \in Seq(Regions) /\ Len(<<r>>) = 1 /\ DOMAIN <<r>> = {1} /\ <<r>>[1] = r
  BY <1>3
<1>6. Table(<<r>>, HeapStart, begin)
  BY <1>1, <1>3, <1>4, <1>5, Parameters DEF Table
<1>7. Len(<<r>>) <= MAX_FREE_REGIONS
  BY <1>5, Parameters
<1>8. Holdings(<<>>, HeapStart, begin) /\ \A c \in Int : ~Occupied(<<>>, c)
  BY DEF Holdings, Occupied
<1>9. Whole(<<r>>, <<>>, begin)
  BY <1>4, <1>6, <1>7, <1>8 DEF Whole
<1>10. \A c \in Int : HeapStart <= c /\ c < begin => IsFree(<<r>>, c)
  BY <1>3, <1>4, <1>5 DEF IsFree, Has
<1>11. Parted(<<r>>, <<>>, begin)
  BY <1>8, <1>10 DEF Parted
<1>12. /\ freeMemoryRegions = <<r>> /\ allocatedMemoryRegions = <<>>
       /\ beginOfProgramMemory = begin
  BY <1>1, <1>2, <1>4 DEF Init
<1> QED BY <1>9, <1>11, <1>12 DEF Init, Inv

(* What the client holds is not free, before or after a request is carved. *)
LEMMA HeldInUse ==
    ASSUME NEW R, NEW own, NEW begin, Whole(R, own, begin), Parted(R, own, begin),
           NEW T, Table(T, HeapStart, begin), \A c \in Int : IsFree(T, c) => IsFree(R, c),
           NEW a \in DOMAIN own
    PROVE  InUse(T, a, AtLeastOne(own[a]), HeapStart, begin)
<1>1. begin \in Nat /\ HeapStart \in Nat /\ Holdings(own, HeapStart, begin)
  BY WholeFacts
<1>2. PICK n \in Nat \ {0} : n = AtLeastOne(own[a])
  BY <1>1 DEF Holdings
<1>3. a \in Nat /\ HeapStart <= a /\ a + n <= begin
  BY <1>1, <1>2 DEF Holdings
<1>4. \A c \in Int : Among(c, a, n) => /\ HeapStart <= c /\ c < begin
                                       /\ Occupied(own, c)
  BY <1>1, <1>2, <1>3 DEF Among, Occupied
<1>5. \A c \in Int : Among(c, a, n) => ~IsFree(T, c)
  BY <1>4 DEF Parted
<1>6. InUse(T, a, n, HeapStart, begin)
  BY <1>3, <1>5 DEF InUse
<1> QED BY <1>2, <1>6

(* Carving region i: what is handed out was free. *)
LEMMA Served ==
    ASSUME NEW R, NEW own, NEW begin, Whole(R, own, begin), Parted(R, own, begin),
           NEW size \in Nat \ {0}, BestFit(R, size) # 0, NEW i, i = BestFit(R, size),
           NEW T, T = Carve(R, i, size), NEW a, a = R[i].blockAddress
    PROVE  /\ a \in Nat /\ HeapStart <= a /\ a + size <= begin
           /\ Table(T, HeapStart, begin) /\ Len(T) <= MAX_FREE_REGIONS
           /\ \A c \in Int : IsFree(T, c) <=> IsFree(R, c) /\ ~Among(c, a, size)
           /\ \A c \in Int : Among(c, a, size) => IsFree(R, c) /\ ~Occupied(own, c)
<1>1. /\ begin \in Nat /\ HeapStart \in Nat /\ Table(R, HeapStart, begin)
      /\ Len(R) <= MAX_FREE_REGIONS /\ R \in Seq(Regions)
  BY WholeFacts
<1>2. i \in DOMAIN R /\ R[i].sizeInBlocks >= size
  BY <1>1, BestFitIs
<1>3. PICK s \in Nat : s = R[i].sizeInBlocks /\ RegionEnd(R[i]) = a + s /\ size <= s
  BY <1>1, <1>2, Entries
<1>4. a \in Nat
  BY <1>1, <1>2, Entries
<1>5. HeapStart <= a /\ a + s <= begin
  BY <1>1, <1>2, <1>3, TableFacts
<1>6. a + size <= begin
  BY <1>1, <1>3, <1>4, <1>5
<1>7. /\ Table(T, HeapStart, begin) /\ Len(T) <= Len(R)
      /\ \A c \in Int : IsFree(T, c) <=>
               IsFree(R, c) /\ ~(a <= c /\ c < a + size)
  BY <1>1, <1>2, Carved
<1>8. Len(T) <= MAX_FREE_REGIONS
  <2>1. T \in Seq(Regions)
    BY <1>7, TableFacts
  <2> QED BY <1>1, <1>7, <2>1, Entries, Parameters
<1>9. \A c \in Int : Among(c, a, size) => IsFree(R, c)
  BY <1>2, <1>3, <1>4 DEF Among, IsFree, Has
<1>10. \A c \in Int : Among(c, a, size) => ~Occupied(own, c)
  <2>1. \A c \in Int : Among(c, a, size) => HeapStart <= c /\ c < begin
    BY <1>1, <1>4, <1>5, <1>6 DEF Among
  <2> QED BY <1>9, <2>1 DEF Parted
<1> QED BY <1>4, <1>5, <1>6, <1>7, <1>8, <1>9, <1>10 DEF Among

LEMMA Propagate ==
    ASSUME NEW R, NEW own, NEW begin, Whole(R, own, begin),
           freeMemoryRegions' = R, allocatedMemoryRegions' = own,
           beginOfProgramMemory' = begin,
           exitCode' \in {0, -2, -3}, answeredNull' \in BOOLEAN, overlapReported' = FALSE,
           exitCode' = 0 => Parted(R, own, begin)
    PROVE  Inv'
BY DEF Inv

(* The state an operation starts from, as constants. *)
LEMMA Before ==
    ASSUME Inv, exitCode = 0
    PROVE  \E R, own, begin :
              /\ R = freeMemoryRegions /\ own = allocatedMemoryRegions
              /\ begin = beginOfProgramMemory
              /\ Whole(R, own, begin) /\ Parted(R, own, begin)
BY DEF Inv

LEMMA AllocStep ==
    ASSUME Inv, NEW n \in RequestSizes, AllocC47Blocks(n) PROVE Inv'
<1>1. exitCode = 0 /\ exitCode' = 0
  BY DEF AllocC47Blocks
<1>2. PICK R, own, begin :
         /\ R = freeMemoryRegions /\ own = allocatedMemoryRegions
         /\ begin = beginOfProgramMemory
         /\ Whole(R, own, begin) /\ Parted(R, own, begin)
  BY <1>1, Before
<1>3. n \in Nat /\ n <= RAM_SIZE_IN_BLOCKS
  BY Parameters
<1>4. PICK size \in Nat \ {0} : size = AtLeastOne(n)
  BY <1>3, AtLeastOneIs
<1>5. PICK i, T, a, new : /\ i = BestFit(R, size) /\ T = Carve(R, i, size)
                          /\ a = R[i].blockAddress /\ new = With(own, a, n)
  OBVIOUS
<1>6. /\ i # 0 /\ allocatedMemoryRegions' = new /\ freeMemoryRegions' = T
      /\ beginOfProgramMemory' = begin /\ overlapReported' = overlapReported
      /\ answeredNull' = FALSE
  BY <1>2, <1>4, <1>5 DEF AllocC47Blocks
<1>7. /\ a \in Nat /\ HeapStart <= a /\ a + size <= begin
      /\ Table(T, HeapStart, begin) /\ Len(T) <= MAX_FREE_REGIONS
      /\ \A c \in Int : IsFree(T, c) <=> IsFree(R, c) /\ ~Among(c, a, size)
      /\ \A c \in Int : Among(c, a, size) => IsFree(R, c) /\ ~Occupied(own, c)
  BY <1>2, <1>5, <1>6, Served
<1>8. /\ begin \in Nat /\ HeapStart \in Nat /\ HeapStart <= begin
      /\ begin <= RAM_SIZE_IN_BLOCKS - 1 /\ Holdings(own, HeapStart, begin)
  BY <1>2, WholeFacts
<1>9. /\ Holdings(new, HeapStart, begin)
      /\ \A c \in Int : Occupied(new, c) <=> Occupied(own, c) \/ Among(c, a, size)
  BY <1>3, <1>4, <1>5, <1>7, <1>8, Granted
<1>10. Whole(T, new, begin)
  BY <1>7, <1>8, <1>9 DEF Whole
<1>11. Parted(T, new, begin)
  BY <1>2, <1>7, <1>9 DEF Parted
<1>12. overlapReported' = FALSE
  BY <1>6 DEF Inv
<1> QED BY <1>1, <1>6, <1>10, <1>11, <1>12, Propagate

LEMMA FreeStep ==
    ASSUME Inv, NEW a \in Held, FreeC47Blocks(a) PROVE Inv'
<1>1. exitCode = 0
  BY DEF FreeC47Blocks
<1>2. PICK R, own, begin :
         /\ R = freeMemoryRegions /\ own = allocatedMemoryRegions
         /\ begin = beginOfProgramMemory
         /\ Whole(R, own, begin) /\ Parted(R, own, begin)
  BY <1>1, Before
<1>3. /\ begin \in Nat /\ HeapStart \in Nat /\ HeapStart <= begin
      /\ begin <= RAM_SIZE_IN_BLOCKS - 1 /\ Holdings(own, HeapStart, begin)
      /\ Table(R, HeapStart, begin) /\ Len(R) <= MAX_FREE_REGIONS
  BY <1>2, WholeFacts
<1>4. a \in DOMAIN own
  BY <1>2 DEF Held
<1>5. PICK n, out, new : /\ n = AtLeastOne(own[a]) /\ out = FreeListFree(R, a, n)
                         /\ new = [b \in DOMAIN own \ {a} |-> own[b]]
  OBVIOUS
<1>6. /\ allocatedMemoryRegions' = new /\ freeMemoryRegions' = out.regions
      /\ overlapReported' = (overlapReported \/ out.overlap)
      /\ exitCode' = out.exitCode
      /\ beginOfProgramMemory' = begin /\ answeredNull' = answeredNull
  BY <1>2, <1>5 DEF FreeC47Blocks, Commit, Without, Held
<1>7. InUse(R, a, n, HeapStart, begin)
  BY <1>2, <1>3, <1>4, <1>5, HeldInUse
<1>8. GivesBack(out, R, a, n, HeapStart, begin)
  BY <1>3, <1>5, <1>7, Freed
<1>9. /\ Holdings(new, HeapStart, begin)
      /\ \A c \in Int : Occupied(new, c) <=> Occupied(own, c) /\ ~Among(c, a, n)
  <2>1. /\ Holdings(new, HeapStart, begin)
        /\ \A c \in Int : Occupied(new, c) <=>
                 Occupied(own, c) /\ ~Among(c, a, AtLeastOne(own[a]))
    <3>1. begin \in Nat /\ HeapStart \in Nat /\ Holdings(own, HeapStart, begin)
      BY <1>3
    <3> QED BY <1>4, <1>5, <3>1, Released
  <2> QED BY <1>5, <2>1
<1>10. PICK T : T = out.regions
  OBVIOUS
<1>11. Whole(T, new, begin)
  BY <1>3, <1>8, <1>9, <1>10 DEF Whole, GivesBack
<1>12. ASSUME exitCode' = 0 PROVE Parted(T, new, begin)
  <2>1. \A c \in Int : IsFree(T, c) <=> IsFree(R, c) \/ Among(c, a, n)
    BY <1>6, <1>8, <1>10, <1>12 DEF GivesBack
  <2>2. \A c \in Int : Among(c, a, n) => Occupied(own, c)
    BY <1>4, <1>5 DEF Occupied
  <2> QED BY <1>2, <1>9, <2>1, <2>2 DEF Parted
<1>13. overlapReported' = FALSE /\ exitCode' \in {0, -2, -3} /\ answeredNull' \in BOOLEAN
  BY <1>6, <1>8 DEF GivesBack, Inv
<1> QED BY <1>6, <1>10, <1>11, <1>12, <1>13, Propagate

LEMMA ReduceStep ==
    ASSUME Inv, NEW a \in Held, NEW new \in RequestSizes, ReduceC47Blocks(a, new)
    PROVE  Inv'
<1>1. exitCode = 0
  BY DEF ReduceC47Blocks
<1>2. PICK R, own, begin :
         /\ R = freeMemoryRegions /\ own = allocatedMemoryRegions
         /\ begin = beginOfProgramMemory
         /\ Whole(R, own, begin) /\ Parted(R, own, begin)
  BY <1>1, Before
<1>3. /\ begin \in Nat /\ HeapStart \in Nat /\ HeapStart <= begin
      /\ begin <= RAM_SIZE_IN_BLOCKS - 1 /\ Holdings(own, HeapStart, begin)
      /\ Table(R, HeapStart, begin) /\ Len(R) <= MAX_FREE_REGIONS
  BY <1>2, WholeFacts
<1>4. a \in DOMAIN own
  BY <1>2 DEF Held
<1>5. PICK old \in Nat : old = own[a]
  BY <1>3, <1>4 DEF Holdings
<1>6. new \in 1 .. old - 1
  BY <1>2, <1>5 DEF ReduceC47Blocks
<1>7. PICK out, less : /\ out = FreeListReduce(R, a, old, new)
                       /\ less = [own EXCEPT ![a] = new]
  OBVIOUS
<1>8. /\ allocatedMemoryRegions' = less /\ freeMemoryRegions' = out.regions
      /\ overlapReported' = (overlapReported \/ out.overlap)
      /\ exitCode' = out.exitCode
      /\ beginOfProgramMemory' = begin /\ answeredNull' = answeredNull
  BY <1>2, <1>5, <1>7 DEF ReduceC47Blocks, Commit
<1>9. AtLeastOne(old) = old /\ a \in Nat
  BY <1>3, <1>4, <1>5, <1>6, AtLeastOneIs DEF Holdings
<1>10. InUse(R, a, old, HeapStart, begin)
  BY <1>2, <1>3, <1>4, <1>5, <1>9, HeldInUse
<1>11. GivesBack(out, R, a + new, old - new, HeapStart, begin)
  BY <1>3, <1>6, <1>7, <1>9, <1>10, Reduced
<1>12. /\ Holdings(less, HeapStart, begin)
       /\ \A c \in Int : Occupied(less, c) <=>
                Occupied(own, c) /\ ~Among(c, a + new, old - new)
  BY <1>3, <1>4, <1>5, <1>6, <1>7, Shrunk
<1>13. PICK T : T = out.regions
  OBVIOUS
<1>14. Whole(T, less, begin)
  BY <1>3, <1>11, <1>12, <1>13 DEF Whole, GivesBack
<1>15. ASSUME exitCode' = 0 PROVE Parted(T, less, begin)
  <2>1. \A c \in Int : IsFree(T, c) <=> IsFree(R, c) \/ Among(c, a + new, old - new)
    BY <1>8, <1>11, <1>13, <1>15 DEF GivesBack
  <2>2. \A c \in Int : Among(c, a + new, old - new) => Among(c, a, old)
    BY <1>6, <1>9 DEF Among
  <2>3. \A c \in Int : Among(c, a, old) => Occupied(own, c)
    BY <1>4, <1>5, <1>9 DEF Occupied
  <2> QED BY <1>2, <1>12, <2>1, <2>2, <2>3 DEF Parted
<1>16. overlapReported' = FALSE /\ exitCode' \in {0, -2, -3} /\ answeredNull' \in BOOLEAN
  BY <1>8, <1>11 DEF GivesBack, Inv
<1> QED BY <1>8, <1>13, <1>14, <1>15, <1>16, Propagate

LEMMA ReallocStep ==
    ASSUME Inv, NEW a \in Held, NEW n \in RequestSizes, ReallocC47Blocks(a, n)
    PROVE  Inv'
<1>1. exitCode = 0
  BY DEF ReallocC47Blocks
<1>2. PICK R, own, begin :
         /\ R = freeMemoryRegions /\ own = allocatedMemoryRegions
         /\ begin = beginOfProgramMemory
         /\ Whole(R, own, begin) /\ Parted(R, own, begin)
  BY <1>1, Before
<1>3. /\ begin \in Nat /\ HeapStart \in Nat /\ HeapStart <= begin
      /\ begin <= RAM_SIZE_IN_BLOCKS - 1 /\ Holdings(own, HeapStart, begin)
  BY <1>2, WholeFacts
<1>4. a \in DOMAIN own
  BY <1>2 DEF Held
<1>5. n \in Nat /\ n <= RAM_SIZE_IN_BLOCKS
  BY Parameters
<1>6. PICK size \in Nat \ {0} : size = AtLeastOne(n)
  BY <1>5, AtLeastOneIs
<1>7. PICK i, T, b : /\ i = BestFit(R, size) /\ T = Carve(R, i, size)
                     /\ b = R[i].blockAddress
  OBVIOUS
<1>8. PICK m, out, less, new :
         /\ m = AtLeastOne(own[a]) /\ out = FreeListFree(T, a, m)
         /\ less = [d \in DOMAIN own \ {a} |-> own[d]] /\ new = With(less, b, n)
  OBVIOUS
<1>9. /\ i # 0 /\ allocatedMemoryRegions' = new /\ freeMemoryRegions' = out.regions
      /\ overlapReported' = (overlapReported \/ out.overlap)
      /\ exitCode' = out.exitCode
      /\ beginOfProgramMemory' = begin /\ answeredNull' = FALSE
  BY <1>2, <1>6, <1>7, <1>8 DEF ReallocC47Blocks, Commit, Without, Held
<1>10. /\ b \in Nat /\ HeapStart <= b /\ b + size <= begin
       /\ Table(T, HeapStart, begin) /\ Len(T) <= MAX_FREE_REGIONS
       /\ \A c \in Int : IsFree(T, c) <=> IsFree(R, c) /\ ~Among(c, b, size)
       /\ \A c \in Int : Among(c, b, size) => IsFree(R, c) /\ ~Occupied(own, c)
  BY <1>2, <1>7, <1>9, Served
<1>11. InUse(T, a, m, HeapStart, begin)
  BY <1>2, <1>4, <1>8, <1>10, HeldInUse
<1>12. GivesBack(out, T, a, m, HeapStart, begin)
  BY <1>3, <1>8, <1>10, <1>11, Freed
<1>13. /\ Holdings(less, HeapStart, begin)
       /\ \A c \in Int : Occupied(less, c) <=> Occupied(own, c) /\ ~Among(c, a, m)
  BY <1>3, <1>4, <1>8, Released
<1>14. \A c \in Int : Among(c, b, AtLeastOne(n)) => ~Occupied(less, c)
  BY <1>6, <1>10, <1>13
<1>15. /\ Holdings(new, HeapStart, begin)
       /\ \A c \in Int : Occupied(new, c) <=> Occupied(less, c) \/ Among(c, b, size)
  BY <1>3, <1>5, <1>6, <1>8, <1>10, <1>13, <1>14, Granted
<1>16. PICK U : U = out.regions
  OBVIOUS
<1>17. Whole(U, new, begin)
  BY <1>3, <1>12, <1>15, <1>16 DEF Whole, GivesBack
<1>19. ASSUME exitCode' = 0 PROVE Parted(U, new, begin)
  <2>1. \A c \in Int : IsFree(U, c) <=> IsFree(T, c) \/ Among(c, a, m)
    BY <1>9, <1>12, <1>16, <1>19 DEF GivesBack
  <2>2. \A c \in Int : Among(c, a, m) => Occupied(own, c)
    BY <1>4, <1>8 DEF Occupied
  <2> QED BY <1>2, <1>10, <1>13, <1>15, <2>1, <2>2 DEF Parted
<1>20. overlapReported' = FALSE /\ exitCode' \in {0, -2, -3} /\ answeredNull' \in BOOLEAN
  BY <1>9, <1>12 DEF GivesBack, Inv
<1> QED BY <1>9, <1>16, <1>17, <1>19, <1>20, Propagate

(* The border moves up or down within what is free in front of it. *)
LEMMA BorderMoved ==
    ASSUME NEW R, NEW own, NEW begin, Whole(R, own, begin), Parted(R, own, begin),
           NEW last \in DOMAIN R, \A k \in DOMAIN R : k <= last,
           RegionEnd(R[last]) = begin,
           NEW delta \in Int, delta <= R[last].sizeInBlocks,
           begin - delta <= RAM_SIZE_IN_BLOCKS - 1,
           NEW T, T = [R EXCEPT ![last].sizeInBlocks = @ - delta]
    PROVE  Whole(T, own, begin - delta) /\ Parted(T, own, begin - delta)
<1>1. /\ begin \in Nat /\ HeapStart \in Nat /\ HeapStart <= begin
      /\ R \in Seq(Regions) /\ Table(R, HeapStart, begin) /\ Len(R) <= MAX_FREE_REGIONS
      /\ Holdings(own, HeapStart, begin)
  BY WholeFacts
<1>2. PICK x \in Nat, y \in Nat :
         x = R[last].blockAddress /\ y = R[last].sizeInBlocks /\ x + y = begin
  BY <1>1, Entries
<1>3. HeapStart <= x
  BY <1>1, <1>2, TableFacts
<1>4. PICK z \in Nat : z = y - delta
  BY <1>2
<1>5. PICK to \in Nat : to = begin - delta /\ to = x + z /\ HeapStart <= to
  <2>1. begin - delta = x + z
    BY <1>1, <1>2, <1>4
  <2>2. x + z \in Nat /\ HeapStart <= x + z
    BY <1>1, <1>3
  <2> QED BY <2>1, <2>2
<1>6. PICK r : r = [R[last] EXCEPT !.sizeInBlocks = z]
  OBVIOUS
<1>7. r \in Regions /\ r.blockAddress = x /\ r.sizeInBlocks = z
  <2>1. R[last] \in Regions
    BY <1>1, Entries
  <2> QED BY <1>2, <1>6, <2>1 DEF Regions
<1>8. RegionEnd(r) = to
  BY <1>5, <1>7 DEF RegionEnd
<1>9. T = [R EXCEPT ![last] = r]
  BY <1>2, <1>4, <1>6
<1>10. \A k \in DOMAIN R \ {last} : k < last /\ RegionEnd(R[k]) < x
  <2> TAKE k \in DOMAIN R \ {last}
  <2>1. k < last
    BY <1>1, Entries
  <2> QED BY <1>1, <1>2, <2>1, TableFacts
<1>11. FitsAt(r, R, last, HeapStart, to)
  <2>1. z = 0 => x = to
    BY <1>5
  <2>2. ~\E k \in DOMAIN R : last < k
    BY <1>1, Entries
  <2> QED BY <1>3, <1>5, <1>7, <1>8, <1>10, <2>1, <2>2 DEF FitsAt
<1>12. TableBut(R, last, HeapStart, to)
  <2>1. \A k, l \in DOMAIN R \ {last} : k < l => RegionEnd(R[k]) < R[l].blockAddress
    BY <1>1, TableFacts
  <2>2. ASSUME NEW k \in DOMAIN R \ {last}
        PROVE  /\ HeapStart <= R[k].blockAddress /\ RegionEnd(R[k]) <= to
               /\ R[k].sizeInBlocks = 0 => R[k].blockAddress = to
    <3>1. PICK u \in Nat, v \in Nat :
              u = R[k].blockAddress /\ v = R[k].sizeInBlocks /\ RegionEnd(R[k]) = u + v
      BY <1>1, Entries
    <3>2. u + v < x /\ HeapStart <= u /\ (v = 0 => u = begin)
      BY <1>1, <1>10, <3>1, TableFacts
    <3>3. v # 0 /\ u + v <= to
      BY <1>2, <1>5, <3>2
    <3> QED BY <3>1, <3>2, <3>3
  <2> QED BY <2>1, <2>2 DEF TableBut
<1>13. /\ Table(T, HeapStart, to) /\ Len(T) = Len(R)
       /\ \A c \in Int : IsFree(T, c) <=>
                Has(r, c) \/ \E k \in DOMAIN R \ {last} : Has(R[k], c)
  <2>1. R \in Seq(Regions) /\ r \in Regions /\ HeapStart \in Int /\ to \in Int
    BY <1>1, <1>7
  <2> QED BY <1>9, <1>11, <1>12, <2>1, Replaced
<1>14. \A c \in Int : /\ Has(r, c) <=> x <= c /\ c < to
                      /\ Has(R[last], c) <=> x <= c /\ c < begin
  BY <1>2, <1>7, <1>8 DEF Has
<1>15. \A a \in DOMAIN own : a + AtLeastOne(own[a]) <= to
  <2> SUFFICES ASSUME NEW a \in DOMAIN own, ~(a + AtLeastOne(own[a]) <= to) PROVE FALSE
    OBVIOUS
  <2>1. PICK n \in Nat \ {0} : n = AtLeastOne(own[a])
    BY <1>1 DEF Holdings
  <2>2. a \in Nat /\ HeapStart <= a /\ a + n <= begin
    BY <1>1, <2>1 DEF Holdings
  <2>3. PICK c \in Int : c = a + n - 1 /\ to <= c /\ c < begin
    BY <1>1, <1>5, <2>1, <2>2
  <2>4. HeapStart <= c /\ x <= c
    BY <1>1, <1>5, <2>3
  <2>5. IsFree(R, c)
    BY <1>14, <2>3, <2>4 DEF IsFree
  <2>6. Among(c, a, n)
    BY <2>2, <2>3 DEF Among
  <2>7. Occupied(own, c)
    BY <2>1, <2>6 DEF Occupied
  <2> QED BY <2>3, <2>4, <2>5, <2>7 DEF Parted
<1>16. Holdings(own, HeapStart, to)
  BY <1>1, <1>15 DEF Holdings
<1>17. Len(T) <= MAX_FREE_REGIONS /\ to <= RAM_SIZE_IN_BLOCKS - 1
  BY <1>1, <1>5, <1>13
<1>18. Whole(T, own, to)
  BY <1>5, <1>13, <1>16, <1>17 DEF Whole
<1>19. ASSUME NEW c \in Int, HeapStart <= c, c < to PROVE IsFree(T, c) <=> ~Occupied(own, c)
  <2>1. CASE c < begin
    <3>1. Has(r, c) <=> Has(R[last], c)
      BY <1>14, <1>19, <2>1
    <3>2. IsFree(T, c) <=> IsFree(R, c)
      BY <1>13, <3>1 DEF IsFree
    <3> QED BY <1>19, <2>1, <3>2 DEF Parted
  <2>2. CASE begin <= c
    <3>1. x <= c
      BY <1>1, <1>2, <2>2
    <3>2. IsFree(T, c)
      BY <1>13, <1>14, <1>19, <3>1
    <3>3. ~Occupied(own, c)
      BY <1>1, <2>2 DEF Occupied, Among, Holdings
    <3> QED BY <3>2, <3>3
  <2> QED BY <1>1, <2>1, <2>2
<1>20. Parted(T, own, to)
  BY <1>19 DEF Parted
<1> QED BY <1>5, <1>18, <1>20

LEMMA ResizeStep ==
    ASSUME ~TightHeap, Inv, NEW n \in ProgramSizes, ResizeProgramMemory(n)
    PROVE  Inv'
<1>1. exitCode = 0
  BY DEF ResizeProgramMemory
<1>2. PICK R, own, begin :
         /\ R = freeMemoryRegions /\ own = allocatedMemoryRegions
         /\ begin = beginOfProgramMemory
         /\ Whole(R, own, begin) /\ Parted(R, own, begin)
  BY <1>1, Before
<1>3. begin \in Nat /\ R \in Seq(Regions)
  BY <1>2, WholeFacts
<1>4. PICK last \in Nat : last = Len(R)
  BY <1>3
<1>5. last # 0 /\ RegionEnd(R[last]) = begin
  BY <1>2, <1>4 DEF ResizeProgramMemory, TailAdjoins
<1>6. last \in DOMAIN R /\ \A k \in DOMAIN R : k <= last
  BY <1>3, <1>4, <1>5, Entries
<1>7. n \in Nat
  BY Parameters
<1>8. PICK wanted \in Nat \ {0} : wanted = AtLeastOne(n)
  BY <1>7, AtLeastOneIs
<1>9. PICK delta \in Int : /\ delta = wanted - (RAM_SIZE_IN_BLOCKS - begin)
                           /\ begin - delta <= RAM_SIZE_IN_BLOCKS - 1
  BY <1>3, <1>8, Parameters
<1>10. /\ \/ /\ exitCode' = -3 /\ freeMemoryRegions' = R
             /\ beginOfProgramMemory' = begin
          \/ /\ ~(delta > R[last].sizeInBlocks)
             /\ freeMemoryRegions' = [R EXCEPT ![last].sizeInBlocks = @ - delta]
             /\ beginOfProgramMemory' = begin - delta
             /\ exitCode' = exitCode
       /\ allocatedMemoryRegions' = own
       /\ answeredNull' = answeredNull /\ overlapReported' = overlapReported
  BY <1>2, <1>4, <1>5, <1>8, <1>9 DEF ResizeProgramMemory
<1>11. overlapReported' = FALSE /\ answeredNull' \in BOOLEAN
  BY <1>10 DEF Inv
<1>12. CASE exitCode' = -3 /\ freeMemoryRegions' = R /\ beginOfProgramMemory' = begin
  BY <1>2, <1>10, <1>11, <1>12, Propagate
<1>13. CASE /\ ~(delta > R[last].sizeInBlocks)
            /\ freeMemoryRegions' = [R EXCEPT ![last].sizeInBlocks = @ - delta]
            /\ beginOfProgramMemory' = begin - delta /\ exitCode' = exitCode
  <2>1. PICK T : T = [R EXCEPT ![last].sizeInBlocks = @ - delta]
    OBVIOUS
  <2>2. delta <= R[last].sizeInBlocks
    <3>1. R[last].sizeInBlocks \in Nat
      BY <1>3, <1>6, Entries
    <3> QED BY <1>13, <3>1
  <2>3. Whole(T, own, begin - delta) /\ Parted(T, own, begin - delta)
    BY <1>2, <1>5, <1>6, <1>9, <2>1, <2>2, BorderMoved
  <2>4. PICK to : to = begin - delta
    OBVIOUS
  <2> QED BY <1>1, <1>10, <1>11, <1>13, <2>1, <2>3, <2>4, Propagate
<1> QED BY <1>10, <1>12, <1>13

LEMMA NextInv ==
    ASSUME ~TightHeap, Inv, [Next]_vars PROVE Inv'
<1>1. CASE \E n \in RequestSizes : AllocC47Blocks(n)
  BY <1>1, AllocStep
<1>2. CASE \E n \in RequestSizes : AllocFails(n)
  BY <1>2 DEF AllocFails, Inv
<1>3. CASE \E a \in Held : FreeC47Blocks(a)
  BY <1>3, FreeStep
<1>4. CASE \E a \in Held : \E n \in RequestSizes : ReduceC47Blocks(a, n)
  BY <1>4, ReduceStep
<1>5. CASE \E a \in Held : \E n \in RequestSizes : ReallocC47Blocks(a, n)
  BY <1>5, ReallocStep
<1>6. CASE \E n \in ProgramSizes : ResizeProgramMemory(n)
  BY <1>6, ResizeStep
<1>7. CASE Exited \/ UNCHANGED vars
  BY <1>7 DEF Exited, vars, Inv
<1> QED BY <1>1, <1>2, <1>3, <1>4, <1>5, <1>6, <1>7 DEF Next

LEMMA AlwaysInv == ASSUME ~TightHeap PROVE Spec => []Inv
<1>1. Inv /\ [Next]_vars => Inv'
  BY NextInv
<1> QED BY <1>1, InitInv, PTL DEF Spec

-----------------------------------------------------------------------------
(* What the invariant says. *)

LEMMA CellsOf ==
    ASSUME NEW r \in Regions, NEW c \in Int
    PROVE  c \in Cells(r) <=> Has(r, c)
BY DEF Cells, Has, Regions, RegionEnd

LEMMA AtMostOne ==
    ASSUME NEW S, \A x, y \in S : x = y
    PROVE  Cardinality(S) = IF S = {} THEN 0 ELSE 1
<1>1. CASE S = {}
  BY <1>1, FS_EmptySet
<1>2. CASE S # {}
  <2>1. PICK x \in S : S = {x}
    BY <1>2
  <2> QED BY <1>2, <2>1, FS_Singleton
<1> QED BY <1>1, <1>2

LEMMA InvPartition == Inv => HeapIsPartitioned
<1> SUFFICES ASSUME Inv, exitCode = 0, NEW c \in HeapStart .. (RAM_SIZE_IN_BLOCKS - 1)
             PROVE  Cardinality({i \in DOMAIN freeMemoryRegions :
                                    c \in Cells(freeMemoryRegions[i])})
                    + Cardinality({a \in Held : c \in OwnedCells(a)})
                    + (IF c \in ProgramCells THEN 1 ELSE 0) = 1
  BY DEF HeapIsPartitioned
<1>1. PICK R, own, begin :
         /\ R = freeMemoryRegions /\ own = allocatedMemoryRegions
         /\ begin = beginOfProgramMemory
         /\ Whole(R, own, begin) /\ Parted(R, own, begin)
  BY Before
<1>2. /\ begin \in Nat /\ begin <= RAM_SIZE_IN_BLOCKS - 1
      /\ R \in Seq(Regions) /\ Table(R, HeapStart, begin)
      /\ Holdings(own, HeapStart, begin)
  BY <1>1, WholeFacts
<1>3. c \in Int /\ HeapStart <= c /\ c <= RAM_SIZE_IN_BLOCKS - 1
  BY Parameters
<1> DEFINE F == {i \in DOMAIN R : Has(R[i], c)}
           H == {a \in DOMAIN own : Among(c, a, AtLeastOne(own[a]))}
<1>4. {i \in DOMAIN freeMemoryRegions : c \in Cells(freeMemoryRegions[i])} = F
  <2>1. \A i \in DOMAIN R : c \in Cells(R[i]) <=> Has(R[i], c)
    BY <1>2, <1>3, Entries, CellsOf
  <2> QED BY <1>1, <2>1
<1>5. {a \in Held : c \in OwnedCells(a)} = H
  <2>1. \A a \in DOMAIN own : /\ a \in Nat /\ AtLeastOne(own[a]) \in Nat
                              /\ OwnedCells(a) = a .. (a + AtLeastOne(own[a]) - 1)
    BY <1>1, <1>2 DEF Holdings, OwnedCells
  <2>2. \A a \in DOMAIN own : c \in OwnedCells(a) <=> Among(c, a, AtLeastOne(own[a]))
    BY <1>3, <2>1 DEF Among
  <2>3. Held = DOMAIN own
    BY <1>1 DEF Held
  <2> QED BY <2>2, <2>3
<1>6. c \in ProgramCells <=> begin <= c
  BY <1>1, <1>2, <1>3, Parameters DEF ProgramCells
<1>7. Cardinality(F) = IF F = {} THEN 0 ELSE 1
  <2>1. \A x, y \in F : x = y
    BY <1>2, <1>3, InOneRegion
  <2> QED BY <2>1, AtMostOne
<1>8. Cardinality(H) = IF H = {} THEN 0 ELSE 1
  <2>1. \A x, y \in H : x = y
    BY <1>2, <1>3 DEF Holdings
  <2> QED BY <2>1, AtMostOne
<1>9. (F = {} <=> ~IsFree(R, c)) /\ (H = {} <=> ~Occupied(own, c))
  BY DEF IsFree, Occupied
<1> SUFFICES Cardinality(F) + Cardinality(H) + (IF c \in ProgramCells THEN 1 ELSE 0) = 1
  BY <1>4, <1>5, Zenon
<1> HIDE DEF F, H
<1>10. CASE c < begin
  <2>1. IsFree(R, c) <=> ~Occupied(own, c)
    BY <1>1, <1>3, <1>10 DEF Parted
  <2>2. c \notin ProgramCells
    BY <1>2, <1>3, <1>6, <1>10
  <2>3. \/ Cardinality(F) = 0 /\ Cardinality(H) = 1
        \/ Cardinality(F) = 1 /\ Cardinality(H) = 0
    BY <1>7, <1>8, <1>9, <2>1
  <2> QED BY <2>2, <2>3
<1>11. CASE begin <= c
  <2>1. ~IsFree(R, c)
    <3>1. \A i \in DOMAIN R : RegionEnd(R[i]) \in Nat /\ RegionEnd(R[i]) <= begin
      BY <1>2, Entries, TableFacts
    <3> QED BY <1>2, <1>3, <1>11, <3>1 DEF IsFree, Has
  <2>2. ~Occupied(own, c)
    BY <1>2, <1>3, <1>11 DEF Occupied, Among, Holdings
  <2>3. c \in ProgramCells
    BY <1>6, <1>11
  <2>4. Cardinality(F) = 0 /\ Cardinality(H) = 0
    BY <1>7, <1>8, <1>9, <2>1, <2>2
  <2> QED BY <2>3, <2>4
<1> QED BY <1>2, <1>3, <1>10, <1>11

LEMMA InvJoined == Inv => RegionsAreJoined
<1> SUFFICES ASSUME Inv, NEW i \in 2 .. Len(freeMemoryRegions)
             PROVE  RegionEnd(freeMemoryRegions[i - 1]) < freeMemoryRegions[i].blockAddress
  BY DEF RegionsAreJoined
<1>1. PICK R : R = freeMemoryRegions
  OBVIOUS
<1>2. Table(R, HeapStart, beginOfProgramMemory) /\ R \in Seq(Regions)
  BY <1>1, WholeFacts DEF Inv
<1>3. i - 1 \in DOMAIN R /\ i \in DOMAIN R /\ i - 1 < i
  BY <1>1, <1>2, Entries
<1> QED BY <1>1, <1>2, <1>3, TableFacts

(* Every block of the heap is free, or belongs to one allocation, or to    *)
(* the program area, and to one of them only: freeListAlloc, freeListFree, *)
(* freeListReduce and resizeProgramMemory lose none and give none twice.   *)
THEOREM HeapStaysPartitioned == ASSUME ~TightHeap PROVE Spec => []HeapIsPartitioned
BY InvPartition, AlwaysInv, PTL

(* The table stays sorted and no two of its regions touch, whatever is     *)
(* freed in whatever order (freeListFree, freeListReduce).                 *)
THEOREM NeighboursAreJoined == ASSUME ~TightHeap PROVE Spec => []RegionsAreJoined
BY InvJoined, AlwaysInv, PTL

(* The double-free check never speaks up against a caller that frees what  *)
(* it was given, once (freeListFree, freeListReduce).                      *)
THEOREM DoubleFreeIsNotReported == ASSUME ~TightHeap PROVE Spec => []NoFalseDoubleFree
<1>1. Inv => NoFalseDoubleFree
  BY DEF Inv, NoFalseDoubleFree
<1> QED BY <1>1, AlwaysInv, PTL

-----------------------------------------------------------------------------
(* The account.  S[k] is what is held below block k: an account that can   *)
(* be adjusted without an induction over what is held.                     *)

Weight(own, k) == IF k \in DOMAIN own THEN own[k] ELSE 0

Counts(S, own, mem) ==
    /\ S \in [Nat -> Nat] /\ S[0] = 0
    /\ \A k \in Nat : S[k + 1] = S[k] + Weight(own, k)
    /\ \A j, k \in Nat : j <= k => S[j] <= S[k]
    /\ mem = S[RAM_SIZE_IN_BLOCKS]

SumInv == \E S : Counts(S, allocatedMemoryRegions, c47MemInBlocks)

(* One address changes its weight. *)
LEMMA Recounted ==
    ASSUME NEW S, NEW own, NEW mem, Counts(S, own, mem),
           \A k \in Nat : Weight(own, k) \in Nat,
           NEW a \in Nat, a + 1 <= RAM_SIZE_IN_BLOCKS,
           NEW v \in Nat, v = Weight(own, a), NEW w \in Nat,
           NEW new, w = Weight(new, a), \A k \in Nat \ {a} : Weight(new, k) = Weight(own, k)
    PROVE  \E X : Counts(X, new, mem + w - v)
<1>1. /\ S \in [Nat -> Nat] /\ S[0] = 0
      /\ \A k \in Nat : S[k + 1] = S[k] + Weight(own, k)
      /\ \A j, k \in Nat : j <= k => S[j] <= S[k]
      /\ mem = S[RAM_SIZE_IN_BLOCKS]
  BY DEF Counts
<1>0. \A k \in Nat : S[k] \in Nat
  BY <1>1
<1>2. PICK s \in Nat : s = S[a] /\ S[a + 1] = s + v
  BY <1>0, <1>1
<1>3. \A k \in Nat : k <= a => S[k] \in Nat /\ S[k] <= s
  BY <1>0, <1>1, <1>2
<1>4. \A k \in Nat : a + 1 <= k => S[k] \in Nat /\ s + v <= S[k]
  <2> SUFFICES ASSUME NEW k \in Nat, a + 1 <= k PROVE S[k] \in Nat /\ s + v <= S[k]
    OBVIOUS
  <2>1. a + 1 \in Nat /\ S[a + 1] <= S[k]
    BY <1>1
  <2> QED BY <1>0, <1>2, <2>1
<1>5. PICK X : X = [k \in Nat |-> IF k <= a THEN S[k] ELSE S[k] + w - v]
  OBVIOUS
<1>6. /\ \A k \in Nat : k <= a => X[k] = S[k]
      /\ \A k \in Nat : a + 1 <= k => X[k] = S[k] + w - v
  BY <1>5
<1>7. \A k \in Nat : a + 1 <= k => X[k] \in Nat /\ s + w <= X[k]
  <2> SUFFICES ASSUME NEW k \in Nat, a + 1 <= k PROVE X[k] \in Nat /\ s + w <= X[k]
    OBVIOUS
  <2>1. PICK x \in Nat : x = S[k] /\ s + v <= x
    BY <1>4
  <2>2. X[k] = x + w - v
    BY <1>6, <2>1
  <2>3. x + w - v \in Nat /\ s + w <= x + w - v
    BY <2>1
  <2> QED BY <2>2, <2>3
<1>8. \A k \in Nat : k <= a \/ a + 1 <= k
  OBVIOUS
<1>9. X \in [Nat -> Nat]
  <2>1. \A k \in Nat : X[k] \in Nat
    BY <1>3, <1>6, <1>7, <1>8
  <2>2. X = [k \in Nat |-> X[k]]
    BY <1>5
  <2> QED BY <2>1, <2>2
<1>10. X[0] = 0
  <2>1. 0 \in Nat /\ 0 <= a
    OBVIOUS
  <2>2. X[0] = S[0]
    BY <1>6, <2>1
  <2> QED BY <1>1, <2>2
<1>11. ASSUME NEW k \in Nat PROVE X[k + 1] = X[k] + Weight(new, k)
  <2>1. CASE k + 1 <= a
    <3>1. X[k + 1] = S[k + 1] /\ X[k] = S[k] /\ Weight(new, k) = Weight(own, k)
      BY <1>6, <2>1
    <3> QED BY <1>1, <3>1
  <2>2. CASE k = a
    <3>1. X[k + 1] = s + v + w - v /\ X[k] = s
      BY <1>2, <1>6, <2>2
    <3>2. s + v + w - v = s + w
      OBVIOUS
    <3> QED BY <2>2, <3>1, <3>2
  <2>3. CASE a + 1 <= k
    <3>1. X[k + 1] = S[k + 1] + w - v /\ X[k] = S[k] + w - v
      BY <1>6, <2>3
    <3>2. k # a /\ Weight(new, k) = Weight(own, k)
      BY <2>3
    <3>3. PICK x \in Nat : x = S[k]
      BY <1>0
    <3>4. PICK z \in Nat : z = Weight(own, k)
      OBVIOUS
    <3>5. S[k + 1] = x + z
      BY <1>1, <3>3, <3>4
    <3>6. (x + z) + w - v = (x + w - v) + z
      OBVIOUS
    <3>7. X[k + 1] = (x + z) + w - v /\ X[k] = x + w - v
      BY <3>1, <3>3, <3>5
    <3> QED BY <3>2, <3>4, <3>6, <3>7
  <2> QED BY <2>1, <2>2, <2>3
<1>12. ASSUME NEW j \in Nat, NEW k \in Nat, j <= k PROVE X[j] <= X[k]
  <2>1. CASE k <= a
    <3>1. j <= a
      BY <1>12, <2>1
    <3>2. S[j] <= S[k]
      BY <1>1, <1>12
    <3> QED BY <1>6, <2>1, <3>1, <3>2
  <2>2. CASE j <= a /\ a + 1 <= k
    <3>1. X[j] = S[j] /\ S[j] \in Nat /\ S[j] <= s
      BY <1>3, <1>6, <2>2
    <3>2. X[k] \in Nat /\ s + w <= X[k]
      BY <1>7, <2>2
    <3> QED BY <3>1, <3>2
  <2>3. CASE a + 1 <= j
    <3>1. PICK x \in Nat, y \in Nat : x = S[j] /\ y = S[k] /\ x <= y
      BY <1>1, <1>12
    <3>2. X[j] = x + w - v /\ X[k] = y + w - v
      BY <1>6, <1>12, <2>3, <3>1
    <3>3. x + w - v <= y + w - v
      BY <3>1
    <3> QED BY <3>2, <3>3
  <2> QED BY <1>8, <1>12, <2>1, <2>2, <2>3
<1>13. mem + w - v = X[RAM_SIZE_IN_BLOCKS]
  BY <1>1, <1>6, Parameters
<1>14. Counts(X, new, mem + w - v)
  BY <1>9, <1>10, <1>11, <1>12, <1>13 DEF Counts
<1> QED BY <1>14

(* A new allocation starts where none does. *)
LEMMA NewAddress ==
    ASSUME Inv, exitCode = 0, NEW n \in Nat,
           NEW i, i = BestFit(freeMemoryRegions, AtLeastOne(n)), i # 0,
           NEW a, a = freeMemoryRegions[i].blockAddress
    PROVE  a \in Nat /\ a + 1 <= RAM_SIZE_IN_BLOCKS /\ a \notin Held
<1>1. PICK R, own, begin :
         /\ R = freeMemoryRegions /\ own = allocatedMemoryRegions
         /\ begin = beginOfProgramMemory
         /\ Whole(R, own, begin) /\ Parted(R, own, begin)
  BY Before
<1>2. PICK size \in Nat \ {0} : size = AtLeastOne(n)
  BY AtLeastOneIs
<1>3. PICK T : T = Carve(R, i, size)
  OBVIOUS
<1>4. i = BestFit(R, size) /\ BestFit(R, size) # 0 /\ a = R[i].blockAddress
  BY <1>1, <1>2
<1>5. /\ a \in Nat /\ a + size <= begin
      /\ \A c \in Int : Among(c, a, size) => IsFree(R, c) /\ ~Occupied(own, c)
  BY <1>1, <1>3, <1>4, Served
<1>6. begin \in Nat /\ begin <= RAM_SIZE_IN_BLOCKS - 1 /\ Holdings(own, HeapStart, begin)
  BY <1>1, WholeFacts
<1>7. a + 1 <= RAM_SIZE_IN_BLOCKS
  BY <1>5, <1>6, Parameters
<1>8. a \notin DOMAIN own
  <2>1. Among(a, a, size) /\ (a \in DOMAIN own => Among(a, a, AtLeastOne(own[a])))
    BY <1>5, <1>6 DEF Among, Holdings
  <2> QED BY <1>5, <2>1 DEF Occupied
<1> QED BY <1>1, <1>5, <1>7, <1>8 DEF Held

LEMMA HeldFacts ==
    ASSUME Inv
    PROVE  /\ \A a \in Held : /\ a \in Nat /\ a + 1 <= RAM_SIZE_IN_BLOCKS
                              /\ HeapStart <= a
                              /\ allocatedMemoryRegions[a] \in Nat
                              /\ allocatedMemoryRegions[a] <= RAM_SIZE_IN_BLOCKS
           /\ \A k \in Nat : Weight(allocatedMemoryRegions, k) \in Nat
<1>1. PICK own, begin : /\ own = allocatedMemoryRegions
                        /\ begin = beginOfProgramMemory
                        /\ Whole(freeMemoryRegions, own, begin)
  BY DEF Inv
<1>2. begin \in Nat /\ begin <= RAM_SIZE_IN_BLOCKS - 1 /\ Holdings(own, HeapStart, begin)
  BY <1>1, WholeFacts
<1>3. \A a \in DOMAIN own : /\ a \in Nat /\ HeapStart <= a
                            /\ own[a] \in Nat /\ own[a] <= RAM_SIZE_IN_BLOCKS
  BY <1>2 DEF Holdings
<1>4. ASSUME NEW a \in DOMAIN own PROVE a + 1 <= RAM_SIZE_IN_BLOCKS
  <2>1. PICK m \in Nat \ {0} : m = AtLeastOne(own[a]) /\ a \in Nat /\ a + m <= begin
    BY <1>2 DEF Holdings
  <2> QED BY <1>2, <2>1, Parameters
<1>5. \A k \in Nat : Weight(own, k) \in Nat
  BY <1>3 DEF Weight
<1> QED BY <1>1, <1>3, <1>4, <1>5 DEF Held

LEMMA Account ==
    ASSUME Inv, SumInv,
           NEW a \in Nat, a + 1 <= RAM_SIZE_IN_BLOCKS,
           NEW v \in Nat, v = Weight(allocatedMemoryRegions, a), NEW w \in Nat,
           NEW new, w = Weight(new, a),
           \A k \in Nat \ {a} : Weight(new, k) = Weight(allocatedMemoryRegions, k)
    PROVE  /\ c47MemInBlocks \in Nat
           /\ \E X : Counts(X, new, c47MemInBlocks + w - v)
<1>1. PICK own, mem : own = allocatedMemoryRegions /\ mem = c47MemInBlocks
  OBVIOUS
<1>2. PICK S : Counts(S, own, mem)
  BY <1>1 DEF SumInv
<1>3. \A k \in Nat : Weight(own, k) \in Nat
  BY <1>1, HeldFacts
<1>4. \E X : Counts(X, new, mem + w - v)
  BY <1>1, <1>2, <1>3, Recounted
<1>5. mem \in Nat
  BY <1>2, Parameters DEF Counts
<1> QED BY <1>1, <1>4, <1>5

LEMMA NextSum ==
    ASSUME Inv, SumInv, [Next]_vars PROVE SumInv'
<1>1. CASE UNCHANGED <<allocatedMemoryRegions, c47MemInBlocks>>
  BY <1>1 DEF SumInv
<1>2. ASSUME NEW n \in RequestSizes, AllocC47Blocks(n) PROVE SumInv'
  <2>1. exitCode = 0 /\ n \in Nat
    BY <1>2, Parameters DEF AllocC47Blocks
  <2>2. PICK i, a, new : /\ i = BestFit(freeMemoryRegions, AtLeastOne(n))
                         /\ a = freeMemoryRegions[i].blockAddress
                         /\ new = With(allocatedMemoryRegions, a, n)
    OBVIOUS
  <2>3. i # 0 /\ allocatedMemoryRegions' = new /\ c47MemInBlocks' = c47MemInBlocks + n
    BY <1>2, <2>2 DEF AllocC47Blocks
  <2>4. a \in Nat /\ a + 1 <= RAM_SIZE_IN_BLOCKS /\ a \notin DOMAIN allocatedMemoryRegions
    BY <2>1, <2>2, <2>3, NewAddress DEF Held
  <2>5. /\ Weight(allocatedMemoryRegions, a) = 0 /\ Weight(new, a) = n
        /\ \A k \in Nat \ {a} : Weight(new, k) = Weight(allocatedMemoryRegions, k)
    BY <2>2, <2>4 DEF Weight, With
  <2>6. c47MemInBlocks \in Nat /\ \E X : Counts(X, new, c47MemInBlocks + n - 0)
    BY <2>1, <2>4, <2>5, Account
  <2>7. c47MemInBlocks' = c47MemInBlocks + n - 0
    BY <2>1, <2>3, <2>6
  <2> QED BY <2>3, <2>6, <2>7 DEF SumInv
<1>3. ASSUME NEW a \in Held, FreeC47Blocks(a) PROVE SumInv'
  <2>1. PICK v, new : v = allocatedMemoryRegions[a] /\ new = Without(a)
    OBVIOUS
  <2>2. allocatedMemoryRegions' = new /\ c47MemInBlocks' = c47MemInBlocks - v
    BY <1>3, <2>1 DEF FreeC47Blocks
  <2>3. a \in Nat /\ a + 1 <= RAM_SIZE_IN_BLOCKS /\ v \in Nat
    BY <2>1, HeldFacts
  <2>4. /\ Weight(allocatedMemoryRegions, a) = v /\ Weight(new, a) = 0
        /\ \A k \in Nat \ {a} : Weight(new, k) = Weight(allocatedMemoryRegions, k)
    BY <2>1 DEF Weight, Without, Held
  <2>5. c47MemInBlocks \in Nat /\ \E X : Counts(X, new, c47MemInBlocks + 0 - v)
    BY <2>3, <2>4, Account
  <2>6. c47MemInBlocks' = c47MemInBlocks + 0 - v
    BY <2>2, <2>3, <2>5
  <2> QED BY <2>2, <2>5, <2>6 DEF SumInv
<1>4. ASSUME NEW a \in Held, NEW n \in RequestSizes, ReduceC47Blocks(a, n) PROVE SumInv'
  <2>1. PICK v, new : /\ v = allocatedMemoryRegions[a]
                      /\ new = [allocatedMemoryRegions EXCEPT ![a] = n]
    OBVIOUS
  <2>2. allocatedMemoryRegions' = new /\ c47MemInBlocks' = c47MemInBlocks + n - v
    BY <1>4, <2>1 DEF ReduceC47Blocks
  <2>3. a \in Nat /\ a + 1 <= RAM_SIZE_IN_BLOCKS /\ v \in Nat /\ n \in Nat
    BY <2>1, HeldFacts, Parameters
  <2>4. /\ Weight(allocatedMemoryRegions, a) = v /\ Weight(new, a) = n
        /\ \A k \in Nat \ {a} : Weight(new, k) = Weight(allocatedMemoryRegions, k)
    BY <2>1 DEF Weight, Held
  <2>5. \E X : Counts(X, new, c47MemInBlocks + n - v)
    BY <2>3, <2>4, Account
  <2> QED BY <2>2, <2>5 DEF SumInv
<1>5. ASSUME NEW a \in Held, NEW n \in RequestSizes, ReallocC47Blocks(a, n) PROVE SumInv'
  <2>1. exitCode = 0 /\ n \in Nat
    BY <1>5, Parameters DEF ReallocC47Blocks
  <2>2. PICK i, b, v, less, new :
           /\ i = BestFit(freeMemoryRegions, AtLeastOne(n))
           /\ b = freeMemoryRegions[i].blockAddress
           /\ v = allocatedMemoryRegions[a] /\ less = Without(a) /\ new = With(less, b, n)
    OBVIOUS
  <2>3. i # 0 /\ allocatedMemoryRegions' = new /\ c47MemInBlocks' = c47MemInBlocks + n - v
    BY <1>5, <2>2 DEF ReallocC47Blocks
  <2>4. b \in Nat /\ b + 1 <= RAM_SIZE_IN_BLOCKS /\ b \notin DOMAIN allocatedMemoryRegions
    BY <2>1, <2>2, <2>3, NewAddress DEF Held
  <2>5. a \in Nat /\ a + 1 <= RAM_SIZE_IN_BLOCKS /\ v \in Nat
    BY <2>2, HeldFacts
  <2>6. /\ Weight(allocatedMemoryRegions, a) = v /\ Weight(less, a) = 0
        /\ \A k \in Nat \ {a} : Weight(less, k) = Weight(allocatedMemoryRegions, k)
    BY <2>2 DEF Weight, Without, Held
  <2>7. c47MemInBlocks \in Nat /\ \E X : Counts(X, less, c47MemInBlocks + 0 - v)
    BY <2>5, <2>6, Account
  <2>8. PICK m : m = c47MemInBlocks + 0 - v
    OBVIOUS
  <2>9. PICK X : Counts(X, less, m)
    BY <2>7, <2>8
  <2>10. \A k \in Nat : Weight(less, k) \in Nat
    BY <2>5, <2>6, HeldFacts
  <2>11. /\ Weight(less, b) = 0 /\ Weight(new, b) = n
         /\ \A k \in Nat \ {b} : Weight(new, k) = Weight(less, k)
    BY <2>2, <2>4 DEF Weight, With, Without, Held
  <2>12. \E Y : Counts(Y, new, m + n - 0)
    BY <2>1, <2>4, <2>9, <2>10, <2>11, Recounted
  <2>13. c47MemInBlocks' = m + n - 0
    BY <2>1, <2>3, <2>5, <2>7, <2>8
  <2> QED BY <2>3, <2>12, <2>13 DEF SumInv
<1>6. CASE \/ \E n \in RequestSizes : AllocFails(n)
           \/ \E n \in ProgramSizes : ResizeProgramMemory(n)
           \/ Exited \/ UNCHANGED vars
  BY <1>1, <1>6 DEF AllocFails, ResizeProgramMemory, Exited, vars
<1> QED BY <1>2, <1>3, <1>4, <1>5, <1>6 DEF Next

LEMMA InitSum == Init => SumInv
<1> SUFFICES ASSUME Init PROVE SumInv
  OBVIOUS
<1>1. PICK S : S = [k \in Nat |-> 0]
  OBVIOUS
<1>2. \A k \in Nat : Weight(<<>>, k) = 0
  BY DEF Weight
<1>3. Counts(S, <<>>, 0)
  BY <1>1, <1>2, Parameters DEF Counts
<1> QED BY <1>3 DEF Init, SumInv

LEMMA InvTypeOK == Inv /\ SumInv => TypeOK
<1> SUFFICES ASSUME Inv, SumInv PROVE TypeOK
  OBVIOUS
<1>1. PICK R, begin : /\ R = freeMemoryRegions /\ begin = beginOfProgramMemory
                      /\ Whole(R, allocatedMemoryRegions, begin)
  BY DEF Inv
<1>2. /\ begin \in Nat /\ HeapStart \in Nat
      /\ HeapStart <= begin /\ begin <= RAM_SIZE_IN_BLOCKS - 1
      /\ Table(R, HeapStart, begin) /\ Len(R) <= MAX_FREE_REGIONS /\ R \in Seq(Regions)
  BY <1>1, WholeFacts
<1> DEFINE Small == [blockAddress : 0..RAM_SIZE_IN_BLOCKS, sizeInBlocks : 0..RAM_SIZE_IN_BLOCKS]
<1>3. ASSUME NEW i \in DOMAIN R PROVE R[i] \in Small
  <2>1. PICK x \in Nat, y \in Nat :
            x = R[i].blockAddress /\ y = R[i].sizeInBlocks /\ RegionEnd(R[i]) = x + y
    BY <1>2, Entries
  <2>2. x + y <= begin
    BY <1>2, <2>1, TableFacts
  <2>3. x \in 0..RAM_SIZE_IN_BLOCKS /\ y \in 0..RAM_SIZE_IN_BLOCKS
    BY <1>2, <2>2, Parameters
  <2>4. R[i] \in Regions
    BY <1>2, Entries
  <2> QED BY <2>1, <2>3, <2>4 DEF Regions
<1>4. R \in Seq(Small)
  <2> HIDE DEF Small
  <2> QED BY <1>2, <1>3
<1>5. Held \subseteq HeapStart..(RAM_SIZE_IN_BLOCKS - 1)
  BY HeldFacts, Parameters
<1>6. \A a \in Held : allocatedMemoryRegions[a] \in 0..RAM_SIZE_IN_BLOCKS
  BY HeldFacts, Parameters
<1>7. c47MemInBlocks \in Nat
  BY Parameters DEF SumInv, Counts
<1>8. begin \in HeapStart..(RAM_SIZE_IN_BLOCKS - 1)
  BY <1>2, Parameters
<1>9. answeredNull \in BOOLEAN /\ overlapReported \in BOOLEAN /\ exitCode \in {0, -2, -3}
  BY DEF Inv
<1> QED BY <1>1, <1>2, <1>4, <1>5, <1>6, <1>7, <1>8, <1>9 DEF TypeOK

(* Addresses and sizes stay within the pool, the table within its length,  *)
(* the account of memory.c does not go below zero.                         *)
THEOREM TypeCorrect == ASSUME ~TightHeap PROVE Spec => []TypeOK
<1>1. Inv /\ SumInv /\ [Next]_vars => SumInv'
  BY NextSum
<1> QED BY <1>1, InitSum, AlwaysInv, InvTypeOK, PTL DEF Spec

-----------------------------------------------------------------------------
(* The sum.  AccountingIsExact adds up what is held in an order of its     *)
(* own, the account in the order of the addresses.                         *)

(* What is held in s only. *)
Part(own, s) == [a \in s |-> own[a]]

(* The account of what is held in s. *)
Total(own, s) == CHOOSE v : \E S : Counts(S, Part(own, s), v)

(* Addresses within the pool, with their sizes. *)
Sizes(own) ==
    \A a \in DOMAIN own : a \in Nat /\ a + 1 <= RAM_SIZE_IN_BLOCKS /\ own[a] \in Nat

LEMMA PartWeights ==
    ASSUME NEW own, Sizes(own), NEW s \in SUBSET DOMAIN own
    PROVE  /\ \A k \in Nat : Weight(Part(own, s), k) \in Nat
           /\ \A k \in s : Weight(Part(own, s), k) = own[k]
           /\ \A k \in Nat \ s : Weight(Part(own, s), k) = 0
BY DEF Sizes, Part, Weight

LEMMA OneAccount ==
    ASSUME NEW own, \A k \in Nat : Weight(own, k) \in Nat,
           NEW S, NEW v, Counts(S, own, v), NEW X, NEW w, Counts(X, own, w)
    PROVE  v = w
<1> DEFINE T == {k \in Nat : S[k] # X[k]}
<1>1. /\ S[0] = 0 /\ X[0] = 0 /\ v = S[RAM_SIZE_IN_BLOCKS] /\ w = X[RAM_SIZE_IN_BLOCKS]
      /\ \A k \in Nat : S[k + 1] = S[k] + Weight(own, k) /\ X[k + 1] = X[k] + Weight(own, k)
  BY DEF Counts
<1>2. T = {}
  <2> SUFFICES ASSUME T # {} PROVE FALSE
    OBVIOUS
  <2>1. PICK n \in T : \A k \in T : n <= k
    BY MinOf
  <2>2. n \in Nat /\ S[n] # X[n] /\ n # 0
    BY <1>1, <2>1
  <2>3. PICK m \in Nat : m + 1 = n
    <3>1. n - 1 \in Nat /\ (n - 1) + 1 = n
      BY <2>2
    <3> QED BY <3>1
  <2>4. S[m] = X[m]
    <3>1. m \notin T
      BY <2>1, <2>3
    <3> QED BY <3>1
  <2>5. S[m + 1] = X[m + 1]
    BY <1>1, <2>4
  <2> QED BY <2>2, <2>3, <2>5
<1>3. RAM_SIZE_IN_BLOCKS \in Nat
  BY Parameters
<1> QED BY <1>1, <1>2, <1>3

LEMMA EmptyAccount ==
    ASSUME NEW own
    PROVE  \E S : Counts(S, Part(own, {}), 0)
<1>1. PICK S : S = [k \in Nat |-> 0]
  OBVIOUS
<1>2. \A k \in Nat : Weight(Part(own, {}), k) = 0
  BY DEF Weight, Part
<1>3. Counts(S, Part(own, {}), 0)
  BY <1>1, <1>2, Parameters DEF Counts
<1> QED BY <1>3

(* One more allocation adds its size. *)
LEMMA OneMore ==
    ASSUME NEW own, Sizes(own), NEW s \in SUBSET DOMAIN own, NEW x \in s,
           NEW S, NEW v, Counts(S, Part(own, s \ {x}), v)
    PROVE  \E X : Counts(X, Part(own, s), v + own[x])
<1>1. s \ {x} \in SUBSET DOMAIN own
  OBVIOUS
<1>2. /\ \A k \in Nat : Weight(Part(own, s \ {x}), k) \in Nat
      /\ Weight(Part(own, s \ {x}), x) = 0 /\ Weight(Part(own, s), x) = own[x]
      /\ x \in Nat /\ x + 1 <= RAM_SIZE_IN_BLOCKS /\ own[x] \in Nat
  <2>1. x \in Nat /\ x + 1 <= RAM_SIZE_IN_BLOCKS /\ own[x] \in Nat
    BY DEF Sizes
  <2> QED BY <1>1, <2>1, PartWeights
<1>3. ASSUME NEW k \in Nat \ {x}
      PROVE  Weight(Part(own, s), k) = Weight(Part(own, s \ {x}), k)
  <2>1. CASE k \in s
    <3>1. k \in s \ {x}
      BY <2>1
    <3> QED BY <1>1, <2>1, <3>1, PartWeights
  <2>2. CASE k \notin s
    <3>1. k \in Nat \ s /\ k \in Nat \ (s \ {x})
      BY <2>2
    <3> QED BY <1>1, <3>1, PartWeights
  <2> QED BY <2>1, <2>2
<1>4. PICK old, new : old = Part(own, s \ {x}) /\ new = Part(own, s)
  OBVIOUS
<1>5. PICK w \in Nat : w = own[x]
  BY <1>2
<1>6. \E X : Counts(X, new, v + w - 0)
  <2>1. Counts(S, old, v) /\ \A k \in Nat : Weight(old, k) \in Nat
    BY <1>2, <1>4
  <2>2. 0 = Weight(old, x) /\ w = Weight(new, x)
    BY <1>2, <1>4, <1>5
  <2>3. \A k \in Nat \ {x} : Weight(new, k) = Weight(old, k)
    BY <1>3, <1>4
  <2>4. 0 \in Nat
    OBVIOUS
  <2> QED BY <1>2, <2>1, <2>2, <2>3, <2>4, Recounted
<1>7. v \in Nat
  BY Parameters DEF Counts
<1>8. v + w - 0 = v + own[x]
  BY <1>5, <1>7
<1> QED BY <1>4, <1>6, <1>8

(* Every part has an account. *)
LEMMA EveryPart ==
    ASSUME NEW own, Sizes(own), NEW s \in SUBSET DOMAIN own, IsFiniteSet(DOMAIN own)
    PROVE  \E S, v : Counts(S, Part(own, s), v)
<1> DEFINE Bad == {t \in SUBSET DOMAIN own : ~\E S, v : Counts(S, Part(own, t), v)}
           T == {Cardinality(t) : t \in Bad}
<1>1. \A t \in SUBSET DOMAIN own : IsFiniteSet(t) /\ Cardinality(t) \in Nat
  BY FS_Subset, FS_CardinalityType
<1> SUFFICES ASSUME Bad # {} PROVE FALSE
  OBVIOUS
<1>2. T \subseteq Nat /\ T # {}
  BY <1>1
<1>3. PICK n \in T : \A k \in T : n <= k
  BY <1>2, MinOf
<1>4. PICK t \in Bad : n = Cardinality(t)
  BY <1>3
<1>5. t # {}
  BY <1>4, EmptyAccount
<1>6. PICK x \in t : TRUE
  BY <1>5
<1>7. t \ {x} \in SUBSET DOMAIN own /\ Cardinality(t \ {x}) = n - 1 /\ n \in Nat
  BY <1>1, <1>4, <1>6, FS_RemoveElement
<1>8. t \ {x} \notin Bad
  <2>1. ~(n <= n - 1)
    BY <1>7
  <2> QED BY <1>3, <1>7, <2>1
<1>9. PICK S, v : Counts(S, Part(own, t \ {x}), v)
  BY <1>7, <1>8
<1>10. \E X : Counts(X, Part(own, t), v + own[x])
  BY <1>4, <1>6, <1>9, OneMore
<1> QED BY <1>4, <1>10

LEMMA Totals ==
    ASSUME NEW own, Sizes(own), IsFiniteSet(DOMAIN own)
    PROVE  /\ Total(own, {}) = 0
           /\ \A s \in SUBSET DOMAIN own : \A S, v : Counts(S, Part(own, s), v) => Total(own, s) = v
           /\ \A s \in SUBSET DOMAIN own : \A x \in s :
                 Total(own, s) = own[x] + Total(own, s \ {x})
<1>1. ASSUME NEW s \in SUBSET DOMAIN own, NEW S, NEW v, Counts(S, Part(own, s), v)
      PROVE  Total(own, s) = v /\ v \in Nat
  <2>1. \E X : Counts(X, Part(own, s), Total(own, s))
    BY <1>1 DEF Total
  <2>2. \A k \in Nat : Weight(Part(own, s), k) \in Nat
    BY PartWeights
  <2>3. v \in Nat
    BY <1>1, Parameters DEF Counts
  <2> QED BY <1>1, <2>1, <2>2, <2>3, OneAccount
<1>2. Total(own, {}) = 0
  BY <1>1, EmptyAccount
<1>3. ASSUME NEW s \in SUBSET DOMAIN own, NEW x \in s
      PROVE  Total(own, s) = own[x] + Total(own, s \ {x})
  <2>1. s \ {x} \in SUBSET DOMAIN own
    OBVIOUS
  <2>2. PICK S, v : Counts(S, Part(own, s \ {x}), v)
    BY <2>1, EveryPart
  <2>3. Total(own, s \ {x}) = v /\ v \in Nat
    BY <1>1, <2>1, <2>2
  <2>4. PICK X : Counts(X, Part(own, s), v + own[x])
    BY <2>2, OneMore
  <2>5. Total(own, s) = v + own[x]
    BY <1>1, <2>4
  <2>6. own[x] \in Nat
    BY DEF Sizes
  <2> QED BY <2>3, <2>5, <2>6
<1> QED BY <1>1, <1>2, <1>3

(* The fold, whatever order it picks. *)
LEMMA FoldIsTotal ==
    ASSUME NEW own, Sizes(own), IsFiniteSet(DOMAIN own)
    PROVE  MapThenSumSet(LAMBDA a : own[a], DOMAIN own) = Total(own, DOMAIN own)
<1> DEFINE pick(s) == CHOOSE x \in s : TRUE
           Iter(iter) == iter = [s \in SUBSET DOMAIN own |->
                            IF s = {} THEN 0 ELSE own[pick(s)] + iter[s \ {pick(s)}]]
           it == CHOOSE iter : Iter(iter)
<1>1. MapThenSumSet(LAMBDA a : own[a], DOMAIN own) = it[DOMAIN own]
  BY Zenon DEF MapThenSumSet, MapThenFoldSet
<1>2. \A s : s # {} => pick(s) \in s
  OBVIOUS
<1> HIDE DEF pick
<1>3. \A s \in SUBSET DOMAIN own : s # {} => s \ {pick(s)} \in SUBSET DOMAIN own
  OBVIOUS
<1>4. \E iter : Iter(iter)
  <2> DEFINE f == [s \in SUBSET DOMAIN own |-> Total(own, s)]
  <2>1. \A s \in SUBSET DOMAIN own :
           f[s] = IF s = {} THEN 0 ELSE own[pick(s)] + f[s \ {pick(s)}]
    <3>1. TAKE s \in SUBSET DOMAIN own
    <3>2. CASE s = {}
      BY <3>2, Totals
    <3>3. CASE s # {}
      <4>1. pick(s) \in s /\ s \ {pick(s)} \in SUBSET DOMAIN own
        BY <1>2, <1>3, <3>3
      <4>2. Total(own, s) = own[pick(s)] + Total(own, s \ {pick(s)})
        BY <4>1, Totals
      <4> QED BY <3>3, <4>1, <4>2
    <3> QED BY <3>2, <3>3
  <2>2. f = [s \in SUBSET DOMAIN own |-> f[s]]
    OBVIOUS
  <2> HIDE DEF f
  <2>3. Iter(f)
    BY <2>1, <2>2
  <2> QED BY <2>3
<1>5. Iter(it)
  BY <1>4
<1> HIDE DEF it
<1>6. \A s \in SUBSET DOMAIN own :
         it[s] = IF s = {} THEN 0 ELSE own[pick(s)] + it[s \ {pick(s)}]
  BY <1>5
<1> DEFINE Bad == {t \in SUBSET DOMAIN own : it[t] # Total(own, t)}
           T == {Cardinality(t) : t \in Bad}
<1>7. \A t \in SUBSET DOMAIN own : IsFiniteSet(t) /\ Cardinality(t) \in Nat
  BY FS_Subset, FS_CardinalityType
<1>8. Bad = {}
  <2> SUFFICES ASSUME Bad # {} PROVE FALSE
    OBVIOUS
  <2>1. T \subseteq Nat /\ T # {}
    BY <1>7
  <2>2. PICK n \in T : \A k \in T : n <= k
    BY <2>1, MinOf
  <2>3. PICK t \in Bad : n = Cardinality(t)
    BY <2>2
  <2>4. t # {}
    BY <1>6, <2>3, Totals
  <2>5. PICK x \in t : x = pick(t)
    BY <1>2, <2>4
  <2>6. t \ {x} \in SUBSET DOMAIN own /\ Cardinality(t \ {x}) = n - 1 /\ n \in Nat
    BY <1>7, <2>3, <2>5, FS_RemoveElement
  <2>7. t \ {x} \notin Bad
    <3>1. ~(n <= n - 1)
      BY <2>6
    <3> QED BY <2>2, <2>6, <3>1
  <2>8. it[t \ {x}] = Total(own, t \ {x})
    BY <2>6, <2>7
  <2>9. it[t] = own[x] + it[t \ {x}]
    BY <1>6, <2>3, <2>4, <2>5
  <2>10. Total(own, t) = own[x] + Total(own, t \ {x})
    BY <2>3, <2>5, Totals
  <2> QED BY <2>3, <2>8, <2>9, <2>10
<1>9. it[DOMAIN own] = Total(own, DOMAIN own)
  <2>1. DOMAIN own \in SUBSET DOMAIN own
    OBVIOUS
  <2> QED BY <1>8, <2>1
<1> QED BY <1>1, <1>9 DEF it

LEMMA SumIsExact == Inv /\ SumInv => AccountingIsExact
<1> SUFFICES ASSUME Inv, SumInv PROVE AccountingIsExact
  OBVIOUS
<1> DEFINE own == allocatedMemoryRegions
<1>1. Sizes(own)
  BY HeldFacts, Parameters DEF Sizes, Held
<1>2. IsFiniteSet(DOMAIN own)
  <2>1. HeapStart \in Int /\ RAM_SIZE_IN_BLOCKS - 1 \in Int
    BY Parameters
  <2>2. IsFiniteSet(HeapStart .. (RAM_SIZE_IN_BLOCKS - 1))
    BY <2>1, FS_Interval
  <2>3. DOMAIN own \in SUBSET (HeapStart .. (RAM_SIZE_IN_BLOCKS - 1))
    BY HeldFacts, Parameters DEF Held
  <2> QED BY <2>2, <2>3, FS_Subset
<1>3. PICK S : Counts(S, own, c47MemInBlocks)
  BY DEF SumInv
<1>4. \A k \in Nat : Weight(Part(own, DOMAIN own), k) = Weight(own, k)
  BY DEF Part, Weight
<1>5. Counts(S, Part(own, DOMAIN own), c47MemInBlocks)
  BY <1>3, <1>4 DEF Counts
<1>6. Total(own, DOMAIN own) = c47MemInBlocks
  <2>1. DOMAIN own \in SUBSET DOMAIN own
    OBVIOUS
  <2> QED BY <1>1, <1>2, <1>5, <2>1, Totals
<1>7. MapThenSumSet(LAMBDA a : own[a], DOMAIN own) = c47MemInBlocks
  BY <1>1, <1>2, <1>6, FoldIsTotal
<1> QED BY <1>7 DEF AccountingIsExact, Held

(* c47MemInBlocks, kept by the wrappers of memory.c from the sizes their   *)
(* callers pass, is exactly the sum of the sizes the callers hold, through *)
(* every allocation, shrinking, move and release.                          *)
THEOREM AccountIsExact == ASSUME ~TightHeap PROVE Spec => []AccountingIsExact
<1>1. Inv /\ SumInv /\ [Next]_vars => SumInv'
  BY NextSum
<1> QED BY <1>1, InitSum, AlwaysInv, SumIsExact, PTL DEF Spec

-----------------------------------------------------------------------------
(* The pool. *)

(* A run of free blocks lies in one region. *)
LEMMA RunInRegion ==
    ASSUME NEW R, NEW from \in Int, NEW to \in Int, Table(R, from, to),
           NEW a \in Nat, NEW n \in Nat \ {0},
           \A c \in Int : Among(c, a, n) => IsFree(R, c)
    PROVE  \E i \in DOMAIN R : R[i].sizeInBlocks >= n
<1>1. R \in Seq(Regions)
  BY TableFacts
<1>2. Among(a, a, n)
  BY DEF Among
<1>3. PICK i \in DOMAIN R : Has(R[i], a)
  BY <1>2 DEF IsFree
<1>4. PICK x \in Nat, y \in Nat :
         x = R[i].blockAddress /\ y = R[i].sizeInBlocks /\ RegionEnd(R[i]) = x + y
  BY <1>1, Entries
<1>5. x <= a /\ a < x + y
  BY <1>3, <1>4 DEF Has
<1>6. a + n <= x + y
  <2> SUFFICES ASSUME x + y < a + n PROVE FALSE
    BY <1>4
  <2>1. PICK j \in DOMAIN R : Has(R[j], x + y)
    BY <1>4, <1>5 DEF Among, IsFree
  <2>2. PICK u \in Nat, v \in Nat :
           u = R[j].blockAddress /\ v = R[j].sizeInBlocks /\ RegionEnd(R[j]) = u + v
    BY <1>1, Entries
  <2>3. u <= x + y /\ x + y < u + v
    BY <2>1, <2>2 DEF Has
  <2>4. ~(i < j)
    <3>1. i < j => RegionEnd(R[i]) < R[j].blockAddress
      BY TableFacts
    <3> QED BY <1>4, <2>2, <2>3, <3>1
  <2>5. ~(j < i)
    BY <1>4, <1>5, <2>2, <2>3, Increasing
  <2>6. i # j
    BY <1>4, <2>2, <2>3
  <2> QED BY <1>1, <2>4, <2>5, <2>6, Entries
<1>7. y >= n
  BY <1>5, <1>6
<1> QED BY <1>4, <1>7

LEMMA FitsIs ==
    ASSUME NEW R, NEW own, NEW begin, Whole(R, own, begin),
           own = allocatedMemoryRegions, begin = beginOfProgramMemory,
           NEW a \in Nat, NEW n \in Nat
    PROVE  Pool!Fits(a, n) <=>
              /\ HeapStart <= a /\ a + AtLeastOne(n) <= begin
              /\ \A c \in Int : Among(c, a, AtLeastOne(n)) => ~Occupied(own, c)
<1>1. PICK size \in Nat \ {0} : size = AtLeastOne(n)
  BY AtLeastOneIs
<1>2. /\ begin \in Nat /\ HeapStart \in Nat
      /\ \A b \in DOMAIN own : b \in Nat /\ AtLeastOne(own[b]) \in Nat
  BY WholeFacts DEF Holdings
<1>3. Pool!Extent(a, n) = a .. (a + size - 1)
  BY <1>1 DEF Pool!Extent, AtLeastOne
<1>4. \A c \in Int : c \in Pool!Taken <=> Occupied(own, c)
  <2>1. \A b \in DOMAIN own : Pool!Extent(b, own[b]) = b .. (b + AtLeastOne(own[b]) - 1)
    BY DEF Pool!Extent, AtLeastOne
  <2>2. \A b \in DOMAIN own : \A c \in Int :
            c \in Pool!Extent(b, own[b]) <=> Among(c, b, AtLeastOne(own[b]))
    BY <1>2, <2>1 DEF Among
  <2>3. Pool!Taken = UNION {Pool!Extent(b, own[b]) : b \in DOMAIN own}
    BY DEF Pool!Taken
  <2> QED BY <2>2, <2>3 DEF Occupied
<1>5. Pool!Extent(a, n) \subseteq HeapStart .. (begin - 1)
         <=> HeapStart <= a /\ a + size <= begin
  <2>1. a \in a .. (a + size - 1) /\ a + size - 1 \in a .. (a + size - 1)
    BY <1>1
  <2> QED BY <1>1, <1>2, <1>3, <2>1
<1>6. Pool!Extent(a, n) \cap Pool!Taken = {}
         <=> \A c \in Int : Among(c, a, size) => ~Occupied(own, c)
  <2>1. \A c \in Int : c \in Pool!Extent(a, n) <=> Among(c, a, size)
    BY <1>1, <1>3 DEF Among
  <2>2. \A c \in Pool!Extent(a, n) : c \in Int
    BY <1>1, <1>3
  <2> QED BY <1>4, <2>1, <2>2
<1> QED BY <1>1, <1>5, <1>6 DEF Pool!Fits

LEMMA AllocGrants ==
    ASSUME Inv, NEW n \in RequestSizes, AllocC47Blocks(n) PROVE Pool!PoolNext
<1>1. exitCode = 0 /\ exitCode' = 0
  BY DEF AllocC47Blocks
<1>2. PICK R, own, begin :
         /\ R = freeMemoryRegions /\ own = allocatedMemoryRegions
         /\ begin = beginOfProgramMemory
         /\ Whole(R, own, begin) /\ Parted(R, own, begin)
  BY <1>1, Before
<1>3. n \in Nat
  BY Parameters
<1>4. PICK size \in Nat \ {0} : size = AtLeastOne(n)
  BY <1>3, AtLeastOneIs
<1>5. PICK i, T, a : i = BestFit(R, size) /\ T = Carve(R, i, size) /\ a = R[i].blockAddress
  OBVIOUS
<1>6. /\ i # 0 /\ allocatedMemoryRegions' = With(allocatedMemoryRegions, a, n)
      /\ beginOfProgramMemory' = beginOfProgramMemory /\ answeredNull' = FALSE
  BY <1>2, <1>4, <1>5 DEF AllocC47Blocks
<1>7. /\ a \in Nat /\ HeapStart <= a /\ a + size <= begin
      /\ \A c \in Int : Among(c, a, size) => ~Occupied(own, c)
  BY <1>2, <1>5, <1>6, Served
<1>8. Pool!Fits(a, n)
  BY <1>2, <1>3, <1>4, <1>7, FitsIs
<1>9. a \in HeapStart .. (RAM_SIZE_IN_BLOCKS - 1)
  BY <1>2, <1>7, WholeFacts, Parameters
<1>10. Pool!Grant(a, n)
  BY <1>1, <1>6, <1>8 DEF Pool!Grant, Pool!With, With
<1> QED BY <1>1, <1>9, <1>10 DEF Pool!PoolNext

LEMMA FailsRefuses ==
    ASSUME Inv, NEW n \in RequestSizes, AllocFails(n) PROVE Pool!PoolNext
<1>1. exitCode = 0 /\ exitCode' = 0
  BY DEF AllocFails
<1>2. PICK R, own, begin :
         /\ R = freeMemoryRegions /\ own = allocatedMemoryRegions
         /\ begin = beginOfProgramMemory
         /\ Whole(R, own, begin) /\ Parted(R, own, begin)
  BY <1>1, Before
<1>3. n \in Nat
  BY Parameters
<1>4. PICK size \in Nat \ {0} : size = AtLeastOne(n)
  BY <1>3, AtLeastOneIs
<1>5. BestFit(R, size) = 0
  BY <1>2, <1>4 DEF AllocFails
<1>6. /\ begin \in Nat /\ HeapStart \in Nat /\ R \in Seq(Regions)
      /\ Table(R, HeapStart, begin)
  BY <1>2, WholeFacts
<1>7. \A i \in DOMAIN R : R[i].sizeInBlocks < size /\ R[i].sizeInBlocks \in Nat
  BY <1>5, <1>6, BestFitIs, Entries
<1>8. ASSUME NEW a \in HeapStart .. (RAM_SIZE_IN_BLOCKS - 1) PROVE ~Pool!Fits(a, n)
  <2> SUFFICES ASSUME Pool!Fits(a, n) PROVE FALSE
    OBVIOUS
  <2>1. a \in Nat
    BY <1>6, Parameters
  <2>2. /\ HeapStart <= a /\ a + size <= begin
        /\ \A c \in Int : Among(c, a, size) => ~Occupied(own, c)
    BY <1>2, <1>3, <1>4, <2>1, FitsIs
  <2>3. \A c \in Int : Among(c, a, size) => HeapStart <= c /\ c < begin
    BY <1>6, <2>1, <2>2 DEF Among
  <2>4. \A c \in Int : Among(c, a, size) => IsFree(R, c)
    BY <1>2, <2>2, <2>3 DEF Parted
  <2>5. \E i \in DOMAIN R : R[i].sizeInBlocks >= size
    BY <1>6, <2>1, <2>4, RunInRegion
  <2> QED BY <1>7, <2>5
<1>9. Pool!Refuse(n)
  BY <1>1, <1>8 DEF AllocFails, Pool!Refuse
<1> QED BY <1>1, <1>9 DEF Pool!PoolNext

LEMMA FreeingKeepsTheBorder ==
    ASSUME NEW a \in Held,
           \/ FreeC47Blocks(a)
           \/ \E n \in RequestSizes : ReduceC47Blocks(a, n)
    PROVE  Pool!PoolNext
<1>1. exitCode = 0 /\ (exitCode' # 0) \in BOOLEAN
  BY DEF FreeC47Blocks, ReduceC47Blocks
<1>2. a \in DOMAIN allocatedMemoryRegions
  BY DEF Held
<1>3. CASE FreeC47Blocks(a)
  <2>1. Pool!GiveBack(a)
    BY <1>3 DEF FreeC47Blocks, Pool!GiveBack, Pool!Without, Without, Held
  <2> QED BY <1>1, <1>2, <2>1 DEF Pool!PoolNext
<1>4. ASSUME NEW n \in RequestSizes, ReduceC47Blocks(a, n) PROVE Pool!PoolNext
  <2>1. Pool!ShrinkInPlace(a, n)
    BY <1>4 DEF ReduceC47Blocks, Pool!ShrinkInPlace
  <2> QED BY <1>1, <1>2, <2>1 DEF Pool!PoolNext
<1> QED BY <1>3, <1>4

LEMMA ReallocMoves ==
    ASSUME Inv, NEW a \in Held, NEW n \in RequestSizes, ReallocC47Blocks(a, n)
    PROVE  Pool!PoolNext
<1>1. exitCode = 0 /\ (exitCode' # 0) \in BOOLEAN
  BY DEF ReallocC47Blocks
<1>2. PICK R, own, begin :
         /\ R = freeMemoryRegions /\ own = allocatedMemoryRegions
         /\ begin = beginOfProgramMemory
         /\ Whole(R, own, begin) /\ Parted(R, own, begin)
  BY <1>1, Before
<1>3. n \in Nat
  BY Parameters
<1>4. PICK size \in Nat \ {0} : size = AtLeastOne(n)
  BY <1>3, AtLeastOneIs
<1>5. PICK i, T, b : i = BestFit(R, size) /\ T = Carve(R, i, size) /\ b = R[i].blockAddress
  OBVIOUS
<1>6. /\ i # 0 /\ allocatedMemoryRegions' = With(Without(a), b, n)
      /\ beginOfProgramMemory' = beginOfProgramMemory /\ answeredNull' = FALSE
  BY <1>2, <1>4, <1>5 DEF ReallocC47Blocks
<1>7. /\ b \in Nat /\ HeapStart <= b /\ b + size <= begin
      /\ \A c \in Int : Among(c, b, size) => ~Occupied(own, c)
  BY <1>2, <1>5, <1>6, Served
<1>8. Pool!Fits(b, n)
  BY <1>2, <1>3, <1>4, <1>7, FitsIs
<1>9. b \in HeapStart .. (RAM_SIZE_IN_BLOCKS - 1)
  BY <1>2, <1>7, WholeFacts, Parameters
<1>10. Pool!Move(a, b, n)
  BY <1>6, <1>8 DEF Pool!Move, Pool!With, Pool!Without, With, Without, Held
<1> QED BY <1>1, <1>9, <1>10 DEF Pool!PoolNext, Held

LEMMA ResizeMovesTheBorder ==
    ASSUME Inv, Inv', NEW n \in ProgramSizes, ResizeProgramMemory(n) PROVE Pool!PoolNext
<1>1. /\ exitCode = 0 /\ allocatedMemoryRegions' = allocatedMemoryRegions
      /\ answeredNull' = answeredNull
      /\ \/ exitCode' = -3 /\ beginOfProgramMemory' = beginOfProgramMemory
         \/ exitCode' = 0
  BY DEF ResizeProgramMemory
<1>2. CASE exitCode' = -3 /\ beginOfProgramMemory' = beginOfProgramMemory
  <2>1. (exitCode' # 0) = TRUE
    BY <1>2
  <2> QED BY <1>1, <1>2, <2>1 DEF Pool!PoolNext
<1>3. CASE exitCode' = 0
  <2>1. PICK R, own, to :
           /\ R = freeMemoryRegions' /\ own = allocatedMemoryRegions
           /\ to = beginOfProgramMemory' /\ Whole(R, own, to)
    BY <1>1 DEF Inv
  <2>2. to \in Nat /\ HeapStart \in Nat /\ to \in HeapStart .. (RAM_SIZE_IN_BLOCKS - 1)
    BY <2>1, WholeFacts, Parameters
  <2>3. ASSUME NEW c \in HeapStart .. (RAM_SIZE_IN_BLOCKS - 1), c \in Pool!Taken
        PROVE  c \in 0 .. (to - 1)
    <3>1. PICK a \in DOMAIN own : c \in Pool!Extent(a, own[a])
      BY <2>1, <2>3 DEF Pool!Taken
    <3>2. Pool!Extent(a, own[a]) = a .. (a + AtLeastOne(own[a]) - 1)
      BY DEF Pool!Extent, AtLeastOne
    <3>3. PICK m \in Nat : m = AtLeastOne(own[a]) /\ a \in Nat /\ a + m <= to
      BY <2>1, WholeFacts DEF Holdings
    <3> QED BY <2>2, <3>1, <3>2, <3>3
  <2>4. Pool!MoveBorder(to)
    BY <1>1, <1>3, <2>1, <2>3 DEF Pool!MoveBorder
  <2> QED BY <1>1, <2>2, <2>4 DEF Pool!PoolNext
<1> QED BY <1>1, <1>2, <1>3

LEMMA InitPool == Init => Pool!PoolInit
BY DEF Init, Pool!PoolInit

(* The allocator never grants what is taken and refuses a request only     *)
(* when no run of free blocks holds it, whatever was asked for and given   *)
(* back before (freeListAlloc, freeListFree, freeListReduce,               *)
(* resizeProgramMemory).                                                   *)
THEOREM FreeListIsABlockPool == ASSUME ~TightHeap PROVE Spec => ImplementsBlockPool
<1>1. ASSUME Inv, [Next]_vars PROVE [Pool!PoolNext]_(Pool!poolVars)
  <2>1. Inv'
    BY <1>1, NextInv
  <2>2. CASE \E n \in RequestSizes : AllocC47Blocks(n)
    BY <1>1, <2>2, AllocGrants
  <2>3. CASE \E n \in RequestSizes : AllocFails(n)
    BY <1>1, <2>3, FailsRefuses
  <2>4. CASE \E a \in Held : \/ FreeC47Blocks(a)
                             \/ \E n \in RequestSizes : ReduceC47Blocks(a, n)
    BY <2>4, FreeingKeepsTheBorder
  <2>5. CASE \E a \in Held : \E n \in RequestSizes : ReallocC47Blocks(a, n)
    BY <1>1, <2>5, ReallocMoves
  <2>6. CASE \E n \in ProgramSizes : ResizeProgramMemory(n)
    BY <1>1, <2>1, <2>6, ResizeMovesTheBorder
  <2>7. CASE Exited \/ UNCHANGED vars
    BY <2>7 DEF Exited, vars, Pool!poolVars
  <2> QED BY <1>1, <2>2, <2>3, <2>4, <2>5, <2>6, <2>7 DEF Next
<1>2. Inv /\ [Next]_vars => [Pool!PoolNext]_(Pool!poolVars)
  BY <1>1
<1> QED BY <1>2, InitPool, AlwaysInv, PTL DEF Spec, ImplementsBlockPool, Pool!PoolSpec
=============================================================================

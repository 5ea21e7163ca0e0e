-------------------------- MODULE SubroutinesProofs --------------------------
(***************************************************************************)
(* What the functions of Subroutines keep true of a machine, for any chain *)
(* of levels, any numbers of local registers and whatever is refused.      *)
(***************************************************************************)
EXTENDS Subroutines, WellFoundedInduction, TLAPS

Headers == [level : Nat, return : Places, flags : BOOLEAN, registers : 0 .. 99]

Blocks(l) == DOMAIN ClaimedBy(l)

(* The level headers: level 0 first, numbers that rise, and no registers   *)
(* without the flags.                                                      *)
Chain(levels) ==
    /\ levels \in Seq(Headers) /\ levels # <<>>
    /\ levels[1].level = 0
    /\ \A i, j \in 1 .. Len(levels) : i < j => levels[i].level < levels[j].level
    /\ \A i \in 1 .. Len(levels) : ~levels[i].flags => levels[i].registers = 0

(* The pool counts exactly what the levels say they have. *)
Owns(levels, owned) ==
    /\ owned = [b \in DOMAIN owned |-> owned[b]]
    /\ \A b : b \in DOMAIN owned <=> \E i \in 1 .. Len(levels) : b \in Blocks(levels[i])
    /\ \A i \in 1 .. Len(levels) :
          \A b \in Blocks(levels[i]) : owned[b] = ClaimedBy(levels[i])[b]

Sane(m) ==
    /\ m = [levels |-> m.levels, owned |-> m.owned, number |-> m.number, place |-> m.place]
    /\ Chain(m.levels)
    /\ Owns(m.levels, m.owned)
    /\ m.number \in Nat
    /\ \A i \in 1 .. Len(m.levels) : m.levels[i].level < m.number
    /\ m.place \in Places

-----------------------------------------------------------------------------
(* Sequences, whose first and last parts the levels and the C stack are. *)

LEMMA AppendFront ==
    ASSUME NEW S, NEW f \in Seq(S), NEW x
    PROVE  /\ \E T : Append(f, x) \in Seq(T)
           /\ Len(Append(f, x)) = Len(f) + 1
           /\ Append(f, x)[Len(f) + 1] = x
           /\ \A k \in 1 .. Len(f) : Append(f, x)[k] = f[k]
           /\ Append(f, x) # <<>>
           /\ Front(Append(f, x)) = f /\ Last(Append(f, x)) = x
<1>1. f \in Seq(S \cup {x}) /\ x \in S \cup {x}
  OBVIOUS
<1>2. Append(f, x) \in Seq(S \cup {x}) /\ Len(Append(f, x)) = Len(f) + 1
  BY <1>1
<1>3. Append(f, x)[Len(f) + 1] = x /\ \A k \in 1 .. Len(f) : Append(f, x)[k] = f[k]
  BY <1>1
<1>4. Front(Append(f, x)) = f
  BY <1>1, <1>2, <1>3 DEF Front
<1>5. Append(f, x) # <<>>
  BY <1>1, <1>2
<1>6. \E T : Append(f, x) \in Seq(T)
  BY <1>2
<1> QED BY <1>2, <1>3, <1>4, <1>5, <1>6 DEF Last

LEMMA FrontOf ==
    ASSUME NEW S, NEW f \in Seq(S), Len(f) \in Nat \ {0}
    PROVE  /\ Front(f) \in Seq(S) /\ Len(Front(f)) = Len(f) - 1
           /\ \A k \in 1 .. Len(f) - 1 : Front(f)[k] = f[k]
<1>1. SubSeq(f, 1, Len(f) - 1) \in Seq(S)
  OBVIOUS
<1>2. Len(SubSeq(f, 1, Len(f) - 1)) = Len(f) - 1
  OBVIOUS
<1>3. \A k \in 1 .. Len(f) - 1 : SubSeq(f, 1, Len(f) - 1)[k] = f[k]
  OBVIOUS
<1> QED BY <1>1, <1>2, <1>3 DEF Front

LEMMA FrontLast ==
    ASSUME NEW S, NEW f \in Seq(S), f # <<>>
    PROVE  /\ Front(f) \in Seq(S) /\ Len(Front(f)) = Len(f) - 1 /\ Len(f) \in Nat \ {0}
           /\ \A k \in 1 .. Len(f) - 1 : Front(f)[k] = f[k]
           /\ Last(f) = f[Len(f)]
<1>1. Len(f) \in Nat \ {0}
  OBVIOUS
<1> QED BY <1>1, FrontOf DEF Last

-----------------------------------------------------------------------------
(* Blocks, their owners and their sizes. *)

LEMMA RegisterBlocks ==
    \A level, from, to, b :
        b \in Registers(level, from, to) <=>
            /\ b = [level |-> b.level, register |-> b.register]
            /\ b.level = level /\ b.register \in from .. to
BY DEF Registers, RegisterOf

LEMMA Claims ==
    ASSUME NEW l \in Headers
    PROVE  /\ \A b : b \in Blocks(l) <=> b \in Registers(l.level, 0, l.registers)
           /\ \A b \in Blocks(l) : b.level = l.level
           /\ HeaderOf(l.level) \in Blocks(l)
           /\ ClaimedBy(l)[HeaderOf(l.level)] = LevelSize(l.flags, l.registers)
           /\ \A b \in Blocks(l) : b # HeaderOf(l.level) => ClaimedBy(l)[b] = SizeOfRegisterData
<1>1. \A b : b \in Blocks(l) <=> b \in Registers(l.level, 0, l.registers)
  BY DEF Blocks, ClaimedBy
<1>2. \A b \in Blocks(l) : b.level = l.level
  BY <1>1, RegisterBlocks
<1>3. HeaderOf(l.level) \in Blocks(l)
  <2>1. HeaderOf(l.level) = RegisterOf(l.level, 0) /\ 0 \in 0 .. l.registers
    BY DEF HeaderOf, RegisterOf, Headers
  <2> QED BY <2>1, <1>1 DEF Registers
<1> QED BY <1>1, <1>2, <1>3 DEF Blocks, ClaimedBy

LEMMA SizesAreNat ==
    ASSUME NEW flags, NEW n \in Nat
    PROVE  /\ LevelSize(flags, n) \in Nat /\ LevelSize(flags, n) >= 3
           /\ LevelSize(TRUE, n) = 4 + n /\ LevelSize(FALSE, n) = 3
BY DEF LevelSize, SizeOfHeader, SizeOfLocalFlags, SizeOfRegisterHeader

LEMMA ClaimsAreApart ==
    ASSUME NEW levels, Chain(levels),
           NEW i \in 1 .. Len(levels), NEW j \in 1 .. Len(levels), i # j
    PROVE  \A b \in Blocks(levels[i]) : b \notin Blocks(levels[j])
<1>1. levels[i].level # levels[j].level
  <2>1. levels[i].level \in Nat /\ levels[j].level \in Nat
    <3>1. levels[i] \in Headers /\ levels[j] \in Headers
      BY DEF Chain
    <3> QED BY <3>1 DEF Headers
  <2>2. CASE i < j
    BY <2>1, <2>2 DEF Chain
  <2>3. CASE j < i
    BY <2>1, <2>3 DEF Chain
  <2> QED BY <2>2, <2>3
<1>2. levels[i] \in Headers /\ levels[j] \in Headers
  BY DEF Chain
<1> QED BY <1>1, <1>2, Claims

LEMMA HeaderChanged ==
    ASSUME NEW l \in Headers, NEW n
    PROVE  /\ [l EXCEPT !.registers = n]
                  = [level |-> l.level, return |-> l.return, flags |-> l.flags, registers |-> n]
           /\ [l EXCEPT !.flags = n]
                  = [level |-> l.level, return |-> l.return, flags |-> n,
                     registers |-> l.registers]
BY DEF Headers

(* The current level is another header of the same number, and the pool    *)
(* knows of it.                                                            *)
LEMMA CurrentReplaced ==
    ASSUME NEW m, Sane(m), NEW l \in Headers, NEW owned,
           l.level = Current(m).level, ~l.flags => l.registers = 0,
           owned = [b \in DOMAIN owned |-> owned[b]],
           \A b : b \in DOMAIN owned <=>
                     \/ b \in DOMAIN m.owned /\ b \notin Blocks(Current(m))
                     \/ b \in Blocks(l),
           \A b \in Blocks(l) : owned[b] = ClaimedBy(l)[b],
           \A b \in DOMAIN m.owned : b \notin Blocks(Current(m)) => owned[b] = m.owned[b]
    PROVE  /\ Sane(WithCurrent(m, l, owned))
           /\ Len(WithCurrent(m, l, owned).levels) = Len(m.levels)
           /\ Current(WithCurrent(m, l, owned)) = l
           /\ Front(WithCurrent(m, l, owned).levels) = Front(m.levels)
           /\ WithCurrent(m, l, owned).owned = owned
           /\ WithCurrent(m, l, owned).number = m.number
           /\ WithCurrent(m, l, owned).place = m.place
<1> DEFINE n == WithCurrent(m, l, owned)
           k == Len(m.levels)
<1>0. Chain(m.levels) /\ Owns(m.levels, m.owned)
  BY DEF Sane
<1>1. m.levels \in Seq(Headers) /\ m.levels # <<>> /\ k \in Nat \ {0}
  BY <1>0 DEF Chain
<1>2. Front(m.levels) \in Seq(Headers) /\ Len(Front(m.levels)) = k - 1
      /\ (\A i \in 1 .. k - 1 : Front(m.levels)[i] = m.levels[i]) /\ Current(m) = m.levels[k]
  BY <1>1, FrontLast DEF Current
<1>3. n.levels = Append(Front(m.levels), l) /\ n.owned = owned
      /\ n.number = m.number /\ n.place = m.place
      /\ n = [levels |-> n.levels, owned |-> n.owned, number |-> n.number, place |-> n.place]
  BY DEF WithCurrent
<1>4. n.levels \in Seq(Headers) /\ Len(n.levels) = k /\ n.levels[k] = l
      /\ (\A i \in 1 .. k - 1 : n.levels[i] = m.levels[i]) /\ n.levels # <<>>
      /\ Front(n.levels) = Front(m.levels) /\ Last(n.levels) = l
  <2>1. Append(Front(m.levels), l) \in Seq(Headers)
    BY <1>2
  <2> QED BY <2>1, <1>1, <1>2, <1>3, AppendFront
<1>5. \A i \in 1 .. k : n.levels[i].level = m.levels[i].level
  BY <1>2, <1>4
<1>6. Chain(n.levels)
  <2>1. n.levels[1].level = 0
    BY <1>0, <1>1, <1>5 DEF Chain
  <2>2. \A i, j \in 1 .. k : i < j => n.levels[i].level < n.levels[j].level
    BY <1>0, <1>5 DEF Chain
  <2>3. \A i \in 1 .. k : ~n.levels[i].flags => n.levels[i].registers = 0
    BY <1>0, <1>1, <1>4 DEF Chain
  <2> QED BY <2>1, <2>2, <2>3, <1>4 DEF Chain
<1>7. Owns(n.levels, owned)
  <2>1. ASSUME NEW b, b \in DOMAIN owned
        PROVE  \E i \in 1 .. k : b \in Blocks(n.levels[i])
    <3>1. CASE b \in Blocks(l)
      BY <3>1, <1>1, <1>4
    <3>2. CASE b \in DOMAIN m.owned /\ b \notin Blocks(Current(m))
      <4>1. PICK i \in 1 .. k : b \in Blocks(m.levels[i])
        BY <3>2, <1>0 DEF Owns
      <4>2. i # k
        BY <4>1, <3>2, <1>2
      <4> QED BY <4>1, <4>2, <1>1, <1>4
    <3> QED BY <2>1, <3>1, <3>2
  <2>2. ASSUME NEW i \in 1 .. k, NEW b \in Blocks(n.levels[i])
        PROVE  b \in DOMAIN owned /\ owned[b] = ClaimedBy(n.levels[i])[b]
    <3>1. CASE i = k
      BY <3>1, <2>2, <1>4
    <3>2. CASE i # k
      <4>1. n.levels[i] = m.levels[i]
        BY <3>2, <1>1, <1>4
      <4>2. b \notin Blocks(Current(m))
        <5>1. k \in 1 .. Len(m.levels) /\ i \in 1 .. Len(m.levels) /\ b \in Blocks(m.levels[i])
          BY <4>1, <2>2, <1>1
        <5>2. b \notin Blocks(m.levels[k])
          BY <5>1, <3>2, <1>0, ClaimsAreApart
        <5> QED BY <5>2, <1>2
      <4>3. b \in DOMAIN m.owned /\ m.owned[b] = ClaimedBy(m.levels[i])[b]
        BY <4>1, <2>2, <1>0 DEF Owns
      <4> QED BY <4>1, <4>2, <4>3
    <3> QED BY <3>1, <3>2
  <2> QED BY <2>1, <2>2, <1>4 DEF Owns
<1>8. \A i \in 1 .. k : n.levels[i].level < n.number
  BY <1>3, <1>5 DEF Sane
<1> QED BY <1>3, <1>4, <1>6, <1>7, <1>8 DEF Sane, Current

LEMMA PlaceChanged ==
    ASSUME NEW m, Sane(m), NEW p \in Places
    PROVE  /\ Sane([m EXCEPT !.place = p])
           /\ [m EXCEPT !.place = p].levels = m.levels
           /\ [m EXCEPT !.place = p].place = p
           /\ [m EXCEPT !.place = p].number = m.number
<1> DEFINE n == [m EXCEPT !.place = p]
<1>1. n = [levels |-> m.levels, owned |-> m.owned, number |-> m.number, place |-> p]
  BY DEF Sane
<1>2. n.levels = m.levels /\ n.owned = m.owned /\ n.number = m.number /\ n.place = p
  BY <1>1
<1> HIDE DEF n
<1>3. Sane(n)
  BY <1>1, <1>2 DEF Sane
<1> QED BY <1>2, <1>3 DEF n

(* A level with a number of its own is pushed with its block. *)
LEMMA LevelPushed ==
    ASSUME NEW m, Sane(m), NEW p \in Places
    PROVE  LET n == [levels |-> Append(m.levels, NewLevel(m)),
                     owned  |-> AllocC47Blocks(m.owned, {HeaderOf(m.number)}, SizeOfHeader),
                     number |-> m.number + 1,
                     place  |-> p]
           IN /\ Sane(n)
              /\ Len(n.levels) = Len(m.levels) + 1
              /\ Current(n) = NewLevel(m)
              /\ Front(n.levels) = m.levels
<1> DEFINE n == [levels |-> Append(m.levels, NewLevel(m)),
                 owned  |-> AllocC47Blocks(m.owned, {HeaderOf(m.number)}, SizeOfHeader),
                 number |-> m.number + 1,
                 place  |-> p]
           k == Len(m.levels)
           l == NewLevel(m)
<1>0. Chain(m.levels) /\ Owns(m.levels, m.owned) /\ m.number \in Nat /\ m.place \in Places
  BY DEF Sane
<1>1. m.levels \in Seq(Headers) /\ m.levels # <<>> /\ k \in Nat \ {0}
  BY <1>0 DEF Chain
<1>2. l \in Headers /\ l.level = m.number /\ l.registers = 0 /\ l.flags = FALSE
  BY <1>0 DEF NewLevel, Headers
<1>3. n.levels \in Seq(Headers) /\ Len(n.levels) = k + 1 /\ n.levels[k + 1] = l
      /\ (\A i \in 1 .. k : n.levels[i] = m.levels[i]) /\ n.levels # <<>>
      /\ Front(n.levels) = m.levels /\ Last(n.levels) = l
  <2>1. Append(m.levels, l) \in Seq(Headers)
    BY <1>1, <1>2
  <2> QED BY <2>1, <1>1, AppendFront
<1>4. \A i \in 1 .. k : m.levels[i] \in Headers /\ m.levels[i].level \in Nat
                        /\ m.levels[i].level < m.number
  <2>1. \A i \in 1 .. k : m.levels[i] \in Headers
    BY <1>1
  <2> QED BY <2>1 DEF Sane, Headers
<1>5. Chain(n.levels)
  <2>1. n.levels[1].level = 0
    BY <1>0, <1>1, <1>3 DEF Chain
  <2>2. ASSUME NEW i \in 1 .. k + 1, NEW j \in 1 .. k + 1, i < j
        PROVE  n.levels[i].level < n.levels[j].level
    <3>1. CASE j = k + 1
      BY <3>1, <2>2, <1>1, <1>2, <1>3, <1>4
    <3>2. CASE j # k + 1
      BY <3>2, <2>2, <1>0, <1>1, <1>3 DEF Chain
    <3> QED BY <3>1, <3>2
  <2>3. ASSUME NEW i \in 1 .. k + 1, ~n.levels[i].flags
        PROVE  n.levels[i].registers = 0
    <3>1. CASE i = k + 1
      BY <3>1, <1>2, <1>3
    <3>2. CASE i # k + 1
      BY <3>2, <2>3, <1>0, <1>1, <1>3 DEF Chain
    <3> QED BY <3>1, <3>2
  <2> QED BY <2>1, <2>2, <2>3, <1>3 DEF Chain
<1>6. \A b : b \in Blocks(l) <=> b = HeaderOf(m.number)
  <2>1. \A b : b \in Blocks(l) <=> b \in Registers(m.number, 0, 0)
    BY <1>2, Claims
  <2>2. \A b : b \in Registers(m.number, 0, 0) <=> b = HeaderOf(m.number)
    BY DEF Registers, RegisterOf, HeaderOf
  <2> QED BY <2>1, <2>2
<1>7. HeaderOf(m.number) \notin DOMAIN m.owned
  <2>1. SUFFICES ASSUME HeaderOf(m.number) \in DOMAIN m.owned PROVE FALSE
    OBVIOUS
  <2>2. PICK i \in 1 .. k : HeaderOf(m.number) \in Blocks(m.levels[i])
    BY <2>1, <1>0 DEF Owns
  <2>3. HeaderOf(m.number).level = m.levels[i].level
    BY <2>2, <1>4, Claims
  <2> QED BY <2>3, <1>0, <1>4 DEF HeaderOf
<1>8. Owns(n.levels, n.owned)
  <2>1. n.owned = [b \in DOMAIN n.owned |-> n.owned[b]]
    BY DEF AllocC47Blocks
  <2>2. \A b : b \in DOMAIN n.owned <=> b \in DOMAIN m.owned \/ b = HeaderOf(m.number)
    BY DEF AllocC47Blocks
  <2>3. \A b \in DOMAIN m.owned : n.owned[b] = m.owned[b]
    BY DEF AllocC47Blocks
  <2>4. n.owned[HeaderOf(m.number)] = SizeOfHeader
    BY <1>7 DEF AllocC47Blocks
  <2>5. ClaimedBy(l)[HeaderOf(m.number)] = SizeOfHeader
    <3>1. ClaimedBy(l)[HeaderOf(m.number)] = LevelSize(FALSE, 0)
      BY <1>2, Claims
    <3> QED BY <3>1 DEF LevelSize, SizeOfHeader
  <2> HIDE DEF n
  <2>6. ASSUME NEW b, b \in DOMAIN n.owned
        PROVE  \E i \in 1 .. k + 1 : b \in Blocks(n.levels[i])
    <3>1. CASE b = HeaderOf(m.number)
      BY <3>1, <1>1, <1>3, <1>6
    <3>2. CASE b \in DOMAIN m.owned
      <4>1. PICK i \in 1 .. k : b \in Blocks(m.levels[i])
        BY <3>2, <1>0 DEF Owns
      <4> QED BY <4>1, <1>1, <1>3
    <3> QED BY <2>6, <2>2, <3>1, <3>2
  <2>7. ASSUME NEW i \in 1 .. k + 1, NEW b \in Blocks(n.levels[i])
        PROVE  b \in DOMAIN n.owned /\ n.owned[b] = ClaimedBy(n.levels[i])[b]
    <3>1. CASE i = k + 1
      BY <3>1, <2>7, <2>2, <2>4, <2>5, <1>3, <1>6
    <3>2. CASE i # k + 1
      <4>1. i \in 1 .. k /\ n.levels[i] = m.levels[i]
        BY <3>2, <1>1, <1>3
      <4>2. b \in DOMAIN m.owned /\ m.owned[b] = ClaimedBy(m.levels[i])[b]
        BY <4>1, <2>7, <1>0 DEF Owns
      <4> QED BY <4>1, <4>2, <2>2, <2>3
    <3> QED BY <3>1, <3>2
  <2> QED BY <2>1, <2>6, <2>7, <1>3 DEF Owns
<1>9. \A i \in 1 .. k + 1 : n.levels[i].level < n.number
  <2>1. n.number = m.number + 1
    OBVIOUS
  <2> HIDE DEF n
  <2>2. ASSUME NEW i \in 1 .. k + 1 PROVE n.levels[i].level < n.number
    <3>1. CASE i = k + 1
      BY <3>1, <2>1, <1>0, <1>2, <1>3
    <3>2. CASE i # k + 1
      <4>1. i \in 1 .. k /\ n.levels[i] = m.levels[i]
        BY <3>2, <1>1, <1>3
      <4>2. m.levels[i].level \in Nat /\ m.levels[i].level < m.number
        BY <4>1, <1>4
      <4> QED BY <4>1, <4>2, <2>1, <1>0
    <3> QED BY <3>1, <3>2
  <2> QED BY <2>2
<1>10. n = [levels |-> n.levels, owned |-> n.owned, number |-> n.number, place |-> n.place]
       /\ n.place \in Places /\ n.number \in Nat
  BY <1>0
<1> HIDE DEF n
<1>11. Sane(n)
  BY <1>3, <1>5, <1>8, <1>9, <1>10 DEF Sane
<1> QED BY <1>3, <1>11 DEF Current, n

(* The current level and its blocks go. *)
LEMMA LevelPopped ==
    ASSUME NEW m, Sane(m), Len(m.levels) > 1, NEW p \in Places, NEW owned,
           owned = [b \in DOMAIN owned |-> owned[b]],
           \A b : b \in DOMAIN owned <=> b \in DOMAIN m.owned /\ b \notin Blocks(Current(m)),
           \A b \in DOMAIN owned : owned[b] = m.owned[b]
    PROVE  LET n == [levels |-> Front(m.levels), owned |-> owned,
                     number |-> m.number - 1, place |-> p]
           IN /\ Sane(n)
              /\ Len(n.levels) = Len(m.levels) - 1
              /\ \A i \in 1 .. Len(n.levels) : n.levels[i] = m.levels[i]
<1> DEFINE n == [levels |-> Front(m.levels), owned |-> owned,
                 number |-> m.number - 1, place |-> p]
           k == Len(m.levels)
<1>0. Chain(m.levels) /\ Owns(m.levels, m.owned) /\ m.number \in Nat
  BY DEF Sane
<1>1. m.levels \in Seq(Headers) /\ m.levels # <<>> /\ k \in Nat \ {0}
  BY <1>0 DEF Chain
<1>2. n.levels \in Seq(Headers) /\ Len(n.levels) = k - 1
      /\ (\A i \in 1 .. k - 1 : n.levels[i] = m.levels[i]) /\ Current(m) = m.levels[k]
  BY <1>1, FrontLast DEF Current
<1>3. n.owned = owned /\ n.number = m.number - 1 /\ n.place = p
      /\ n = [levels |-> n.levels, owned |-> n.owned, number |-> n.number, place |-> n.place]
  OBVIOUS
<1> HIDE DEF n
<1>4. Chain(n.levels)
  <2>1. n.levels # <<>> /\ n.levels[1] = m.levels[1]
    BY <1>1, <1>2
  <2>2. ASSUME NEW i \in 1 .. k - 1, NEW j \in 1 .. k - 1, i < j
        PROVE  n.levels[i].level < n.levels[j].level
    <3>1. i \in 1 .. k /\ j \in 1 .. k /\ n.levels[i] = m.levels[i] /\ n.levels[j] = m.levels[j]
      BY <1>1, <1>2
    <3> QED BY <3>1, <2>2, <1>0 DEF Chain
  <2>3. \A i \in 1 .. k - 1 : ~n.levels[i].flags => n.levels[i].registers = 0
    BY <1>0, <1>1, <1>2 DEF Chain
  <2> QED BY <2>1, <2>2, <2>3, <1>0, <1>2 DEF Chain
<1>5. Owns(n.levels, owned)
  <2>1. ASSUME NEW b, b \in DOMAIN owned
        PROVE  \E i \in 1 .. k - 1 : b \in Blocks(n.levels[i])
    <3>1. PICK i \in 1 .. k : b \in Blocks(m.levels[i])
      BY <2>1, <1>0 DEF Owns
    <3>2. i # k
      BY <3>1, <2>1, <1>2
    <3> QED BY <3>1, <3>2, <1>1, <1>2
  <2>2. ASSUME NEW i \in 1 .. k - 1, NEW b \in Blocks(n.levels[i])
        PROVE  b \in DOMAIN owned /\ owned[b] = ClaimedBy(n.levels[i])[b]
    <3>1. n.levels[i] = m.levels[i] /\ i \in 1 .. k /\ k \in 1 .. k /\ i # k
      BY <1>1, <1>2
    <3>2. b \notin Blocks(m.levels[k])
      BY <3>1, <2>2, <1>0, ClaimsAreApart
    <3>3. b \in DOMAIN m.owned /\ m.owned[b] = ClaimedBy(m.levels[i])[b]
      BY <3>1, <2>2, <1>0 DEF Owns
    <3> QED BY <3>1, <3>2, <3>3, <1>2
  <2> QED BY <2>1, <2>2, <1>2 DEF Owns
<1>6. n.number \in Nat /\ \A i \in 1 .. k - 1 : n.levels[i].level < n.number
  <2>1. \A i \in 1 .. k : m.levels[i] \in Headers
    BY <1>1
  <2>2. \A i \in 1 .. k : m.levels[i].level \in Nat
    BY <2>1 DEF Headers
  <2>3. m.levels[k].level < m.number /\ m.levels[k].level \in Nat
    BY <2>2, <1>1 DEF Sane
  <2>4. \A i \in 1 .. k - 1 : m.levels[i].level < m.levels[k].level
    BY <1>0, <1>1 DEF Chain
  <2>5. n.number \in Nat
    BY <2>3, <1>0, <1>3
  <2>6. ASSUME NEW i \in 1 .. k - 1 PROVE n.levels[i].level < n.number
    <3>1. n.levels[i] = m.levels[i] /\ m.levels[i].level \in Nat
          /\ m.levels[i].level < m.levels[k].level
      BY <2>2, <2>4, <1>1, <1>2
    <3> QED BY <3>1, <2>3, <1>0, <1>3
  <2> QED BY <2>5, <2>6
<1>7. Sane(n)
  BY <1>2, <1>3, <1>4, <1>5, <1>6 DEF Sane
<1> QED BY <1>2, <1>7 DEF n

-----------------------------------------------------------------------------
(* Local flags and registers. *)

(* Nothing but the local registers of the current level differs. *)
SameButLocals(m, n) ==
    /\ Len(n.levels) = Len(m.levels)
    /\ Front(n.levels) = Front(m.levels)
    /\ Current(n).level = Current(m).level
    /\ Current(n).return = Current(m).return
    /\ n.number = m.number /\ n.place = m.place

LEMMA CurrentLevel ==
    ASSUME NEW m, Sane(m)
    PROVE  /\ Current(m) \in Headers
           /\ Current(m) = [level |-> Current(m).level, return |-> Current(m).return,
                           flags |-> Current(m).flags, registers |-> Current(m).registers]
           /\ Current(m).level \in Nat /\ Current(m).registers \in 0 .. 99
           /\ Current(m).return \in Places /\ Current(m).flags \in BOOLEAN
           /\ ~Current(m).flags => Current(m).registers = 0
           /\ Current(m) = m.levels[Len(m.levels)]
           /\ \A b \in Blocks(Current(m)) :
                 b \in DOMAIN m.owned /\ m.owned[b] = ClaimedBy(Current(m))[b]
<1>0. Chain(m.levels) /\ Owns(m.levels, m.owned)
  BY DEF Sane
<1>1. m.levels \in Seq(Headers) /\ m.levels # <<>> /\ Len(m.levels) \in Nat \ {0}
  BY <1>0 DEF Chain
<1>2. Current(m) = m.levels[Len(m.levels)]
  BY <1>1, FrontLast DEF Current
<1>3. Current(m) \in Headers
  BY <1>1, <1>2
<1>4. \A b \in Blocks(Current(m)) :
        b \in DOMAIN m.owned /\ m.owned[b] = ClaimedBy(Current(m))[b]
  BY <1>0, <1>1, <1>2 DEF Owns
<1>5. ~Current(m).flags => Current(m).registers = 0
  BY <1>0, <1>1, <1>2 DEF Chain
<1> QED BY <1>2, <1>3, <1>4, <1>5 DEF Headers

(* The registers a level does not have yet are nobody's. *)
LEMMA NewRegisters ==
    ASSUME NEW m, Sane(m), NEW i \in Int
    PROVE  \A b \in Registers(Current(m).level, Current(m).registers + 1, i) :
               b \notin DOMAIN m.owned /\ b # HeaderOf(Current(m).level)
<1> DEFINE cur == Current(m)
           k == Len(m.levels)
<1>0. Chain(m.levels) /\ Owns(m.levels, m.owned)
  BY DEF Sane
<1>1. m.levels \in Seq(Headers) /\ k \in Nat \ {0} /\ cur = m.levels[k]
  BY <1>0, CurrentLevel DEF Chain
<1>2. SUFFICES ASSUME NEW b \in Registers(cur.level, cur.registers + 1, i)
               PROVE  b \notin DOMAIN m.owned /\ b # HeaderOf(cur.level)
  OBVIOUS
<1>3. cur.registers \in Nat
  <2>1. cur.registers \in 0 .. 99
    BY CurrentLevel
  <2> QED BY <2>1
<1> HIDE DEF cur
<1>4. b.level = cur.level /\ b.register \in cur.registers + 1 .. i
  BY <1>2, RegisterBlocks
<1>5. b # HeaderOf(cur.level)
  BY <1>3, <1>4 DEF HeaderOf
<1>6. ASSUME b \in DOMAIN m.owned PROVE FALSE
  <2>1. PICK j \in 1 .. k : b \in Blocks(m.levels[j])
    BY <1>6, <1>0 DEF Owns
  <2>2. m.levels[j] \in Headers /\ m.levels[k] \in Headers
    BY <1>1
  <2>3. b.level = m.levels[j].level
    BY <2>1, <2>2, Claims
  <2>4. j = k
    <3>1. SUFFICES ASSUME j < k PROVE FALSE
      BY <1>1
    <3>2. m.levels[j].level < m.levels[k].level
      BY <3>1, <1>0, <1>1 DEF Chain
    <3> QED BY <3>2, <2>2, <2>3, <1>1, <1>4 DEF Headers
  <2>5. b \in Registers(cur.level, 0, cur.registers)
    BY <2>1, <2>2, <2>4, <1>1, Claims
  <2> QED BY <2>5, <1>3, <1>4, RegisterBlocks
<1> QED BY <1>5, <1>6

(* Growing by "more" blocks and shrinking again. *)
LEMMA GrowsAndShrinks ==
    ASSUME NEW owned, owned = [b \in DOMAIN owned |-> owned[b]],
           NEW block \in DOMAIN owned, owned[block] \in Int,
           NEW old \in Int, NEW new \in Int
    PROVE  /\ DOMAIN GrowC47Blocks(owned, block, old, new) = DOMAIN owned
           /\ DOMAIN ReduceC47Blocks(owned, block, old, new) = DOMAIN owned
           /\ GrowC47Blocks(owned, block, old, new)[block] = owned[block] + new - old
           /\ ReduceC47Blocks(owned, block, old, new)[block] = owned[block] + new - old
           /\ \A b \in DOMAIN owned : b # block =>
                 /\ GrowC47Blocks(owned, block, old, new)[b] = owned[b]
                 /\ ReduceC47Blocks(owned, block, old, new)[b] = owned[b]
           /\ GrowC47Blocks(owned, block, old, new) =
                 [b \in DOMAIN owned |-> GrowC47Blocks(owned, block, old, new)[b]]
           /\ ReduceC47Blocks(owned, block, old, new) =
                 [b \in DOMAIN owned |-> ReduceC47Blocks(owned, block, old, new)[b]]
<1>1. /\ DOMAIN GrowC47Blocks(owned, block, old, new) = DOMAIN owned
      /\ GrowC47Blocks(owned, block, old, new)[block] = owned[block] + (new - old)
      /\ \A b \in DOMAIN owned : b # block => GrowC47Blocks(owned, block, old, new)[b] = owned[b]
      /\ GrowC47Blocks(owned, block, old, new) =
            [b \in DOMAIN owned |-> GrowC47Blocks(owned, block, old, new)[b]]
  BY DEF GrowC47Blocks
<1>2. /\ DOMAIN ReduceC47Blocks(owned, block, old, new) = DOMAIN owned
      /\ ReduceC47Blocks(owned, block, old, new)[block] = owned[block] - (old - new)
      /\ \A b \in DOMAIN owned : b # block => ReduceC47Blocks(owned, block, old, new)[b] = owned[b]
      /\ ReduceC47Blocks(owned, block, old, new) =
            [b \in DOMAIN owned |-> ReduceC47Blocks(owned, block, old, new)[b]]
  BY DEF ReduceC47Blocks
<1> QED BY <1>1, <1>2

LEMMA GrownSane ==
    ASSUME NEW m, Sane(m), NEW n \in 0 .. 99,
           ~Current(m).flags \/ n > Current(m).registers,
           NEW r \in GrowLocalRegisters(m, n)
    PROVE  Sane(r.machine) /\ SameButLocals(m, r.machine)
<1> DEFINE cur   == Current(m)
           k     == cur.registers
           old   == LevelSize(cur.flags, k)
           new   == LevelSize(TRUE, n)
           block == HeaderOf(cur.level)
           grown == GrowC47Blocks(m.owned, block, old, new)
           given(i) == Given(grown, Registers(cur.level, k + 1, i))
           freed(i) == FreeRegisterData(given(i), Registers(cur.level, k + 1, i))
           undone(i) == ReduceC47Blocks(freed(i), block, new, old)
           bigger == [level |-> cur.level, return |-> cur.return, flags |-> TRUE, registers |-> n]
<1>1. cur \in Headers /\ k \in Nat /\ old \in Nat /\ new \in Nat /\ new = 4 + n
      /\ (~cur.flags => k = 0) /\ k <= n
      /\ block \in DOMAIN m.owned /\ m.owned[block] = old /\ block \in Blocks(cur)
  <2>1. cur \in Headers /\ k \in 0 .. 99 /\ (~cur.flags => k = 0)
    BY CurrentLevel
  <2>2. block \in Blocks(cur) /\ ClaimedBy(cur)[block] = old
    BY <2>1, Claims
  <2>3. k \in Nat /\ n \in Nat
    BY <2>1
  <2>4. old \in Nat /\ new \in Nat /\ new = 4 + n
    BY <2>3, SizesAreNat
  <2>5. block \in DOMAIN m.owned /\ m.owned[block] = old
    BY <2>2, CurrentLevel
  <2>6. k <= n
    BY <2>1, <2>3
  <2> QED BY <2>1, <2>2, <2>3, <2>4, <2>5, <2>6
<1>2. m.owned = [b \in DOMAIN m.owned |-> m.owned[b]]
  BY DEF Sane, Owns
<1>3. DOMAIN grown = DOMAIN m.owned /\ grown[block] = new
      /\ (\A b \in DOMAIN m.owned : b # block => grown[b] = m.owned[b])
  <2> HIDE DEF block, old, new
  <2>1. grown[block] = m.owned[block] + new - old
    BY <1>1, <1>2, GrowsAndShrinks
  <2> QED BY <2>1, <1>1, <1>2, GrowsAndShrinks
<1>4. \A i \in Int : \A b \in Registers(cur.level, k + 1, i) :
         b \notin DOMAIN m.owned /\ b # block
  BY NewRegisters
<1> HIDE DEF grown
<1>5. \A i \in Int :
         /\ given(i) = [b \in DOMAIN given(i) |-> given(i)[b]]
         /\ \A b : b \in DOMAIN given(i) <=> b \in DOMAIN m.owned \/ b \in Registers(cur.level, k + 1, i)
         /\ \A b \in DOMAIN m.owned : given(i)[b] = grown[b]
         /\ \A b \in Registers(cur.level, k + 1, i) : given(i)[b] = SizeOfRegisterData
  BY <1>3, <1>4 DEF Given, AllocC47Blocks
<1>6. ASSUME NEW i \in k .. n - 1
      PROVE  /\ Sane(WithCurrent(m, cur, undone(i)))
             /\ SameButLocals(m, WithCurrent(m, cur, undone(i)))
  <2>0. i \in Int
    OBVIOUS
  <2>1. /\ freed(i) = [b \in DOMAIN freed(i) |-> freed(i)[b]]
        /\ DOMAIN freed(i) = DOMAIN m.owned
        /\ \A b \in DOMAIN m.owned : freed(i)[b] = grown[b]
    <3> HIDE DEF given
    <3> QED BY <2>0, <1>4, <1>5 DEF FreeRegisterData, Restrict
  <2> HIDE DEF freed
  <2>2. /\ undone(i) = [b \in DOMAIN undone(i) |-> undone(i)[b]]
        /\ DOMAIN undone(i) = DOMAIN m.owned
        /\ undone(i)[block] = old
        /\ \A b \in DOMAIN m.owned : b # block => undone(i)[b] = m.owned[b]
    <3>1. block \in DOMAIN freed(i) /\ freed(i)[block] = new
      BY <2>1, <1>1, <1>3
    <3> HIDE DEF block, old, new
    <3>2. DOMAIN undone(i) = DOMAIN freed(i) /\ undone(i)[block] = new + old - new
          /\ \A b \in DOMAIN freed(i) : b # block => undone(i)[b] = freed(i)[b]
      BY <3>1, <2>1, <1>1, GrowsAndShrinks
    <3>3. undone(i) = [b \in DOMAIN undone(i) |-> undone(i)[b]]
      BY <3>1, <2>1, <1>1, GrowsAndShrinks
    <3> QED BY <3>2, <3>3, <2>1, <1>1, <1>3
  <2> HIDE DEF undone, old
  <2>3. \A b \in DOMAIN m.owned : undone(i)[b] = m.owned[b]
    BY <2>2, <1>1
  <2>4. ~cur.flags => cur.registers = 0
    BY <1>1
  <2>5. \A b : b \in DOMAIN undone(i) <=>
                  \/ b \in DOMAIN m.owned /\ b \notin Blocks(cur)
                  \/ b \in Blocks(cur)
    BY <2>2, CurrentLevel
  <2>6. \A b \in Blocks(cur) : undone(i)[b] = ClaimedBy(cur)[b]
    BY <2>3, CurrentLevel
  <2> DEFINE new2 == undone(i)
  <2>7. new2 = [b \in DOMAIN new2 |-> new2[b]]
    BY <2>2
  <2> HIDE DEF new2
  <2>8. Sane(WithCurrent(m, cur, new2)) /\ SameButLocals(m, WithCurrent(m, cur, new2))
    BY <2>3, <2>4, <2>5, <2>6, <2>7, <1>1, CurrentReplaced DEF SameButLocals, new2
  <2> QED BY <2>8 DEF new2
<1>7. /\ Sane(WithCurrent(m, bigger, given(n)))
      /\ SameButLocals(m, WithCurrent(m, bigger, given(n)))
  <2>2. bigger \in Headers /\ bigger.level = cur.level /\ bigger.return = cur.return
        /\ bigger.flags = TRUE /\ bigger.registers = n
    BY <1>1 DEF Headers
  <2> HIDE DEF bigger
  <2>3. \A b : b \in Blocks(bigger) <=> b \in Blocks(cur) \/ b \in Registers(cur.level, k + 1, n)
    <3>1. \A b : b \in Blocks(bigger) <=> b \in Registers(cur.level, 0, n)
      BY <2>2, Claims
    <3>2. \A b : b \in Blocks(cur) <=> b \in Registers(cur.level, 0, k)
      BY <1>1, Claims
    <3> QED BY <3>1, <3>2, <1>1, RegisterBlocks
  <2>4. \A b \in Blocks(cur) : b \in DOMAIN m.owned /\ m.owned[b] = ClaimedBy(cur)[b]
    BY CurrentLevel
  <2>5. given(n)[block] = new /\ ClaimedBy(bigger)[block] = new
    <3>1. ClaimedBy(bigger)[block] = new
      BY <2>2, Claims
    <3>2. n \in Int
      OBVIOUS
    <3>3. given(n)[block] = grown[block]
      <4> HIDE DEF given, block
      <4> QED BY <3>2, <1>1, <1>5
    <3> QED BY <3>1, <3>3, <1>3
  <2>6. ASSUME NEW b \in Blocks(bigger)
        PROVE  given(n)[b] = ClaimedBy(bigger)[b]
    <3> HIDE DEF given, block
    <3>1. CASE b = block
      BY <3>1, <2>5
    <3>2. CASE b # block /\ b \in Registers(cur.level, k + 1, n)
      BY <3>2, <2>2, <2>6, <1>5, Claims DEF block
    <3>3. CASE b # block /\ b \in Blocks(cur)
      <4>1. ClaimedBy(cur)[b] = SizeOfRegisterData /\ ClaimedBy(bigger)[b] = SizeOfRegisterData
        BY <3>3, <2>2, <2>6, <1>1, Claims DEF block
      <4>2. given(n)[b] = m.owned[b]
        BY <3>3, <2>4, <1>3, <1>5
      <4> QED BY <3>3, <4>1, <4>2, <2>4
    <3> QED BY <3>1, <3>2, <3>3, <2>3, <2>6
  <2> DEFINE new2 == given(n)
  <2>7. new2 = [b \in DOMAIN new2 |-> new2[b]]
        /\ (\A b : b \in DOMAIN new2 <=>
                  \/ b \in DOMAIN m.owned /\ b \notin Blocks(cur)
                  \/ b \in Blocks(bigger))
        /\ (\A b \in DOMAIN m.owned : b \notin Blocks(cur) => new2[b] = m.owned[b])
        /\ (\A b \in Blocks(bigger) : new2[b] = ClaimedBy(bigger)[b])
    <3> HIDE DEF given, block
    <3>1. n \in Int
      OBVIOUS
    <3> QED BY <3>1, <2>3, <2>4, <2>6, <1>1, <1>3, <1>5
  <2> HIDE DEF new2
  <2>8. Sane(WithCurrent(m, bigger, new2)) /\ SameButLocals(m, WithCurrent(m, bigger, new2))
    BY <2>2, <2>7, CurrentReplaced DEF SameButLocals
  <2> QED BY <2>8 DEF new2
<1>8. SameButLocals(m, m)
  BY DEF SameButLocals
<1>9. \/ r = [machine |-> m, failed |-> TRUE]
      \/ \E i \in k .. n - 1 : r = [machine |-> WithCurrent(m, cur, undone(i)), failed |-> TRUE]
      \/ r = [machine |-> WithCurrent(m, bigger, given(n)), failed |-> FALSE]
  BY DEF GrowLocalRegisters, grown
<1> HIDE DEF undone, given, bigger, cur, k
<1> QED BY <1>6, <1>7, <1>8, <1>9

LEMMA Shrunk ==
    ASSUME NEW m, Sane(m), NEW n \in Nat,
           Current(m).flags, n <= Current(m).registers
    PROVE  /\ Sane(ShrinkLocalRegisters(m, n))
           /\ SameButLocals(m, ShrinkLocalRegisters(m, n))
           /\ Current(ShrinkLocalRegisters(m, n)).registers = n
           /\ Current(ShrinkLocalRegisters(m, n)).flags = Current(m).flags
<1> DEFINE cur   == Current(m)
           k     == cur.registers
           gone  == Registers(cur.level, n + 1, k)
           freed == FreeRegisterData(m.owned, gone)
           old   == LevelSize(TRUE, k)
           new   == LevelSize(TRUE, n)
           block == HeaderOf(cur.level)
           owned == ReduceC47Blocks(freed, block, old, new)
           smaller == [cur EXCEPT !.registers = n]
<1>1. cur \in Headers /\ k \in 0 .. 99 /\ cur.flags = TRUE
      /\ cur = [level |-> cur.level, return |-> cur.return, flags |-> cur.flags, registers |-> k]
  BY CurrentLevel
<1>2. k \in Nat /\ n \in 0 .. 99 /\ n \in Int
  BY <1>1
<1>3. old \in Nat /\ new \in Nat
  BY <1>2, SizesAreNat
<1>4. smaller = [level |-> cur.level, return |-> cur.return, flags |-> cur.flags, registers |-> n]
  BY <1>1, HeaderChanged
<1>5. smaller \in Headers /\ smaller.level = cur.level /\ smaller.return = cur.return
      /\ smaller.flags = TRUE /\ smaller.registers = n
  BY <1>1, <1>2, <1>4 DEF Headers
<1>6. block \in Blocks(cur) /\ ClaimedBy(cur)[block] = old
      /\ block \in Blocks(smaller) /\ ClaimedBy(smaller)[block] = new
  <2> HIDE DEF smaller
  <2> QED BY <1>1, <1>5, Claims
<1>7. \A b \in Blocks(cur) : b \in DOMAIN m.owned /\ m.owned[b] = ClaimedBy(cur)[b]
  BY CurrentLevel
<1>8. \A b : b \in gone <=>
                 /\ b = [level |-> b.level, register |-> b.register]
                 /\ b.level = cur.level /\ b.register \in n + 1 .. k
  BY RegisterBlocks
<1> HIDE DEF gone
<1>9. /\ freed = [b \in DOMAIN freed |-> freed[b]]
      /\ \A b : b \in DOMAIN freed <=> b \in DOMAIN m.owned /\ b \notin gone
      /\ \A b \in DOMAIN freed : freed[b] = m.owned[b]
  BY DEF FreeRegisterData, Restrict
<1>10. block \notin gone
  BY <1>2, <1>8 DEF HeaderOf
<1>11. \A b : b \in Blocks(smaller) <=> b \in Blocks(cur) /\ b \notin gone
  <2>1. \A b : b \in Blocks(cur) <=> b \in Registers(cur.level, 0, k)
    BY <1>1, Claims
  <2>2. \A b : b \in Blocks(smaller) <=> b \in Registers(cur.level, 0, n)
    <3> HIDE DEF smaller
    <3> QED BY <1>5, Claims
  <2> QED BY <2>1, <2>2, <1>2, <1>8, RegisterBlocks
<1> HIDE DEF smaller, freed, old, new, block
<1>12. /\ owned = [b \in DOMAIN owned |-> owned[b]]
       /\ DOMAIN owned = DOMAIN freed
       /\ owned[block] = new
       /\ \A b \in DOMAIN freed : b # block => owned[b] = freed[b]
  <2>1. block \in DOMAIN freed /\ freed[block] = old
    BY <1>6, <1>7, <1>9, <1>10
  <2>2. owned[block] = old + new - old
    BY <2>1, <1>3, <1>9, GrowsAndShrinks
  <2> QED BY <2>1, <2>2, <1>3, <1>9, GrowsAndShrinks
<1> HIDE DEF owned
<1>13. ASSUME NEW b \in Blocks(smaller) PROVE owned[b] = ClaimedBy(smaller)[b]
  <2>1. CASE b = block
    BY <2>1, <1>6, <1>12
  <2>2. CASE b # block
    <3>1. b \in Blocks(cur) /\ b \in DOMAIN freed /\ owned[b] = m.owned[b]
      BY <2>2, <1>7, <1>9, <1>11, <1>12, <1>13
    <3>2. m.owned[b] = SizeOfRegisterData
      BY <2>2, <3>1, <1>1, <1>7, Claims DEF block
    <3>3. ClaimedBy(smaller)[b] = SizeOfRegisterData
      BY <2>2, <1>5, <1>13, Claims DEF block
    <3> QED BY <3>1, <3>2, <3>3
  <2> QED BY <2>1, <2>2
<1>14. \A b : b \in DOMAIN owned <=> \/ b \in DOMAIN m.owned /\ b \notin Blocks(cur)
                                    \/ b \in Blocks(smaller)
  <2>1. \A b : b \in gone => b \in Blocks(cur)
    <3>1. \A b : b \in Blocks(cur) <=> b \in Registers(cur.level, 0, k)
      BY <1>1, Claims
    <3> QED BY <3>1, <1>2, <1>8, RegisterBlocks
  <2> QED BY <2>1, <1>7, <1>9, <1>11, <1>12
<1>15. \A b \in DOMAIN m.owned : b \notin Blocks(cur) => owned[b] = m.owned[b]
  <2>1. \A b \in DOMAIN m.owned : b \notin Blocks(cur) => b # block /\ b \in DOMAIN freed
    BY <1>6, <1>12, <1>14
  <2> QED BY <2>1, <1>9, <1>12
<1>16. ShrinkLocalRegisters(m, n) = WithCurrent(m, smaller, owned)
  BY DEF ShrinkLocalRegisters, smaller, owned, freed, gone, block, old, new
<1>17. /\ Sane(WithCurrent(m, smaller, owned))
       /\ SameButLocals(m, WithCurrent(m, smaller, owned))
       /\ Current(WithCurrent(m, smaller, owned)) = smaller
  BY <1>5, <1>12, <1>13, <1>14, <1>15, CurrentReplaced DEF SameButLocals
<1> QED BY <1>1, <1>5, <1>16, <1>17

LEMMA Allocated ==
    ASSUME NEW m, Sane(m), NEW n \in 0 .. 99, NEW r \in AllocateLocalRegisters(m, n)
    PROVE  Sane(r.machine) /\ SameButLocals(m, r.machine)
<1>1. Current(m).registers \in 0 .. 99
  BY CurrentLevel
<1>2. CASE ~Current(m).flags \/ n > Current(m).registers
  BY <1>2, GrownSane DEF AllocateLocalRegisters
<1>3. CASE Current(m).flags /\ ~(n > Current(m).registers)
  <2>1. r.machine = IF n < Current(m).registers THEN ShrinkLocalRegisters(m, n) ELSE m
    BY <1>3 DEF AllocateLocalRegisters
  <2>2. n \in Nat /\ n <= Current(m).registers
    BY <1>1, <1>3
  <2>3. SameButLocals(m, m)
    BY DEF SameButLocals
  <2> QED BY <2>1, <2>2, <2>3, <1>3, Shrunk
<1> QED BY <1>2, <1>3, CurrentLevel

LEMMA RegistersGone ==
    ASSUME NEW m, Sane(m)
    PROVE  /\ Sane(WithoutRegisters(m))
           /\ SameButLocals(m, WithoutRegisters(m))
           /\ Current(WithoutRegisters(m)).registers = 0
           /\ Current(WithoutRegisters(m)).flags = Current(m).flags
<1>1. CASE Current(m).registers = 0
  BY <1>1 DEF WithoutRegisters, SameButLocals
<1>2. CASE Current(m).registers # 0
  <2>1. Current(m).flags /\ Current(m).registers \in 0 .. 99
    BY <1>2, CurrentLevel
  <2>2. 0 \in Nat /\ 0 <= Current(m).registers
    BY <2>1
  <2> QED BY <2>1, <2>2, <1>2, Shrunk DEF WithoutRegisters
<1> QED BY <1>1, <1>2

LEMMA Cleaned ==
    ASSUME NEW m, Sane(m)
    PROVE  /\ Sane(CleanLocalFlagsAndRegisters(m))
           /\ SameButLocals(m, CleanLocalFlagsAndRegisters(m))
<1> DEFINE n   == WithoutRegisters(m)
           cur == Current(n)
           block == HeaderOf(cur.level)
           old == LevelSize(TRUE, 0)
           new == LevelSize(FALSE, 0)
           owned == ReduceC47Blocks(n.owned, block, old, new)
           plain == [cur EXCEPT !.flags = FALSE]
<1>1. Sane(n) /\ SameButLocals(m, n) /\ cur.registers = 0
  BY RegistersGone
<1> HIDE DEF n
<1>2. CASE ~cur.flags
  BY <1>1, <1>2 DEF CleanLocalFlagsAndRegisters, n
<1>3. CASE cur.flags
  <2>1. cur \in Headers
        /\ cur = [level |-> cur.level, return |-> cur.return, flags |-> cur.flags, registers |-> 0]
        /\ \A b \in Blocks(cur) : b \in DOMAIN n.owned /\ n.owned[b] = ClaimedBy(cur)[b]
    BY <1>1, CurrentLevel
  <2>2. plain = [level |-> cur.level, return |-> cur.return, flags |-> FALSE, registers |-> 0]
    <3> HIDE DEF cur
    <3> QED BY <2>1, <1>1, HeaderChanged
  <2>3. plain \in Headers /\ plain.level = cur.level /\ plain.return = cur.return
        /\ plain.flags = FALSE /\ plain.registers = 0
    BY <2>1, <2>2 DEF Headers
  <2>4. cur.flags = TRUE
    BY <1>3, <2>1 DEF Headers
  <2> HIDE DEF plain
  <2>5. \A b : b \in Blocks(cur) <=> b = block
    <3>1. \A b : b \in Blocks(cur) <=> b \in Registers(cur.level, 0, 0)
      BY <1>1, <2>1, Claims
    <3>2. \A b : b \in Registers(cur.level, 0, 0) <=> b = block
      BY DEF Registers, RegisterOf, HeaderOf
    <3> QED BY <3>1, <3>2
  <2>6. \A b : b \in Blocks(plain) <=> b = block
    <3>1. \A b : b \in Blocks(plain) <=> b \in Registers(cur.level, 0, 0)
      BY <2>3, Claims
    <3>2. \A b : b \in Registers(cur.level, 0, 0) <=> b = block
      BY DEF Registers, RegisterOf, HeaderOf
    <3> QED BY <3>1, <3>2
  <2>7. ClaimedBy(cur)[block] = old /\ ClaimedBy(plain)[block] = new
        /\ old \in Int /\ new \in Int
    <3>1. ClaimedBy(cur)[block] = LevelSize(cur.flags, cur.registers)
      BY <2>1, Claims
    <3>2. ClaimedBy(plain)[block] = LevelSize(plain.flags, plain.registers)
      BY <2>1, <2>3, Claims
    <3>3. old \in Int /\ new \in Int
      BY DEF LevelSize, SizeOfHeader, SizeOfLocalFlags, SizeOfRegisterHeader
    <3> HIDE DEF cur
    <3> QED BY <3>1, <3>2, <3>3, <1>1, <2>3, <2>4
  <2> HIDE DEF block, old, new, cur
  <2>8. n.owned = [b \in DOMAIN n.owned |-> n.owned[b]]
    BY <1>1 DEF Sane, Owns
  <2>9. /\ owned = [b \in DOMAIN owned |-> owned[b]]
        /\ DOMAIN owned = DOMAIN n.owned
        /\ owned[block] = new
        /\ \A b \in DOMAIN n.owned : b # block => owned[b] = n.owned[b]
    <3>1. block \in DOMAIN n.owned /\ n.owned[block] = old
      BY <2>1, <2>5, <2>7
    <3>2. owned[block] = old + new - old
      BY <3>1, <2>7, <2>8, GrowsAndShrinks
    <3> QED BY <3>1, <3>2, <2>7, <2>8, GrowsAndShrinks
  <2> HIDE DEF owned
  <2>10. /\ Sane(WithCurrent(n, plain, owned))
         /\ SameButLocals(n, WithCurrent(n, plain, owned))
    <3>1. \A b : b \in DOMAIN owned <=> \/ b \in DOMAIN n.owned /\ b \notin Blocks(cur)
                                        \/ b \in Blocks(plain)
      BY <2>1, <2>5, <2>6, <2>9
    <3>2. \A b \in Blocks(plain) : owned[b] = ClaimedBy(plain)[b]
      BY <2>6, <2>7, <2>9
    <3>3. \A b \in DOMAIN n.owned : b \notin Blocks(cur) => owned[b] = n.owned[b]
      BY <2>5, <2>9
    <3> QED BY <3>1, <3>2, <3>3, <1>1, <2>3, <2>9, CurrentReplaced DEF SameButLocals, cur
  <2>11. CleanLocalFlagsAndRegisters(m) = WithCurrent(n, plain, owned)
    BY <1>3 DEF CleanLocalFlagsAndRegisters, n, cur, plain, owned, block, old, new
  <2> QED BY <2>10, <2>11, <1>1 DEF SameButLocals
<1>4. cur.flags \in BOOLEAN
  BY <1>1, CurrentLevel
<1> QED BY <1>2, <1>3, <1>4

-----------------------------------------------------------------------------
(* The step pointer. *)

LEMMA StepPointer ==
    ASSUME NEW p \in Places
    PROVE  /\ \A n \in Nat \ {0} : Skip(p, n) \in Places
           /\ Back(p, 1) \in Places
           /\ Begin(p.program) \in Places
           /\ \A n \in Nat : Skip([p EXCEPT !.step = @ + 1], n) = Skip(p, n + 1)
           /\ \A n \in Nat \ {0} : Skip(p, n).program = p.program
           /\ p = [program |-> p.program, step |-> p.step]
<1>1. p = [program |-> p.program, step |-> p.step]
      /\ p.program \in 1 .. PROGRAMS /\ p.step \in 1 .. STEPS
  BY DEF Places
<1>2. STEPS \in Nat \ {0}
  BY ProgramsAssumption
<1>3. ASSUME NEW n \in Nat
      PROVE  Skip(p, n) = [program |-> p.program,
                           step |-> IF p.step + n < STEPS THEN p.step + n ELSE STEPS]
  BY <1>1 DEF Skip
<1>4. ASSUME NEW n \in Nat PROVE Skip(p, n) \in Places
  BY <1>1, <1>2, <1>3 DEF Places
<1>5. Back(p, 1) \in Places
  <2>1. Back(p, 1) = [program |-> p.program, step |-> IF 1 >= p.step - 1 THEN 1 ELSE p.step - 1]
    BY <1>1 DEF Back
  <2> QED BY <2>1, <1>1, <1>2 DEF Places
<1>6. Begin(p.program) \in Places
  BY <1>1, <1>2 DEF Begin, Places
<1>7. ASSUME NEW n \in Nat
      PROVE  Skip([p EXCEPT !.step = @ + 1], n) = Skip(p, n + 1)
  <2>1. [p EXCEPT !.step = @ + 1] = [program |-> p.program, step |-> p.step + 1]
    BY <1>1
  <2>2. Skip([program |-> p.program, step |-> p.step + 1], n) =
            [program |-> p.program,
             step |-> IF p.step + 1 + n < STEPS THEN p.step + 1 + n ELSE STEPS]
    BY DEF Skip
  <2>3. p.step + 1 + n = p.step + (n + 1)
    BY <1>1
  <2>4. n + 1 \in Nat
    OBVIOUS
  <2> QED BY <2>1, <2>2, <2>3, <2>4, <1>3
<1>8. \A n \in Nat : Skip(p, n).program = p.program
  BY <1>3
<1> QED BY <1>1, <1>4, <1>5, <1>6, <1>7, <1>8

-----------------------------------------------------------------------------
(* Returns. *)

LEMMA LevelsOf ==
    ASSUME NEW m, Sane(m)
    PROVE  /\ m.levels \in Seq(Headers) /\ m.levels # <<>> /\ Len(m.levels) \in Nat \ {0}
           /\ \A i \in 1 .. Len(m.levels) :
                 m.levels[i] \in Headers /\ m.levels[i].level \in Nat
                 /\ m.levels[i].return \in Places
           /\ \A i, j \in 1 .. Len(m.levels) : i < j => m.levels[i].level < m.levels[j].level
           /\ Level(m) = m.levels[Len(m.levels)].level /\ Level(m) \in Nat
           /\ Level(m) = 0 <=> Len(m.levels) = 1
           /\ m.levels[1].level = 0
           /\ \A i \in 1 .. Len(m.levels) : m.levels[i].level <= Level(m)
           /\ m.place \in Places /\ m.number \in Nat /\ Level(m) < m.number
<1>1. Chain(m.levels)
  BY DEF Sane
<1>2. m.levels \in Seq(Headers) /\ m.levels # <<>> /\ Len(m.levels) \in Nat \ {0}
  BY <1>1 DEF Chain
<1>3. \A i \in 1 .. Len(m.levels) : m.levels[i] \in Headers
  BY <1>2
<1>4. Level(m) = m.levels[Len(m.levels)].level /\ Level(m) \in Nat
  BY CurrentLevel DEF Level
<1>5. Level(m) = 0 <=> Len(m.levels) = 1
  <2>1. CASE Len(m.levels) = 1
    BY <2>1, <1>1, <1>4 DEF Chain
  <2>2. CASE Len(m.levels) # 1
    <3>1. 1 < Len(m.levels) /\ 1 \in 1 .. Len(m.levels) /\ Len(m.levels) \in 1 .. Len(m.levels)
      <4> DEFINE k == Len(m.levels)
      <4>1. k \in Nat \ {0} /\ k # 1
        BY <2>2, <1>2
      <4> HIDE DEF k
      <4>2. 1 < k /\ 1 \in 1 .. k /\ k \in 1 .. k
        BY <4>1
      <4> QED BY <4>2 DEF k
    <3>2. m.levels[1].level < m.levels[Len(m.levels)].level /\ m.levels[1].level = 0
      BY <3>1, <1>1 DEF Chain
    <3> QED BY <3>2, <2>2, <1>4
  <2> QED BY <2>1, <2>2
<1>6. \A i \in 1 .. Len(m.levels) : m.levels[i].level \in Nat /\ m.levels[i].return \in Places
  BY <1>3 DEF Headers
<1>7. ASSUME NEW i \in 1 .. Len(m.levels) PROVE m.levels[i].level <= Level(m)
  <2>1. CASE i = Len(m.levels)
    BY <2>1, <1>4
  <2>2. CASE i # Len(m.levels)
    <3>1. i < Len(m.levels) /\ Len(m.levels) \in 1 .. Len(m.levels)
      BY <2>2, <1>2
    <3>2. m.levels[i].level < Level(m)
      BY <3>1, <1>1, <1>4 DEF Chain
    <3> QED BY <3>2, <1>4, <1>6
  <2> QED BY <2>1, <2>2
<1>8. Level(m) < m.number
  BY <1>2, <1>4 DEF Sane
<1> QED BY <1>1, <1>2, <1>3, <1>4, <1>5, <1>6, <1>7, <1>8 DEF Chain, Sane

(* fnReturn above level 0 pops one level, and its blocks are given back    *)
(* with the sizes they have.                                               *)
LEMMA Returned ==
    ASSUME NEW m, Sane(m), Level(m) > 0, NEW skip \in {0, 1}
    PROVE  /\ Sane(FnReturn(m, skip))
           /\ Len(m.levels) > 1
           /\ Len(FnReturn(m, skip).levels) = Len(m.levels) - 1
           /\ \A i \in 1 .. Len(m.levels) - 1 : FnReturn(m, skip).levels[i] = m.levels[i]
           /\ FnReturn(m, skip).place = Skip(m.levels[Len(m.levels)].return, skip + 1)
<1> DEFINE cur == Current(m)
           n == WithoutRegisters(m)
           block == HeaderOf(cur.level)
           size == LevelSize(cur.flags, 0)
           owned == FreeC47Blocks(n.owned, block, size)
           p == Skip(cur.return, skip + 1)
           r == [levels |-> Front(n.levels), owned |-> owned,
                 number |-> n.number - 1, place |-> p]
<1>1. Len(m.levels) > 1
  BY LevelsOf
<1>2. Sane(n) /\ SameButLocals(m, n) /\ Current(n).registers = 0 /\ Current(n).flags = cur.flags
  BY RegistersGone
<1>3. cur.return \in Places /\ p \in Places
      /\ Skip([cur.return EXCEPT !.step = @ + 1], skip) = p
  <2>1. cur.return \in Places
    BY CurrentLevel
  <2>2. skip \in Nat /\ skip + 1 \in Nat \ {0}
    OBVIOUS
  <2> QED BY <2>1, <2>2, StepPointer
<1>4. FnReturn(m, skip) = r
  <2>1. cur.level > 0
    BY DEF Level
  <2> QED BY <2>1, <1>3 DEF FnReturn
<1> HIDE DEF n
<1>5. \A b : b \in Blocks(Current(n)) <=> b = block
  <2>1. Current(n) \in Headers /\ Current(n).level = cur.level
    BY <1>2, CurrentLevel DEF SameButLocals
  <2>2. \A b : b \in Blocks(Current(n)) <=> b \in Registers(cur.level, 0, 0)
    BY <2>1, <1>2, Claims
  <2>3. \A b : b \in Registers(cur.level, 0, 0) <=> b = block
    BY DEF Registers, RegisterOf, HeaderOf
  <2> QED BY <2>2, <2>3
<1>6. n.owned[block] = size
  <2>1. n.owned[block] = ClaimedBy(Current(n))[block]
    BY <1>2, <1>5, CurrentLevel
  <2>2. Current(n) \in Headers /\ Current(n).level = cur.level
    BY <1>2, CurrentLevel DEF SameButLocals
  <2>3. ClaimedBy(Current(n))[block] = LevelSize(Current(n).flags, Current(n).registers)
    BY <2>2, Claims
  <2> QED BY <2>1, <2>3, <1>2
<1>7. owned = [b \in DOMAIN n.owned \ {block} |-> n.owned[b]]
  BY <1>6 DEF FreeC47Blocks, Restrict
<1> HIDE DEF owned
<1>8. /\ owned = [b \in DOMAIN owned |-> owned[b]]
      /\ \A b : b \in DOMAIN owned <=> b \in DOMAIN n.owned /\ b \notin Blocks(Current(n))
      /\ \A b \in DOMAIN owned : owned[b] = n.owned[b]
  BY <1>5, <1>7
<1>9. Len(n.levels) = Len(m.levels) /\ Len(n.levels) > 1
  BY <1>1, <1>2 DEF SameButLocals
<1> HIDE DEF p
<1>10. Sane(r) /\ Len(r.levels) = Len(n.levels) - 1
  BY <1>2, <1>3, <1>8, <1>9, LevelPopped
<1>11. ASSUME NEW i \in 1 .. Len(m.levels) - 1 PROVE r.levels[i] = m.levels[i]
  <2>1. r.levels = Front(m.levels)
    BY <1>2 DEF SameButLocals
  <2> QED BY <2>1, LevelsOf, FrontOf
<1>12. r.place = p /\ cur.return = m.levels[Len(m.levels)].return
  BY CurrentLevel
<1> HIDE DEF r
<1> QED BY <1>1, <1>4, <1>9, <1>10, <1>11, <1>12 DEF p

(* At level 0 it goes to the beginning of the program. *)
LEMMA ReturnedAtBottom ==
    ASSUME NEW m, Sane(m), Level(m) = 0, NEW skip
    PROVE  Sane(FnReturn(m, skip)) /\ Len(FnReturn(m, skip).levels) = 1
<1>1. Sane([m EXCEPT !.place = Begin(m.place.program)])
      /\ [m EXCEPT !.place = Begin(m.place.program)].levels = m.levels
  BY LevelsOf, StepPointer, PlaceChanged
<1>2. FnReturn(m, skip) = CleanLocalFlagsAndRegisters([m EXCEPT !.place = Begin(m.place.program)])
  BY LevelsOf DEF FnReturn, Level
<1>3. Len(m.levels) = 1
  BY LevelsOf
<1> QED BY <1>1, <1>2, <1>3, Cleaned DEF SameButLocals

-----------------------------------------------------------------------------
(* The loop of returns. *)

LEMMA Smallest ==
    ASSUME NEW T, T \subseteq Nat, T # {}
    PROVE  \E n \in T : \A k \in T : n <= k
<1>1. \E n \in T : \A k \in T : ~(<<k, n>> \in OpToRel(<, Nat))
  BY NatLessThanWellFounded, WFMin
<1>2. PICK n \in T : \A k \in T : ~(<<k, n>> \in OpToRel(<, Nat))
  BY <1>1
<1>3. \A k \in T : ~(k < n)
  BY <1>2 DEF OpToRel
<1> QED BY <1>3

(* The machines the loop goes through, one after the other. *)
Loop(m, returned, k) ==
    returned = [n \in 0 .. k |-> IF n = 0 THEN m ELSE FnReturn(returned[n - 1], 0)]

LEMMA LoopExists ==
    ASSUME NEW m, NEW k \in Nat
    PROVE  \E returned : Loop(m, returned, k)
<1> DEFINE T == {n \in Nat : ~\E returned : Loop(m, returned, n)}
<1>1. SUFFICES T = {}
  OBVIOUS
<1>2. SUFFICES ASSUME T # {} PROVE FALSE
  OBVIOUS
<1>3. PICK n \in T : \A i \in T : n <= i
  BY <1>2, Smallest
<1>4. n # 0
  <2> DEFINE f == [i \in 0 .. 0 |-> m]
  <2>1. f = [i \in 0 .. 0 |-> IF i = 0 THEN m ELSE FnReturn(f[i - 1], 0)]
    OBVIOUS
  <2>2. Loop(m, f, 0)
    BY <2>1 DEF Loop
  <2> QED BY <2>2
<1>5. n - 1 \in Nat /\ n - 1 \notin T
  BY <1>3, <1>4
<1>6. PICK g : Loop(m, g, n - 1)
  BY <1>5
<1> DEFINE f == [i \in 0 .. n |-> IF i \in 0 .. n - 1 THEN g[i] ELSE FnReturn(g[n - 1], 0)]
<1>7. \A i \in 0 .. n : f[i] = IF i = 0 THEN m ELSE FnReturn(f[i - 1], 0)
  <2>1. TAKE i \in 0 .. n
  <2>2. CASE i = 0
    <3>1. 0 \in 0 .. n - 1 /\ 0 \in 0 .. n
      BY <1>5
    <3>2. f[0] = g[0]
      BY <3>1
    <3>3. g[0] = m
      BY <3>1, <1>6 DEF Loop
    <3> QED BY <2>2, <3>2, <3>3
  <2>3. CASE i # 0 /\ i \in 0 .. n - 1
    <3>1. i - 1 \in 0 .. n - 1 /\ i - 1 \in 0 .. n
      BY <2>3, <1>5
    <3>2. f[i] = g[i] /\ f[i - 1] = g[i - 1]
      BY <2>3, <3>1
    <3>3. g[i] = FnReturn(g[i - 1], 0)
      BY <2>3, <3>1, <1>6 DEF Loop
    <3> QED BY <2>3, <3>2, <3>3
  <2>4. CASE i = n
    <3>1. n - 1 \in 0 .. n - 1 /\ n - 1 \in 0 .. n /\ n \notin 0 .. n - 1 /\ n \in 0 .. n
      BY <1>5
    <3>2. f[n] = FnReturn(g[n - 1], 0) /\ f[n - 1] = g[n - 1]
      BY <3>1
    <3> QED BY <2>4, <3>2, <1>4
  <2> QED BY <2>2, <2>3, <2>4
<1>8. f = [i \in 0 .. n |-> f[i]]
  OBVIOUS
<1> HIDE DEF f
<1>9. Loop(m, f, n)
  BY <1>7, <1>8 DEF Loop
<1> QED BY <1>9

(* As long as levels are left, each round is sane and has one fewer. *)
LEMMA LoopReturns ==
    ASSUME NEW m, Sane(m), NEW returned, Loop(m, returned, Len(m.levels)),
           NEW n \in Nat, n < Len(m.levels)
    PROVE  /\ Sane(returned[n])
           /\ Len(returned[n].levels) = Len(m.levels) - n
           /\ \A i \in 1 .. Len(m.levels) - n : returned[n].levels[i] = m.levels[i]
<1> DEFINE k == Len(m.levels)
           Good(i) == /\ Sane(returned[i])
                      /\ Len(returned[i].levels) = k - i
                      /\ \A j \in 1 .. k - i : returned[i].levels[j] = m.levels[j]
           T == {i \in Nat : i < k /\ ~Good(i)}
<1>1. SUFFICES ASSUME T # {} PROVE FALSE
  OBVIOUS
<1>2. PICK i \in T : \A j \in T : i <= j
  <2>1. T \subseteq Nat
    OBVIOUS
  <2> HIDE DEF T
  <2> QED BY <1>1, <2>1, Smallest
<1>3. k \in Nat \ {0}
  BY LevelsOf
<1> HIDE DEF k, Good
<1>4. i # 0
  <2>1. returned[0] = m
    <3>1. 0 \in 0 .. k
      BY <1>3
    <3> QED BY <3>1 DEF Loop, k
  <2>2. Good(0)
    BY <2>1, <1>3 DEF k, Good
  <2> QED BY <2>2, <1>2
<1> DEFINE o == i - 1
<1>5. o \in Nat /\ o < k /\ o \notin T /\ i = o + 1 /\ i < k /\ i \in 0 .. k
  BY <1>2, <1>3, <1>4
<1>6. Good(o)
  BY <1>5
<1>7. returned[i] = FnReturn(returned[o], 0)
  BY <1>4, <1>5 DEF Loop, k
<1> HIDE DEF o
<1>8. Level(returned[o]) > 0
  <2>1. Sane(returned[o]) /\ Len(returned[o].levels) = k - o /\ k - o # 1
    BY <1>3, <1>5, <1>6 DEF Good
  <2>2. Level(returned[o]) # 0 /\ Level(returned[o]) \in Nat
    BY <2>1, LevelsOf
  <2> QED BY <2>2
<1>9. Good(i)
  <2>1. 0 \in {0, 1}
    OBVIOUS
  <2>2. Sane(returned[i]) /\ Len(returned[i].levels) = k - o - 1
        /\ \A j \in 1 .. k - o - 1 : returned[i].levels[j] = returned[o].levels[j]
    <3>1. Sane(returned[o]) /\ Len(returned[o].levels) = k - o
      BY <1>6 DEF Good
    <3>2. /\ Sane(returned[i]) /\ Len(returned[i].levels) = Len(returned[o].levels) - 1
          /\ \A j \in 1 .. Len(returned[o].levels) - 1 :
                returned[i].levels[j] = returned[o].levels[j]
      BY <2>1, <3>1, <1>7, <1>8, Returned
    <3> QED BY <3>1, <3>2
  <2>3. \A j \in 1 .. k - i : j \in 1 .. k - o - 1 /\ j \in 1 .. k - o
    BY <1>3, <1>5
  <2>4. k - o - 1 = k - i
    BY <1>3, <1>5
  <2> QED BY <2>2, <2>3, <2>4, <1>6 DEF Good
<1> QED BY <1>9

(* What is left after the unwinding down to a level. *)
LEMMA Unwound ==
    ASSUME NEW m, Sane(m), NEW level \in Nat
    PROVE  /\ Sane(UnwindTo(m, level))
           /\ Level(UnwindTo(m, level)) <= level
           /\ Len(UnwindTo(m, level).levels) \in 1 .. Len(m.levels)
           /\ \A i \in 1 .. Len(UnwindTo(m, level).levels) :
                 UnwindTo(m, level).levels[i] = m.levels[i]
           /\ \A i \in 1 .. Len(m.levels) :
                 m.levels[i].level <= level => i <= Len(UnwindTo(m, level).levels)
<1> DEFINE k == Len(m.levels)
           returned == CHOOSE returned : Loop(m, returned, k)
           Done(n) == /\ Level(returned[n]) <= level
                      /\ \A i \in 0 .. n - 1 : Level(returned[i]) > level
           done == CHOOSE n \in 0 .. k : Done(n)
<1>0. k \in Nat \ {0}
  BY LevelsOf
<1>1. Loop(m, returned, k)
  <2>1. \E f : Loop(m, f, k)
    BY <1>0, LoopExists
  <2> QED BY <2>1
<1>2. UnwindTo(m, level) = returned[done]
  BY DEF UnwindTo, Loop
<1> HIDE DEF returned
<1>3. \A n \in 0 .. k - 1 :
         /\ Sane(returned[n])
         /\ Len(returned[n].levels) = k - n
         /\ \A i \in 1 .. k - n : returned[n].levels[i] = m.levels[i]
  BY <1>0, <1>1, LoopReturns
<1>4. \A n \in 0 .. k - 1 :
         Level(returned[n]) = m.levels[k - n].level /\ Level(returned[n]) \in Nat
  <2>1. TAKE n \in 0 .. k - 1
  <2>2. Level(returned[n]) = returned[n].levels[k - n].level /\ Level(returned[n]) \in Nat
    BY <1>3, LevelsOf
  <2>3. k - n \in 1 .. k - n
    BY <1>0
  <2>4. returned[n].levels[k - n] = m.levels[k - n]
    BY <2>3, <1>3
  <2> QED BY <2>2, <2>4
<1>5. Level(returned[k - 1]) = 0
  <2>1. k - 1 \in 0 .. k - 1 /\ k - (k - 1) = 1
    BY <1>0
  <2> QED BY <2>1, <1>3, LevelsOf
<1>6. \E n \in 0 .. k : Done(n)
  <2> DEFINE T == {n \in 0 .. k - 1 : Level(returned[n]) <= level}
  <2>1. T \subseteq Nat /\ k - 1 \in T
    BY <1>0, <1>5
  <2>2. PICK n \in T : \A i \in T : n <= i
    BY <2>1, Smallest
  <2>3. n \in 0 .. k /\ n \in 0 .. k - 1 /\ Level(returned[n]) <= level
    BY <2>2, <1>0
  <2>4. \A i \in 0 .. n - 1 : i \in 0 .. k - 1 /\ i \notin T
    BY <2>2, <2>3
  <2>5. \A i \in 0 .. n - 1 : Level(returned[i]) > level
    BY <2>3, <2>4, <1>4
  <2> QED BY <2>3, <2>5
<1>7. done \in 0 .. k /\ Done(done)
  BY <1>6
<1> HIDE DEF done
<1>8. done \in 0 .. k - 1
  <2>1. SUFFICES ASSUME done = k PROVE FALSE
    BY <1>0, <1>7
  <2>2. k - 1 \in 0 .. done - 1
    BY <2>1, <1>0
  <2> QED BY <2>2, <1>5, <1>7
<1>9. ASSUME NEW i \in 1 .. k, m.levels[i].level <= level PROVE i <= k - done
  <2>1. SUFFICES ASSUME i > k - done PROVE FALSE
    BY <1>0, <1>8
  <2>2. k - i \in 0 .. done - 1 /\ k - i \in 0 .. k - 1 /\ k - (k - i) = i
    BY <2>1, <1>0, <1>8
  <2>3. Level(returned[k - i]) = m.levels[i].level /\ Level(returned[k - i]) \in Nat
    BY <2>2, <1>4
  <2>4. Level(returned[k - i]) > level
    BY <2>2, <1>7
  <2> QED BY <2>3, <2>4, <1>9
<1>10. k - done \in 1 .. k /\ done \in 0 .. k - 1
  BY <1>0, <1>8
<1> QED BY <1>2, <1>3, <1>7, <1>9, <1>10

LEMMA UnwoundAll ==
    ASSUME NEW m, Sane(m)
    PROVE  Sane(UnwindAll(m)) /\ Len(UnwindAll(m).levels) = 1
<1>1. Sane(UnwindTo(m, 0)) /\ Len(UnwindTo(m, 0).levels) = 1
  <2>1. 0 \in Nat
    OBVIOUS
  <2>2. Sane(UnwindTo(m, 0)) /\ Level(UnwindTo(m, 0)) <= 0
    BY <2>1, Unwound
  <2>3. Level(UnwindTo(m, 0)) = 0
    BY <2>2, LevelsOf
  <2> QED BY <2>2, <2>3, LevelsOf
<1> QED BY <1>1, Cleaned DEF UnwindAll, SameButLocals

-----------------------------------------------------------------------------
(* Calls. *)

(* The same levels, however their functions are written. *)
SameLevels(levels, others) ==
    /\ Len(others) = Len(levels)
    /\ \A i \in 1 .. Len(levels) : others[i] = levels[i]

LEMMA LabelsArePlaces == \A p \in Labels : Begin(p) \in Places
<1>1. STEPS \in Nat \ {0} /\ Labels \subseteq 1 .. PROGRAMS
  BY ProgramsAssumption
<1> QED BY <1>1 DEF Begin, Places

(* fnExecute adds one level, numbered higher than all others, that returns *)
(* to the call, or it leaves the levels alone.                             *)
LEMMA Called ==
    ASSUME NEW m, Sane(m), NEW label \in Labels \cup {NoLabel}, NEW error,
           NEW x \in FnExecuteRunning(m, label, error)
    PROVE  /\ Sane(x.machine)
           /\ x.error \in {"NONE", "ERROR", error}
           /\ x.pushed => /\ SameLevels(Append(m.levels, NewLevel(m)), x.machine.levels)
                          /\ Level(x.machine) > Level(m)
                          /\ x.machine.place = Begin(label)
           /\ ~x.pushed => SameLevels(m.levels, x.machine.levels)
<1> DEFINE called == [m EXCEPT !.number = @ + 1]
           pushed(p) == [levels |-> Append(m.levels, NewLevel(m)),
                         owned  |-> AllocC47Blocks(m.owned, {HeaderOf(m.number)}, SizeOfHeader),
                         number |-> m.number + 1,
                         place  |-> p]
           now  == pushed(m.place)
           back == FnReturn(now, 0)
           k    == Len(m.levels)
<1>0. m.place \in Places /\ m.number \in Nat /\ k \in Nat \ {0} /\ Level(m) < m.number
      /\ Level(m) \in Nat
  BY LevelsOf
<1>1. Sane(called) /\ called.levels = m.levels
  <2>1. called = [levels |-> m.levels, owned |-> m.owned, number |-> m.number + 1,
                  place |-> m.place]
    BY DEF Sane
  <2>2. \A i \in 1 .. Len(m.levels) : m.levels[i].level < m.number + 1
    <3>1. \A i \in 1 .. Len(m.levels) : m.levels[i].level < m.number /\ m.levels[i].level \in Nat
      BY LevelsOf DEF Sane
    <3> QED BY <3>1, <1>0
  <2> QED BY <2>1, <2>2, <1>0 DEF Sane
<1>2. ASSUME NEW p \in Places
      PROVE  /\ Sane(pushed(p)) /\ pushed(p).levels = Append(m.levels, NewLevel(m))
             /\ pushed(p).place = p /\ Len(pushed(p).levels) = k + 1
             /\ Level(pushed(p)) = m.number /\ Front(pushed(p).levels) = m.levels
  <2>1. NewLevel(m).level = m.number
    BY DEF NewLevel
  <2> QED BY <2>1, LevelPushed DEF Level
<1>3. /\ Sane(back)
      /\ SameLevels(m.levels, back.levels)
  <2>1. Sane(now) /\ Len(now.levels) = k + 1 /\ Level(now) > 0 /\ Front(now.levels) = m.levels
    <3> HIDE DEF pushed
    <3> QED BY <1>0, <1>2
  <2>2. \A i \in 1 .. k : now.levels[i] = m.levels[i]
    <3>1. now.levels = Append(m.levels, NewLevel(m)) /\ m.levels \in Seq(Headers)
      BY LevelsOf
    <3> HIDE DEF now
    <3> QED BY <3>1, AppendFront
  <2> HIDE DEF now
  <2>3. 0 \in {0, 1}
    OBVIOUS
  <2>4. Sane(back) /\ Len(back.levels) = k + 1 - 1
        /\ \A i \in 1 .. k + 1 - 1 : back.levels[i] = now.levels[i]
    BY <2>1, <2>3, Returned
  <2>5. k + 1 - 1 = k
    BY <1>0
  <2> HIDE DEF back, k
  <2> QED BY <2>2, <2>4, <2>5 DEF SameLevels, k
<1>4. \/ x = [machine |-> called, error |-> "ERROR", pushed |-> FALSE]
      \/ x = IF label = NoLabel \/ error # "NONE"
             THEN [machine |-> [back EXCEPT !.place = Back(@, 1)],
                   error   |-> IF error # "NONE" THEN error ELSE "ERROR",
                   pushed  |-> FALSE]
             ELSE [machine |-> pushed(Begin(label)),
                   error   |-> "NONE", pushed |-> TRUE]
  BY DEF FnExecuteRunning
<1>5. CASE x = [machine |-> called, error |-> "ERROR", pushed |-> FALSE]
  <2> HIDE DEF called
  <2> QED BY <1>1, <1>5 DEF SameLevels
<1>6. CASE label = NoLabel \/ error # "NONE"
  <2>1. Back(back.place, 1) \in Places
    BY <1>3, LevelsOf, StepPointer
  <2> DEFINE n == [back EXCEPT !.place = Back(@, 1)]
  <2>2. n = [back EXCEPT !.place = Back(back.place, 1)]
    OBVIOUS
  <2> HIDE DEF back
  <2>3. Sane(n) /\ n.levels = back.levels
    BY <2>1, <2>2, <1>3, PlaceChanged
  <2>4. SameLevels(m.levels, n.levels)
    BY <2>3, <1>3
  <2> HIDE DEF n
  <2>5. x = [machine |-> n, error |-> IF error # "NONE" THEN error ELSE "ERROR", pushed |-> FALSE]
        \/ x = [machine |-> called, error |-> "ERROR", pushed |-> FALSE]
    BY <1>4, <1>6 DEF n
  <2> QED BY <2>3, <2>4, <2>5, <1>5
<1>7. CASE label # NoLabel /\ error = "NONE"
  <2>1. Begin(label) \in Places
    BY <1>7, LabelsArePlaces
  <2> DEFINE n == pushed(Begin(label))
  <2> HIDE DEF now, back
  <2>3. Sane(n) /\ n.levels = Append(m.levels, NewLevel(m)) /\ n.place = Begin(label)
        /\ Level(n) > Level(m)
    <3> HIDE DEF pushed
    <3> QED BY <2>1, <1>0, <1>2
  <2> HIDE DEF n
  <2>4. x = [machine |-> n, error |-> "NONE", pushed |-> TRUE]
        \/ x = [machine |-> called, error |-> "ERROR", pushed |-> FALSE]
    BY <1>4, <1>7 DEF n
  <2> QED BY <2>3, <2>4, <1>5 DEF SameLevels
<1> QED BY <1>5, <1>6, <1>7

LEMMA InitiallySane ==
    Sane(InitialMachine) /\ Len(InitialMachine.levels) = 1
<1> DEFINE m == InitialMachine
           l == [level |-> 0, return |-> Begin(1), flags |-> FALSE, registers |-> 0]
<1>1. Begin(1) \in Places /\ 0 \in 0 .. 99
  BY ProgramsAssumption DEF Begin, Places
<1>2. l \in Headers /\ l.level = 0 /\ l.registers = 0 /\ l.flags = FALSE
  BY <1>1 DEF Headers
<1>3. m.levels = <<l>> /\ m.owned = [b \in {HeaderOf(0)} |-> SizeOfHeader]
      /\ m.number = 1 /\ m.place = Begin(1)
      /\ m = [levels |-> m.levels, owned |-> m.owned, number |-> m.number, place |-> m.place]
  BY DEF InitialMachine
<1> HIDE DEF l, m
<1>4. m.levels \in Seq(Headers) /\ Len(m.levels) = 1 /\ m.levels # <<>> /\ m.levels[1] = l
  BY <1>2, <1>3
<1>5. \A i \in 1 .. Len(m.levels) : i = 1
  BY <1>4
<1>6. Chain(m.levels)
  BY <1>2, <1>4, <1>5 DEF Chain
<1>7. \A b : b \in Blocks(l) <=> b = HeaderOf(0)
  <2>1. \A b : b \in Blocks(l) <=> b \in Registers(0, 0, 0)
    BY <1>2, Claims
  <2>2. \A b : b \in Registers(0, 0, 0) <=> b = HeaderOf(0)
    BY DEF Registers, RegisterOf, HeaderOf
  <2> QED BY <2>1, <2>2
<1>8. ClaimedBy(l)[HeaderOf(0)] = SizeOfHeader
  <2>1. ClaimedBy(l)[HeaderOf(0)] = LevelSize(FALSE, 0)
    BY <1>2, Claims
  <2> QED BY <2>1 DEF LevelSize, SizeOfHeader
<1>9. Owns(m.levels, m.owned)
  BY <1>3, <1>4, <1>5, <1>7, <1>8 DEF Owns
<1> QED BY <1>1, <1>2, <1>3, <1>4, <1>5, <1>6, <1>9 DEF Sane, m
==============================================================================

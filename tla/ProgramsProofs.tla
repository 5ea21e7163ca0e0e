--------------------------- MODULE ProgramsProofs ----------------------------
(***************************************************************************)
(* Theorems about Programs, for any programs, any depth of nesting and any *)
(* number of keys inside of yields: what the C stack says of the status.   *)
(*                                                                         *)
(* The statuses in which keys are swallowed each need somebody who will    *)
(* leave them.  RUNNING needs an engine that is not nested, since a nested *)
(* one does not touch the status when it ends; the three of a pause need   *)
(* fnPause.  A pause puts back the status it found, and a nested engine    *)
(* was started in status RUNNING, so each of these frames has, further     *)
(* down the stack, what that status needs.                                 *)
(***************************************************************************)
EXTENDS Programs, SubroutinesProofs, FiniteSetTheorems, TLAPS

Pausing == {"PAUSED", "KEY_PRESSED", "RESUMING"}

IsOutermost(x) == x.kind = "engine" /\ ~x.nested

(* Below place k of the C stack f is what leaves a status again. *)
Backed(f, k, status) ==
    /\ status = "RUNNING" => \E j \in 1 .. k - 1 : IsOutermost(f[j])
    /\ status \in Pausing => \E j \in 1 .. k - 1 : f[j].kind = "pause"

FrameBacked(f, k) ==
    /\ f[k].kind = "pause" => Backed(f, k, f[k].previous)
    /\ f[k].kind = "engine" /\ f[k].nested => Backed(f, k, "RUNNING")

(* The fields a frame has, whatever the machine's places and levels. *)
EngineOf(V) == [kind : {"engine"}, nested : BOOLEAN, single : V, start : V, at : V, sub : V, adv : V]
ExecOf(V)   == [kind : {"exec"}, level : V, place : V]
SolveOf(V)  == [kind : {"solve"}, target : V, evals : V, bad : V]
PauseOf(V)  == [kind : {"pause"}, previous : V]

Shaped(x) == \E V : x \in EngineOf(V) \cup ExecOf(V) \cup SolveOf(V) \cup PauseOf(V)

(* What a frame is while it is on the stack. *)
Similar(x, y) ==
    /\ x.kind = y.kind
    /\ x.kind = "engine" => x.nested = y.nested
    /\ x.kind = "pause" => x.previous = y.previous

Solves(f) == {k \in 1 .. Len(f) : f[k].kind = "solve"}

IsStack(f) ==
    /\ \E S : f \in Seq(S)
    /\ \A k \in 1 .. Len(f) : Shaped(f[k]) /\ FrameBacked(f, k)

(* The C stack goes with the status and with the depth of nesting. *)
Sound(f, status, depth) ==
    /\ IsStack(f)
    /\ Backed(f, Len(f) + 1, status)
    /\ depth = Cardinality(Solves(f))

Inv == Sound(frames, programRunStop, engineNestingDepth)

AtRest(status) == status # "RUNNING" /\ status \notin Pausing

-----------------------------------------------------------------------------
(* The C stack. *)

(* What is under a frame does not change when a frame below becomes one    *)
(* like it.                                                                *)
LEMMA StillBacked ==
    ASSUME NEW f, NEW g, NEW n \in Nat, \A k \in 1 .. n : Similar(f[k], g[k])
    PROVE  /\ \A s : \A k \in 1 .. n + 1 : Backed(f, k, s) => Backed(g, k, s)
           /\ \A k \in 1 .. n : FrameBacked(f, k) => FrameBacked(g, k)
<1>1. \A s : \A k \in 1 .. n + 1 : Backed(f, k, s) => Backed(g, k, s)
  BY DEF Backed, Similar, IsOutermost
<1>2. \A k \in 1 .. n : FrameBacked(f, k) => FrameBacked(g, k)
  BY <1>1 DEF FrameBacked, Similar
<1> QED BY <1>1, <1>2

LEMMA BackedHigher ==
    ASSUME NEW f, NEW n \in Nat, NEW s, Backed(f, n, s)
    PROVE  Backed(f, n + 1, s)
BY DEF Backed

LEMMA SolvesAreFinite ==
    ASSUME NEW S, NEW f \in Seq(S)
    PROVE  IsFiniteSet(Solves(f)) /\ Cardinality(Solves(f)) \in Nat
<1>1. IsFiniteSet(1 .. Len(f))
  BY FS_Interval
<1>2. Solves(f) \subseteq 1 .. Len(f)
  BY DEF Solves
<1>3. IsFiniteSet(Solves(f))
  BY <1>1, <1>2, FS_Subset
<1> QED BY <1>3, FS_CardinalityType

(* A frame is pushed. *)
LEMMA Pushed ==
    ASSUME NEW f, NEW x, IsStack(f), Shaped(x),
           x.kind = "pause" => Backed(f, Len(f) + 1, x.previous),
           x.kind = "engine" /\ x.nested => Backed(f, Len(f) + 1, "RUNNING")
    PROVE  /\ IsStack(Append(f, x))
           /\ \A s : Backed(f, Len(f) + 1, s) => Backed(Append(f, x), Len(Append(f, x)) + 1, s)
           /\ IsOutermost(x) => Backed(Append(f, x), Len(Append(f, x)) + 1, "RUNNING")
           /\ x.kind = "pause" =>
                 \A s \in Pausing : Backed(Append(f, x), Len(Append(f, x)) + 1, s)
           /\ Cardinality(Solves(Append(f, x))) =
                 Cardinality(Solves(f)) + IF x.kind = "solve" THEN 1 ELSE 0
<1> DEFINE g == Append(f, x)
           n == Len(f)
<1>1. PICK S : f \in Seq(S)
  BY DEF IsStack
<1>2. n \in Nat
  BY <1>1
<1>3. /\ \E T : g \in Seq(T)
      /\ Len(g) = n + 1 /\ g[n + 1] = x /\ \A k \in 1 .. n : g[k] = f[k]
  BY <1>1, AppendFront
<1>4. Solves(g) = IF x.kind = "solve" THEN Solves(f) \cup {n + 1} ELSE Solves(f)
  <2>1. \A k : k \in Solves(g) <=> k \in 1 .. n + 1 /\ g[k].kind = "solve"
    BY <1>3 DEF Solves
  <2>2. \A k : k \in Solves(f) <=> k \in 1 .. n /\ f[k].kind = "solve"
    BY DEF Solves
  <2> HIDE DEF g
  <2>3. CASE x.kind = "solve"
    <3>1. \A k : k \in Solves(g) <=> k \in Solves(f) \/ k = n + 1
      BY <1>2, <1>3, <2>1, <2>2, <2>3
    <3> QED BY <2>3, <3>1
  <2>4. CASE x.kind # "solve"
    <3>1. \A k : k \in Solves(g) <=> k \in Solves(f)
      BY <1>2, <1>3, <2>1, <2>2, <2>4
    <3> QED BY <2>4, <3>1
  <2> QED BY <2>3, <2>4
<1>5. IsFiniteSet(Solves(f)) /\ Cardinality(Solves(f)) \in Nat /\ n + 1 \notin Solves(f)
  BY <1>1, <1>2, SolvesAreFinite DEF Solves
<1>6. Cardinality(Solves(g)) = Cardinality(Solves(f)) + IF x.kind = "solve" THEN 1 ELSE 0
  <2>1. CASE x.kind = "solve"
    <3>1. Cardinality(Solves(f) \cup {n + 1}) = Cardinality(Solves(f)) + 1
      BY <1>5, FS_AddElement
    <3> QED BY <1>4, <2>1, <3>1
  <2>2. CASE x.kind # "solve"
    BY <1>4, <1>5, <2>2
  <2> QED BY <2>1, <2>2
<1> HIDE DEF g
<1>7. \A k \in 1 .. n : Similar(f[k], g[k])
  BY <1>3 DEF Similar
<1>8. /\ \A s : \A k \in 1 .. n + 1 : Backed(f, k, s) => Backed(g, k, s)
      /\ \A k \in 1 .. n : FrameBacked(g, k) /\ Shaped(g[k])
  BY <1>2, <1>3, <1>7, StillBacked DEF IsStack
<1>9. FrameBacked(g, n + 1) /\ Shaped(g[n + 1])
  BY <1>2, <1>3, <1>8 DEF FrameBacked
<1>10. IsStack(g)
  BY <1>2, <1>3, <1>8, <1>9 DEF IsStack
<1>11. \A s : Backed(f, n + 1, s) => Backed(g, Len(g) + 1, s)
  BY <1>2, <1>3, <1>8, BackedHigher
<1>12. IsOutermost(x) => Backed(g, Len(g) + 1, "RUNNING")
  BY <1>2, <1>3 DEF Backed, Pausing
<1>13. x.kind = "pause" => \A s \in Pausing : Backed(g, Len(g) + 1, s)
  BY <1>2, <1>3 DEF Backed, Pausing
<1> QED BY <1>6, <1>10, <1>11, <1>12, <1>13 DEF g

(* The running function returns. *)
LEMMA Popped ==
    ASSUME NEW f, IsStack(f), f # <<>>
    PROVE  /\ IsStack(Front(f))
           /\ Last(f).kind = "pause" => Backed(Front(f), Len(Front(f)) + 1, Last(f).previous)
           /\ Cardinality(Solves(f)) \in Nat /\ Cardinality(Solves(Front(f))) \in Nat
           /\ Cardinality(Solves(f)) =
                 Cardinality(Solves(Front(f))) + IF Last(f).kind = "solve" THEN 1 ELSE 0
<1> DEFINE g == Front(f)
           x == Last(f)
           n == Len(g)
<1>1. PICK S : f \in Seq(S)
  BY DEF IsStack
<1>2. /\ g \in Seq(S) /\ n \in Nat /\ Len(f) = n + 1 /\ x = f[n + 1]
      /\ \A k \in 1 .. n : g[k] = f[k]
  BY <1>1, FrontLast
<1>3. Solves(f) = IF x.kind = "solve" THEN Solves(g) \cup {n + 1} ELSE Solves(g)
  <2>1. \A k : k \in Solves(f) <=> k \in 1 .. n + 1 /\ f[k].kind = "solve"
    BY <1>2 DEF Solves
  <2>2. \A k : k \in Solves(g) <=> k \in 1 .. n /\ g[k].kind = "solve"
    BY DEF Solves
  <2> HIDE DEF g, x
  <2>3. CASE x.kind = "solve"
    <3>1. \A k : k \in Solves(f) <=> k \in Solves(g) \/ k = n + 1
      BY <1>2, <2>1, <2>2, <2>3
    <3> QED BY <2>3, <3>1
  <2>4. CASE x.kind # "solve"
    <3>1. \A k : k \in Solves(f) <=> k \in Solves(g)
      BY <1>2, <2>1, <2>2, <2>4
    <3> QED BY <2>4, <3>1
  <2> QED BY <2>3, <2>4
<1>4. IsFiniteSet(Solves(g)) /\ Cardinality(Solves(g)) \in Nat /\ n + 1 \notin Solves(g)
  <2>1. IsFiniteSet(Solves(g)) /\ Cardinality(Solves(g)) \in Nat
    BY <1>2, SolvesAreFinite
  <2>2. n + 1 \notin Solves(g)
    BY <1>2 DEF Solves
  <2> QED BY <2>1, <2>2
<1>5. Cardinality(Solves(f)) = Cardinality(Solves(g)) + IF x.kind = "solve" THEN 1 ELSE 0
  <2>1. CASE x.kind = "solve"
    <3>1. Cardinality(Solves(g) \cup {n + 1}) = Cardinality(Solves(g)) + 1
      BY <1>4, FS_AddElement
    <3> QED BY <1>3, <2>1, <3>1
  <2>2. CASE x.kind # "solve"
    BY <1>3, <1>4, <2>2
  <2> QED BY <2>1, <2>2
<1>6. Cardinality(Solves(f)) \in Nat
  BY <1>1, SolvesAreFinite
<1> HIDE DEF g, x
<1>7. \A k \in 1 .. n : Similar(f[k], g[k])
  BY <1>2 DEF Similar
<1>8. /\ \A s : \A k \in 1 .. n + 1 : Backed(f, k, s) => Backed(g, k, s)
      /\ \A k \in 1 .. n : FrameBacked(g, k) /\ Shaped(g[k])
  <2>1. /\ \A s : \A k \in 1 .. n + 1 : Backed(f, k, s) => Backed(g, k, s)
        /\ \A k \in 1 .. n : FrameBacked(f, k) => FrameBacked(g, k)
    BY <1>2, <1>7, StillBacked
  <2> QED BY <1>2, <2>1 DEF IsStack
<1>9. IsStack(g)
  BY <1>2, <1>8 DEF IsStack
<1>11. x.kind = "pause" => Backed(g, n + 1, x.previous)
  <2>1. FrameBacked(f, n + 1)
    BY <1>2 DEF IsStack
  <2> QED BY <1>2, <1>8, <2>1 DEF FrameBacked
<1> QED BY <1>4, <1>5, <1>6, <1>9, <1>11 DEF g, x

LEMMA PoppedUnder ==
    ASSUME NEW f, IsStack(f), f # <<>>, NEW s, Backed(f, Len(f) + 1, s),
           s = "RUNNING" => ~IsOutermost(Last(f)), s \in Pausing => Last(f).kind # "pause"
    PROVE  Backed(Front(f), Len(Front(f)) + 1, s)
<1>1. PICK S : f \in Seq(S)
  BY DEF IsStack
<1>2. PICK n : n = Len(Front(f))
  OBVIOUS
<1>3. PICK g : g = Front(f)
  OBVIOUS
<1>4. /\ n \in Nat /\ Len(f) = n + 1 /\ Last(f) = f[n + 1]
      /\ \A k \in 1 .. n : g[k] = f[k]
  BY <1>1, <1>2, <1>3, FrontLast
<1>5. Backed(f, n + 1, s)
  BY <1>4 DEF Backed
<1>6. Backed(g, n + 1, s)
  BY <1>4, <1>5 DEF Backed, IsOutermost
<1> QED BY <1>2, <1>3, <1>6

(* The running function goes on, its frame changed. *)
LEMMA Replaced ==
    ASSUME NEW f, NEW y, IsStack(f), f # <<>>, Shaped(y), Similar(Last(f), y)
    PROVE  /\ IsStack(Append(Front(f), y))
           /\ \A s : Backed(f, Len(f) + 1, s)
                    => Backed(Append(Front(f), y), Len(Append(Front(f), y)) + 1, s)
           /\ Cardinality(Solves(Append(Front(f), y))) = Cardinality(Solves(f))
<1> DEFINE g == Append(Front(f), y)
           n == Len(f)
<1>1. PICK S : f \in Seq(S)
  BY DEF IsStack
<1>2. /\ Front(f) \in Seq(S) /\ n \in Nat \ {0} /\ Len(Front(f)) = n - 1 /\ Last(f) = f[n]
      /\ \A k \in 1 .. n - 1 : Front(f)[k] = f[k]
  BY <1>1, FrontLast
<1>3. /\ \E T : g \in Seq(T)
      /\ Len(g) = n /\ g[n] = y /\ \A k \in 1 .. n - 1 : g[k] = f[k]
  <2>1. /\ \E T : g \in Seq(T)
        /\ Len(g) = Len(Front(f)) + 1 /\ g[Len(Front(f)) + 1] = y
        /\ \A k \in 1 .. Len(Front(f)) : g[k] = Front(f)[k]
    BY <1>2, AppendFront
  <2> HIDE DEF g
  <2> QED BY <1>2, <2>1
<1> HIDE DEF g
<1>4. \A k \in 1 .. n : Similar(f[k], g[k])
  BY <1>2, <1>3 DEF Similar
<1>5. /\ \A s : \A k \in 1 .. n + 1 : Backed(f, k, s) => Backed(g, k, s)
      /\ \A k \in 1 .. n : FrameBacked(g, k)
  BY <1>2, <1>4, StillBacked DEF IsStack
<1>6. \A k \in 1 .. n : Shaped(g[k])
  BY <1>2, <1>3 DEF IsStack
<1>7. Solves(g) = Solves(f)
  BY <1>3, <1>4 DEF Solves, Similar
<1>8. n + 1 \in 1 .. n + 1
  BY <1>2
<1> QED BY <1>3, <1>5, <1>6, <1>7, <1>8 DEF IsStack, g

-----------------------------------------------------------------------------
(* Frames and statuses together. *)

LEMMA StatusChanged ==
    ASSUME NEW f, NEW s, NEW d, Sound(f, s, d), NEW t,
           t = s \/ AtRest(t) \/ (s \in Pausing /\ t \in Pausing)
    PROVE  Sound(f, t, d)
BY DEF Sound, Backed, AtRest, Pausing

LEMMA PushedSound ==
    ASSUME NEW f, NEW s, NEW d, Sound(f, s, d), NEW x, Shaped(x),
           x.kind = "pause" => x.previous = s,
           x.kind = "engine" /\ x.nested => s = "RUNNING",
           NEW t,
           \/ t = s \/ AtRest(t) \/ (t = "RUNNING" /\ IsOutermost(x))
           \/ (t \in Pausing /\ x.kind = "pause")
    PROVE  Sound(Append(f, x), t, d + IF x.kind = "solve" THEN 1 ELSE 0)
<1>1. /\ IsStack(Append(f, x))
      /\ \A r : Backed(f, Len(f) + 1, r) => Backed(Append(f, x), Len(Append(f, x)) + 1, r)
      /\ IsOutermost(x) => Backed(Append(f, x), Len(Append(f, x)) + 1, "RUNNING")
      /\ x.kind = "pause" =>
            \A r \in Pausing : Backed(Append(f, x), Len(Append(f, x)) + 1, r)
      /\ Cardinality(Solves(Append(f, x))) =
            Cardinality(Solves(f)) + IF x.kind = "solve" THEN 1 ELSE 0
  BY Pushed DEF Sound
<1>2. AtRest(t) => Backed(Append(f, x), Len(Append(f, x)) + 1, t)
  BY DEF Backed, AtRest
<1>3. Backed(Append(f, x), Len(Append(f, x)) + 1, t)
  BY <1>1, <1>2 DEF Sound
<1> QED BY <1>1, <1>3 DEF Sound

LEMMA PoppedSound ==
    ASSUME NEW f, NEW s, NEW d, Sound(f, s, d), f # <<>>, NEW t,
           \/ /\ t = s
              /\ s = "RUNNING" => ~IsOutermost(Last(f))
              /\ s \in Pausing => Last(f).kind # "pause"
           \/ AtRest(t)
           \/ Last(f).kind = "pause" /\ t = Last(f).previous
    PROVE  Sound(Front(f), t, d - IF Last(f).kind = "solve" THEN 1 ELSE 0)
<1>1. IsStack(f) /\ Backed(f, Len(f) + 1, s) /\ d = Cardinality(Solves(f))
  BY DEF Sound
<1>2. ASSUME t = s, s = "RUNNING" => ~IsOutermost(Last(f)),
             s \in Pausing => Last(f).kind # "pause"
      PROVE  Backed(Front(f), Len(Front(f)) + 1, t)
  BY <1>1, <1>2, PoppedUnder
<1>3. Last(f).kind = "pause" => Backed(Front(f), Len(Front(f)) + 1, Last(f).previous)
  BY <1>1, Popped
<1>4. AtRest(t) => Backed(Front(f), Len(Front(f)) + 1, t)
  BY DEF Backed, AtRest
<1>5. Backed(Front(f), Len(Front(f)) + 1, t)
  BY <1>2, <1>3, <1>4
<1>6. IsStack(Front(f))
  BY <1>1, Popped
<1>7. /\ Cardinality(Solves(f)) \in Nat /\ Cardinality(Solves(Front(f))) \in Nat
      /\ Cardinality(Solves(f)) =
            Cardinality(Solves(Front(f))) + IF Last(f).kind = "solve" THEN 1 ELSE 0
  BY <1>1, Popped
<1>8. d - (IF Last(f).kind = "solve" THEN 1 ELSE 0) = Cardinality(Solves(Front(f)))
  BY <1>1, <1>7
<1> QED BY <1>5, <1>6, <1>8 DEF Sound

LEMMA ReplacedSound ==
    ASSUME NEW f, NEW s, NEW d, Sound(f, s, d), f # <<>>,
           NEW y, Shaped(y), Similar(Last(f), y)
    PROVE  Sound(Append(Front(f), y), s, d)
BY Replaced DEF Sound

LEMMA TopIsShaped ==
    ASSUME NEW f, IsStack(f), f # <<>>
    PROVE  Shaped(Last(f))
<1>1. PICK S : f \in Seq(S)
  BY DEF IsStack
<1>2. Last(f) = f[Len(f)] /\ Len(f) \in Nat \ {0}
  BY <1>1, FrontLast
<1>3. Len(f) \in 1 .. Len(f)
  BY <1>2
<1> QED BY <1>2, <1>3 DEF IsStack

(* An engine's frame through a step, a solver's through a sample. *)
LEMMA EngineStepped ==
    ASSUME NEW x, Shaped(x), x.kind = "engine", NEW sub, NEW adv, NEW at
    PROVE  /\ Shaped([x EXCEPT !.sub = sub, !.adv = adv, !.at = at])
           /\ Similar(x, [x EXCEPT !.sub = sub, !.adv = adv, !.at = at])
<1>1. PICK V : x \in EngineOf(V)
  BY DEF Shaped, EngineOf, ExecOf, SolveOf, PauseOf
<1>2. PICK W : W = V \cup {sub, adv, at}
  OBVIOUS
<1>3. x \in EngineOf(W) /\ sub \in W /\ adv \in W /\ at \in W
  BY <1>1, <1>2 DEF EngineOf
<1>4. /\ [x EXCEPT !.sub = sub, !.adv = adv, !.at = at] \in EngineOf(W)
      /\ Similar(x, [x EXCEPT !.sub = sub, !.adv = adv, !.at = at])
  BY <1>3 DEF EngineOf, Similar
<1> QED BY <1>4 DEF Shaped

LEMMA SolveStepped ==
    ASSUME NEW x, Shaped(x), x.kind = "solve", NEW evals, NEW bad
    PROVE  /\ Shaped([x EXCEPT !.evals = evals, !.bad = bad])
           /\ Similar(x, [x EXCEPT !.evals = evals, !.bad = bad])
<1>1. PICK V : x \in SolveOf(V)
  BY DEF Shaped, EngineOf, ExecOf, SolveOf, PauseOf
<1>2. PICK W : W = V \cup {evals, bad}
  OBVIOUS
<1>3. x \in SolveOf(W) /\ evals \in W /\ bad \in W
  BY <1>1, <1>2 DEF SolveOf
<1>4. /\ [x EXCEPT !.evals = evals, !.bad = bad] \in SolveOf(W)
      /\ Similar(x, [x EXCEPT !.evals = evals, !.bad = bad])
  BY <1>3 DEF SolveOf, Similar
<1> QED BY <1>4 DEF Shaped

(* New frames. *)
LEMMA NewEngine ==
    ASSUME NEW m, NEW status, NEW single
    PROVE  Shaped(RunProgram(m, status, single))
<1>1. PICK nested \in BOOLEAN : nested = (status = "RUNNING")
  OBVIOUS
<1>2. PICK start : start = StartingSubLevel(m, nested)
  OBVIOUS
<1>3. PICK V : V = {single, start, "fetch", 0}
  OBVIOUS
<1>4. single \in V /\ start \in V /\ "fetch" \in V /\ 0 \in V
  BY <1>3
<1>5. RunProgram(m, status, single) =
        [kind |-> "engine", nested |-> nested, single |-> single, start |-> start,
         at |-> "fetch", sub |-> 0, adv |-> 0]
  BY <1>1, <1>2 DEF RunProgram
<1>6. RunProgram(m, status, single) \in EngineOf(V)
  BY <1>4, <1>5 DEF EngineOf
<1> QED BY <1>6 DEF Shaped

LEMMA NewFrames ==
    /\ \A p : Shaped(Solver(p)) /\ Solver(p).kind = "solve"
    /\ \A s : LET x == [kind |-> "pause", previous |-> s]
             IN Shaped(x) /\ x.kind = "pause" /\ x.previous = s
    /\ \A l, p : LET x == [kind |-> "exec", level |-> l, place |-> p]
                IN Shaped(x) /\ x.kind = "exec"
<1>1. ASSUME NEW p PROVE Shaped(Solver(p)) /\ Solver(p).kind = "solve"
  <2>1. PICK V : V = {p, 0, FALSE}
    OBVIOUS
  <2>2. p \in V /\ 0 \in V /\ FALSE \in V
    BY <2>1
  <2>3. Solver(p) \in SolveOf(V)
    BY <2>2 DEF Solver, SolveOf
  <2> QED BY <2>3 DEF Shaped, Solver
<1>2. ASSUME NEW s PROVE Shaped([kind |-> "pause", previous |-> s])
  <2>1. [kind |-> "pause", previous |-> s] \in PauseOf({s})
    BY DEF PauseOf
  <2> QED BY <2>1 DEF Shaped
<1>3. ASSUME NEW l, NEW p PROVE Shaped([kind |-> "exec", level |-> l, place |-> p])
  <2>1. [kind |-> "exec", level |-> l, place |-> p] \in ExecOf({l, p})
    BY DEF ExecOf
  <2> QED BY <2>1 DEF Shaped
<1> QED BY <1>1, <1>2, <1>3

LEMMA EngineReturned ==
    ASSUME NEW x, Shaped(x), x.kind = "engine", NEW adv, NEW at
    PROVE  /\ Shaped([x EXCEPT !.at = at, !.adv = adv])
           /\ Similar(x, [x EXCEPT !.at = at, !.adv = adv])
<1>1. PICK V : x \in EngineOf(V)
  BY DEF Shaped, EngineOf, ExecOf, SolveOf, PauseOf
<1>2. PICK W : W = V \cup {adv, at}
  OBVIOUS
<1>3. x \in EngineOf(W) /\ adv \in W /\ at \in W
  BY <1>1, <1>2 DEF EngineOf
<1>4. /\ [x EXCEPT !.at = at, !.adv = adv] \in EngineOf(W)
      /\ Similar(x, [x EXCEPT !.at = at, !.adv = adv])
  BY <1>3 DEF EngineOf, Similar
<1> QED BY <1>4 DEF Shaped

-----------------------------------------------------------------------------
(* The steps of the engine, the solver and the keys. *)

LEMMA DepthIsNat == ASSUME NEW f, NEW s, NEW d, Sound(f, s, d) PROVE d \in Nat
BY SolvesAreFinite DEF Sound, IsStack

(* The engine on top goes on. *)
LEMMA EngineGoesOn ==
    ASSUME Inv, On("engine"), NEW sub, NEW adv, NEW at
    PROVE  Sound(WithTop([Top EXCEPT !.sub = sub, !.adv = adv, !.at = at]),
                 programRunStop, engineNestingDepth)
<1>1. IsStack(frames) /\ frames # <<>> /\ Top.kind = "engine"
  BY DEF Inv, Sound, On
<1>2. Shaped(Top)
  BY <1>1, TopIsShaped DEF Top
<1>3. /\ Shaped([Top EXCEPT !.sub = sub, !.adv = adv, !.at = at])
      /\ Similar(Top, [Top EXCEPT !.sub = sub, !.adv = adv, !.at = at])
  BY <1>1, <1>2, EngineStepped
<1> QED BY <1>1, <1>3, ReplacedSound DEF Inv, Top, WithTop, Below

LEMMA SolverGoesOn ==
    ASSUME Inv, On("solve")
    PROVE  Sound(WithTop(Sampled), programRunStop, engineNestingDepth)
<1>1. IsStack(frames) /\ frames # <<>> /\ Top.kind = "solve"
  BY DEF Inv, Sound, On
<1>2. Shaped(Top)
  BY <1>1, TopIsShaped DEF Top
<1>3. Shaped(Sampled) /\ Similar(Top, Sampled)
  BY <1>1, <1>2, SolveStepped DEF Sampled
<1> QED BY <1>1, <1>3, ReplacedSound DEF Inv, Top, WithTop, Below

(* A function returns, to the step that called it or to a yield. *)
LEMMA ReturnSound ==
    ASSUME NEW s, NEW d, Sound(Below, s, d), NEW adv
    PROVE  Sound(ReturnWith(adv), s, d)
<1>1. CASE CalledByStep
  <2> DEFINE x == Last(Below)
             y == [x EXCEPT !.at = "yield", !.adv = adv]
  <2>1. Below # <<>> /\ x.kind = "engine" /\ IsStack(Below)
    BY <1>1 DEF CalledByStep, Sound
  <2>2. Shaped(x)
    BY <2>1, TopIsShaped
  <2> HIDE DEF x
  <2>3. Shaped(y) /\ Similar(x, y)
    BY <2>1, <2>2, EngineReturned
  <2> HIDE DEF y
  <2>4. Sound(Append(Front(Below), y), s, d)
    BY <2>1, <2>3, ReplacedSound DEF x
  <2>5. ReturnWith(adv) = Append(Front(Below), y)
    BY <1>1 DEF ReturnWith, CalledByStep, x, y
  <2> QED BY <2>4, <2>5
<1>2. CASE ~CalledByStep
  BY <1>2 DEF ReturnWith, CalledByStep
<1> QED BY <1>1, <1>2

LEMMA InitInv == Init => Inv
<1> SUFFICES ASSUME Init PROVE Inv
  OBVIOUS
<1>1. frames = <<>> /\ Len(frames) = 0 /\ frames \in Seq({})
  BY DEF Init
<1>2. Solves(frames) = {}
  BY <1>1 DEF Solves
<1>3. Cardinality({}) = 0
  BY FS_EmptySet
<1> QED BY <1>1, <1>2, <1>3 DEF Init, Inv, Sound, IsStack, Backed, Pausing

LEMMA StepDoneInv == Inv /\ StepDone => Inv'
<1> SUFFICES ASSUME Inv, StepDone PROVE Inv'
  OBVIOUS
<1>1. On("engine") /\ frames # <<>> /\ Top.kind = "engine" /\ engineNestingDepth' = engineNestingDepth
  BY DEF StepDone, On
<1>2. CASE frames' = Below /\ programRunStop' = RunEnded(programRunStop, Top.nested)
  <2>1. \/ AtRest(programRunStop')
        \/ /\ programRunStop' = programRunStop
           /\ programRunStop = "RUNNING" => ~IsOutermost(Top)
    BY <1>2 DEF RunEnded, AtRest, Pausing, IsOutermost
  <2>2. Sound(Below, programRunStop', engineNestingDepth - 0)
    BY <1>1, <2>1, PoppedSound DEF Inv, Top, Below
  <2> QED BY <1>1, <1>2, <2>2, DepthIsNat DEF Inv
<1>3. CASE /\ frames' = WithTop([Top EXCEPT !.sub = 0, !.adv = 0, !.at = "fetch"])
           /\ UNCHANGED programRunStop
  BY <1>1, <1>3, EngineGoesOn DEF Inv
<1> QED BY <1>2, <1>3 DEF StepDone

(* The frame of an engine under the function its step calls. *)
LEMMA StepSound ==
    ASSUME Inv, Fetched, NEW adv, NEW at
    PROVE  Sound(WithTop(Stepped(adv, at)), programRunStop, engineNestingDepth)
BY EngineGoesOn DEF Fetched, Stepped

LEMMA ExecuteOneStepInv == Inv /\ ExecuteOneStep => Inv'
<1> SUFFICES ASSUME Inv, ExecuteOneStep PROVE Inv'
  OBVIOUS
<1>0. Fetched
  BY DEF ExecuteOneStep, Plain, Fails, Gto, Xeq, LocR, Stop, Finish, PauseStep, SolveStep, Operation
<1>1. ASSUME NEW adv, Placed(adv), programRunStop' = programRunStop \/ AtRest(programRunStop')
      PROVE  Inv'
  <2>1. Sound(WithTop(Stepped(adv, "yield")), programRunStop, engineNestingDepth)
    BY <1>0, StepSound
  <2>2. Sound(WithTop(Stepped(adv, "yield")), programRunStop', engineNestingDepth)
    BY <1>1, <2>1, StatusChanged
  <2> QED BY <1>1, <2>2 DEF Placed, Inv
<1>2. CASE Plain \/ Fails \/ Gto \/ Xeq \/ LocR \/ \E skip \in {0, 1} : Rtn(skip)
  <2>1. programRunStop' = programRunStop /\ \E adv \in {-1, 0, 1, 2} : Placed(adv)
    BY <1>2 DEF Plain, Fails, Gto, Xeq, LocR, Rtn, Executed
  <2> QED BY <1>1, <2>1
<1>3. CASE Stop \/ Finish
  <2>1. programRunStop' \in {"WAITING", "STOPPED"} /\ \E adv \in {-1, 1} : Placed(adv)
    BY <1>3 DEF Stop, Finish, Executed
  <2>2. AtRest(programRunStop')
    BY <2>1 DEF AtRest, Pausing
  <2> QED BY <1>1, <2>1, <2>2
<1>4. CASE PauseStep
  <2> DEFINE x == [kind |-> "pause", previous |-> programRunStop]
             f == WithTop(Stepped(1, "called"))
  <2>1. Sound(f, programRunStop, engineNestingDepth)
    BY <1>0, StepSound
  <2>2. Shaped(x) /\ x.kind = "pause" /\ x.previous = programRunStop
    BY NewFrames
  <2> HIDE DEF x, f
  <2>3. Sound(Append(f, x), "PAUSED", engineNestingDepth + 0)
    BY <2>1, <2>2, PushedSound DEF Pausing
  <2> QED BY <1>4, <2>1, <2>3, DepthIsNat DEF PauseStep, Inv, x, f
<1>5. CASE SolveStep
  <2>1. CASE /\ \E p \in Labels : frames' = Append(WithTop(Stepped(1, "called")), Solver(p))
             /\ engineNestingDepth' = engineNestingDepth + 1
             /\ UNCHANGED programRunStop
    <3> DEFINE f == WithTop(Stepped(1, "called"))
    <3>1. PICK p \in Labels : frames' = Append(f, Solver(p))
      BY <2>1
    <3>2. Sound(f, programRunStop, engineNestingDepth)
      BY <1>0, StepSound
    <3> HIDE DEF f
    <3>3. PICK x : x = Solver(p)
      OBVIOUS
    <3>4. Shaped(x) /\ x.kind = "solve"
      BY <3>3, NewFrames
    <3>5. Sound(Append(f, x), programRunStop, engineNestingDepth + 1)
      BY <3>2, <3>4, PushedSound
    <3> QED BY <2>1, <3>1, <3>3, <3>5 DEF Inv
  <2>2. CASE /\ frames' = WithTop(Stepped(1, "yield")) /\ programRunStop' = "WAITING"
             /\ UNCHANGED engineNestingDepth
    <3>1. Sound(WithTop(Stepped(1, "yield")), programRunStop, engineNestingDepth)
      BY <1>0, StepSound
    <3>2. Sound(WithTop(Stepped(1, "yield")), "WAITING", engineNestingDepth)
      BY <3>1, StatusChanged DEF AtRest, Pausing
    <3> QED BY <2>2, <3>2 DEF Inv
  <2> QED BY <1>5, <2>1, <2>2 DEF SolveStep
<1> QED BY <1>2, <1>3, <1>4, <1>5 DEF ExecuteOneStep

LEMMA PauseEndsInv == Inv /\ PauseEnds => Inv'
<1> SUFFICES ASSUME Inv, PauseEnds PROVE Inv'
  OBVIOUS
<1>1. /\ frames # <<>> /\ Top.kind = "pause" /\ engineNestingDepth' = engineNestingDepth
      /\ programRunStop' \in {"WAITING", Top.previous} /\ frames' = ReturnWith(1)
  BY DEF PauseEnds, On, AfterPause
<1>2. AtRest(programRunStop') \/ programRunStop' = Top.previous
  BY <1>1 DEF AtRest, Pausing
<1>3. Sound(Below, programRunStop', engineNestingDepth - 0)
  BY <1>1, <1>2, PoppedSound DEF Inv, Top, Below
<1>4. Sound(Below, programRunStop', engineNestingDepth')
  BY <1>1, <1>3, DepthIsNat DEF Inv
<1> QED BY <1>1, <1>4, ReturnSound DEF Inv

LEMMA SampleInv == Inv /\ Sample => Inv'
<1> SUFFICES ASSUME Inv, Sample PROVE Inv'
  OBVIOUS
<1>1. /\ Sound(WithTop(Sampled), programRunStop, engineNestingDepth)
      /\ engineNestingDepth' = engineNestingDepth /\ engineNestingDepth \in Nat
  BY SolverGoesOn, DepthIsNat DEF Sample, Inv
<1>2. CASE frames' = WithTop(Sampled) /\ UNCHANGED programRunStop
  BY <1>1, <1>2 DEF Inv
<1>3. CASE programRunStop # "RUNNING" /\ SampleTopLevel
  <2> DEFINE x == RunProgram(machine, programRunStop, FALSE)
  <2>0. Shaped(x)
    BY NewEngine
  <2>1. x.kind = "engine" /\ x.nested = (programRunStop = "RUNNING")
    BY DEF RunProgram
  <2>2. \/ frames' = Append(WithTop(Sampled), x) /\ programRunStop' = "RUNNING"
        \/ frames' = WithTop(Sampled) /\ UNCHANGED programRunStop
    BY <1>3 DEF SampleTopLevel
  <2> HIDE DEF x
  <2>3. IsOutermost(x)
    BY <1>3, <2>1 DEF IsOutermost
  <2>4. Sound(Append(WithTop(Sampled), x), "RUNNING", engineNestingDepth + 0)
    BY <1>1, <2>0, <2>1, <2>3, PushedSound DEF IsOutermost
  <2>5. CASE frames' = Append(WithTop(Sampled), x) /\ programRunStop' = "RUNNING"
    BY <1>1, <2>4, <2>5 DEF Inv
  <2> QED BY <1>2, <2>2, <2>5
<1>4. CASE programRunStop = "RUNNING" /\ SampleNested
  <2>1. PICK m : frames' = WithTop(Sampled) \o
                   <<[kind |-> "exec", level |-> Level(machine), place |-> machine.place],
                     RunProgram(m, programRunStop, FALSE)>>
    BY <1>4 DEF SampleNested
  <2>2. PICK x : x = [kind |-> "exec", level |-> Level(machine), place |-> machine.place]
    OBVIOUS
  <2>3. PICK y : y = RunProgram(m, programRunStop, FALSE)
    OBVIOUS
  <2>4. PICK f : f = WithTop(Sampled)
    OBVIOUS
  <2>5. Shaped(x) /\ x.kind = "exec"
    BY <2>2, NewFrames
  <2>6. Shaped(y) /\ y.kind = "engine"
    <3>1. Shaped(RunProgram(m, programRunStop, FALSE))
      BY NewEngine
    <3>2. RunProgram(m, programRunStop, FALSE).kind = "engine"
      BY DEF RunProgram
    <3> QED BY <2>3, <3>1, <3>2
  <2>7. Sound(Append(f, x), programRunStop, engineNestingDepth + 0)
    BY <1>1, <2>4, <2>5, PushedSound
  <2>8. Sound(Append(Append(f, x), y), programRunStop, engineNestingDepth + 0 + 0)
    BY <1>4, <2>6, <2>7, PushedSound
  <2>9. frames' = Append(Append(f, x), y)
    <3>1. PICK S : f \in Seq(S)
      BY <1>1, <2>4 DEF Sound, IsStack
    <3>2. f \in Seq(S \cup {x, y}) /\ x \in S \cup {x, y} /\ y \in S \cup {x, y}
      BY <3>1
    <3>3. f \o <<x, y>> = Append(Append(f, x), y)
      BY <3>2
    <3> QED BY <2>1, <2>2, <2>3, <2>4, <3>3
  <2>10. programRunStop' = programRunStop /\ engineNestingDepth' = engineNestingDepth + 0 + 0
    BY <1>1, <1>4 DEF SampleNested
  <2> QED BY <2>8, <2>9, <2>10 DEF Inv
<1> QED BY <1>2, <1>3, <1>4 DEF Sample

LEMMA SolverReturns ==
    ASSUME Inv, On("solve"), engineNestingDepth' = engineNestingDepth - 1,
           NEW adv, frames' = ReturnWith(adv),
           programRunStop' = programRunStop \/ AtRest(programRunStop')
    PROVE  Inv'
<1>1. frames # <<>> /\ Top.kind = "solve" /\ ~IsOutermost(Top)
  BY DEF On, IsOutermost
<1>2. Sound(Below, programRunStop', engineNestingDepth - 1)
  BY <1>1, PoppedSound DEF Inv, Top, Below
<1>3. Sound(ReturnWith(adv), programRunStop', engineNestingDepth - 1)
  BY <1>2, ReturnSound
<1> QED BY <1>3 DEF Inv

LEMMA SolveInv == Inv /\ Solve => Inv'
<1> SUFFICES ASSUME Inv, Solve PROVE Inv'
  OBVIOUS
<1>1. CASE ExecReturns
  <2>1. /\ frames # <<>> /\ Top.kind = "exec" /\ ~IsOutermost(Top)
        /\ engineNestingDepth' = engineNestingDepth
    BY <1>1 DEF ExecReturns, On, IsOutermost
  <2>2. Sound(Below, programRunStop, engineNestingDepth - 0)
    BY <2>1, PoppedSound DEF Inv, Top, Below
  <2> QED BY <1>1, <2>1, <2>2, DepthIsNat DEF ExecReturns, Inv
<1>2. CASE SolveEnds
  <2>1. \E adv \in {1, 2} : frames' = ReturnWith(adv)
    BY <1>2 DEF SolveEnds
  <2> QED BY <1>2, <2>1, SolverReturns DEF SolveEnds
<1>3. CASE SolveAborted
  <2>1. AtRest(programRunStop')
    BY <1>3 DEF SolveAborted, AtRest, Pausing
  <2> QED BY <1>3, <2>1, SolverReturns DEF SolveAborted
<1> QED BY <1>1, <1>2, <1>3, SampleInv DEF Solve

(* A key that a running or paused program sees. *)
LEMMA KeySeenInv == Inv /\ (KeyWhileRunning \/ KeyReleased) => Inv'
<1> SUFFICES ASSUME Inv, KeyWhileRunning \/ KeyReleased PROVE Inv'
  OBVIOUS
<1>1. /\ frames' = frames /\ engineNestingDepth' = engineNestingDepth
      /\ \/ programRunStop' = programRunStop \/ AtRest(programRunStop')
         \/ programRunStop \in Pausing /\ programRunStop' \in Pausing
  BY DEF KeyWhileRunning, KeyReleased, AtRest, Pausing
<1>2. Sound(frames, programRunStop', engineNestingDepth)
  BY <1>1, StatusChanged DEF Inv
<1> QED BY <1>1, <1>2 DEF Inv

(* A key that starts an engine: it is not nested. *)
LEMMA EngineStarted ==
    ASSUME Inv, NEW m, NEW status, status # "RUNNING", NEW single,
           frames' = Append(frames, RunProgram(m, status, single)),
           programRunStop' = "RUNNING", engineNestingDepth' = engineNestingDepth
    PROVE  Inv'
<1> DEFINE x == RunProgram(m, status, single)
<1>1. Shaped(x)
  BY NewEngine
<1>2. IsOutermost(x)
  BY DEF RunProgram, IsOutermost
<1> HIDE DEF x
<1>3. x.kind = "engine" /\ ~x.nested
  BY <1>2 DEF IsOutermost
<1>4. Sound(Append(frames, x), "RUNNING", engineNestingDepth + 0)
  BY <1>1, <1>2, <1>3, PushedSound DEF Inv
<1> QED BY <1>4, DepthIsNat DEF Inv, x

(* A key leaves the status, or takes back that of a stopped program. *)
LEMMA AwakeStatus ==
    \A s \in StatusBefore : s = programRunStop \/ AtRest(s)
BY DEF StatusBefore, Awake, AtRest, Pausing

LEMMA KeyInv == Inv /\ Key => Inv'
<1> SUFFICES ASSUME Inv, Key PROVE Inv'
  OBVIOUS
<1>0. /\ \A stopKey : Runs(stopKey) => programRunStop # "RUNNING"
      /\ engineNestingDepth \in Nat
  BY DepthIsNat DEF Runs, Inv
<1>1. CASE KeyWhileRunning \/ KeyReleased
  BY <1>1, KeySeenInv
<1>2. CASE KeyRS
  <2>1. Runs(TRUE)
    BY <1>2 DEF KeyRS
  <2>2. programRunStop # "RUNNING"
    BY <2>1 DEF Runs
  <2> QED BY <1>2, <2>2, EngineStarted DEF KeyRS
<1>3. CASE KeySST
  BY <1>3, EngineStarted DEF KeySST
<1>4. CASE KeyXEQ
  <2>1. programRunStop # "RUNNING"
    BY <1>4 DEF KeyXEQ, Runs
  <2>2. \E m : frames' = Append(frames, RunProgram(m, programRunStop, FALSE))
    BY <1>4 DEF KeyXEQ
  <2> QED BY <1>4, <2>1, <2>2, EngineStarted DEF KeyXEQ
<1>5. CASE KeyEXIT \/ KeyGTO \/ KeyRTN
  <2>1. /\ frames' = frames /\ engineNestingDepth' = engineNestingDepth
        /\ programRunStop' = programRunStop \/ AtRest(programRunStop')
    BY <1>5, AwakeStatus DEF KeyEXIT, KeyGTO, KeyRTN, StatusBefore
  <2>2. Sound(frames, programRunStop', engineNestingDepth)
    BY <2>1, StatusChanged DEF Inv
  <2> QED BY <2>1, <2>2 DEF Inv
<1>6. CASE KeyPAUSE
  <2>1. PICK s \in StatusBefore : frames' = Append(frames, [kind |-> "pause", previous |-> s])
    BY <1>6 DEF KeyPAUSE
  <2> DEFINE x == [kind |-> "pause", previous |-> s]
  <2>2. Shaped(x) /\ x.kind = "pause" /\ x.previous = s
    BY NewFrames
  <2>3. frames' = Append(frames, x)
    BY <2>1
  <2> HIDE DEF x
  <2>4. Sound(frames, s, engineNestingDepth)
    BY AwakeStatus, StatusChanged DEF Inv
  <2>5. Sound(Append(frames, x), "PAUSED", engineNestingDepth + 0)
    BY <2>2, <2>4, PushedSound DEF Pausing
  <2> QED BY <1>0, <1>6, <2>3, <2>5 DEF KeyPAUSE, Inv
<1>7. CASE KeySOLVE
  <2>1. CASE /\ \E p \in Labels : frames' = Append(frames, Solver(p))
             /\ engineNestingDepth' = engineNestingDepth + 1
             /\ programRunStop' \in StatusBefore
    <3>1. PICK p \in Labels : frames' = Append(frames, Solver(p))
      BY <2>1
    <3>2. PICK x : x = Solver(p)
      OBVIOUS
    <3>3. Shaped(x) /\ x.kind = "solve"
      BY <3>2, NewFrames
    <3>4. Sound(Append(frames, x), programRunStop', engineNestingDepth + 1)
      BY <2>1, <3>3, AwakeStatus, PushedSound DEF Inv
    <3> QED BY <2>1, <3>1, <3>2, <3>4 DEF Inv
  <2>2. CASE /\ programRunStop' = "WAITING"
             /\ UNCHANGED <<frames, engineNestingDepth>>
    <3>1. Sound(frames, "WAITING", engineNestingDepth)
      BY StatusChanged DEF Inv, AtRest, Pausing
    <3> QED BY <2>2, <3>1 DEF Inv
  <2> QED BY <1>7, <2>1, <2>2 DEF KeySOLVE
<1> QED BY <1>1, <1>2, <1>3, <1>4, <1>5, <1>6, <1>7 DEF Key

LEMMA NextInv == Inv /\ [Next]_vars => Inv'
<1> SUFFICES ASSUME Inv, [Next]_vars PROVE Inv'
  OBVIOUS
<1>1. CASE Next
  BY <1>1, StepDoneInv, ExecuteOneStepInv, PauseEndsInv, SolveInv, KeyInv DEF Next, Engine
<1>2. CASE UNCHANGED vars
  BY <1>2 DEF vars, Inv
<1> QED BY <1>1, <1>2

LEMMA AlwaysInv == Spec => []Inv
<1> QED BY InitInv, NextInv, PTL DEF Spec

-----------------------------------------------------------------------------
(* Theorems. *)

(* The statuses in which keys are swallowed are left again: there is an    *)
(* engine or a pause on the C stack that will do it (runProgram, fnPause,  *)
(* btnPressed), whatever is started inside of what.                        *)
THEOREM KeysAreHeardAgain == Spec => []NeverDeaf
<1>1. ASSUME Inv PROVE NeverDeaf
  <2>1. PICK S : frames \in Seq(S)
    BY <1>1 DEF Inv, Sound, IsStack
  <2>2. PICK n : n = Len(frames) /\ n \in Nat /\ DOMAIN frames = 1 .. n
    BY <2>1
  <2>3. Backed(frames, n + 1, programRunStop)
    BY <1>1, <2>2 DEF Inv, Sound
  <2>4. (n + 1) - 1 = n
    BY <2>2
  <2> QED BY <2>2, <2>3, <2>4 DEF Backed, NeverDeaf, Pausing, IsOutermost
<1> QED BY <1>1, AlwaysInv, PTL

(* A program that was told to wait runs again for a key only, or because a *)
(* solver is at work; the end of a PAUSE does not undo the stop (fnPause,  *)
(* runProgram, fnStopProgram).                                             *)
THEOREM StopsAreKept == Spec => StopSurvives
<1>1. ASSUME Inv, [Next]_vars, programRunStop = "WAITING", programRunStop' = "RUNNING"
      PROVE  engineNestingDepth > 0 \/ reentered' # reentered \/ Idle
  <2>1. CASE Engine
    BY <1>1, <2>1 DEF Engine, StepDone, RunEnded, ExecuteOneStep, Plain, Fails, Gto, Xeq, LocR, Rtn,
       Stop, Finish, PauseStep, SolveStep, PauseEnds, AfterPause
  <2>2. CASE Solve
    <3>1. On("solve")
      BY <1>1, <2>2 DEF Solve, Sample, SolveEnds, SolveAborted, ExecReturns
    <3>2. PICK S : frames \in Seq(S)
      BY <1>1 DEF Inv, Sound, IsStack
    <3>3. Len(frames) \in Solves(frames)
      <4>1. Len(frames) \in Nat \ {0} /\ Top = frames[Len(frames)]
        BY <3>1, <3>2, FrontLast DEF On, Top
      <4>2. frames[Len(frames)].kind = "solve"
        BY <3>1, <4>1 DEF On
      <4> QED BY <4>1, <4>2 DEF Solves
    <3>4. IsFiniteSet(Solves(frames)) /\ Cardinality(Solves(frames)) \in Nat
      BY <3>2, SolvesAreFinite
    <3>5. Cardinality(Solves(frames)) # 0
      BY <3>3, <3>4, FS_EmptySet
    <3> QED BY <1>1, <3>4, <3>5 DEF Inv, Sound
  <2>3. CASE Key
    <3>1. CASE KeyWhileRunning \/ KeyReleased
      BY <1>1, <3>1 DEF KeyWhileRunning, KeyReleased
    <3>2. ASSUME NEW stopKey, Runs(stopKey)
          PROVE  reentered' # reentered \/ Idle
      BY <3>2 DEF Runs, Idle
    <3>3. CASE KeyRS \/ KeyEXIT
      <4>1. Runs(TRUE)
        BY <3>3 DEF KeyRS, KeyEXIT
      <4> QED BY <3>2, <4>1
    <3>4. CASE KeySST \/ KeyXEQ \/ KeyGTO \/ KeyRTN \/ KeyPAUSE \/ KeySOLVE
      <4>1. Runs(FALSE)
        BY <3>4 DEF KeySST, KeyXEQ, KeyGTO, KeyRTN, KeyPAUSE, KeySOLVE
      <4> QED BY <3>2, <4>1
    <3> QED BY <2>3, <3>1, <3>3, <3>4 DEF Key
  <2>4. CASE UNCHANGED vars
    BY <1>1, <2>4 DEF vars
  <2> QED BY <1>1, <2>1, <2>2, <2>3, <2>4 DEF Next
<1>2. Inv /\ [Next]_vars =>
        [programRunStop = "WAITING" /\ programRunStop' = "RUNNING"
           => engineNestingDepth > 0 \/ reentered' # reentered \/ Idle]_vars
  BY <1>1
<1> QED BY <1>2, AlwaysInv, PTL DEF Spec, StopSurvives

==============================================================================

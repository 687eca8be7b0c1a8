-------------------------- MODULE WriteRequestProofs --------------------------
(***************************************************************************)
(* Proofs about WriteRequest, for every list of frames and all limits: the *)
(* bytes on the wire and those the cursor points to are the message, what  *)
(* is left when the call returns is retained, and no write offers the      *)
(* socket nothing.                                                         *)
(*                                                                         *)
(* The sizes and contents of lists are folds, which the provers do not     *)
(* unfold.  The first part gives each of them its recursion: a solution of *)
(* it exists over every finite set of indices and any two solutions agree, *)
(* by taking a least set for which they would not.  The second is about    *)
(* what the bytes are.  A byte is its position, so every part of a message *)
(* is a run of numbers, and a ladder b gives the byte at which each part   *)
(* begins.  Moving, copying, cutting and releasing parts are then shown to *)
(* keep the ladder, or to give another from the first byte to the last.    *)
(* The third is the invariant and its steps.                               *)
(***************************************************************************)
EXTENDS WriteRequest, FiniteSetTheorems, WellFoundedInduction, SequenceTheorems, TLAPS

-------------------------------------------------------------------------------
(* Folds over the parts of a list *)

\* A family of subsets of a finite set has a least member: the induction over sizes that
\* follows uses it, without an operator as a parameter.
LEMMA LeastSubset ==
    \A S, F : IsFiniteSet(S) /\ (\A X \in F : X \subseteq S) /\ F # {}
        => \E X \in F : \A Y \in F : Y \subseteq X => Y = X
<1> SUFFICES ASSUME NEW S, NEW F, IsFiniteSet(S), \A X \in F : X \subseteq S, F # {}
             PROVE  \E X \in F : \A Y \in F : Y \subseteq X => Y = X
  OBVIOUS
<1>1. IsWellFoundedOn(StrictSubsetOrdering(S), SUBSET S)
  BY FS_StrictSubsetOrderingWellFounded, FS_FiniteSubsetsOfFinite
<1>2. \E x \in F : \A y \in F : ~(<<y, x>> \in StrictSubsetOrdering(S))
  <2> HIDE DEF StrictSubsetOrdering
  <2> QED BY <1>1, WFMin
<1>3. PICK X \in F : \A y \in F : ~(<<y, X>> \in StrictSubsetOrdering(S))  BY <1>2
<1>4. ASSUME NEW Y \in F, Y \subseteq X PROVE Y = X
  <2>1. <<Y, X>> \notin StrictSubsetOrdering(S)  BY <1>3
  <2>2. <<Y, X>> \in (SUBSET S) \X (SUBSET S)  OBVIOUS
  <2>3. QED BY <2>1, <2>2, <1>4 DEF StrictSubsetOrdering
<1>5. QED BY <1>3, <1>4

\* Induction over the numbers from 0 to n, without an operator.
LEMMA UpTo ==
    ASSUME NEW n \in Nat, NEW S, 0 \in S, \A k \in 0..(n - 1) : k \in S => k + 1 \in S
    PROVE  0..n \subseteq S
<1> SUFFICES ASSUME NEW m \in 0..n, m \notin S PROVE FALSE  OBVIOUS
<1>1. PICK F : F = {0..k : k \in {k \in 0..n : k \notin S}}  OBVIOUS
<1>2. IsFiniteSet(0..n) /\ F # {} /\ \A X \in F : X \subseteq 0..n
  <2>1. IsFiniteSet(0..n)  BY FS_Interval
  <2>2. QED BY <1>1, <2>1
<1>3. PICK X \in F : \A Y \in F : Y \subseteq X => Y = X  BY <1>2, LeastSubset
<1>4. PICK k \in 0..n : k \notin S /\ X = 0..k  BY <1>1, <1>3
<1>5. k # 0 /\ k - 1 \in 0..(n - 1) /\ (k - 1) + 1 = k  BY <1>4
<1>6. k - 1 \notin S  BY <1>4, <1>5
<1>7. 0..(k - 1) \in F /\ 0..(k - 1) \subseteq X  BY <1>1, <1>4, <1>5, <1>6
<1>8. k \in X /\ k \notin 0..(k - 1)  BY <1>4
<1>9. QED BY <1>3, <1>7, <1>8

\* What the folds choose next.
Greatest(s) == Max(s)

\* Indices of a sequence.
Indices(s) == \E n \in Nat : s \subseteq 1..n

\* A set of indices that is not empty has a greatest.
LEMMA MaxIn ==
    ASSUME NEW s, Indices(s), s # {}
    PROVE  Greatest(s) \in s /\ \A y \in s : Greatest(s) >= y
<1>0. PICK n \in Nat : s \subseteq 1..n  BY DEF Indices
<1>1. PICK S : S = {k \in 0..n : s \cap (1..k) = {} \/ \E x \in s : \A y \in s \cap (1..k) : x >= y}
  OBVIOUS
<1>2. 0 \in S
  BY <1>1
<1>3. ASSUME NEW k \in 0..(n - 1), k \in S PROVE k + 1 \in S
  <2>1. CASE k + 1 \in s
    <3>1. \A y \in s \cap (1..(k + 1)) : k + 1 >= y  OBVIOUS
    <3>2. QED BY <1>1, <2>1, <3>1
  <2>2. CASE k + 1 \notin s
    <3>1. s \cap (1..(k + 1)) = s \cap (1..k)  BY <2>2
    <3>2. QED BY <1>1, <1>3, <3>1
  <2>3. QED BY <2>1, <2>2
<1>4. n \in S
  <2>1. 0..n \subseteq S  BY <1>2, <1>3, UpTo
  <2>2. QED BY <2>1
<1>5. s \cap (1..n) = s  BY <1>0
<1>6. \E x \in s : \A y \in s : x >= y  BY <1>1, <1>4, <1>5
<1>7. QED BY <1>6, Zenon DEF Greatest, Max

\* Part of a set of indices is one.
LEMMA IndicesPart == ASSUME NEW s, NEW t, Indices(s), t \subseteq s PROVE Indices(t)
BY DEF Indices

\* A set of indices is finite.
LEMMA IndicesFinite == ASSUME NEW s, Indices(s) PROVE IsFiniteSet(s)
<1>1. PICK n \in Nat : s \subseteq 1..n  BY DEF Indices
<1>2. IsFiniteSet(1..n)  BY FS_Interval
<1>3. QED BY <1>1, <1>2, FS_Subset

-----------------------------------------------------------------------------
(* Size, by which parts are counted *)

\* The recursion by which FoldLeft is defined, for the lengths, and a solution of it.
Lengths(f, ps, S) ==
    f = [s \in SUBSET S |-> IF s = {} THEN 0 ELSE f[s \ {Greatest(s)}] + ps[Greatest(s)].length]

\* A solution of the recursion, unfolded.
LEMMA LengthsAt ==
    ASSUME NEW f, NEW ps, NEW S, Lengths(f, ps, S), NEW s \in SUBSET S
    PROVE  f[s] = IF s = {} THEN 0 ELSE f[s \ {Greatest(s)}] + ps[Greatest(s)].length
<1> DEFINE e(g, t) == IF t = {} THEN 0 ELSE g[t \ {Greatest(t)}] + ps[Greatest(t)].length
<1>1. f = [t \in SUBSET S |-> e(f, t)]  BY Zenon DEF Lengths
<1> HIDE DEF e
<1>2. f[s] = e(f, s)  BY <1>1, Zenon
<1>3. QED BY <1>2 DEF e

\* Two solutions agree.
LEMMA LengthsAgree ==
    ASSUME NEW f, NEW g, NEW ps, NEW qs, NEW S, NEW T, Lengths(f, ps, S), Lengths(g, qs, T),
           NEW U, Indices(U), U \subseteq S, U \subseteq T,
           \A i \in U : ps[i].length = qs[i].length
    PROVE  f[U] = g[U]
<1> SUFFICES ASSUME f[U] # g[U] PROVE FALSE  OBVIOUS
<1>1. PICK bad : bad = {s \in SUBSET U : f[s] # g[s]}  OBVIOUS
<1>2. bad # {} /\ \A s \in bad : s \subseteq U  BY <1>1
<1>f. IsFiniteSet(U)  BY IndicesFinite
<1>3. PICK s \in bad : \A t \in bad : t \subseteq s => t = s  BY <1>2, <1>f, LeastSubset
<1>4. s \in SUBSET U /\ f[s] # g[s]  BY <1>1
<1>a. s \in SUBSET S /\ s \in SUBSET T  BY <1>4
<1>b. f[s] = IF s = {} THEN 0 ELSE f[s \ {Greatest(s)}] + ps[Greatest(s)].length
  BY ONLY Lengths(f, ps, S), <1>a, LengthsAt
<1>5. g[s] = IF s = {} THEN 0 ELSE g[s \ {Greatest(s)}] + qs[Greatest(s)].length
  BY ONLY Lengths(g, qs, T), <1>a, LengthsAt
<1>6. s # {}  BY <1>4, <1>b, <1>5
<1>7. Greatest(s) \in s  BY <1>4, <1>6, MaxIn, IndicesPart
<1>8. f[s \ {Greatest(s)}] = g[s \ {Greatest(s)}]  BY <1>1, <1>3, <1>4, <1>7
<1>9. ps[Greatest(s)].length = qs[Greatest(s)].length  BY <1>4, <1>7
<1>10. QED BY <1>4, <1>b, <1>5, <1>6, <1>8, <1>9

\* There is a solution, at every set of indices.
LEMMA LengthsExist ==
    ASSUME NEW ps, NEW S, Indices(S) PROVE \E f : Lengths(f, ps, S)
<1> SUFFICES ASSUME ~\E f : Lengths(f, ps, S) PROVE FALSE  OBVIOUS
<1>1. PICK bad : bad = {X \in SUBSET S : ~\E f : Lengths(f, ps, X)}  OBVIOUS
<1>2. bad # {} /\ \A X \in bad : X \subseteq S  BY <1>1
<1>f. IsFiniteSet(S)  BY IndicesFinite
<1>3. PICK X \in bad : \A Y \in bad : Y \subseteq X => Y = X  BY <1>2, <1>f, LeastSubset
<1>4. X \subseteq S /\ Indices(X) /\ ~\E f : Lengths(f, ps, X)  BY <1>1, IndicesPart
<1> DEFINE sol(s) == CHOOSE f : Lengths(f, ps, s)
           val(s) == sol(s)[s]
           new(s) == IF s = {} THEN 0 ELSE val(s \ {Greatest(s)}) + ps[Greatest(s)].length
<1>5. ASSUME NEW s, s \subseteq X, s # X PROVE Lengths(sol(s), ps, s)
  <2>1. \E f : Lengths(f, ps, s)  BY <1>1, <1>3, <1>4, <1>5
  <2>2. QED BY <2>1
<1>6. ASSUME NEW s, s \subseteq X, s # X PROVE val(s) = new(s)
  <2>1. Lengths(sol(s), ps, s)  BY <1>5, <1>6
  <2>2. sol(s)[s] = IF s = {} THEN 0 ELSE sol(s)[s \ {Greatest(s)}] + ps[Greatest(s)].length
    <3> HIDE DEF sol
    <3>1. s \in SUBSET s  OBVIOUS
    <3> QED BY ONLY <2>1, <3>1, LengthsAt
  <2>3. CASE s = {}  BY <2>2, <2>3
  <2>4. CASE s # {}
    <3>1. PICK x : x = Greatest(s)  OBVIOUS
    <3>2. PICK t : t = s \ {x}  OBVIOUS
    <3>3. x \in s  BY <1>4, <1>6, <2>4, <3>1, MaxIn, IndicesPart
    <3>4. t \subseteq X /\ t # X /\ t \subseteq s /\ Indices(t)
      BY <1>4, <1>6, <3>2, <3>3, IndicesPart
    <3>5. Lengths(sol(t), ps, t)  BY <1>5, <3>4
    <3>7. sol(s)[t] = sol(t)[t]
      <4> HIDE DEF sol
      <4>1. PICK f : f = sol(s)  OBVIOUS
      <4>2. PICK g : g = sol(t)  OBVIOUS
      <4>3. Lengths(f, ps, s) /\ Lengths(g, ps, t)  BY <2>1, <3>5, <4>1, <4>2
      <4>5. t \subseteq t  OBVIOUS
      <4>6. f[t] = g[t]
        <5>1. PICK qs : qs = ps  OBVIOUS
        <5>2. Lengths(g, qs, t) /\ \A i \in t : ps[i].length = qs[i].length  BY <4>3, <5>1
        <5>4. Indices(t) /\ t \subseteq s  BY <3>4
        <5>3. QED BY ONLY <5>4, <4>3, <5>2, <4>5, LengthsAgree
      <4> QED BY <4>1, <4>2, <4>6
    <3>8. QED BY <2>2, <2>4, <3>1, <3>2, <3>7
  <2>5. QED BY <2>3, <2>4
<1>7. PICK f : f = [s \in SUBSET X |-> new(s)]  OBVIOUS
<1>8. ASSUME NEW s \in SUBSET X
      PROVE  new(s) = IF s = {} THEN 0 ELSE f[s \ {Greatest(s)}] + ps[Greatest(s)].length
  <2>1. CASE s = {}  BY <2>1
  <2>2. CASE s # {}
    <3>1. PICK t : t = s \ {Greatest(s)}  OBVIOUS
    <3>2. Greatest(s) \in s  BY <1>4, <2>2, MaxIn, IndicesPart
    <3>3. t \in SUBSET X /\ t # X  BY <3>1, <3>2
    <3>4. f[t] = new(t)
      <4> HIDE DEF new
      <4> QED BY <1>7, <3>3
    <3>5. val(t) = new(t)  BY <1>6, <3>3
    <3>6. f[t] = val(t)  BY <3>4, <3>5
    <3>7. QED
      <4> HIDE DEF val
      <4> QED BY <2>2, <3>1, <3>6
  <2>3. QED BY <2>1, <2>2
<1>9. Lengths(f, ps, X)
  <2> HIDE DEF new
  <2>1. f = [s \in SUBSET X |-> IF s = {} THEN 0 ELSE f[s \ {Greatest(s)}] + ps[Greatest(s)].length]
    BY <1>7, <1>8
  <2>2. QED BY <2>1 DEF Lengths
<1>10. QED BY <1>4, <1>9

\* The function that Size is defined by is a solution.
LEMMA SizeSolution ==
    ASSUME NEW n \in Nat, NEW ps, DOMAIN ps = 1..n
    PROVE  \E f : Lengths(f, ps, DOMAIN ps) /\ Size(ps) = f[DOMAIN ps]
<1>1. PICK f : f = CHOOSE g : Lengths(g, ps, DOMAIN ps)  OBVIOUS
<1>2. Lengths(f, ps, DOMAIN ps)
  <2>1. Indices(DOMAIN ps)  BY DEF Indices
  <2>2. QED BY <1>1, <2>1, LengthsExist
<1>3. Size(ps) = f[DOMAIN ps]  BY <1>1, Zenon DEF Size, FoldLeft, MapThenFoldSet, Lengths, Greatest, Max
<1>4. QED BY <1>2, <1>3

\* No parts.
LEMMA SizeNone == ASSUME NEW ps, DOMAIN ps = {} PROVE Size(ps) = 0
<1>1. DOMAIN ps = 1..0  OBVIOUS
<1>2. PICK f : Lengths(f, ps, DOMAIN ps) /\ Size(ps) = f[DOMAIN ps]
  <2>1. 0 \in Nat  OBVIOUS
  <2>2. QED BY <1>1, <2>1, SizeSolution
<1>3. DOMAIN ps \in SUBSET DOMAIN ps  OBVIOUS
<1>4. QED BY <1>2, <1>3, LengthsAt

\* One part more, behind parts of the same lengths.
LEMMA SizeMore ==
    ASSUME NEW n \in Nat, NEW ps, NEW qs, DOMAIN ps = 1..n, DOMAIN qs = 1..(n + 1),
           \A i \in 1..n : qs[i].length = ps[i].length
    PROVE  Size(qs) = Size(ps) + qs[n + 1].length
<1>1. PICK f : Lengths(f, ps, DOMAIN ps) /\ Size(ps) = f[DOMAIN ps]  BY SizeSolution
<1>2. PICK g : Lengths(g, qs, DOMAIN qs) /\ Size(qs) = g[DOMAIN qs]
  <2>1. n + 1 \in Nat  OBVIOUS
  <2>2. QED BY <2>1, SizeSolution
<1>3. PICK s : s = 1..(n + 1)  OBVIOUS
<1>4. Greatest(s) = n + 1
  <2>1. s \subseteq 1..(n + 1) /\ n + 1 \in s /\ n + 1 \in Nat  BY <1>3
  <2>0. Indices(s)  BY <2>1 DEF Indices
  <2>2. Greatest(s) \in s /\ \A y \in s : Greatest(s) >= y  BY <2>0, <2>1, MaxIn
  <2>3. QED BY <1>3, <2>1, <2>2
<1>5. s \ {n + 1} = 1..n  BY <1>3
<1>6. g[s] = g[1..n] + qs[n + 1].length
  <2>1. s \in SUBSET DOMAIN qs  BY <1>3
  <2>2. n + 1 \in s  BY <1>3
  <2>3. g[s] = IF s = {} THEN 0 ELSE g[s \ {Greatest(s)}] + qs[Greatest(s)].length
    BY ONLY <1>2, <2>1, LengthsAt
  <2>4. QED BY <1>4, <1>5, <2>2, <2>3
<1>7. g[1..n] = f[1..n]
  <2>1. 1..n \subseteq DOMAIN qs /\ 1..n \subseteq DOMAIN ps /\ 1..n \subseteq 1..n  OBVIOUS
  <2>2. Indices(1..n)  BY DEF Indices
  <2>3. QED BY <1>1, <1>2, <2>1, <2>2, LengthsAgree
<1>8. QED BY <1>1, <1>2, <1>3, <1>6, <1>7

\* The recursion by which NotEmpty is defined, in the same way.
Keeps(f, ps, S) ==
    f = [s \in SUBSET S |-> IF s = {} THEN <<>> ELSE WithPart(f[s \ {Greatest(s)}], ps[Greatest(s)])]

\* One step of it.
KeepsNext(f, ps, s) == IF s = {} THEN <<>> ELSE WithPart(f[s \ {Greatest(s)}], ps[Greatest(s)])

\* A solution takes that step at every set.
LEMMA KeepsAt ==
    ASSUME NEW f, NEW ps, NEW S, Keeps(f, ps, S), NEW s \in SUBSET S
    PROVE  f[s] = KeepsNext(f, ps, s)
<1> DEFINE e(g, t) == IF t = {} THEN <<>> ELSE WithPart(g[t \ {Greatest(t)}], ps[Greatest(t)])
<1>1. f = [t \in SUBSET S |-> e(f, t)]  BY Zenon DEF Keeps
<1> HIDE DEF e
<1>2. f[s] = e(f, s)  BY <1>1, Zenon
<1>3. QED BY <1>2 DEF e, KeepsNext

\* Two solutions agree where the parts do.
LEMMA KeepsAgree ==
    ASSUME NEW f, NEW g, NEW ps, NEW qs, NEW S, NEW T, Keeps(f, ps, S), Keeps(g, qs, T),
           NEW U, Indices(U), U \subseteq S, U \subseteq T,
           \A i \in U : ps[i] = qs[i]
    PROVE  f[U] = g[U]
<1> SUFFICES ASSUME f[U] # g[U] PROVE FALSE  OBVIOUS
<1>1. PICK bad : bad = {s \in SUBSET U : f[s] # g[s]}  OBVIOUS
<1>2. bad # {} /\ \A s \in bad : s \subseteq U  BY <1>1
<1>f. IsFiniteSet(U)  BY IndicesFinite
<1>3. PICK s \in bad : \A t \in bad : t \subseteq s => t = s  BY <1>2, <1>f, LeastSubset
<1>4. s \in SUBSET U /\ f[s] # g[s]  BY <1>1
<1>a. s \in SUBSET S /\ s \in SUBSET T  BY <1>4
<1>b. f[s] = KeepsNext(f, ps, s)
  BY ONLY Keeps(f, ps, S), <1>a, KeepsAt
<1>5. g[s] = KeepsNext(g, qs, s)
  BY ONLY Keeps(g, qs, T), <1>a, KeepsAt
<1>6. s # {}  BY <1>4, <1>b, <1>5 DEF KeepsNext
<1>7. Greatest(s) \in s  BY <1>4, <1>6, MaxIn, IndicesPart
<1>8. f[s \ {Greatest(s)}] = g[s \ {Greatest(s)}]  BY <1>1, <1>3, <1>4, <1>7
<1>9. ps[Greatest(s)] = qs[Greatest(s)]  BY <1>4, <1>7
<1>10. QED BY <1>4, <1>b, <1>5, <1>6, <1>8, <1>9 DEF KeepsNext

\* There is a solution over every set of indices.
LEMMA KeepsExist ==
    ASSUME NEW ps, NEW S, Indices(S) PROVE \E f : Keeps(f, ps, S)
<1> SUFFICES ASSUME ~\E f : Keeps(f, ps, S) PROVE FALSE  OBVIOUS
<1>1. PICK bad : bad = {X \in SUBSET S : ~\E f : Keeps(f, ps, X)}  OBVIOUS
<1>2. bad # {} /\ \A X \in bad : X \subseteq S  BY <1>1
<1>f. IsFiniteSet(S)  BY IndicesFinite
<1>3. PICK X \in bad : \A Y \in bad : Y \subseteq X => Y = X  BY <1>2, <1>f, LeastSubset
<1>4. X \subseteq S /\ Indices(X) /\ ~\E f : Keeps(f, ps, X)  BY <1>1, IndicesPart
<1> DEFINE sol(s) == CHOOSE f : Keeps(f, ps, s)
           val(s) == sol(s)[s]
           new(s) == IF s = {} THEN <<>> ELSE WithPart(val(s \ {Greatest(s)}), ps[Greatest(s)])
<1>5. ASSUME NEW s, s \subseteq X, s # X PROVE Keeps(sol(s), ps, s)
  <2>1. \E f : Keeps(f, ps, s)  BY <1>1, <1>3, <1>4, <1>5
  <2>2. QED BY <2>1
<1>6. ASSUME NEW s, s \subseteq X, s # X PROVE val(s) = new(s)
  <2>1. Keeps(sol(s), ps, s)  BY <1>5, <1>6
  <2>2. sol(s)[s] = KeepsNext(sol(s), ps, s)
    <3> HIDE DEF sol
    <3>1. s \in SUBSET s  OBVIOUS
    <3> QED BY ONLY <2>1, <3>1, KeepsAt
  <2>3. CASE s = {}  BY <2>2, <2>3 DEF KeepsNext
  <2>4. CASE s # {}
    <3>1. PICK x : x = Greatest(s)  OBVIOUS
    <3>2. PICK t : t = s \ {x}  OBVIOUS
    <3>3. x \in s  BY <1>4, <1>6, <2>4, <3>1, MaxIn, IndicesPart
    <3>4. t \subseteq X /\ t # X /\ t \subseteq s /\ Indices(t)
      BY <1>4, <1>6, <3>2, <3>3, IndicesPart
    <3>5. Keeps(sol(t), ps, t)  BY <1>5, <3>4
    <3>7. sol(s)[t] = sol(t)[t]
      <4> HIDE DEF sol
      <4>1. PICK f : f = sol(s)  OBVIOUS
      <4>2. PICK g : g = sol(t)  OBVIOUS
      <4>3. Keeps(f, ps, s) /\ Keeps(g, ps, t)  BY <2>1, <3>5, <4>1, <4>2
      <4>5. t \subseteq t  OBVIOUS
      <4>6. f[t] = g[t]
        <5>1. PICK qs : qs = ps  OBVIOUS
        <5>2. Keeps(g, qs, t) /\ \A i \in t : ps[i] = qs[i]  BY <4>3, <5>1
        <5>4. Indices(t) /\ t \subseteq s  BY <3>4
        <5>3. QED BY ONLY <5>4, <4>3, <5>2, <4>5, KeepsAgree
      <4> QED BY <4>1, <4>2, <4>6
    <3>8. QED BY <2>2, <2>4, <3>1, <3>2, <3>7 DEF KeepsNext
  <2>5. QED BY <2>3, <2>4
<1>7. PICK f : f = [s \in SUBSET X |-> new(s)]  OBVIOUS
<1>8. ASSUME NEW s \in SUBSET X
      PROVE  new(s) = IF s = {} THEN <<>> ELSE WithPart(f[s \ {Greatest(s)}], ps[Greatest(s)])
  <2>1. CASE s = {}  BY <2>1
  <2>2. CASE s # {}
    <3>1. PICK t : t = s \ {Greatest(s)}  OBVIOUS
    <3>2. Greatest(s) \in s  BY <1>4, <2>2, MaxIn, IndicesPart
    <3>3. t \in SUBSET X /\ t # X  BY <3>1, <3>2
    <3>4. f[t] = new(t)
      <4> HIDE DEF new
      <4> QED BY <1>7, <3>3
    <3>5. val(t) = new(t)  BY <1>6, <3>3
    <3>6. f[t] = val(t)  BY <3>4, <3>5
    <3>7. QED
      <4> HIDE DEF val
      <4> QED BY <2>2, <3>1, <3>6
  <2>3. QED BY <2>1, <2>2
<1>9. Keeps(f, ps, X)
  <2> HIDE DEF new
  <2>1. f = [s \in SUBSET X |-> IF s = {} THEN <<>> ELSE WithPart(f[s \ {Greatest(s)}], ps[Greatest(s)])]
    BY <1>7, <1>8
  <2>2. QED BY <2>1 DEF Keeps
<1>10. QED BY <1>4, <1>9

\* The function that NotEmpty is defined by is a solution.
LEMMA NotEmptySolution ==
    ASSUME NEW n \in Nat, NEW ps, DOMAIN ps = 1..n
    PROVE  \E f : Keeps(f, ps, DOMAIN ps) /\ NotEmpty(ps) = f[DOMAIN ps]
<1>1. PICK f : f = CHOOSE g : Keeps(g, ps, DOMAIN ps)  OBVIOUS
<1>2. Keeps(f, ps, DOMAIN ps)
  <2>1. Indices(DOMAIN ps)  BY DEF Indices
  <2>2. QED BY <1>1, <2>1, KeepsExist
<1>3. NotEmpty(ps) = f[DOMAIN ps]  BY <1>1, Zenon DEF NotEmpty, WithPart, FoldLeft, MapThenFoldSet, Keeps, Greatest, Max
<1>4. QED BY <1>2, <1>3


\* No parts.
LEMMA NotEmptyNone == ASSUME NEW ps, DOMAIN ps = {} PROVE NotEmpty(ps) = <<>>
<1>1. DOMAIN ps = 1..0  OBVIOUS
<1>2. PICK f : Keeps(f, ps, DOMAIN ps) /\ NotEmpty(ps) = f[DOMAIN ps]
  <2>1. 0 \in Nat  OBVIOUS
  <2>2. QED BY <1>1, <2>1, NotEmptySolution
<1>3. DOMAIN ps \in SUBSET DOMAIN ps  OBVIOUS
<1>4. QED BY <1>2, <1>3, KeepsAt DEF KeepsNext

\* One part more.
LEMMA NotEmptyMore ==
    ASSUME NEW n \in Nat, NEW ps, NEW qs, DOMAIN ps = 1..n, DOMAIN qs = 1..(n + 1),
           \A i \in 1..n : qs[i] = ps[i]
    PROVE  NotEmpty(qs) = WithPart(NotEmpty(ps), qs[n + 1])
<1>1. PICK f : Keeps(f, ps, DOMAIN ps) /\ NotEmpty(ps) = f[DOMAIN ps]  BY NotEmptySolution
<1>2. PICK g : Keeps(g, qs, DOMAIN qs) /\ NotEmpty(qs) = g[DOMAIN qs]
  <2>1. n + 1 \in Nat  OBVIOUS
  <2>2. QED BY <2>1, NotEmptySolution
<1>3. PICK s : s = 1..(n + 1)  OBVIOUS
<1>4. Greatest(s) = n + 1
  <2>1. s \subseteq 1..(n + 1) /\ n + 1 \in s /\ n + 1 \in Nat  BY <1>3
  <2>0. Indices(s)  BY <2>1 DEF Indices
  <2>2. Greatest(s) \in s /\ \A y \in s : Greatest(s) >= y  BY <2>0, <2>1, MaxIn
  <2>3. QED BY <1>3, <2>1, <2>2
<1>5. s \ {n + 1} = 1..n  BY <1>3
<1>6. g[s] = WithPart(g[1..n], qs[n + 1])
  <2>1. s \in SUBSET DOMAIN qs  BY <1>3
  <2>2. n + 1 \in s  BY <1>3
  <2>3. g[s] = KeepsNext(g, qs, s)
    BY ONLY <1>2, <2>1, KeepsAt
  <2>4. QED BY <1>4, <1>5, <2>2, <2>3 DEF KeepsNext
<1>7. g[1..n] = f[1..n]
  <2>1. 1..n \subseteq DOMAIN qs /\ 1..n \subseteq DOMAIN ps /\ 1..n \subseteq 1..n  OBVIOUS
  <2>2. Indices(1..n)  BY DEF Indices
  <2>3. QED BY <1>1, <1>2, <2>1, <2>2, KeepsAgree
<1>8. QED BY <1>1, <1>2, <1>3, <1>6, <1>7

-------------------------------------------------------------------------------
(* Runs of bytes *)

\* The bytes behind the first x, up to the first y.
Run(x, y) == [j \in 1..(y - x) |-> x + j]

\* An interval from 1 has one bound.
LEMMA SameBound == ASSUME NEW m \in Nat, NEW n \in Nat, 1..m = 1..n PROVE m = n
<1>1. ASSUME m < n PROVE FALSE
  <2>1. n \in 1..n /\ n \notin 1..m  BY <1>1
  <2>2. QED BY <2>1
<1>2. ASSUME n < m PROVE FALSE
  <2>1. m \in 1..m /\ m \notin 1..n  BY <1>2
  <2>2. QED BY <2>1
<1>3. QED BY <1>1, <1>2

\* A function on the first n numbers is a sequence of that length.
LEMMA IsSequence ==
    ASSUME NEW S, NEW n \in Nat, NEW s, s \in [1..n -> S]
    PROVE  s \in Seq(S) /\ Len(s) = n
<1>1. s \in Seq(S)  BY SeqDef
<1>2. DOMAIN s = 1..n /\ DOMAIN s = 1..Len(s) /\ Len(s) \in Nat  BY <1>1, LenProperties
<1>3. QED BY <1>1, <1>2, SameBound

\* A run is a sequence of its length, and has its bytes in order.
LEMMA RunType ==
    ASSUME NEW x \in Nat, NEW y \in Nat, x <= y
    PROVE  /\ Run(x, y) \in Seq(Nat) /\ Len(Run(x, y)) = y - x
           /\ \A j \in 1..(y - x) : Run(x, y)[j] = x + j
<1>1. y - x \in Nat  OBVIOUS
<1>2. Run(x, y) \in [1..(y - x) -> Nat]  BY <1>1 DEF Run
<1>3. \A j \in 1..(y - x) : Run(x, y)[j] = x + j  BY DEF Run
<1>4. QED BY <1>1, <1>2, <1>3, IsSequence

\* A sequence of the same bytes is the run.
LEMMA IsRun ==
    ASSUME NEW x \in Nat, NEW y \in Nat, x <= y, NEW s \in Seq(Nat), Len(s) = y - x,
           \A j \in 1..(y - x) : s[j] = x + j
    PROVE  s = Run(x, y)
<1>1. PICK t : t = Run(x, y)  OBVIOUS
<1>2. t \in Seq(Nat) /\ Len(t) = y - x /\ \A j \in 1..(y - x) : t[j] = x + j  BY <1>1, RunType
<1>3. Len(s) = Len(t) /\ \A i \in 1..Len(s) : s[i] = t[i]  BY <1>2
<1>4. s = t  BY <1>2, <1>3, SeqEqual
<1>5. QED BY <1>1, <1>4

\* A run from a byte to itself is empty.
LEMMA RunNone == ASSUME NEW x \in Nat PROVE Run(x, x) = <<>>
<1>1. Run(x, x) \in Seq(Nat) /\ Len(Run(x, x)) = 0  BY RunType
<1>2. QED BY <1>1, EmptySeq

\* Two runs, one behind the other.
LEMMA RunJoin ==
    ASSUME NEW x \in Nat, NEW y \in Nat, NEW z \in Nat, x <= y, y <= z
    PROVE  Run(x, y) \o Run(y, z) = Run(x, z)
<1>1. PICK s : s = Run(x, y)  OBVIOUS
<1>2. PICK t : t = Run(y, z)  OBVIOUS
<1>3. /\ s \in Seq(Nat) /\ Len(s) = y - x /\ \A j \in 1..(y - x) : s[j] = x + j
      /\ t \in Seq(Nat) /\ Len(t) = z - y /\ \A j \in 1..(z - y) : t[j] = y + j
  BY <1>1, <1>2, RunType
<1>4. /\ s \o t \in Seq(Nat) /\ Len(s \o t) = Len(s) + Len(t)
      /\ \A i \in 1 .. Len(s) + Len(t) : (s \o t)[i] = IF i <= Len(s) THEN s[i] ELSE t[i - Len(s)]
  BY <1>3, ConcatProperties
<1>5. x <= z /\ Len(s \o t) = z - x  BY <1>3, <1>4
<1>6. ASSUME NEW j \in 1..(z - x) PROVE (s \o t)[j] = x + j
  <2>1. (s \o t)[j] = IF j <= y - x THEN s[j] ELSE t[j - (y - x)]  BY <1>3, <1>4
  <2>2. CASE j <= y - x  BY <1>3, <2>1, <2>2
  <2>3. CASE ~(j <= y - x)
    <3>1. j - (y - x) \in 1..(z - y)  BY <2>3
    <3>2. t[j - (y - x)] = y + (j - (y - x))  BY <1>3, <3>1
    <3>3. QED BY <2>1, <2>3, <3>2
  <2>4. QED BY <2>2, <2>3
<1>7. s \o t = Run(x, z)  BY <1>4, <1>5, <1>6, IsRun
<1>8. QED BY <1>1, <1>2, <1>7

\* A piece of a run.
LEMMA RunPart ==
    ASSUME NEW x \in Nat, NEW y \in Nat, x <= y, NEW m \in Nat, NEW n \in Nat, m <= n, n <= y - x
    PROVE  SubSeq(Run(x, y), m + 1, n) = Run(x + m, x + n)
<1>1. PICK s : s = Run(x, y)  OBVIOUS
<1>2. s \in Seq(Nat) /\ Len(s) = y - x /\ \A j \in 1..(y - x) : s[j] = x + j  BY <1>1, RunType
<1>3. \A i \in (m + 1)..n : s[i] \in Nat  BY <1>2
<1>4. /\ SubSeq(s, m + 1, n) \in Seq(Nat)
      /\ Len(SubSeq(s, m + 1, n)) = IF m + 1 <= n THEN n - (m + 1) + 1 ELSE 0
      /\ \A i \in 1 .. n - (m + 1) + 1 : SubSeq(s, m + 1, n)[i] = s[m + 1 + i - 1]
  BY <1>3, SubSeqProperties
<1>5. PICK t : t = SubSeq(s, m + 1, n)  OBVIOUS
<1>6. t \in Seq(Nat) /\ Len(t) = (x + n) - (x + m)  BY <1>4, <1>5
<1>7. ASSUME NEW j \in 1..((x + n) - (x + m)) PROVE t[j] = x + m + j
  <2>1. j \in 1..(n - (m + 1) + 1) /\ m + 1 + j - 1 = m + j /\ m + j \in 1..(y - x)  OBVIOUS
  <2>2. t[j] = s[m + j]  BY <1>4, <1>5, <2>1
  <2>3. QED BY <1>2, <2>1, <2>2
<1>8. x + m \in Nat /\ x + n \in Nat /\ x + m <= x + n  OBVIOUS
<1>9. t = Run(x + m, x + n)  BY ONLY <1>6, <1>7, <1>8, IsRun
<1>10. QED BY <1>1, <1>5, <1>9

\* Induction from m on.
LEMMA From ==
    ASSUME NEW m \in Nat, NEW n \in Nat, m <= n, NEW S, m \in S,
           \A k \in m..(n - 1) : k \in S => k + 1 \in S
    PROVE  m..n \subseteq S
<1>1. PICK T : T = {d \in 0..(n - m) : m + d \in S}  OBVIOUS
<1>2. 0 \in T  BY <1>1
<1>3. n - m \in Nat  OBVIOUS
<1>4. ASSUME NEW k \in 0..(n - m - 1), k \in T PROVE k + 1 \in T
  <2>1. m + k \in m..(n - 1) /\ m + k \in S /\ (m + k) + 1 = m + (k + 1)  BY <1>1, <1>4
  <2>2. m + (k + 1) \in S  BY <2>1
  <2>3. QED BY <1>1, <2>2
<1>5. 0..(n - m) \subseteq T  BY ONLY <1>2, <1>3, <1>4, UpTo
<1>6. ASSUME NEW k \in m..n PROVE k \in S
  <2>1. k - m \in 0..(n - m) /\ m + (k - m) = k  OBVIOUS
  <2>2. k - m \in T  BY <1>5, <2>1
  <2>3. QED BY <1>1, <2>1, <2>2
<1>7. QED BY <1>6

\* FlattenSeq() of runs that follow each other.
Flats(f, ss) == f = [i \in 1..Len(ss) |-> IF i = 1 THEN ss[i] ELSE f[i - 1] \o ss[i]]

\* The recursion of FlattenSeq, at one place.
LEMMA FlatsAt ==
    ASSUME NEW f, NEW ss, Flats(f, ss), NEW i \in 1..Len(ss)
    PROVE  f[i] = IF i = 1 THEN ss[i] ELSE f[i - 1] \o ss[i]
<1> DEFINE e(g, k) == IF k = 1 THEN ss[k] ELSE g[k - 1] \o ss[k]
<1>1. f = [k \in 1..Len(ss) |-> e(f, k)]  BY Zenon DEF Flats
<1> HIDE DEF e
<1>2. f[i] = e(f, i)  BY <1>1, Zenon
<1>3. QED BY <1>2 DEF e

\* Bounds that never fall.
Rises(b, n) == \A k \in 1..n : b[k] \in Nat /\ b[k + 1] \in Nat /\ b[k] <= b[k + 1]

\* They are naturals, and none is below an earlier one.
LEMMA RisesOn ==
    ASSUME NEW b, NEW n \in Nat, Rises(b, n), NEW i \in 1..n
    PROVE  \A k \in i..n : b[k] \in Nat /\ b[i] <= b[k] /\ b[i] <= b[k + 1] /\ b[k + 1] \in Nat
<1>1. PICK S : S = {k \in i..n : b[i] <= b[k]}  OBVIOUS
<1>2. i \in S  BY <1>1 DEF Rises
<1>3. ASSUME NEW k \in i..(n - 1), k \in S PROVE k + 1 \in S
  <2>1. k \in 1..n /\ k + 1 \in i..n /\ i \in 1..n  BY <1>3
  <2>2. b[k] <= b[k + 1] /\ b[k] \in Nat /\ b[k + 1] \in Nat /\ b[i] \in Nat /\ b[i] <= b[k]
    BY <1>1, <1>3, <2>1 DEF Rises
  <2>3. QED BY <1>1, <2>1, <2>2
<1>4. i..n \subseteq S
  <2>1. i \in Nat /\ i <= n  OBVIOUS
  <2>2. QED BY <1>2, <1>3, <2>1, From
<1>5. ASSUME NEW k \in i..n
      PROVE  b[k] \in Nat /\ b[i] <= b[k] /\ b[i] <= b[k + 1] /\ b[k + 1] \in Nat
  <2>1. k \in 1..n /\ i \in 1..n /\ b[i] <= b[k]  BY <1>1, <1>4
  <2>2. b[k] <= b[k + 1] /\ b[k] \in Nat /\ b[k + 1] \in Nat /\ b[i] \in Nat  BY <2>1 DEF Rises
  <2>3. QED BY <2>1, <2>2
<1>6. QED BY <1>5

\* Runs that follow each other are one run when they are put together.
LEMMA FlatRuns ==
    ASSUME NEW ss, NEW b, Len(ss) \in Nat \ {0}, Rises(b, Len(ss)),
           \A k \in 1..Len(ss) : ss[k] = Run(b[k], b[k + 1])
    PROVE  FlattenSeq(ss) = Run(b[1], b[Len(ss) + 1])
<1>1. PICK n \in Nat : n = Len(ss) /\ n # 0  OBVIOUS
<1>2. PICK F : F = [i \in 1..n |-> Run(b[1], b[i + 1])]  OBVIOUS
<1>3. ASSUME NEW i \in 1..n
      PROVE  Run(b[1], b[i + 1]) = IF i = 1 THEN ss[i] ELSE F[i - 1] \o ss[i]
  <2>1. CASE i = 1  BY <1>1, <2>1
  <2>2. CASE i # 1
    <3>1. i - 1 \in 1..n /\ (i - 1) + 1 = i /\ 1 \in 1..n /\ i \in 1..n  BY <2>2
    <3>2. F[i - 1] = Run(b[1], b[i])  BY <1>2, <3>1
    <3>3. ss[i] = Run(b[i], b[i + 1])  BY <1>1
    <3>4. b[1] \in Nat /\ b[i] \in Nat /\ b[i + 1] \in Nat /\ b[1] <= b[i] /\ b[i] <= b[i + 1]
      BY <1>1, <3>1, RisesOn DEF Rises
    <3>5. Run(b[1], b[i]) \o Run(b[i], b[i + 1]) = Run(b[1], b[i + 1])  BY <3>4, RunJoin
    <3>6. QED BY <2>2, <3>2, <3>3, <3>5
  <2>3. QED BY <2>1, <2>2
<1>4. Flats(F, ss)
  <2>1. F = [i \in 1..n |-> IF i = 1 THEN ss[i] ELSE F[i - 1] \o ss[i]]  BY <1>2, <1>3
  <2>2. QED BY <1>1, <2>1 DEF Flats
<1>5. PICK f : f = CHOOSE g : Flats(g, ss)  OBVIOUS
<1>6. Flats(f, ss)  BY <1>4, <1>5
<1>7. FlattenSeq(ss) = f[n]
  BY <1>1, <1>5, Zenon DEF FlattenSeq, Flats
<1>8. PICK S : S = {i \in 1..n : f[i] = F[i]}  OBVIOUS
<1>9. 1 \in S
  <2>1. 1 \in 1..n  BY <1>1
  <2>2. f[1] = ss[1] /\ F[1] = ss[1]  BY <1>1, <1>4, <1>6, <2>1, FlatsAt
  <2>3. QED BY <1>8, <2>1, <2>2
<1>10. ASSUME NEW k \in 1..(n - 1), k \in S PROVE k + 1 \in S
  <2>1. PICK i \in 1..n : i = k + 1  OBVIOUS
  <2>2. i # 1 /\ i - 1 = k /\ i \in 1..Len(ss)  BY <1>1, <2>1
  <2>3. f[i] = f[k] \o ss[i] /\ F[i] = F[k] \o ss[i]
    <3>1. f[i] = IF i = 1 THEN ss[i] ELSE f[i - 1] \o ss[i]  BY ONLY ZenonT(30), <1>6, <2>2, FlatsAt
    <3>2. F[i] = IF i = 1 THEN ss[i] ELSE F[i - 1] \o ss[i]  BY ONLY ZenonT(30), <1>4, <2>2, FlatsAt
    <3>3. QED BY <2>2, <3>1, <3>2
  <2>4. f[k] = F[k]  BY <1>8, <1>10
  <2>5. QED BY <1>8, <2>1, <2>3, <2>4
<1>11. 1..n \subseteq S
  <2>1. 1 \in Nat /\ 1 <= n  BY <1>1
  <2>2. QED BY ONLY n \in Nat, <1>9, <1>10, <2>1, From
<1>12. n \in 1..n  BY <1>1
<1>13. f[n] = F[n] /\ F[n] = Run(b[1], b[n + 1])  BY <1>2, <1>8, <1>11, <1>12
<1>14. QED BY <1>1, <1>7, <1>13

-------------------------------------------------------------------------------
(* Ladders: where the parts begin *)

\* The lengths of parts, from part i on, are the steps of b.
Ladder(b, ps, i) ==
    /\ \A k \in i..Len(ps) : b[k] \in Nat /\ ps[k].length \in Nat /\ b[k + 1] = b[k] + ps[k].length
    /\ b[Len(ps) + 1] \in Nat

\* The first byte of each part is a natural number, and not before those of earlier parts.
LEMMA LadderAt ==
    ASSUME NEW S, NEW ps \in Seq(S), NEW b, NEW i \in 1..(Len(ps) + 1), Ladder(b, ps, i)
    PROVE  /\ Len(ps) \in Nat
           /\ \A k \in i..(Len(ps) + 1) : b[k] \in Nat /\ b[i] <= b[k] /\ b[k] <= b[Len(ps) + 1]
           /\ \A k \in i..Len(ps) : b[k] <= b[k + 1]
<1>1. PICK n \in Nat : n = Len(ps)  BY LenProperties
<1>2. ASSUME NEW k \in i..(n + 1) PROVE b[k] \in Nat
  <2>1. k \in i..n \/ k = n + 1  BY <1>1
  <2>2. QED BY <1>1, <2>1 DEF Ladder
<1>3. ASSUME NEW k \in i..n
      PROVE  b[k] \in Nat /\ b[k + 1] \in Nat /\ ps[k].length \in Nat /\ b[k + 1] = b[k] + ps[k].length
             /\ b[k] <= b[k + 1]
  <2>1. k + 1 \in i..(n + 1) /\ k \in i..(n + 1)  BY <1>1
  <2>2. b[k] \in Nat /\ b[k + 1] \in Nat  BY <1>2, <2>1
  <2>3. ps[k].length \in Nat /\ b[k + 1] = b[k] + ps[k].length  BY <1>1, <1>3 DEF Ladder
  <2>4. QED BY <2>2, <2>3
<1>4. PICK S1 : S1 = {k \in i..(n + 1) : b[i] <= b[k]}  OBVIOUS
<1>5. \A k \in i..(n + 1) : b[i] <= b[k]
  <2>1. i \in S1 /\ i \in Nat /\ i <= n + 1 /\ n + 1 \in Nat  BY <1>1, <1>2, <1>4
  <2>2. ASSUME NEW k \in i..((n + 1) - 1), k \in S1 PROVE k + 1 \in S1
    <3>1. k \in i..n /\ k + 1 \in i..(n + 1)  BY <1>1
    <3>2. b[i] \in Nat /\ b[i] <= b[k] /\ b[k] <= b[k + 1] /\ b[k] \in Nat /\ b[k + 1] \in Nat
      BY <1>2, <1>3, <1>4, <2>1, <2>2, <3>1
    <3>3. QED BY <1>4, <3>1, <3>2
  <2>3. i..(n + 1) \subseteq S1  BY ONLY <2>1, <2>2, From
  <2>4. QED BY <1>4, <2>3
<1>6. \A k \in i..(n + 1) : b[k] <= b[n + 1]
  <2>1. PICK S2 : S2 = {d \in 0..(n + 1 - i) : b[n + 1 - d] <= b[n + 1]}  OBVIOUS
  <2>2. n + 1 - i \in Nat  BY <1>1
  <2>3. 0 \in S2
    <3>1. n + 1 - 0 = n + 1 /\ n + 1 \in i..(n + 1)  BY <1>1
    <3>2. b[n + 1] \in Nat  BY <1>2, <3>1
    <3>3. QED BY <2>1, <2>2, <3>1, <3>2
  <2>4. ASSUME NEW d \in 0..((n + 1 - i) - 1), d \in S2 PROVE d + 1 \in S2
    <3>1. PICK k : k = n + 1 - (d + 1)  OBVIOUS
    <3>2. k \in i..n /\ k + 1 = n + 1 - d /\ d + 1 \in 0..(n + 1 - i) /\ n + 1 \in i..(n + 1)
      BY <1>1, <2>2, <3>1
    <3>3. b[k] <= b[k + 1] /\ b[k + 1] <= b[n + 1]  BY <1>3, <2>1, <2>4, <3>2
    <3>4. b[k] \in Nat /\ b[k + 1] \in Nat /\ b[n + 1] \in Nat  BY <1>2, <1>3, <3>2
    <3>5. b[n + 1 - (d + 1)] <= b[n + 1]  BY <3>1, <3>3, <3>4
    <3>6. QED BY <2>1, <3>2, <3>5
  <2>5. 0..(n + 1 - i) \subseteq S2  BY ONLY <2>2, <2>3, <2>4, UpTo
  <2>6. ASSUME NEW k \in i..(n + 1) PROVE b[k] <= b[n + 1]
    <3>1. n + 1 - k \in 0..(n + 1 - i) /\ n + 1 - (n + 1 - k) = k  BY <1>1
    <3>2. n + 1 - k \in S2  BY <2>5, <3>1
    <3>3. QED BY <2>1, <3>1, <3>2
  <2>7. QED BY <2>6
<1>7. QED BY <1>1, <1>2, <1>3, <1>5, <1>6

\* How much parts i to k hold.
LEMMA SizeOf ==
    ASSUME NEW S, NEW ps \in Seq(S), NEW b, NEW i \in 1..(Len(ps) + 1), Ladder(b, ps, i)
    PROVE  \A k \in (i - 1)..Len(ps) : Size(SubSeq(ps, i, k)) = b[k + 1] - b[i]
<1>1. PICK n \in Nat : n = Len(ps)  BY LenProperties
<1>2. PICK T : T = {k \in (i - 1)..n : Size(SubSeq(ps, i, k)) = b[k + 1] - b[i]}  OBVIOUS
<1>3. \A k \in i..(n + 1) : b[k] \in Nat  BY <1>1, LadderAt
<1>4. i - 1 \in T
  <2>1. i \in i..(n + 1) /\ (i - 1) + 1 = i /\ i - 1 \in (i - 1)..n /\ i - 1 \in Int /\ i \in Int /\ i - 1 < i
    BY <1>1
  <2>2. SubSeq(ps, i, i - 1) = <<>>  BY ONLY <2>1, SubSeqEmpty
  <2>3. Size(SubSeq(ps, i, i - 1)) = 0
    <3>1. DOMAIN <<>> = {}  OBVIOUS
    <3>2. Size(<<>>) = 0  BY ONLY <3>1, SizeNone
    <3>3. QED BY <2>2, <3>2
  <2>4. b[i] \in Nat  BY <1>3, <2>1
  <2>5. QED BY <1>2, <2>1, <2>3, <2>4
<1>5. ASSUME NEW k \in (i - 1)..(n - 1), k \in T PROVE k + 1 \in T
  <2>1. PICK m : m = k + 1  OBVIOUS
  <2>2. m \in i..n /\ m \in 1..n /\ m - 1 = k /\ m \in i..(n + 1) /\ m + 1 \in i..(n + 1) /\ i \in i..(n + 1)
    BY <1>1, <2>1
  <2>3. PICK p : p = SubSeq(ps, i, k)  OBVIOUS
  <2>4. PICK q : q = SubSeq(ps, i, m)  OBVIOUS
  <2>5. \A j \in i..m : ps[j] \in S
    <3>1. \A j \in i..m : j \in 1..Len(ps)  BY <1>1, <2>2
    <3>2. QED BY <3>1, ElementOfSeq
  <2>6. i \in Int /\ k \in Int /\ m \in Int  BY <1>1, <2>2
  <2>7. /\ p \in Seq(S) /\ Len(p) = k - i + 1
        /\ \A j \in 1..(k - i + 1) : p[j] = ps[i + j - 1]
    <3>1. \A j \in i..k : ps[j] \in S  BY <2>2, <2>5
    <3>2. /\ SubSeq(ps, i, k) \in Seq(S)
          /\ Len(SubSeq(ps, i, k)) = IF i <= k THEN k - i + 1 ELSE 0
          /\ \A j \in 1..(k - i + 1) : SubSeq(ps, i, k)[j] = ps[i + j - 1]
      BY ONLY <2>6, <3>1, SubSeqProperties
    <3>3. QED BY <1>1, <2>3, <3>2
  <2>8. /\ q \in Seq(S) /\ Len(q) = m - i + 1
        /\ \A j \in 1..(m - i + 1) : q[j] = ps[i + j - 1]
    <3>2. /\ SubSeq(ps, i, m) \in Seq(S)
          /\ Len(SubSeq(ps, i, m)) = IF i <= m THEN m - i + 1 ELSE 0
          /\ \A j \in 1..(m - i + 1) : SubSeq(ps, i, m)[j] = ps[i + j - 1]
      BY ONLY <2>6, <2>5, SubSeqProperties
    <3>3. QED BY <2>2, <2>4, <3>2
  <2>9. PICK c \in Nat : c = k - i + 1  BY <1>1
  <2>10. DOMAIN p = 1..c /\ DOMAIN q = 1..(c + 1)
    <3>1. DOMAIN p = 1..Len(p) /\ DOMAIN q = 1..Len(q)  BY <2>7, <2>8, LenProperties
    <3>2. Len(p) = c /\ Len(q) = c + 1  BY <2>1, <2>2, <2>6, <2>7, <2>8, <2>9
    <3>3. QED BY <3>1, <3>2
  <2>11. \A j \in 1..c : q[j].length = p[j].length
    <3>1. \A j \in 1..c : j \in 1..(k - i + 1) /\ j \in 1..(m - i + 1)  BY <2>1, <2>2, <2>6, <2>9
    <3>2. QED BY <2>7, <2>8, <3>1
  <2>12. q[c + 1] = ps[m]
    <3>1. c + 1 \in 1..(m - i + 1) /\ i + (c + 1) - 1 = m  BY <2>1, <2>2, <2>6, <2>9
    <3>2. QED BY <2>8, <3>1
  <2>13. Size(q) = Size(p) + ps[m].length
    <3>1. Size(q) = Size(p) + q[c + 1].length  BY ONLY c \in Nat, <2>10, <2>11, SizeMore
    <3>2. QED BY <2>12, <3>1
  <2>14. Size(p) = b[m] - b[i]  BY <1>2, <1>5, <2>1, <2>3
  <2>15. b[m + 1] = b[m] + ps[m].length /\ ps[m].length \in Nat  BY <1>1, <2>2 DEF Ladder
  <2>16. b[m] \in Nat /\ b[i] \in Nat  BY <1>3, <2>2
  <2>17. Size(q) = b[m + 1] - b[i]  BY <2>13, <2>14, <2>15, <2>16
  <2>18. QED BY <1>2, <2>1, <2>2, <2>4, <2>17
<1>6. (i - 1)..n \subseteq T
  <2>1. i - 1 \in Nat /\ i - 1 <= n  BY <1>1
  <2>2. QED BY ONLY n \in Nat, <1>4, <1>5, <2>1, From
<1>7. QED BY <1>1, <1>2, <1>6

\* Where a cursor comes to rest.
LEMMA PartAfterIs ==
    ASSUME NEW S, NEW ps \in Seq(S), NEW b, NEW i \in 1..(Len(ps) + 1), Ladder(b, ps, i), NEW n \in Nat
    PROVE  LET k == PartAfter(ps, i, n)
           IN  /\ k \in i..(Len(ps) + 1) /\ b[k] - b[i] <= n
               /\ k <= Len(ps) => n < b[k + 1] - b[i]
<1>1. PICK l \in Nat : l = Len(ps)  BY LenProperties
<1>2. PICK enough : enough = {k \in i..l : Size(SubSeq(ps, i, k)) > n}  OBVIOUS
<1>3. PICK k : k = PartAfter(ps, i, n)  OBVIOUS
<1>4. k = IF enough = {} THEN l + 1 ELSE CHOOSE m \in enough : \A j \in enough : m <= j
  BY <1>1, <1>2, <1>3 DEF PartAfter
<1>5. \A m \in i..(l + 1) : b[m] \in Nat  BY <1>1, LadderAt
<1>6. \A m \in (i - 1)..l : Size(SubSeq(ps, i, m)) = b[m + 1] - b[i]  BY <1>1, SizeOf
<1>7. i \in Nat /\ i \in i..(l + 1) /\ b[i] \in Nat  BY <1>1, <1>5
<1>8. ASSUME NEW m \in i..l, m \notin enough PROVE b[m + 1] - b[i] <= n
  <2>1. m \in (i - 1)..l /\ m + 1 \in i..(l + 1)  BY <1>7
  <2>2. Size(SubSeq(ps, i, m)) = b[m + 1] - b[i] /\ b[m + 1] \in Nat  BY <1>5, <1>6, <2>1
  <2>3. ~(Size(SubSeq(ps, i, m)) > n)  BY <1>2, <1>8
  <2>4. QED BY <1>7, <2>2, <2>3
<1>9. CASE enough = {}
  <2>1. k = l + 1 /\ k \in i..(l + 1)  BY <1>1, <1>4, <1>9
  <2>2. b[l + 1] - b[i] <= n
    <3>1. CASE i = l + 1  BY <1>7, <3>1
    <3>2. CASE i # l + 1
      <4>1. l \in i..l  BY <1>1, <1>7, <3>2
      <4>2. QED BY <1>8, <1>9, <4>1
    <3>3. QED BY <3>1, <3>2
  <2>3. QED BY <1>1, <1>3, <2>1, <2>2
<1>10. CASE enough # {}
  <2>1. \E m \in enough : \A j \in enough : m <= j
    <3>1. PICK F : F = {1..m : m \in enough}  OBVIOUS
    <3>2. F # {} /\ IsFiniteSet(1..l) /\ \A X \in F : X \subseteq 1..l
      <4>1. IsFiniteSet(1..l)  BY FS_Interval
      <4>2. QED BY <1>2, <1>7, <1>10, <3>1, <4>1
    <3>3. PICK X \in F : \A Y \in F : Y \subseteq X => Y = X  BY <3>2, LeastSubset
    <3>4. PICK m \in enough : X = 1..m  BY <3>1, <3>3
    <3>5. ASSUME NEW j \in enough, j < m PROVE FALSE
      <4>1. 1..j \in F /\ 1..j \subseteq 1..m  BY <1>2, <1>7, <3>1, <3>5
      <4>2. 1..j = 1..m  BY <3>3, <3>4, <4>1
      <4>3. m \in 1..m /\ m \notin 1..j  BY <1>2, <1>7, <3>5
      <4>4. QED BY <4>2, <4>3
    <3>6. \A j \in enough : m <= j  BY <1>2, <1>7, <3>5
    <3>7. QED BY <3>6
  <2>2. k \in enough /\ \A j \in enough : k <= j  BY <1>4, <1>10, <2>1
  <2>3. k \in i..l /\ Size(SubSeq(ps, i, k)) > n  BY <1>2, <2>2
  <2>4. k \in (i - 1)..l /\ k + 1 \in i..(l + 1) /\ k \in i..(l + 1)  BY <1>7, <2>3
  <2>5. n < b[k + 1] - b[i]
    <3>1. Size(SubSeq(ps, i, k)) = b[k + 1] - b[i] /\ b[k + 1] \in Nat  BY <1>5, <1>6, <2>4
    <3>2. QED BY <1>7, <2>3, <3>1
  <2>6. b[k] - b[i] <= n
    <3>1. CASE k = i  BY <1>7, <3>1
    <3>2. CASE k # i
      <4>1. k - 1 \in i..l /\ (k - 1) + 1 = k /\ ~(k <= k - 1)  BY <1>7, <2>3, <3>2
      <4>2. k - 1 \notin enough  BY <2>2, <4>1
      <4>3. QED BY <1>8, <4>1, <4>2
    <3>3. QED BY <3>1, <3>2
  <2>7. QED BY <1>1, <1>3, <2>4, <2>5, <2>6
<1>11. QED BY <1>9, <1>10

-------------------------------------------------------------------------------
(* What parts point to *)

\* Where the bytes of a part are.
Stores == {"js", "owned", "inline", "held", "released"}

\* What a part is.
PartType == [store : Stores, content : Seq(Nat), at : Nat, length : Nat, ownedOffset : Nat,
             stale : BOOLEAN]

\* A part is within what it points into; its own string begins where it points, and only that
\* can have moved.
Sound(p) ==
    /\ p \in PartType /\ p.at + p.length <= Len(p.content)
    /\ p.store = "owned" => p.ownedOffset = p.at
    /\ p.stale => p.store = "owned"

\* The bytes of a part can be read where it points.
Fresh(p) == ~p.stale \/ p.length = 0

\* What a part stands for, if its pointer is good.
Pointed(p) == SubSeq(p.content, p.at + 1, p.at + p.length)

\* What a part points to is as long as the part.
LEMMA PointedType ==
    ASSUME NEW p, Sound(p)
    PROVE  /\ Pointed(p) \in Seq(Nat) /\ Len(Pointed(p)) = p.length /\ p.length \in Nat
           /\ \A j \in 1..p.length : Pointed(p)[j] = p.content[p.at + j]
<1>1. p.content \in Seq(Nat) /\ p.at \in Nat /\ p.length \in Nat /\ p.at + p.length <= Len(p.content)
  BY DEF Sound, PartType
<1>2. PICK s \in Seq(Nat) : s = p.content  BY <1>1
<1>3. PICK m \in Nat : m = p.at  BY <1>1
<1>4. PICK n \in Nat : n = p.length  BY <1>1
<1>5. \A i \in (m + 1)..(m + n) : s[i] \in Nat
  <2>1. Len(s) \in Nat /\ m + n <= Len(s)  BY <1>1, <1>2, <1>3, <1>4, LenProperties
  <2>2. \A i \in (m + 1)..(m + n) : i \in 1..Len(s)  BY <2>1
  <2>3. QED BY <2>2, ElementOfSeq
<1>6. /\ SubSeq(s, m + 1, m + n) \in Seq(Nat)
      /\ Len(SubSeq(s, m + 1, m + n)) = IF m + 1 <= m + n THEN m + n - (m + 1) + 1 ELSE 0
      /\ \A i \in 1 .. m + n - (m + 1) + 1 : SubSeq(s, m + 1, m + n)[i] = s[m + 1 + i - 1]
  <2>1. m + 1 \in Int /\ m + n \in Int  OBVIOUS
  <2>2. QED BY ONLY <1>5, <2>1, SubSeqProperties
<1>7. Pointed(p) = SubSeq(s, m + 1, m + n)  BY <1>2, <1>3, <1>4 DEF Pointed
<1>8. Len(Pointed(p)) = n  BY SMTT(30), <1>6, <1>7
<1>9. \A j \in 1..n : Pointed(p)[j] = s[m + j]
  <2>1. \A j \in 1..n : j \in 1..(m + n - (m + 1) + 1) /\ m + 1 + j - 1 = m + j  OBVIOUS
  <2>2. QED BY <1>6, <1>7, <2>1
<1>10. QED BY <1>2, <1>3, <1>4, <1>6, <1>7, <1>8, <1>9

\* Read through a good pointer, that is what is found.
LEMMA BytesOf == ASSUME NEW p, Sound(p), Fresh(p) PROVE Bytes(p) = Pointed(p)
<1>1. CASE ~p.stale  BY <1>1 DEF Bytes, Pointed
<1>2. CASE p.stale
  <2>1. p.length = 0  BY <1>2 DEF Fresh
  <2>2. Pointed(p) = <<>>
    <3>1. p.at \in Nat  BY DEF Sound, PartType
    <3>2. p.at + 1 \in Int /\ p.at + 0 \in Int /\ p.at + 0 < p.at + 1  BY <3>1
    <3>3. SubSeq(p.content, p.at + 1, p.at + 0) = <<>>  BY ONLY <3>2, SubSeqEmpty
    <3>4. QED BY <2>1, <3>3 DEF Pointed
  <2>3. [i \in 1..0 |-> 0] = <<>>  OBVIOUS
  <2>4. QED BY <1>2, <2>1, <2>2, <2>3 DEF Bytes
<1>3. p.stale \in BOOLEAN  BY DEF Sound, PartType
<1>4. QED BY <1>1, <1>2, <1>3

\* From part i on the parts are the message from byte b[i] on.
Spells(b, ps, i) ==
    /\ Ladder(b, ps, i)
    /\ \A k \in i..Len(ps) : Sound(ps[k]) /\ Pointed(ps[k]) = Run(b[k], b[k + 1])

\* The contents of parts that spell a run, from part i on, is that run.
LEMMA ContentsRun ==
    ASSUME NEW ps \in Seq(PartType), NEW b, NEW i \in 1..(Len(ps) + 1), Spells(b, ps, i),
           \A k \in i..Len(ps) : Fresh(ps[k])
    PROVE  Contents(SubSeq(ps, i, Len(ps))) = Run(b[i], b[Len(ps) + 1])
<1>1. PICK n \in Nat : n = Len(ps)  BY LenProperties
<1>2. PICK q : q = SubSeq(ps, i, n)  OBVIOUS
<1>3. PICK ss : ss = [j \in DOMAIN q |-> Bytes(q[j])]  OBVIOUS
<1>4. Contents(q) = FlattenSeq(ss)  BY <1>3 DEF Contents
<1>l. Ladder(b, ps, i)  BY DEF Spells
<1>5. \A k \in i..(n + 1) : b[k] \in Nat  BY <1>1, <1>l, LadderAt
<1>6. CASE i = n + 1
  <2>1. q = <<>>
    <3>1. i \in Int /\ n \in Int /\ n < i  BY <1>6
    <3>2. QED BY ONLY <1>2, <3>1, SubSeqEmpty
  <2>2. ss = <<>>  BY <1>3, <2>1
  <2>3. FlattenSeq(ss) = <<>>  BY <2>2, EmptySeq DEF FlattenSeq
  <2>4. b[n + 1] \in Nat  BY <1>5, <1>6
  <2>5. QED BY <1>1, <1>2, <1>4, <1>6, <2>3, <2>4, RunNone
<1>7. CASE i # n + 1
  <2>1. PICK c \in Nat \ {0} : c = n - i + 1  BY <1>1, <1>7
  <2>2. /\ q \in Seq(PartType) /\ Len(q) = c
        /\ \A j \in 1..c : q[j] = ps[i + j - 1]
    <3>1. \A k \in i..n : ps[k] \in PartType
      <4>1. \A k \in i..n : k \in 1..Len(ps)  BY <1>1
      <4>2. QED BY <4>1, ElementOfSeq
    <3>2. i \in Int /\ n \in Int  OBVIOUS
    <3>3. /\ SubSeq(ps, i, n) \in Seq(PartType)
          /\ Len(SubSeq(ps, i, n)) = IF i <= n THEN n - i + 1 ELSE 0
          /\ \A j \in 1..(n - i + 1) : SubSeq(ps, i, n)[j] = ps[i + j - 1]
      BY ONLY <3>1, <3>2, SubSeqProperties
    <3>4. QED BY <1>1, <1>2, <1>7, <2>1, <3>3
  <2>3. DOMAIN q = 1..c  BY <2>2, LenProperties
  <2>4. PICK a : a = [k \in 1..(c + 1) |-> b[i + k - 1]]  OBVIOUS
  <2>5. ASSUME NEW j \in 1..c PROVE ss[j] = Run(a[j], a[j + 1]) /\ a[j] \in Nat /\ a[j + 1] \in Nat /\ a[j] <= a[j + 1]
    <3>1. PICK k : k = i + j - 1  OBVIOUS
    <3>2. k \in i..n /\ k \in 1..n /\ i + (j + 1) - 1 = k + 1 /\ j \in 1..(c + 1) /\ j + 1 \in 1..(c + 1)
          /\ k + 1 \in i..(n + 1) /\ k \in i..(n + 1)
      BY <1>1, <2>1, <3>1
    <3>3. a[j] = b[k] /\ a[j + 1] = b[k + 1]  BY <2>4, <3>1, <3>2
    <3>4. ss[j] = Bytes(ps[k])  BY <1>3, <2>2, <2>3, <3>1
    <3>5. Sound(ps[k]) /\ Pointed(ps[k]) = Run(b[k], b[k + 1]) /\ Fresh(ps[k])  BY <1>1, <3>2 DEF Spells
    <3>6. Bytes(ps[k]) = Run(b[k], b[k + 1])  BY <3>5, BytesOf
    <3>7. b[k] \in Nat /\ b[k + 1] \in Nat  BY <1>5, <3>2
    <3>8. b[k] <= b[k + 1]
      <4>1. b[k + 1] = b[k] + ps[k].length /\ ps[k].length \in Nat  BY <1>1, <1>l, <3>2 DEF Ladder
      <4>2. QED BY <3>7, <4>1
    <3>9. QED BY <3>3, <3>4, <3>6, <3>7, <3>8
  <2>6. Len(ss) = c
    <3>1. ss \in [1..c -> {ss[j] : j \in 1..c}]  BY <1>3, <2>3
    <3>2. QED BY <3>1, IsSequence
  <2>7. Rises(a, Len(ss))  BY <2>5, <2>6 DEF Rises
  <2>8. FlattenSeq(ss) = Run(a[1], a[c + 1])
    <3>1. Len(ss) \in Nat \ {0} /\ \A k \in 1..Len(ss) : ss[k] = Run(a[k], a[k + 1])  BY <2>5, <2>6
    <3>2. FlattenSeq(ss) = Run(a[1], a[Len(ss) + 1])  BY ONLY <2>7, <3>1, FlatRuns
    <3>3. QED BY <2>6, <3>2
  <2>9. a[1] = b[i] /\ a[c + 1] = b[n + 1]
    <3>1. 1 \in 1..(c + 1) /\ c + 1 \in 1..(c + 1) /\ i + 1 - 1 = i /\ i + (c + 1) - 1 = n + 1  BY <1>1, <2>1
    <3>2. QED BY <2>4, <3>1
  <2>10. QED BY <1>1, <1>2, <1>4, <2>8, <2>9
<1>8. QED BY <1>6, <1>7

\* All of the parts.
LEMMA ContentsAll ==
    ASSUME NEW ps \in Seq(PartType), NEW b, Spells(b, ps, 1), \A k \in 1..Len(ps) : Fresh(ps[k])
    PROVE  /\ Contents(ps) = Run(b[1], b[Len(ps) + 1])
           /\ Size(ps) = b[Len(ps) + 1] - b[1]
<1>1. SubSeq(ps, 1, Len(ps)) = ps  BY SubSeqFull
<1>2. Len(ps) \in Nat  BY LenProperties
<1>3. 1 \in 1..(Len(ps) + 1) /\ Len(ps) \in (1 - 1)..Len(ps)  BY <1>2
<1>4. Contents(SubSeq(ps, 1, Len(ps))) = Run(b[1], b[Len(ps) + 1])  BY <1>3, ContentsRun
<1>5. Size(SubSeq(ps, 1, Len(ps))) = b[Len(ps) + 1] - b[1]
  <2>1. Ladder(b, ps, 1)  BY DEF Spells
  <2>2. QED BY <1>3, <2>1, SizeOf
<1>6. QED BY <1>1, <1>4, <1>5

-------------------------------------------------------------------------------
(* The cursor *)

\* The same bytes in the same places.
LEMMA SpellsKept ==
    ASSUME NEW ps, NEW qs, NEW b, NEW i, NEW j, Spells(b, ps, i), Len(qs) = Len(ps),
           \A k \in j..Len(ps) : k \in i..Len(ps),
           \A k \in j..Len(ps) : qs[k].length = ps[k].length /\ Pointed(qs[k]) = Pointed(ps[k]) /\ Sound(qs[k])
    PROVE  Spells(b, qs, j)
<1>1. Ladder(b, ps, i) /\ \A k \in i..Len(ps) : Sound(ps[k]) /\ Pointed(ps[k]) = Run(b[k], b[k + 1])
  BY DEF Spells
<1>2. Ladder(b, qs, j)
  <2>1. \A k \in j..Len(ps) : b[k] \in Nat /\ ps[k].length \in Nat /\ b[k + 1] = b[k] + ps[k].length
    BY <1>1 DEF Ladder
  <2>2. b[Len(ps) + 1] \in Nat  BY <1>1 DEF Ladder
  <2>3. QED BY <2>1, <2>2 DEF Ladder
<1>3. \A k \in j..Len(qs) : Sound(qs[k]) /\ Pointed(qs[k]) = Run(b[k], b[k + 1])  BY <1>1
<1>4. QED BY <1>2, <1>3 DEF Spells

\* The cursor is on byte x, with nothing but parts that it is not behind left.
AtByte(b, ps, i, o, x) ==
    /\ i \in 1..(Len(ps) + 1) /\ o \in Nat /\ x = b[i] + o
    /\ i <= Len(ps) => o < ps[i].length
    /\ i = Len(ps) + 1 => o = 0

\* A part that is released is a part.
LEMMA ReleasedType == Released \in PartType
<1>1. <<>> \in Seq(Nat) /\ Len(<<>>) = 0  BY EmptySeq
<1>2. QED BY <1>1 DEF Released, Part, PartType, Stores

\* Wherever MoveCursor stops, it is at the byte it should be, n after the one at which part i
\* begins; what it releases is behind it, and what is before it stays.
LEMMA MoveTo ==
    ASSUME NEW ps \in Seq(PartType), NEW b, NEW i \in 1..(Len(ps) + 1), Spells(b, ps, i),
           NEW n \in Nat, b[i] + n <= b[Len(ps) + 1], MoveCursor(ps, i, n)
    PROVE  /\ parts' \in Seq(PartType) /\ Len(parts') = Len(ps)
           /\ cursorPart' \in i..(Len(ps) + 1)
           /\ Spells(b, parts', cursorPart')
           /\ AtByte(b, parts', cursorPart', cursorOffset', b[i] + n)
           /\ \A k \in cursorPart'..Len(ps) : parts'[k] = ps[k]
<1>1. PICK l \in Nat : l = Len(ps)  BY LenProperties
<1>2. PICK k : k = PartAfter(ps, i, n)  OBVIOUS
<1>l. Ladder(b, ps, i)  BY DEF Spells
<1>3. k \in i..(l + 1) /\ b[k] - b[i] <= n /\ (k <= l => n < b[k + 1] - b[i])
  BY <1>1, <1>2, <1>l, PartAfterIs
<1>4. \A m \in i..(l + 1) : b[m] \in Nat  BY <1>1, <1>l, LadderAt
<1>5. i \in i..(l + 1) /\ l + 1 \in i..(l + 1)  BY <1>1
<1>6. cursorPart' = k /\ parts' = ReleaseBefore(ps, k) /\ cursorOffset' = n - Size(SubSeq(ps, i, k - 1))
  BY <1>2 DEF MoveCursor, NextPart
<1>7. Size(SubSeq(ps, i, k - 1)) = b[k] - b[i]
  <2>1. k - 1 \in (i - 1)..l /\ (k - 1) + 1 = k  BY <1>1, <1>3
  <2>2. \A m \in (i - 1)..Len(ps) : Size(SubSeq(ps, i, m)) = b[m + 1] - b[i]  BY <1>l, SizeOf
  <2>3. QED BY <1>1, <2>1, <2>2
<1>8. parts' \in Seq(PartType) /\ Len(parts') = l
  <2>1. DOMAIN ps = 1..l /\ \A m \in 1..l : ps[m] \in PartType  BY <1>1, LenProperties, ElementOfSeq
  <2>2. parts' \in [1..l -> PartType]  BY <1>6, <2>1, ReleasedType DEF ReleaseBefore
  <2>3. QED BY <2>2, IsSequence
<1>9. \A m \in k..l : parts'[m] = ps[m]
  <2>1. DOMAIN ps = 1..l  BY <1>1, LenProperties
  <2>2. \A m \in k..l : m \in 1..l /\ ~(m < k)  BY <1>1, <1>3
  <2>3. QED BY <1>6, <2>1, <2>2 DEF ReleaseBefore
<1>10. Spells(b, parts', k)
  <2>1. \A m \in k..Len(ps) : m \in i..Len(ps)  BY <1>1, <1>3
  <2>2. \A m \in k..Len(ps) : parts'[m].length = ps[m].length /\ Pointed(parts'[m]) = Pointed(ps[m])
                              /\ Sound(parts'[m])
    BY <1>1, <1>9, <2>1 DEF Spells
  <2>3. QED BY <1>1, <1>8, <2>1, <2>2, SpellsKept
<1>11. AtByte(b, parts', k, cursorOffset', b[i] + n)
  <2>1. cursorOffset' = n - (b[k] - b[i])  BY <1>6, <1>7
  <2>2. b[k] \in Nat /\ b[i] \in Nat /\ b[l + 1] \in Nat  BY <1>3, <1>4, <1>5
  <2>3. cursorOffset' \in Nat /\ b[i] + n = b[k] + cursorOffset'  BY SMTT(30), <1>3, <2>1, <2>2
  <2>4. ASSUME k <= l PROVE cursorOffset' < parts'[k].length
    <3>1. k \in k..l /\ k \in i..l  BY <1>3, <2>4
    <3>2. b[k + 1] = b[k] + ps[k].length /\ ps[k].length \in Nat /\ parts'[k] = ps[k]
      BY <1>1, <1>9, <1>l, <3>1 DEF Ladder
    <3>3. QED BY SMTT(30), <1>3, <2>1, <2>2, <2>4, <3>2
  <2>5. ASSUME k = l + 1 PROVE cursorOffset' = 0  BY <1>1, <1>3, <2>1, <2>2, <2>5
  <2>6. k \in 1..(l + 1)  BY <1>3
  <2>7. QED BY <1>8, <2>3, <2>4, <2>5, <2>6 DEF AtByte
<1>12. QED BY <1>1, <1>3, <1>6, <1>8, <1>9, <1>10, <1>11

\* What is left, from the cursor on.
LEMMA RestIs ==
    ASSUME parts \in Seq(PartType), NEW b, NEW x, Spells(b, parts, cursorPart),
           \A k \in cursorPart..Len(parts) : Fresh(parts[k]),
           AtByte(b, parts, cursorPart, cursorOffset, x)
    PROVE  /\ x \in Nat /\ b[Len(parts) + 1] \in Nat /\ x <= b[Len(parts) + 1]
           /\ Rest = Run(x, b[Len(parts) + 1])
           /\ x < b[Len(parts) + 1] => cursorPart <= Len(parts)
           /\ cursorPart <= Len(parts) =>
                 /\ x < b[cursorPart + 1] /\ b[cursorPart + 1] - x = remainingPartBytes
                 /\ b[cursorPart + 1] \in Nat
<1>1. PICK l \in Nat : l = Len(parts)  BY LenProperties
<1>2. PICK c : c = cursorPart  OBVIOUS
<1>3. PICK o : o = cursorOffset  OBVIOUS
<1>4. /\ c \in 1..(l + 1) /\ o \in Nat /\ x = b[c] + o
      /\ c <= l => o < parts[c].length
      /\ c = l + 1 => o = 0
  BY <1>1, <1>2, <1>3 DEF AtByte
<1>l. Ladder(b, parts, c)  BY <1>2 DEF Spells
<1>5. \A m \in c..(l + 1) : b[m] \in Nat /\ b[m] <= b[l + 1]  BY <1>1, <1>4, <1>l, LadderAt
<1>6. b[c] \in Nat /\ b[l + 1] \in Nat /\ b[c] <= b[l + 1]  BY <1>4, <1>5
<1>7. CASE c = l + 1
  <2>1. x = b[l + 1]  BY <1>4, <1>6, <1>7
  <2>2. Rest = <<>>  BY <1>1, <1>2, <1>7 DEF Rest
  <2>3. Run(x, x) = <<>>  BY <1>6, <2>1, RunNone
  <2>4. QED BY <1>1, <1>2, <1>6, <1>7, <2>1, <2>2, <2>3
<1>8. CASE c # l + 1
  <2>1. c \in c..l /\ c <= l /\ c + 1 \in c..(l + 1)  BY <1>4, <1>8
  <2>2. b[c + 1] = b[c] + parts[c].length /\ parts[c].length \in Nat /\ b[c + 1] \in Nat /\ b[c + 1] <= b[l + 1]
    BY <1>1, <1>5, <1>l, <2>1 DEF Ladder
  <2>3. x \in Nat /\ x < b[c + 1] /\ x < b[l + 1] /\ b[c + 1] - x = parts[c].length - o
    <3>1. PICK y \in Nat : y = b[c]  BY <1>6
    <3>2. PICK w \in Nat : w = b[c + 1]  BY <2>2
    <3>3. PICK z \in Nat : z = b[l + 1]  BY <1>6
    <3>4. PICK d \in Nat : d = parts[c].length  BY <2>2
    <3>5. x = y + o /\ o \in Nat /\ o < d /\ w = y + d /\ w <= z  BY <1>4, <2>1, <2>2, <3>1, <3>2, <3>3, <3>4
    <3>6. x \in Nat /\ x < w /\ x < z /\ w - x = d - o
      BY ONLY y \in Nat, w \in Nat, z \in Nat, d \in Nat, <3>5
    <3>7. QED BY <3>2, <3>3, <3>4, <3>6
  <2>4. Contents(SubSeq(parts, c, l)) = Run(b[c], b[l + 1])
    BY <1>1, <1>2, <1>4, ContentsRun
  <2>5. Size(SubSeq(parts, c, l)) = b[l + 1] - b[c]
    <3>1. \A m \in (c - 1)..Len(parts) : Size(SubSeq(parts, c, m)) = b[m + 1] - b[c]
      BY <1>1, <1>4, <1>l, SizeOf
    <3>2. l \in (c - 1)..l  BY <1>4
    <3>3. QED BY <1>1, <3>1, <3>2
  <2>6. Rest = SubSeq(Run(b[c], b[l + 1]), o + 1, b[l + 1] - b[c])
    <3>1. ~(cursorPart > Len(parts))  BY <1>1, <1>2, <2>1
    <3>2. QED BY <1>1, <1>2, <1>3, <2>4, <2>5, <3>1 DEF Rest
  <2>7. SubSeq(Run(b[c], b[l + 1]), o + 1, b[l + 1] - b[c]) = Run(x, b[l + 1])
    <3>1. PICK y \in Nat : y = b[c]  BY <1>6
    <3>2. PICK z \in Nat : z = b[l + 1]  BY <1>6
    <3>3. y <= z /\ o \in Nat /\ z - y \in Nat /\ o <= z - y /\ z - y <= z - y /\ y + o = x /\ y + (z - y) = z
      <4>1. x = y + o /\ o \in Nat /\ x < z  BY <1>4, <2>3, <3>1, <3>2
      <4>2. QED BY ONLY y \in Nat, z \in Nat, <4>1
    <3>4. SubSeq(Run(y, z), o + 1, z - y) = Run(y + o, y + (z - y))  BY ONLY ZenonT(30), y \in Nat, z \in Nat, <3>3, RunPart
    <3>5. QED BY <3>1, <3>2, <3>3, <3>4
  <2>8. remainingPartBytes = parts[c].length - o  BY <1>2, <1>3 DEF remainingPartBytes
  <2>9. QED BY SMTT(30), <1>1, <1>2, <1>6, <2>1, <2>2, <2>3, <2>6, <2>7, <2>8
<1>9. QED BY <1>7, <1>8

-------------------------------------------------------------------------------
(* Parts that are moved, cut and copied *)

\* Moving a part changes nothing that it stands for.
LEMMA MovedKeeps ==
    ASSUME NEW p, Sound(p)
    PROVE  Sound(Moved(p)) /\ Pointed(Moved(p)) = Pointed(p) /\ Moved(p).length = p.length
<1>1. p \in PartType  BY DEF Sound
<1>2. /\ Moved(p) \in PartType
      /\ Moved(p).length = p.length /\ Moved(p).content = p.content /\ Moved(p).at = p.at
      /\ Moved(p).store = p.store /\ Moved(p).ownedOffset = p.ownedOffset
      /\ Moved(p).stale => p.stale \/ p.store = "owned"
  <2>1. PICK s \in BOOLEAN : s = (p.stale \/ (p.store = "owned" /\ Len(p.content) <= ShortString))
    <3>1. p.stale \in BOOLEAN  BY <1>1 DEF PartType
    <3>2. (p.stale \/ (p.store = "owned" /\ Len(p.content) <= ShortString)) \in BOOLEAN  OBVIOUS
    <3>3. QED BY <3>2
  <2>2. Moved(p) = [p EXCEPT !.stale = s]  BY <2>1, Zenon DEF Moved
  <2>3. s => p.stale \/ p.store = "owned"  BY <2>1
  <2>4. QED BY <1>1, <2>2, <2>3 DEF PartType
<1>3. QED BY <1>2 DEF Sound, Pointed

\* prepare() makes a pointer good again.
LEMMA RepointedKeeps ==
    ASSUME NEW p, Sound(p)
    PROVE  /\ Sound(Repointed(p)) /\ Pointed(Repointed(p)) = Pointed(p)
           /\ Repointed(p).length = p.length /\ Fresh(Repointed(p))
<1>1. p \in PartType /\ (p.store = "owned" => p.ownedOffset = p.at) /\ (p.stale => p.store = "owned")
  BY DEF Sound
<1>2. CASE p.store = "owned" /\ p.content # <<>>
  <2>1. Repointed(p) = [p EXCEPT !.at = p.ownedOffset, !.stale = FALSE]  BY <1>2 DEF Repointed
  <2>2. /\ Repointed(p) \in PartType
        /\ Repointed(p).length = p.length /\ Repointed(p).content = p.content /\ Repointed(p).at = p.at
        /\ Repointed(p).store = p.store /\ Repointed(p).ownedOffset = p.ownedOffset
        /\ Repointed(p).stale = FALSE
    BY <1>1, <1>2, <2>1 DEF PartType
  <2>3. QED BY <2>2 DEF Sound, Pointed, Fresh
<1>3. CASE ~(p.store = "owned" /\ p.content # <<>>)
  <2>1. Repointed(p) = p  BY <1>3 DEF Repointed
  <2>2. Fresh(p)
    <3>1. CASE p.content = <<>>
      <4>1. Len(p.content) = 0  BY <3>1, EmptySeq
      <4>2. p.at \in Nat /\ p.length \in Nat /\ p.at + p.length <= Len(p.content)  BY DEF Sound, PartType
      <4>3. p.length = 0  BY <4>1, <4>2
      <4>4. QED BY <4>3 DEF Fresh
    <3>2. CASE p.store # "owned"
      <4>1. p.stale \in BOOLEAN  BY <1>1 DEF PartType
      <4>2. QED BY <1>1, <3>2, <4>1 DEF Fresh
    <3>3. QED BY <1>3, <3>1, <3>2
  <2>3. QED BY <2>1, <2>2
<1>4. QED BY <1>2, <1>3

\* A part without its first bytes.
LEMMA CutKeeps ==
    ASSUME NEW p, Sound(p), NEW x \in Nat, NEW y \in Nat, Pointed(p) = Run(x, y), p.length = y - x,
           NEW n \in Nat, x + n <= y
    PROVE  Sound(Cut(p, n)) /\ Pointed(Cut(p, n)) = Run(x + n, y) /\ Cut(p, n).length = y - (x + n)
<1>1. p \in PartType /\ p.at \in Nat /\ p.length \in Nat  BY DEF Sound, PartType
<1>2. PICK q : q = Cut(p, n)  OBVIOUS
<1>3. p.length - n \in Nat /\ p.at + n \in Nat /\ p.ownedOffset + n \in Nat
  BY <1>1 DEF PartType
<1>4. /\ q \in PartType /\ q.length = p.length - n /\ q.at = p.at + n /\ q.content = p.content
      /\ q.store = p.store /\ q.stale = p.stale
      /\ q.store = "owned" => q.ownedOffset = p.ownedOffset + n
  BY <1>1, <1>2, <1>3 DEF Cut, PartType
<1>5. Sound(q)
  <2>1. p.at + p.length <= Len(p.content)  BY DEF Sound
  <2>2. q.at + q.length = p.at + p.length  BY <1>1, <1>4
  <2>3. q.at + q.length <= Len(q.content)  BY <1>4, <2>1, <2>2
  <2>4. q.store = "owned" => q.ownedOffset = q.at  BY <1>4 DEF Sound
  <2>5. q.stale => q.store = "owned"  BY <1>4 DEF Sound
  <2>6. QED BY <1>4, <2>3, <2>4, <2>5 DEF Sound
<1>6. q.length = y - (x + n)  BY <1>1, <1>4
<1>7. Pointed(q) = Run(x + n, y)
  <2>1. /\ Pointed(q) \in Seq(Nat) /\ Len(Pointed(q)) = y - (x + n)
        /\ \A j \in 1..q.length : Pointed(q)[j] = q.content[q.at + j]
    BY <1>5, <1>6, PointedType
  <2>2. \A j \in 1..p.length : Pointed(p)[j] = p.content[p.at + j]  BY PointedType
  <2>3. \A j \in 1..(y - x) : Run(x, y)[j] = x + j
    <3>1. x <= y  OBVIOUS
    <3>2. QED BY <3>1, RunType
  <2>4. ASSUME NEW j \in 1..(y - (x + n)) PROVE Pointed(q)[j] = (x + n) + j
    <3>1. PICK i : i = n + j  OBVIOUS
    <3>2. i \in 1..(y - x) /\ x + i = (x + n) + j  BY <3>1
    <3>3. Pointed(q)[j] = p.content[(p.at + n) + j]  BY <1>4, <1>6, <2>1
    <3>4. (p.at + n) + j = p.at + i  BY <1>1, <3>1
    <3>5. Pointed(p)[i] = p.content[p.at + i] /\ Pointed(p)[i] = x + i  BY <2>2, <2>3, <3>2
    <3>6. QED BY <3>2, <3>3, <3>4, <3>5
  <2>5. x + n \in Nat /\ x + n <= y  OBVIOUS
  <2>6. QED BY ONLY y \in Nat, <2>1, <2>4, <2>5, IsRun
<1>8. QED BY <1>2, <1>5, <1>6, <1>7

\* A new part.
LEMMA WholePart ==
    ASSUME NEW store \in Stores, NEW x \in Nat, NEW y \in Nat, x <= y
    PROVE  LET p == Part(store, Run(x, y))
           IN  Sound(p) /\ Fresh(p) /\ Pointed(p) = Run(x, y) /\ p.length = y - x /\ p.store = store
<1>1. PICK p : p = Part(store, Run(x, y))  OBVIOUS
<1>2. PICK r \in Seq(Nat) : r = Run(x, y)  BY RunType
<1>3. Len(r) = y - x /\ y - x \in Nat /\ \A j \in 1..(y - x) : r[j] = x + j
  <2>1. y - x \in Nat  OBVIOUS
  <2>2. Len(Run(x, y)) = y - x /\ \A j \in 1..(y - x) : Run(x, y)[j] = x + j  BY RunType
  <2>3. QED BY <1>2, <2>1, <2>2
<1>4. /\ p \in PartType /\ p.length = y - x /\ p.at = 0 /\ p.content = r /\ p.store = store
      /\ p.ownedOffset = 0 /\ p.stale = FALSE
  BY <1>1, <1>2, <1>3 DEF Part, PartType
<1>5. Sound(p) /\ Fresh(p)
  <2>1. p.at + p.length <= Len(p.content)  BY <1>3, <1>4
  <2>2. QED BY <1>4, <2>1 DEF Sound, Fresh
<1>6. /\ Pointed(p) \in Seq(Nat) /\ Len(Pointed(p)) = y - x
      /\ \A j \in 1..(y - x) : Pointed(p)[j] = r[0 + j]
  BY <1>4, <1>5, PointedType
<1>7. \A j \in 1..(y - x) : Pointed(p)[j] = x + j  BY <1>3, <1>6
<1>8. Pointed(p) = Run(x, y)  BY <1>6, <1>7, IsRun
<1>9. QED BY <1>1, <1>4, <1>5, <1>8

-----------------------------------------------------------------------------
\* Parts that are the bytes behind x up to y.
Spelled(ps, x, y) ==
    /\ ps \in Seq(PartType)
    /\ \E b : Spells(b, ps, 1) /\ b[1] = x /\ b[Len(ps) + 1] = y

\* Both ends are naturals, in this order.
LEMMA SpelledTypes ==
    ASSUME NEW ps, NEW x, NEW y, Spelled(ps, x, y) PROVE x \in Nat /\ y \in Nat /\ x <= y
<1>1. ps \in Seq(PartType) /\ Len(ps) \in Nat  BY LenProperties DEF Spelled
<1>2. PICK b : Spells(b, ps, 1) /\ b[1] = x /\ b[Len(ps) + 1] = y  BY DEF Spelled
<1>3. 1 \in 1..(Len(ps) + 1) /\ Ladder(b, ps, 1)  BY <1>1, <1>2 DEF Spells
<1>4. \A k \in 1..(Len(ps) + 1) : b[k] \in Nat /\ b[1] <= b[k]  BY <1>1, <1>3, LadderAt
<1>5. 1 \in 1..(Len(ps) + 1) /\ Len(ps) + 1 \in 1..(Len(ps) + 1)  BY <1>1
<1>6. QED BY <1>2, <1>4, <1>5

\* No parts spell no bytes.
LEMMA SpelledNone == ASSUME NEW x \in Nat PROVE Spelled(<<>>, x, x)
<1>1. PICK b : b = [k \in 1..1 |-> x]  OBVIOUS
<1>2. <<>> \in Seq(PartType) /\ Len(<<>>) = 0  BY EmptySeq
<1>3. b[1] = x /\ b[0 + 1] = x  BY <1>1
<1>4. Spells(b, <<>>, 1)  BY <1>2, <1>3 DEF Spells, Ladder
<1>5. QED BY <1>2, <1>3, <1>4 DEF Spelled

\* One part more.
LEMMA SpelledAppend ==
    ASSUME NEW ps, NEW x, NEW y, NEW z \in Nat, Spelled(ps, x, y), NEW p, Sound(p),
           Pointed(p) = Run(y, z), y + p.length = z
    PROVE  Spelled(Append(ps, p), x, z)
<1>1. ps \in Seq(PartType) /\ p \in PartType /\ p.length \in Nat /\ y \in Nat
  BY SpelledTypes DEF Spelled, Sound, PartType
<1>2. PICK n \in Nat : n = Len(ps)  BY <1>1, LenProperties
<1>3. PICK b : Spells(b, ps, 1) /\ b[1] = x /\ b[n + 1] = y  BY <1>2 DEF Spelled
<1>4. PICK qs : qs = Append(ps, p)  OBVIOUS
<1>5. qs \in Seq(PartType) /\ Len(qs) = n + 1 /\ (\A i \in 1..n : qs[i] = ps[i]) /\ qs[n + 1] = p
  BY <1>1, <1>2, <1>4, AppendProperties
<1>6. PICK c : c = [k \in 1..(n + 2) |-> IF k = n + 2 THEN z ELSE b[k]]  OBVIOUS
<1>7. (\A k \in 1..(n + 1) : c[k] = b[k]) /\ c[n + 2] = z  BY <1>6
<1>8. Ladder(c, qs, 1)
  <2>1. ASSUME NEW k \in 1..(n + 1)
        PROVE  c[k] \in Nat /\ qs[k].length \in Nat /\ c[k + 1] = c[k] + qs[k].length
    <3>1. CASE k = n + 1
      <4>1. c[k] = y /\ c[k + 1] = z /\ qs[k] = p  BY <1>3, <1>5, <1>7, <3>1
      <4>2. QED BY <1>1, <4>1
    <3>2. CASE k # n + 1
      <4>1. k \in 1..n /\ k + 1 \in 1..(n + 1)  BY <3>2
      <4>2. c[k] = b[k] /\ c[k + 1] = b[k + 1] /\ qs[k] = ps[k]  BY <1>5, <1>7, <4>1
      <4>3. QED BY <1>2, <1>3, <4>1, <4>2 DEF Spells, Ladder
    <3>3. QED BY <3>1, <3>2
  <2>2. c[Len(qs) + 1] = z  BY <1>5, <1>7
  <2>3. QED BY <1>5, <2>1, <2>2 DEF Ladder
<1>9. ASSUME NEW k \in 1..(n + 1) PROVE Sound(qs[k]) /\ Pointed(qs[k]) = Run(c[k], c[k + 1])
  <2>1. CASE k = n + 1
    <3>1. c[k] = y /\ c[k + 1] = z /\ qs[k] = p  BY <1>3, <1>5, <1>7, <2>1
    <3>2. QED BY <3>1
  <2>2. CASE k # n + 1
    <3>1. k \in 1..n /\ k + 1 \in 1..(n + 1)  BY <2>2
    <3>2. c[k] = b[k] /\ c[k + 1] = b[k + 1] /\ qs[k] = ps[k]  BY <1>5, <1>7, <3>1
    <3>3. QED BY <1>2, <1>3, <3>1, <3>2 DEF Spells
  <2>3. QED BY <2>1, <2>2
<1>10. Spells(c, qs, 1)  BY <1>5, <1>8, <1>9 DEF Spells
<1>11. c[1] = x /\ c[Len(qs) + 1] = z
  <2>1. 1 \in 1..(n + 1)  OBVIOUS
  <2>2. QED BY <1>3, <1>5, <1>7, <2>1
<1>12. QED BY <1>4, <1>5, <1>10, <1>11 DEF Spelled

\* A part before them.
LEMMA SpelledFirst ==
    ASSUME NEW ps, NEW x \in Nat, NEW y, NEW z, Spelled(ps, y, z), NEW p, Sound(p),
           Pointed(p) = Run(x, y), x + p.length = y
    PROVE  Spelled(<<p>> \o ps, x, z)
<1>1. ps \in Seq(PartType) /\ p \in PartType /\ p.length \in Nat /\ y \in Nat /\ z \in Nat
  BY SpelledTypes DEF Spelled, Sound, PartType
<1>2. PICK n \in Nat : n = Len(ps)  BY <1>1, LenProperties
<1>3. PICK b : Spells(b, ps, 1) /\ b[1] = y /\ b[n + 1] = z  BY <1>2 DEF Spelled
<1>4. PICK qs : qs = <<p>> \o ps  OBVIOUS
<1>5. qs \in Seq(PartType) /\ Len(qs) = n + 1 /\ (\A i \in 2..(n + 1) : qs[i] = ps[i - 1]) /\ qs[1] = p
  <2>1. <<p>> \in Seq(PartType) /\ Len(<<p>>) = 1 /\ <<p>>[1] = p  BY <1>1
  <2>2. /\ qs \in Seq(PartType) /\ Len(qs) = 1 + n
        /\ \A i \in 1..(1 + n) : qs[i] = IF i <= 1 THEN <<p>>[i] ELSE ps[i - 1]
    BY <1>1, <1>2, <1>4, <2>1, ConcatProperties
  <2>3. \A i \in 2..(n + 1) : i \in 1..(1 + n) /\ ~(i <= 1)  OBVIOUS
  <2>4. 1 \in 1..(1 + n)  OBVIOUS
  <2>5. qs[1] = p  BY <2>1, <2>2, <2>4
  <2>6. QED BY <2>2, <2>3, <2>5
<1>6. PICK c : c = [k \in 1..(n + 2) |-> IF k = 1 THEN x ELSE b[k - 1]]  OBVIOUS
<1>7. (\A k \in 2..(n + 2) : c[k] = b[k - 1]) /\ c[1] = x  BY <1>6
<1>8. ASSUME NEW k \in 1..(n + 1)
      PROVE  /\ c[k] \in Nat /\ qs[k].length \in Nat /\ c[k + 1] = c[k] + qs[k].length
             /\ Sound(qs[k]) /\ Pointed(qs[k]) = Run(c[k], c[k + 1])
  <2>1. CASE k = 1
    <3>1. 2 \in 2..(n + 2) /\ 2 - 1 = 1  OBVIOUS
    <3>2. c[k] = x /\ c[k + 1] = y /\ qs[k] = p  BY <1>3, <1>5, <1>7, <2>1, <3>1
    <3>3. QED BY <1>1, <3>2
  <2>2. CASE k # 1
    <3>1. PICK m : m = k - 1  OBVIOUS
    <3>2. m \in 1..n /\ k \in 2..(n + 2) /\ k + 1 \in 2..(n + 2) /\ k \in 2..(n + 1) /\ (k + 1) - 1 = m + 1
      BY <2>2, <3>1
    <3>3. c[k] = b[m] /\ c[k + 1] = b[m + 1] /\ qs[k] = ps[m]  BY <1>5, <1>7, <3>1, <3>2
    <3>4. QED BY <1>2, <1>3, <3>2, <3>3 DEF Spells, Ladder
  <2>3. QED BY <2>1, <2>2
<1>9. c[Len(qs) + 1] = z
  <2>1. n + 2 \in 2..(n + 2) /\ (n + 2) - 1 = n + 1 /\ Len(qs) + 1 = n + 2  BY <1>5
  <2>2. QED BY <1>3, <1>7, <2>1
<1>10. Spells(c, qs, 1)  BY <1>1, <1>5, <1>8, <1>9 DEF Spells, Ladder
<1>11. QED BY <1>4, <1>5, <1>7, <1>9, <1>10 DEF Spelled

\* Every pointer is good.
AllFresh(ps) == \A k \in 1..Len(ps) : Fresh(ps[k])

\* Dropping empty parts.
LEMMA NotEmptySpelled ==
    ASSUME NEW ps, NEW x, NEW y, Spelled(ps, x, y) PROVE Spelled(NotEmpty(ps), x, y)
<1>1. ps \in Seq(PartType) /\ x \in Nat  BY SpelledTypes DEF Spelled
<1>2. PICK n \in Nat : n = Len(ps)  BY <1>1, LenProperties
<1>3. PICK b : Spells(b, ps, 1) /\ b[1] = x /\ b[n + 1] = y  BY <1>2 DEF Spelled
<1>4. PICK S : S = {m \in 0..n : Spelled(NotEmpty(SubSeq(ps, 1, m)), x, b[m + 1])}  OBVIOUS
<1>5. 0 \in S
  <2>1. SubSeq(ps, 1, 0) = <<>>
    <3>1. 1 \in Int /\ 0 \in Int /\ 0 < 1  OBVIOUS
    <3>2. QED BY ONLY <3>1, SubSeqEmpty
  <2>2. NotEmpty(<<>>) = <<>>
    <3>1. DOMAIN <<>> = {}  OBVIOUS
    <3>2. QED BY ONLY <3>1, NotEmptyNone
  <2>3. Spelled(<<>>, x, x)  BY <1>1, SpelledNone
  <2>4. b[0 + 1] = x /\ 0 \in 0..n  BY <1>3
  <2>5. QED BY <1>4, <2>1, <2>2, <2>3, <2>4
<1>6. ASSUME NEW m \in 0..(n - 1), m \in S PROVE m + 1 \in S
  <2>1. PICK k : k = m + 1  OBVIOUS
  <2>2. k \in 1..n /\ k \in 0..n /\ m \in Nat /\ k \in Int /\ m \in Int /\ 1 \in Int  BY <2>1
  <2>3. PICK p : p = SubSeq(ps, 1, m)  OBVIOUS
  <2>4. PICK q : q = SubSeq(ps, 1, k)  OBVIOUS
  <2>5. \A j \in 1..k : ps[j] \in PartType
    <3>1. \A j \in 1..k : j \in 1..Len(ps)  BY <1>2, <2>2
    <3>2. QED BY <1>1, <3>1, ElementOfSeq
  <2>6. p \in Seq(PartType) /\ Len(p) = m /\ \A j \in 1..m : p[j] = ps[j]
    <3>1. \A j \in 1..m : ps[j] \in PartType  BY <2>1, <2>2, <2>5
    <3>2. /\ SubSeq(ps, 1, m) \in Seq(PartType)
          /\ Len(SubSeq(ps, 1, m)) = IF 1 <= m THEN m - 1 + 1 ELSE 0
          /\ \A j \in 1..(m - 1 + 1) : SubSeq(ps, 1, m)[j] = ps[1 + j - 1]
      BY ONLY <2>2, <3>1, SubSeqProperties
    <3>3. \A j \in 1..m : j \in 1..(m - 1 + 1) /\ 1 + j - 1 = j  BY <2>2
    <3>4. QED BY <2>2, <2>3, <3>2, <3>3
  <2>7. q \in Seq(PartType) /\ Len(q) = k /\ \A j \in 1..k : q[j] = ps[j]
    <3>2. /\ SubSeq(ps, 1, k) \in Seq(PartType)
          /\ Len(SubSeq(ps, 1, k)) = IF 1 <= k THEN k - 1 + 1 ELSE 0
          /\ \A j \in 1..(k - 1 + 1) : SubSeq(ps, 1, k)[j] = ps[1 + j - 1]
      BY ONLY <2>2, <2>5, SubSeqProperties
    <3>3. \A j \in 1..k : j \in 1..(k - 1 + 1) /\ 1 + j - 1 = j  BY <2>2
    <3>4. QED BY <2>2, <2>4, <3>2, <3>3
  <2>8. DOMAIN p = 1..m /\ DOMAIN q = 1..(m + 1)  BY <2>1, <2>6, <2>7, LenProperties
  <2>9. \A j \in 1..m : q[j] = p[j]  BY <2>1, <2>2, <2>6, <2>7
  <2>10. NotEmpty(q) = WithPart(NotEmpty(p), q[m + 1])  BY ONLY <2>2, <2>8, <2>9, NotEmptyMore
  <2>11. q[m + 1] = ps[k]  BY <2>1, <2>2, <2>7
  <2>12. Spelled(NotEmpty(p), x, b[k])  BY <1>4, <1>6, <2>1, <2>3
  <2>13. /\ b[k] \in Nat /\ ps[k].length \in Nat /\ b[k + 1] = b[k] + ps[k].length
         /\ Sound(ps[k]) /\ Pointed(ps[k]) = Run(b[k], b[k + 1])
    BY <1>2, <1>3, <2>2 DEF Spells, Ladder
  <2>14. Spelled(WithPart(NotEmpty(p), ps[k]), x, b[k + 1])
    <3>1. CASE ps[k].length > 0
      <4>1. Spelled(Append(NotEmpty(p), ps[k]), x, b[k + 1])
        <5>1. b[k + 1] \in Nat /\ b[k] + ps[k].length = b[k + 1]  BY <2>13
        <5>2. QED BY ONLY <2>12, <2>13, <5>1, SpelledAppend
      <4>2. QED BY <3>1, <4>1 DEF WithPart
    <3>2. CASE ~(ps[k].length > 0)
      <4>1. b[k + 1] = b[k]  BY <2>13, <3>2
      <4>2. QED BY <2>12, <3>2, <4>1 DEF WithPart
    <3>3. QED BY <3>1, <3>2
  <2>15. Spelled(NotEmpty(q), x, b[k + 1])  BY <2>10, <2>11, <2>14
  <2>16. QED BY <1>4, <2>1, <2>2, <2>4, <2>15
<1>7. n \in S
  <2>1. 0..n \subseteq S  BY ONLY n \in Nat, <1>5, <1>6, UpTo
  <2>2. QED BY <2>1
<1>8. SubSeq(ps, 1, n) = ps  BY <1>1, <1>2, SubSeqFull
<1>9. QED BY <1>3, <1>4, <1>7, <1>8

\* prepare()
LEMMA PreparedSpelled ==
    ASSUME NEW ps, NEW x, NEW y, Spelled(ps, x, y)
    PROVE  Spelled(Prepared(ps), x, y) /\ AllFresh(Prepared(ps)) /\ Len(Prepared(ps)) = Len(ps)
<1>1. ps \in Seq(PartType)  BY DEF Spelled
<1>2. PICK n \in Nat : n = Len(ps)  BY <1>1, LenProperties
<1>3. PICK b : Spells(b, ps, 1) /\ b[1] = x /\ b[n + 1] = y  BY <1>2 DEF Spelled
<1>4. DOMAIN ps = 1..n  BY <1>1, <1>2, LenProperties
<1>5. PICK qs : qs = Prepared(ps)  OBVIOUS
<1>6. DOMAIN qs = 1..n /\ \A k \in 1..n : qs[k] = Repointed(ps[k])  BY <1>4, <1>5 DEF Prepared
<1>7. \A k \in 1..n : /\ Sound(qs[k]) /\ Pointed(qs[k]) = Pointed(ps[k])
                      /\ qs[k].length = ps[k].length /\ Fresh(qs[k])
  <2>1. \A k \in 1..n : Sound(ps[k])  BY <1>2, <1>3 DEF Spells
  <2>2. QED BY <1>6, <2>1, RepointedKeeps
<1>8. qs \in Seq(PartType) /\ Len(qs) = n
  <2>1. qs \in [1..n -> PartType]  BY <1>4, <1>5, <1>6, <1>7 DEF Prepared, Sound
  <2>2. QED BY <2>1, IsSequence
<1>9. Spells(b, qs, 1)
  <2>1. \A k \in 1..Len(ps) : k \in 1..Len(ps)  OBVIOUS
  <2>2. QED BY <1>2, <1>3, <1>7, <1>8, <2>1, SpellsKept
<1>10. QED BY <1>2, <1>3, <1>5, <1>7, <1>8, <1>9 DEF Spelled, AllFresh

\* The first n bytes.
LEMMA RunStart ==
    ASSUME NEW x \in Nat, NEW y \in Nat, x <= y, NEW n \in Nat, n <= y - x
    PROVE  SubSeq(Run(x, y), 1, n) = Run(x, x + n)
<1>1. PICK m \in Nat : m = 0  OBVIOUS
<1>2. m <= n /\ m + 1 = 1 /\ x + m = x  BY <1>1
<1>3. SubSeq(Run(x, y), m + 1, n) = Run(x + m, x + n)  BY ZenonT(30), <1>2, RunPart
<1>4. QED BY <1>2, <1>3

\* One part for all of the bytes.
LEMMA SingleSpelled ==
    ASSUME NEW store \in Stores, NEW y \in Nat
    PROVE  Spelled(<<Part(store, Run(0, y))>>, 0, y)
<1>1. PICK p : p = Part(store, Run(0, y))  OBVIOUS
<1>2. Sound(p) /\ Pointed(p) = Run(0, y) /\ p.length = y - 0
  <2>1. 0 \in Nat /\ 0 <= y  OBVIOUS
  <2>2. QED BY <1>1, <2>1, WholePart
<1>3. Spelled(<<>>, 0, 0)  BY SpelledNone
<1>4. 0 + p.length = y  BY <1>2
<1>5. Spelled(Append(<<>>, p), 0, y)  BY <1>2, <1>3, <1>4, SpelledAppend
<1>6. Append(<<>>, p) = <<p>>  OBVIOUS
<1>7. QED BY <1>1, <1>5, <1>6

\* flatten()
LEMMA FlatSpelled ==
    ASSUME NEW ps, NEW y, Spelled(ps, 0, y), AllFresh(ps) PROVE Spelled(Flat(ps), 0, y)
<1>1. CASE Len(ps) <= 1  BY <1>1 DEF Flat
<1>2. CASE ~(Len(ps) <= 1)
  <2>1. ps \in Seq(PartType) /\ y \in Nat  BY SpelledTypes DEF Spelled
  <2>2. PICK b : Spells(b, ps, 1) /\ b[1] = 0 /\ b[Len(ps) + 1] = y  BY DEF Spelled
  <2>3. Contents(ps) = Run(0, y)  BY <2>1, <2>2, ContentsAll DEF AllFresh
  <2>4. PICK store \in Stores : Flat(ps) = <<Part(store, Contents(ps))>>
    <3>1. "inline" \in Stores /\ "owned" \in Stores  BY DEF Stores
    <3>2. QED BY <1>2, <3>1 DEF Flat
  <2>5. QED BY <2>1, <2>3, <2>4, SingleSpelled
<1>3. QED BY <1>1, <1>2

\* coalescePrefix()
LEMMA CoalescedSpelled ==
    ASSUME NEW ps, NEW y, Spelled(ps, 0, y), AllFresh(ps), NEW n \in Nat
    PROVE  Spelled(Coalesced(ps, n), 0, y)
<1>1. ps \in Seq(PartType) /\ y \in Nat  BY SpelledTypes DEF Spelled
<1>2. PICK l \in Nat : l = Len(ps)  BY <1>1, LenProperties
<1>3. PICK b : Spells(b, ps, 1) /\ b[1] = 0 /\ b[l + 1] = y  BY <1>2 DEF Spelled
<1>4. Contents(ps) = Run(0, y) /\ Size(ps) = y
  <2>1. Contents(ps) = Run(0, y) /\ Size(ps) = y - 0  BY <1>1, <1>2, <1>3, ContentsAll DEF AllFresh
  <2>2. QED BY <1>1, <2>1
<1>5. CASE Len(ps) <= 1 \/ n >= Size(ps)
  <2>1. Coalesced(ps, n) = Flat(ps)  BY <1>5 DEF Coalesced
  <2>2. QED BY <2>1, FlatSpelled
<1>6. CASE ~(Len(ps) <= 1 \/ n >= Size(ps))
  <2>1. PICK k : k = PartAfter(ps, 1, n)  OBVIOUS
  <2>l. Ladder(b, ps, 1) /\ 1 \in 1..(l + 1)  BY <1>3 DEF Spells
  <2>2. k \in 1..(l + 1) /\ b[k] - b[1] <= n /\ (k <= l => n < b[k + 1] - b[1])
    BY <1>1, <1>2, <2>1, <2>l, PartAfterIs
  <2>3. n < y  BY <1>1, <1>4, <1>6
  <2>4. \A m \in 1..(l + 1) : b[m] \in Nat  BY <1>1, <1>2, <2>l, LadderAt
  <2>5. k \in 1..l /\ k + 1 \in 1..(l + 1)
    <3>1. k # l + 1  BY <1>1, <1>3, <2>2, <2>3
    <3>2. QED BY <2>2, <3>1
  <2>6. b[k] \in Nat /\ b[k + 1] \in Nat /\ b[k] <= n /\ n < b[k + 1]  BY <1>3, <2>2, <2>4, <2>5
  <2>7. Size(SubSeq(ps, 1, k - 1)) = b[k]
    <3>1. \A m \in (1 - 1)..Len(ps) : Size(SubSeq(ps, 1, m)) = b[m + 1] - b[1]
      BY <1>1, <1>2, <2>l, SizeOf
    <3>2. k - 1 \in (1 - 1)..l /\ (k - 1) + 1 = k  BY <2>5
    <3>3. QED BY <1>2, <1>3, <2>6, <3>1, <3>2
  <2>8. PICK rest : rest = [i \in 1..(Len(ps) - k + 1) |->
                                IF i = 1 THEN Cut(Moved(ps[k]), n - Size(SubSeq(ps, 1, k - 1)))
                                ELSE Moved(ps[k + i - 1])]
    OBVIOUS
  <2>9. Coalesced(ps, n) = <<Part("owned", SubSeq(Contents(ps), 1, n))>> \o NotEmpty(rest)
    BY <1>6, <2>1, <2>8 DEF Coalesced
  <2>10. PICK d \in Nat : d = l - k + 1  BY <2>5
  <2>11. d >= 1 /\ DOMAIN rest = 1..d  BY <1>2, <2>5, <2>8, <2>10
  <2>12. rest[1] = Cut(Moved(ps[k]), n - b[k])  BY <1>2, <2>7, <2>8, <2>10, <2>11
  <2>13. \A i \in 2..d : rest[i] = Moved(ps[k + i - 1])  BY <1>2, <2>8, <2>10, <2>11
  <2>14. PICK c : c = [i \in 1..(d + 1) |-> IF i = 1 THEN n ELSE b[k + i - 1]]  OBVIOUS
  <2>15. c[1] = n /\ (\A i \in 2..(d + 1) : c[i] = b[k + i - 1])  BY <2>11, <2>14
  <2>16. \A m \in 1..l : /\ b[m] \in Nat /\ b[m + 1] \in Nat /\ b[m + 1] = b[m] + ps[m].length
                         /\ ps[m].length \in Nat
                         /\ Sound(Moved(ps[m])) /\ Pointed(Moved(ps[m])) = Run(b[m], b[m + 1])
                         /\ Moved(ps[m]).length = ps[m].length
    <3>1. ASSUME NEW m \in 1..l
          PROVE  /\ b[m] \in Nat /\ b[m + 1] = b[m] + ps[m].length /\ ps[m].length \in Nat
                 /\ Sound(ps[m]) /\ Pointed(ps[m]) = Run(b[m], b[m + 1])
      BY <1>2, <1>3 DEF Spells, Ladder
    <3>2. QED BY <3>1, MovedKeeps
  <2>17. /\ Sound(rest[1]) /\ Pointed(rest[1]) = Run(n, b[k + 1]) /\ rest[1].length = b[k + 1] - n
    <3>1. PICK p : p = Moved(ps[k])  OBVIOUS
    <3>2. PICK u \in Nat : u = b[k]  BY <2>6
    <3>3. PICK v \in Nat : v = b[k + 1]  BY <2>6
    <3>4. Sound(p) /\ Pointed(p) = Run(u, v) /\ p.length = v - u
      <4>1. Sound(p) /\ Pointed(p) = Run(u, v) /\ v = u + ps[k].length /\ p.length = ps[k].length /\ ps[k].length \in Nat
        BY <2>5, <2>16, <3>1, <3>2, <3>3
      <4>2. QED BY <4>1
    <3>5. PICK w \in Nat : w = n - u  BY <2>6, <3>2
    <3>6. u + w = n /\ u + w <= v  BY <2>6, <3>2, <3>3, <3>5
    <3>7. Sound(Cut(p, w)) /\ Pointed(Cut(p, w)) = Run(u + w, v) /\ Cut(p, w).length = v - (u + w)
      BY ONLY u \in Nat, v \in Nat, w \in Nat, <3>4, <3>6, CutKeeps
    <3>8. rest[1] = Cut(p, w)  BY <2>12, <3>1, <3>2, <3>5
    <3>9. QED BY <3>3, <3>6, <3>7, <3>8
  <2>18. ASSUME NEW i \in 1..d
         PROVE  /\ c[i] \in Nat /\ c[i + 1] \in Nat /\ rest[i].length \in Nat
                /\ c[i + 1] = c[i] + rest[i].length
                /\ Sound(rest[i]) /\ Pointed(rest[i]) = Run(c[i], c[i + 1])
    <3>1. CASE i = 1
      <4>1. 2 \in 2..(d + 1) /\ k + 2 - 1 = k + 1  BY <2>5, <2>11
      <4>2. c[i] = n /\ c[i + 1] = b[k + 1]  BY <2>15, <3>1, <4>1
      <4>3. PICK v \in Nat : v = b[k + 1]  BY <2>6
      <4>4. rest[i].length = v - n /\ n < v  BY <2>6, <2>17, <3>1, <4>3
      <4>5. rest[i].length \in Nat /\ v = n + rest[i].length  BY <4>4
      <4>6. QED BY <2>17, <3>1, <4>2, <4>3, <4>5
    <3>2. CASE i # 1
      <4>1. PICK m : m = k + i - 1  OBVIOUS
      <4>2. m \in 1..l /\ i \in 2..(d + 1) /\ i + 1 \in 2..(d + 1) /\ i \in 2..d /\ k + (i + 1) - 1 = m + 1
        BY <2>5, <2>10, <3>2, <4>1
      <4>3. c[i] = b[m] /\ c[i + 1] = b[m + 1] /\ rest[i] = Moved(ps[m])  BY <2>13, <2>15, <4>1, <4>2
      <4>4. QED BY <2>16, <4>2, <4>3
    <3>3. QED BY <3>1, <3>2
  <2>19. rest \in Seq(PartType) /\ Len(rest) = d
    <3>1. \A i \in 1..d : rest[i] \in PartType  BY <2>18 DEF Sound
    <3>2. rest \in [1..d -> PartType]  BY <1>2, <2>8, <2>10, <2>11, <3>1
    <3>3. QED BY <3>2, IsSequence
  <2>20. c[d + 1] = y
    <3>1. d + 1 \in 2..(d + 1) /\ k + (d + 1) - 1 = l + 1  BY <2>5, <2>10, <2>11
    <3>2. QED BY <1>3, <2>15, <3>1
  <2>21. Spells(c, rest, 1)  BY <1>1, <2>18, <2>19, <2>20 DEF Spells, Ladder
  <2>22. Spelled(rest, n, y)  BY <2>15, <2>19, <2>20, <2>21 DEF Spelled
  <2>23. Spelled(NotEmpty(rest), n, y)  BY <2>22, NotEmptySpelled
  <2>24. SubSeq(Contents(ps), 1, n) = Run(0, n)
    <3>1. y \in Nat /\ n <= y  BY <1>1, <2>3
    <3>2. PICK x \in Nat : x = 0  OBVIOUS
    <3>3. x <= y /\ n <= y - x /\ x + n = n  BY <3>1, <3>2
    <3>4. SubSeq(Run(x, y), 1, n) = Run(x, x + n)  BY <3>1, <3>3, RunStart
    <3>5. QED BY <1>4, <3>2, <3>3, <3>4
  <2>25. PICK p : p = Part("owned", Run(0, n))  OBVIOUS
  <2>26. Sound(p) /\ Pointed(p) = Run(0, n) /\ p.length = n - 0
    <3>1. "owned" \in Stores /\ 0 \in Nat /\ 0 <= n  BY DEF Stores
    <3>2. QED BY <2>25, <3>1, WholePart
  <2>27. 0 + p.length = n  BY <2>26
  <2>28. Spelled(<<p>> \o NotEmpty(rest), 0, y)  BY <2>23, <2>26, <2>27, SpelledFirst
  <2>29. QED BY <2>9, <2>24, <2>25, <2>28
<1>7. QED BY <1>5, <1>6

\* What submit() arranges is still the message, and every pointer is good.
LEMMA ArrangedSpelled ==
    ASSUME NEW ps, NEW y, Spelled(ps, 0, y)
    PROVE  Spelled(Arranged(ps), 0, y) /\ AllFresh(Arranged(ps))
<1>1. PICK first : first = Prepared(ps)  OBVIOUS
<1>2. Spelled(first, 0, y) /\ AllFresh(first)  BY <1>1, PreparedSpelled
<1>3. CASE ~tls \/ Len(ps) <= 1
  <2>1. Arranged(ps) = first  BY <1>1, <1>3 DEF Arranged
  <2>2. QED BY <1>2, <2>1
<1>4. CASE ~(~tls \/ Len(ps) <= 1)
  <2>1. CASE Size(ps) <= FullCoalesceLimit
    <3>1. Arranged(ps) = Prepared(Flat(first))  BY <1>1, <1>4, <2>1 DEF Arranged
    <3>2. Spelled(Flat(first), 0, y)  BY <1>2, FlatSpelled
    <3>3. QED BY <3>1, <3>2, PreparedSpelled
  <2>2. CASE ~(Size(ps) <= FullCoalesceLimit)
    <3>1. Arranged(ps) = Prepared(Coalesced(first, CoalescePrefix))  BY <1>1, <1>4, <2>2 DEF Arranged
    <3>2. CoalescePrefix \in Nat  BY LimitsAssumption
    <3>3. Spelled(Coalesced(first, CoalescePrefix), 0, y)  BY <1>2, <3>2, CoalescedSpelled
    <3>4. QED BY <3>1, <3>3, PreparedSpelled
  <2>3. QED BY <2>1, <2>2
<1>5. QED BY <1>3, <1>4

-------------------------------------------------------------------------------
(* A message that is made *)

\* What a list of frames is made of.
Items == [store : {"js", "owned", "inline"}, length : Nat]

\* The sizes of the first items, one more at a time.
Sizes(b, list, l) == b = [i \in 1..(l + 1) |-> Size(SubSeq(list, 1, i - 1))]

\* Each is larger by the length of the item that was added, and the first is zero.
LEMMA SizesRise ==
    ASSUME NEW list \in Seq(Items), NEW l \in Nat, Len(list) = l, NEW b, Sizes(b, list, l)
    PROVE  /\ b[1] = 0
           /\ \A k \in 1..l : /\ b[k] \in Nat /\ b[k + 1] \in Nat /\ list[k].length \in Nat
                              /\ b[k + 1] = b[k] + list[k].length
<1>1. DOMAIN list = 1..l /\ \A k \in 1..l : list[k] \in Items  BY LenProperties, ElementOfSeq
<1>2. \A k \in 0..l : DOMAIN SubSeq(list, 1, k) = 1..k /\ \A i \in 1..k : SubSeq(list, 1, k)[i] = list[i]
  OBVIOUS
<1>3. b[1] = 0
  <2>1. 1 \in 1..(l + 1) /\ 1 - 1 = 0 /\ 0 \in 0..l  OBVIOUS
  <2>2. DOMAIN SubSeq(list, 1, 0) = {}  BY <1>2, <2>1
  <2>3. b[1] = Size(SubSeq(list, 1, 0))  BY <2>1 DEF Sizes
  <2>4. QED BY <2>2, <2>3, SizeNone
<1>4. \A k \in 1..l : list[k].length \in Nat /\ b[k + 1] = b[k] + list[k].length
  <2> SUFFICES ASSUME NEW k \in 1..l
               PROVE  list[k].length \in Nat /\ b[k + 1] = b[k] + list[k].length
    OBVIOUS
  <2>1. PICK n \in Nat : n + 1 = k /\ n = k - 1 /\ n \in 0..l /\ k \in 0..l
    <3>1. k - 1 \in Nat /\ (k - 1) + 1 = k /\ k - 1 \in 0..l /\ k \in 0..l  OBVIOUS
    <3>2. QED BY <3>1
  <2>2. k \in 1..(l + 1) /\ k + 1 \in 1..(l + 1) /\ (k + 1) - 1 = k  OBVIOUS
  <2>3. PICK p : p = SubSeq(list, 1, n)  OBVIOUS
  <2>4. PICK q : q = SubSeq(list, 1, k)  OBVIOUS
  <2>5. b[k] = Size(p)  BY <2>1, <2>2, <2>3 DEF Sizes
  <2>6. b[k + 1] = Size(q)
    <3>1. b[k + 1] = Size(SubSeq(list, 1, (k + 1) - 1))  BY <2>2 DEF Sizes
    <3>2. QED BY <2>2, <2>4, <3>1
  <2>7. DOMAIN p = 1..n /\ DOMAIN q = 1..(n + 1)  BY <1>2, <2>1, <2>3, <2>4
  <2>8. \A i \in 1..n : q[i].length = p[i].length
    <3>1. \A i \in 1..n : i \in 1..k  BY <2>1
    <3>2. QED BY <1>2, <2>1, <2>3, <2>4, <3>1
  <2>9. Size(q) = Size(p) + q[n + 1].length  BY <2>7, <2>8, SizeMore
  <2>10. q[n + 1] = list[k]  BY <1>2, <2>1, <2>4
  <2>11. list[k].length \in Nat  BY <1>1 DEF Items
  <2>12. QED BY <2>5, <2>6, <2>9, <2>10, <2>11
<1>5. PICK S : S = {k \in 0..l : b[k + 1] \in Nat}  OBVIOUS
<1>6. 0 \in S  BY <1>3, <1>5
<1>7. \A k \in 0..(l - 1) : k \in S => k + 1 \in S
  <2> SUFFICES ASSUME NEW k \in 0..(l - 1), k \in S PROVE k + 1 \in S  OBVIOUS
  <2>1. PICK m : m = k + 1  OBVIOUS
  <2>2. m \in 1..l /\ m \in 0..l  BY <2>1
  <2>3. b[m] \in Nat  BY <1>5, <2>1
  <2>4. b[m + 1] \in Nat
    <3>1. PICK v \in Nat : v = b[m]  BY <2>3
    <3>2. PICK w \in Nat : w = list[m].length  BY <1>4, <2>2
    <3>3. b[m + 1] = v + w  BY <1>4, <2>2, <3>1, <3>2
    <3>4. QED BY <3>3
  <2>5. QED BY <1>5, <2>1, <2>2, <2>4
<1>8. 0..l \subseteq S  BY ONLY l \in Nat, <1>6, <1>7, UpTo
<1>9. \A k \in 1..l : b[k] \in Nat /\ b[k + 1] \in Nat
  <2> SUFFICES ASSUME NEW k \in 1..l PROVE b[k] \in Nat /\ b[k + 1] \in Nat  OBVIOUS
  <2>1. PICK n : n = k - 1  OBVIOUS
  <2>2. n \in 0..l /\ k \in 0..l /\ n + 1 = k  BY <2>1
  <2>3. QED BY <1>5, <1>8, <2>2
<1>10. QED BY <1>3, <1>4, <1>9

\* The parts of a message are its bytes from the first to the last, wherever they were moved.
LEMMA NumberedSpelled ==
    ASSUME NEW list \in Seq(Items), NEW made, made = Numbered(list),
           NEW ps, ps = [i \in DOMAIN made |-> IF i = 1 THEN made[1] ELSE Moved(made[i])]
    PROVE  Size(made) \in Nat /\ Spelled(ps, 0, Size(made))
<1>1. PICK l \in Nat : l = Len(list)  BY LenProperties
<1>2. PICK b : b = [i \in 1..(l + 1) |-> Size(SubSeq(list, 1, i - 1))]  OBVIOUS
<1>a. Sizes(b, list, l)  BY <1>2 DEF Sizes
<1>3. /\ b[1] = 0
      /\ \A k \in 1..l : /\ b[k] \in Nat /\ b[k + 1] \in Nat /\ list[k].length \in Nat
                         /\ b[k + 1] = b[k] + list[k].length
  BY <1>1, <1>a, SizesRise
<1>4. DOMAIN list = 1..l /\ \A k \in 1..l : list[k] \in Items  BY <1>1, LenProperties, ElementOfSeq
<1>5. DOMAIN made = 1..l /\ DOMAIN ps = 1..l  BY <1>4 DEF Numbered
<1>6. ASSUME NEW k \in 1..l
      PROVE  /\ Sound(made[k]) /\ Pointed(made[k]) = Run(b[k], b[k + 1])
             /\ made[k].length = list[k].length
  <2>1. PICK x \in Nat : x = b[k]  BY <1>3
  <2>2. PICK y \in Nat : y = b[k + 1]  BY <1>3
  <2>3. PICK n \in Nat : n = list[k].length  BY <1>3
  <2>4. y = x + n /\ x <= y /\ y - x = n  BY <1>3, <2>1, <2>2, <2>3
  <2>5. b[k] = Size(SubSeq(list, 1, k - 1))  BY <1>2
  <2>6. made[k] = Part(list[k].store, [j \in 1..n |-> x + j])  BY <1>4, <2>1, <2>3, <2>5 DEF Numbered
  <2>7. [j \in 1..n |-> x + j] = Run(x, y)  BY <2>4 DEF Run
  <2>8. list[k].store \in Stores  BY <1>4 DEF Items, Stores
  <2>9. made[k] = Part(list[k].store, Run(x, y))  BY <2>6, <2>7
  <2>10. Sound(made[k]) /\ Pointed(made[k]) = Run(x, y) /\ made[k].length = y - x
    BY <2>4, <2>8, <2>9, WholePart
  <2>11. QED BY <2>1, <2>2, <2>3, <2>4, <2>10
<1>7. made \in Seq(PartType) /\ Len(made) = l
  <2>1. made \in [1..l -> PartType]  BY <1>5, <1>6 DEF Sound, Numbered
  <2>2. QED BY <2>1, IsSequence
<1>8. ASSUME NEW k \in 1..l
      PROVE  Sound(ps[k]) /\ Pointed(ps[k]) = Run(b[k], b[k + 1]) /\ ps[k].length = list[k].length
  <2>1. CASE k = 1
    <3>1. ps[k] = made[k]  BY <1>5, <2>1
    <3>2. QED BY <1>6, <3>1
  <2>2. CASE k # 1
    <3>1. ps[k] = Moved(made[k])  BY <1>5, <2>2
    <3>2. QED BY <1>6, <3>1, MovedKeeps
  <2>3. QED BY <2>1, <2>2
<1>9. ps \in Seq(PartType) /\ Len(ps) = l
  <2>1. ps \in [1..l -> PartType]  BY <1>5, <1>8 DEF Sound
  <2>2. QED BY <2>1, IsSequence
<1>10. b[l + 1] \in Nat
  <2>1. CASE l = 0  BY <1>3, <2>1
  <2>2. CASE l # 0
    <3>1. l \in 1..l  BY <2>2
    <3>2. QED BY <1>3, <3>1
  <2>3. QED BY <2>1, <2>2
<1>11. Size(made) = b[l + 1]
  <2>1. Ladder(b, made, 1)  BY <1>3, <1>6, <1>7, <1>10 DEF Ladder
  <2>2. 1 \in 1..(Len(made) + 1) /\ l \in (1 - 1)..Len(made)  BY <1>7
  <2>3. Size(SubSeq(made, 1, l)) = b[l + 1] - b[1]  BY <1>7, <2>1, <2>2, SizeOf
  <2>4. SubSeq(made, 1, l) = made  BY <1>7, SubSeqFull
  <2>5. PICK v \in Nat : v = b[l + 1]  BY <1>10
  <2>6. v - 0 = v  OBVIOUS
  <2>7. QED BY <1>3, <2>3, <2>4, <2>5, <2>6
<1>12. Spells(b, ps, 1)  BY <1>3, <1>8, <1>9, <1>10 DEF Spells, Ladder
<1>13. QED BY <1>3, <1>9, <1>10, <1>11, <1>12 DEF Spelled

\* Every message is a list of such items.
LEMMA MessagesType == Messages \cup Lists \subseteq Seq(Items)
<1>1. Lists \subseteq Seq(Items)
  <2>1. Lists \subseteq Seq([store : {"js", "owned"}, length : Nat])  BY LimitsAssumption
  <2>2. \A s \in Seq([store : {"js", "owned"}, length : Nat]) : s \in Seq(Items)
    <3> SUFFICES ASSUME NEW s \in Seq([store : {"js", "owned"}, length : Nat]) PROVE s \in Seq(Items)
      OBVIOUS
    <3>1. PICK n \in Nat : n = Len(s)  BY LenProperties
    <3>2. s \in [1..n -> [store : {"js", "owned"}, length : Nat]]  BY <3>1, LenProperties
    <3>a. [store : {"js", "owned"}, length : Nat] \subseteq Items  BY DEF Items
    <3>b. s \in [1..n -> Items]  BY <3>2, <3>a
    <3>3. QED BY <3>b, IsSequence
  <2>3. QED BY <2>1, <2>2
<1>2. \A n \in Nat : HeaderSize(n) \in Nat  BY DEF HeaderSize
<1>3. \A n \in Nat : SmallText(n) \in Seq(Items)
  <2> SUFFICES ASSUME NEW n \in Nat PROVE SmallText(n) \in Seq(Items)  OBVIOUS
  <2>1. HeaderSize(n) + n \in Nat  BY <1>2
  <2>2. [store |-> "inline", length |-> HeaderSize(n) + n] \in Items  BY <2>1 DEF Items
  <2>3. QED BY <2>2 DEF SmallText
<1>4. \A n \in Nat, store \in {"js", "owned"} : Framed(store, n) \in Seq(Items)
  <2> SUFFICES ASSUME NEW n \in Nat, NEW store \in {"js", "owned"} PROVE Framed(store, n) \in Seq(Items)
    OBVIOUS
  <2>1. [store |-> "owned", length |-> HeaderSize(n)] \in Items  BY <1>2 DEF Items
  <2>2. [store |-> store, length |-> n] \in Items  BY DEF Items
  <2>3. QED BY <2>1, <2>2 DEF Framed
<1>5. \A n \in Nat : <<[store |-> "owned", length |-> n]>> \in Seq(Items)
  <2> SUFFICES ASSUME NEW n \in Nat PROVE <<[store |-> "owned", length |-> n]>> \in Seq(Items)
    OBVIOUS
  <2>1. [store |-> "owned", length |-> n] \in Items  BY DEF Items
  <2>2. QED BY <2>1
<1>6. Payloads \subseteq Nat  BY LimitsAssumption
<1>7. Messages \subseteq Seq(Items)  BY <1>3, <1>4, <1>5, <1>6 DEF Messages
<1>8. QED BY <1>1, <1>7

-------------------------------------------------------------------------------
(* The invariant *)

\* Where a request is.
Phases == {"new", "submit", "prepared", "flush", "queued", "done", "cancelled"}

\* The parts ps from i on spell the bytes up to y, all of them where their part points, and
\* the cursor (i, o) is at byte x of them.
Going(b, ps, i, o, x, y) ==
    /\ ps \in Seq(PartType)
    /\ b[Len(ps) + 1] = y /\ Spells(b, ps, i)
    /\ \A k \in i..Len(ps) : Fresh(ps[k])
    /\ AtByte(b, ps, i, o, x)

\* The counters are naturals, and plaintext is staged with TLS only.
TypeInv ==
    /\ tls \in BOOLEAN /\ inCall \in BOOLEAN /\ phase \in Phases
    /\ bytes \in Nat /\ sent \in Nat /\ staged \in Nat /\ batch \in Nat
    /\ ~tls => staged = 0

\* Nothing is written of a message that is being made, and its parts spell it.
MadeInv ==
    /\ phase \in {"new", "submit"} => wire = <<>> /\ sent = 0 /\ staged = 0
    /\ phase = "new" => parts = <<>>
    /\ phase = "submit" => Spelled(parts, 0, total)

\* What is written are the first bytes, and the cursor is at the next.
GoingInv ==
    phase \in {"prepared", "flush", "queued"} =>
        /\ bytes = total /\ sent < bytes /\ wire = Run(0, sent + staged)
        /\ \E b : Going(b, parts, cursorPart, cursorOffset, sent + staged, total)

\* When it is over, all of it was written.
DoneInv == phase = "done" => total \in Nat /\ wire = Run(0, total)

\* Whatever is left when the call returned is retained.
HeldInv ==
    /\ phase \in {"submit", "prepared"} => inCall
    /\ phase = "queued" \/ (phase = "flush" /\ ~inCall) =>
          /\ callback # "value"
          /\ \A i \in cursorPart..Len(parts) : parts[i].store # "js"

\* The inductive invariant.
Inv == TypeInv /\ MadeInv /\ GoingInv /\ DoneInv /\ HeldInv

\* It holds of a request that is not made yet.
LEMMA InitInv == Init => Inv
<1> SUFFICES ASSUME Init PROVE Inv  OBVIOUS
<1>1. PlaintextBatch \in Nat  BY LimitsAssumption
<1>2. TypeInv  BY <1>1 DEF Init, TypeInv, Phases
<1>3. MadeInv  BY DEF Init, MadeInv
<1>4. GoingInv /\ DoneInv /\ HeldInv  BY DEF Init, GoingInv, DoneInv, HeldInv
<1>5. QED BY <1>2, <1>3, <1>4 DEF Inv

\* Making a request numbers the bytes and moves parts, which still spell them.
LEMMA MakeInv == Inv /\ Make => Inv'
<1> SUFFICES ASSUME Inv, Make PROVE Inv'  OBVIOUS
<1>1. PICK list \in Messages \cup Lists :
        /\ parts' = [i \in DOMAIN Numbered(list) |->
                        IF i = 1 THEN Numbered(list)[1] ELSE Moved(Numbered(list)[i])]
        /\ total' = Size(Numbered(list))
  BY DEF Make
<1>2. list \in Seq(Items)  BY MessagesType
<1>3. PICK made : made = Numbered(list)  OBVIOUS
<1>4. PICK ps : ps = [i \in DOMAIN made |-> IF i = 1 THEN made[1] ELSE Moved(made[i])]  OBVIOUS
<1>5. Size(made) \in Nat /\ Spelled(ps, 0, Size(made))  BY <1>2, <1>3, <1>4, NumberedSpelled
<1>6. parts' = ps /\ total' = Size(made)  BY <1>1, <1>3, <1>4
<1>7. Spelled(parts', 0, total')  BY <1>5, <1>6
<1>8. TypeInv'  BY DEF Inv, TypeInv, Make, Phases
<1>9. MadeInv'  BY <1>7 DEF Inv, MadeInv, Make
<1>10. GoingInv' /\ DoneInv' /\ HeldInv'  BY DEF GoingInv, DoneInv, HeldInv, Make
<1>11. QED BY <1>8, <1>9, <1>10 DEF Inv

\* submit() arranges the parts and goes to the first byte.
LEMMA SubmitInv == Inv /\ Submit => Inv'
<1> SUFFICES ASSUME Inv, Submit PROVE Inv'  OBVIOUS
<1>1. phase = "submit" /\ wire = <<>> /\ sent = 0 /\ staged = 0 /\ Spelled(parts, 0, total) /\ inCall
  BY DEF Inv, MadeInv, HeldInv, Submit
<1>2. PICK ps : ps = Arranged(parts)  OBVIOUS
<1>3. PICK y : y = total  OBVIOUS
<1>4. Spelled(ps, 0, y) /\ AllFresh(ps)  BY <1>1, <1>2, <1>3, ArrangedSpelled
<1>5. y \in Nat  BY <1>4, SpelledTypes
<1>6. PICK b : Spells(b, ps, 1) /\ b[1] = 0 /\ b[Len(ps) + 1] = y  BY <1>4 DEF Spelled
<1>7. ps \in Seq(PartType) /\ Len(ps) \in Nat  BY <1>4, LenProperties DEF Spelled
<1>8. Size(ps) = y
  <2>1. Size(ps) = y - 0  BY <1>4, <1>6, <1>7, ContentsAll DEF AllFresh
  <2>2. QED BY <1>5, <2>1
<1>9. bytes' = y /\ bytes' \in Nat  BY <1>2, <1>5, <1>8 DEF Submit
<1>10. /\ parts' \in Seq(PartType) /\ Len(parts') = Len(ps)
       /\ cursorPart' \in 1..(Len(ps) + 1)
       /\ Spells(b, parts', cursorPart')
       /\ AtByte(b, parts', cursorPart', cursorOffset', b[1] + 0)
       /\ \A k \in cursorPart'..Len(ps) : parts'[k] = ps[k]
  <2>1. PICK one : one = 1  OBVIOUS
  <2>2. PICK n \in Nat : n = 0  OBVIOUS
  <2>3. MoveCursor(ps, one, n)  BY <1>2, <2>1, <2>2 DEF Submit
  <2>4. one \in 1..(Len(ps) + 1) /\ Spells(b, ps, one)  BY <1>6, <1>7, <2>1
  <2>5. b[one] + n <= b[Len(ps) + 1]  BY <1>5, <1>6, <2>1, <2>2
  <2>6. /\ parts' \in Seq(PartType) /\ Len(parts') = Len(ps)
        /\ cursorPart' \in one..(Len(ps) + 1)
        /\ Spells(b, parts', cursorPart')
        /\ AtByte(b, parts', cursorPart', cursorOffset', b[one] + n)
        /\ \A k \in cursorPart'..Len(ps) : parts'[k] = ps[k]
    BY ONLY <1>7, <2>3, <2>4, <2>5, n \in Nat, MoveTo
  <2>7. QED BY <2>1, <2>2, <2>6
<1>11. \A k \in cursorPart'..Len(parts') : Fresh(parts'[k])
  <2>1. \A k \in cursorPart'..Len(ps) : k \in 1..Len(ps)  BY <1>7, <1>10
  <2>2. QED BY <1>4, <1>10, <2>1 DEF AllFresh
<1>12. Going(b, parts', cursorPart', cursorOffset', 0, y)
  BY <1>6, <1>10, <1>11 DEF Going
<1>13. UNCHANGED <<tls, sent, staged, batch, callback, total, wire>>  BY DEF Submit
<1>14. Run(0, 0) = <<>>  BY RunNone
<1>15. TypeInv'
  <2>1. phase' \in Phases /\ inCall' \in BOOLEAN  BY DEF Submit, Phases, Inv, TypeInv
  <2>2. QED BY <1>9, <1>13, <2>1 DEF Inv, TypeInv
<1>16. CASE Size(ps) = 0
  <2>1. phase' = "done"  BY <1>2, <1>16 DEF Submit
  <2>2. DoneInv'  BY <1>1, <1>3, <1>5, <1>8, <1>13, <1>14, <1>16, <2>1 DEF DoneInv
  <2>3. MadeInv' /\ GoingInv' /\ HeldInv'  BY <2>1 DEF MadeInv, GoingInv, HeldInv
  <2>4. QED BY <1>15, <2>2, <2>3 DEF Inv
<1>17. CASE Size(ps) # 0
  <2>1. phase' = "prepared" /\ inCall' = inCall  BY <1>2, <1>17 DEF Submit
  <2>2. sent' + staged' = 0  BY <1>1, <1>13
  <2>3. GoingInv'
    <3>1. bytes' = total' /\ wire' = Run(0, sent' + staged')  BY <1>1, <1>3, <1>9, <1>13, <1>14, <2>2
    <3>2. Going(b, parts', cursorPart', cursorOffset', sent' + staged', total')
      BY <1>3, <1>12, <1>13, <2>2
    <3>3. sent' < bytes'  BY <1>1, <1>5, <1>8, <1>9, <1>13, <1>17
    <3>4. QED BY <3>1, <3>2, <3>3 DEF GoingInv
  <2>4. MadeInv' /\ DoneInv' /\ HeldInv'  BY <1>1, <2>1 DEF MadeInv, DoneInv, HeldInv
  <2>5. QED BY <1>15, <2>3, <2>4 DEF Inv
<1>18. QED BY <1>16, <1>17

-------------------------------------------------------------------------------
(* What steps do to the bytes that are left *)

\* defer() retains what is left and leaves every byte where it is.
LEMMA DeferGoing ==
    ASSUME NEW b, NEW x, NEW y, Going(b, parts, cursorPart, cursorOffset, x, y), Defer
    PROVE  /\ Going(b, parts', cursorPart, cursorOffset, x, y)
           /\ \A i \in cursorPart..Len(parts') : parts'[i].store # "js"
           /\ callback' # "value" /\ phase' = "queued" /\ inCall' = FALSE
<1>1. PICK n \in Nat : n = Len(parts)  BY LenProperties DEF Going
<1>2. DOMAIN parts = 1..n /\ \A k \in 1..n : parts[k] \in PartType
  BY <1>1, LenProperties, ElementOfSeq DEF Going
<1>3. PICK i \in 1..(n + 1) : i = cursorPart  BY <1>1 DEF Going, AtByte
<1>4. PICK qs : qs = parts'  OBVIOUS
<1>5. /\ DOMAIN qs = 1..n
      /\ \A k \in 1..n : qs[k] = IF k >= i /\ parts[k].store = "js"
                                 THEN [parts[k] EXCEPT !.store = "held"] ELSE parts[k]
  BY <1>2, <1>3, <1>4 DEF Defer, Remaining
<1>6. ASSUME NEW k \in 1..n
      PROVE  /\ qs[k] \in PartType
             /\ qs[k].length = parts[k].length /\ Pointed(qs[k]) = Pointed(parts[k])
             /\ Sound(parts[k]) => Sound(qs[k])
             /\ Fresh(parts[k]) => Fresh(qs[k])
             /\ k >= i => qs[k].store # "js"
  <2>1. PICK p \in PartType : p = parts[k]  BY <1>2
  <2>2. CASE k >= i /\ p.store = "js"
    <3>1. qs[k] = [p EXCEPT !.store = "held"]  BY <1>5, <2>1, <2>2
    <3>2. PICK q : q = [p EXCEPT !.store = "held"]  OBVIOUS
    <3>3. /\ q \in PartType /\ q.length = p.length /\ q.content = p.content /\ q.at = p.at
          /\ q.store = "held" /\ q.stale = p.stale
      BY <2>1, <3>2 DEF PartType, Stores
    <3>4. Pointed(q) = Pointed(p)  BY <3>3 DEF Pointed
    <3>5. Sound(p) => Sound(q)  BY <2>2, <3>3 DEF Sound
    <3>6. Fresh(p) => Fresh(q)  BY <3>3 DEF Fresh
    <3>7. q.store # "js"  BY <3>3
    <3>8. QED BY <2>1, <3>1, <3>2, <3>3, <3>4, <3>5, <3>6, <3>7
  <2>3. CASE ~(k >= i /\ p.store = "js")
    <3>1. qs[k] = parts[k]  BY <1>5, <2>1, <2>3
    <3>2. QED BY <2>1, <2>3, <3>1
  <2>4. QED BY <2>2, <2>3
<1>7. qs \in Seq(PartType) /\ Len(qs) = n
  <2>1. qs \in [1..n -> PartType]  BY <1>2, <1>4, <1>5, <1>6 DEF Defer
  <2>2. QED BY <2>1, IsSequence
<1>8. \A k \in i..n : k \in 1..n /\ k >= i  BY <1>3
<1>9. \A k \in i..n : Sound(parts[k]) /\ Fresh(parts[k])  BY <1>1, <1>3 DEF Going, Spells
<1>10. Spells(b, qs, i)
  <2>1. Spells(b, parts, i)  BY <1>3 DEF Going
  <2>2. \A k \in i..Len(parts) : k \in i..Len(parts)  OBVIOUS
  <2>3. \A k \in i..Len(parts) : qs[k].length = parts[k].length /\ Pointed(qs[k]) = Pointed(parts[k])
                                 /\ Sound(qs[k])
    BY <1>1, <1>6, <1>8, <1>9
  <2>4. Len(qs) = Len(parts)  BY <1>1, <1>7
  <2>5. QED BY ONLY <2>1, <2>2, <2>3, <2>4, SpellsKept
<1>11. \A k \in i..Len(qs) : Fresh(qs[k])  BY <1>6, <1>7, <1>8, <1>9
<1>12. AtByte(b, qs, i, cursorOffset, x)
  <2>1. AtByte(b, parts, i, cursorOffset, x)  BY <1>3 DEF Going
  <2>2. i <= n => qs[i].length = parts[i].length
    <3>1. i <= n => i \in 1..n  BY <1>3
    <3>2. QED BY <1>6, <3>1
  <2>3. QED BY <1>1, <1>7, <2>1, <2>2 DEF AtByte
<1>13. b[Len(qs) + 1] = y  BY <1>1, <1>7 DEF Going
<1>14. Going(b, qs, i, cursorOffset, x, y)  BY <1>7, <1>10, <1>11, <1>12, <1>13 DEF Going
<1>15. \A k \in i..Len(qs) : qs[k].store # "js"  BY <1>6, <1>7, <1>8
<1>16. callback' # "value" /\ phase' = "queued" /\ inCall' = FALSE  BY DEF Defer
<1>17. QED BY <1>3, <1>4, <1>14, <1>15, <1>16

\* Writing the next n bytes moves the cursor over them.
LEMMA AdvanceGoing ==
    ASSUME NEW b, NEW x, NEW y, Going(b, parts, cursorPart, cursorOffset, x, y),
           NEW n \in Nat, x + n <= y, Advance(n)
    PROVE  /\ Going(b, parts', cursorPart', cursorOffset', x + n, y)
           /\ \A k \in cursorPart'..Len(parts') :
                 k \in cursorPart..Len(parts) /\ parts'[k] = parts[k]
           /\ x \in Nat /\ y \in Nat /\ SubSeq(Rest, 1, n) = Run(x, x + n)
<1>1. PICK l \in Nat : l = Len(parts)  BY LenProperties DEF Going
<1>2. PICK i \in 1..(l + 1) : i = cursorPart  BY <1>1 DEF Going, AtByte
<1>3. PICK o \in Nat : o = cursorOffset /\ x = b[i] + o  BY <1>2 DEF Going, AtByte
<1>4. parts \in Seq(PartType) /\ Spells(b, parts, i) /\ b[l + 1] = y  BY <1>1, <1>2 DEF Going
<1>5. x \in Nat /\ y \in Nat /\ x <= y /\ Rest = Run(x, y)
  <2>1. /\ x \in Nat /\ b[Len(parts) + 1] \in Nat /\ x <= b[Len(parts) + 1]
        /\ Rest = Run(x, b[Len(parts) + 1])
    BY RestIs DEF Going
  <2>2. QED BY <1>1, <1>4, <2>1
<1>6. b[i] \in Nat
  <2>1. Ladder(b, parts, i)  BY <1>4 DEF Spells
  <2>2. \A k \in i..(l + 1) : b[k] \in Nat  BY <1>1, <1>2, <1>4, <2>1, LadderAt
  <2>3. QED BY <1>2, <2>2
<1>7. PICK m \in Nat : m = o + n  OBVIOUS
<1>8. b[i] + m <= b[Len(parts) + 1] /\ b[i] + m = x + n
  <2>1. PICK z \in Nat : z = b[i]  BY <1>6
  <2>2. x = z + o /\ z + m = x + n  BY <1>3, <1>7, <2>1
  <2>3. QED BY <1>1, <1>4, <2>1, <2>2
<1>9. MoveCursor(parts, i, m)  BY <1>2, <1>3, <1>7 DEF Advance
<1>10. PICK ps : ps = parts  OBVIOUS
<1>11. /\ parts' \in Seq(PartType) /\ Len(parts') = Len(ps)
       /\ cursorPart' \in i..(Len(ps) + 1)
       /\ Spells(b, parts', cursorPart')
       /\ AtByte(b, parts', cursorPart', cursorOffset', b[i] + m)
       /\ \A k \in cursorPart'..Len(ps) : parts'[k] = ps[k]
  <2>1. ps \in Seq(PartType) /\ Spells(b, ps, i) /\ i \in 1..(Len(ps) + 1)  BY <1>1, <1>2, <1>4, <1>10
  <2>2. MoveCursor(ps, i, m) /\ b[i] + m <= b[Len(ps) + 1]  BY <1>8, <1>9, <1>10
  <2>3. QED BY ONLY <2>1, <2>2, m \in Nat, MoveTo
<1>12. \A k \in cursorPart'..Len(parts') : k \in i..Len(parts) /\ parts'[k] = parts[k]
  BY <1>1, <1>2, <1>10, <1>11
<1>13. \A k \in cursorPart'..Len(parts') : Fresh(parts'[k])
  <2>1. \A k \in i..Len(parts) : Fresh(parts[k])  BY <1>2 DEF Going
  <2>2. QED BY <1>12, <2>1
<1>14. Going(b, parts', cursorPart', cursorOffset', x + n, y)
  BY <1>1, <1>4, <1>8, <1>10, <1>11, <1>13 DEF Going
<1>15. SubSeq(Rest, 1, n) = Run(x, x + n)
  <2>1. n <= y - x  BY <1>5
  <2>2. SubSeq(Run(x, y), 1, n) = Run(x, x + n)  BY <1>5, <2>1, RunStart
  <2>3. QED BY <1>5, <2>2
<1>16. QED BY <1>2, <1>5, <1>12, <1>14, <1>15

\* What remainingIovecs() covers is the bytes from the cursor to some part's end, and is not
\* nothing unless nothing is left.
LEMMA CoveredIs ==
    ASSUME NEW b, NEW x, NEW y, Going(b, parts, cursorPart, cursorOffset, x, y), x < y
    PROVE  /\ x \in Nat /\ y \in Nat
           /\ Covered \in Nat /\ Covered > 0 /\ x + Covered <= y
           /\ remainingPartBytes \in Nat /\ remainingPartBytes > 0 /\ x + remainingPartBytes <= y
<1>1. PICK l \in Nat : l = Len(parts)  BY LenProperties DEF Going
<1>2. PICK i \in 1..(l + 1) : i = cursorPart  BY <1>1 DEF Going, AtByte
<1>3. PICK o \in Nat : o = cursorOffset /\ x = b[i] + o  BY <1>2 DEF Going, AtByte
<1>4. parts \in Seq(PartType) /\ Spells(b, parts, i) /\ b[l + 1] = y  BY <1>1, <1>2 DEF Going
<1>5. /\ x \in Nat /\ y \in Nat /\ i <= l
      /\ x < b[i + 1] /\ b[i + 1] - x = remainingPartBytes /\ b[i + 1] \in Nat
  <2>1. /\ x \in Nat /\ b[Len(parts) + 1] \in Nat
        /\ x < b[Len(parts) + 1] => cursorPart <= Len(parts)
        /\ cursorPart <= Len(parts) =>
              /\ x < b[cursorPart + 1] /\ b[cursorPart + 1] - x = remainingPartBytes
              /\ b[cursorPart + 1] \in Nat
    BY RestIs DEF Going
  <2>2. QED BY <1>1, <1>2, <1>4, <2>1
<1>6. Ladder(b, parts, i)  BY <1>4 DEF Spells
<1>7. MaximumIOVectors \in Nat \ {0}  BY LimitsAssumption
<1>8. PICK last : last = IF i + MaximumIOVectors - 1 < l THEN i + MaximumIOVectors - 1 ELSE l  OBVIOUS
<1>9. last \in i..l  BY <1>2, <1>5, <1>7, <1>8
<1>10. Covered = Size(SubSeq(parts, i, last)) - o  BY <1>1, <1>2, <1>3, <1>8 DEF Covered
<1>11. Size(SubSeq(parts, i, last)) = b[last + 1] - b[i]
  <2>1. last \in (i - 1)..Len(parts) /\ i \in 1..(Len(parts) + 1)  BY <1>1, <1>2, <1>9
  <2>2. QED BY <1>4, <1>6, <2>1, SizeOf
<1>12. /\ b[i] \in Nat /\ b[last + 1] \in Nat /\ b[last + 1] <= y
       /\ b[i + 1] <= b[last + 1] /\ b[i + 1] <= y
  <2>1. \A k \in i..(l + 1) : b[k] \in Nat /\ b[k] <= b[l + 1]
    BY <1>1, <1>2, <1>4, <1>6, LadderAt
  <2>2. last + 1 \in i..(l + 1) /\ i + 1 \in i..(l + 1) /\ i \in i..(l + 1)  BY <1>2, <1>5, <1>9
  <2>3. b[i + 1] <= b[last + 1]
    <3>2. PICK j : j = i + 1  OBVIOUS
    <3>3. j \in 1..(l + 1)  BY <1>2, <1>5, <3>2
    <3>4. Ladder(b, SubSeq(parts, 1, last), j)
      <4>1. Len(SubSeq(parts, 1, last)) = last  BY <1>1, <1>2, <1>4, <1>9, LenProperties
      <4>2. \A k \in j..last : k \in i..l /\ k \in 1..last  BY <1>2, <1>9, <3>2
      <4>3. \A k \in 1..last : SubSeq(parts, 1, last)[k] = parts[k]
        BY <1>1, <1>2, <1>4, <1>9
      <4>4. QED BY <1>1, <1>6, <2>1, <2>2, <4>1, <4>2, <4>3 DEF Ladder
    <3>5. SubSeq(parts, 1, last) \in Seq(PartType) /\ Len(SubSeq(parts, 1, last)) = last
      BY <1>1, <1>2, <1>4, <1>9
    <3>6. j \in 1..(last + 1)  BY <1>2, <1>9, <3>2
    <3>7. \A k \in j..(last + 1) : b[k] <= b[last + 1]  BY ONLY <3>4, <3>5, <3>6, LadderAt
    <3>8. j \in j..(last + 1)  BY <3>6
    <3>9. QED BY <3>2, <3>7, <3>8
  <2>4. QED BY <1>4, <2>1, <2>2, <2>3
<1>13. PICK u \in Nat : u = b[i]  BY <1>12
<1>14. PICK v \in Nat : v = b[last + 1] /\ v <= y  BY <1>12
<1>15. PICK w \in Nat : w = b[i + 1] /\ w <= v /\ x < w  BY <1>5, <1>12, <1>14
<1>16. Covered = v - x
  <2>1. Covered = (v - u) - o /\ x = u + o  BY <1>3, <1>10, <1>11, <1>13, <1>14
  <2>2. QED BY <1>5, <2>1
<1>17. remainingPartBytes = w - x  BY <1>5, <1>15
<1>18. QED BY <1>5, <1>14, <1>15, <1>16, <1>17

-------------------------------------------------------------------------------
(* Every step keeps the invariant *)

\* A request that has to wait retains its inputs, one that is written at once need not.
LEMMA EnqueueInv == Inv /\ Enqueue => Inv'
<1> SUFFICES ASSUME Inv, Enqueue PROVE Inv'  OBVIOUS
<1>1. UNCHANGED <<tls, cursorPart, cursorOffset, bytes, sent, staged, batch, total, wire>>
  BY DEF Enqueue
<1>2. phase = "prepared" /\ inCall  BY DEF Enqueue, Inv, HeldInv
<1>3. PICK b : Going(b, parts, cursorPart, cursorOffset, sent + staged, total)
  BY <1>2 DEF Inv, GoingInv
<1>4. bytes = total /\ sent < bytes /\ wire = Run(0, sent + staged)  BY <1>2 DEF Inv, GoingInv
<1>5. /\ Going(b, parts', cursorPart, cursorOffset, sent + staged, total)
      /\ phase' \in {"flush", "queued"} /\ inCall' \in BOOLEAN
      /\ phase' = "queued" =>
            callback' # "value" /\ \A i \in cursorPart..Len(parts') : parts'[i].store # "js"
      /\ phase' = "flush" => inCall'
  <2>1. CASE Defer  BY <1>3, <2>1, DeferGoing
  <2>2. CASE phase' = "flush" /\ UNCHANGED <<parts, callback, inCall>>  BY <1>2, <1>3, <2>2
  <2>3. QED BY <2>1, <2>2 DEF Enqueue
<1>6. TypeInv'  BY <1>1, <1>5 DEF Inv, TypeInv, Phases
<1>7. MadeInv' /\ DoneInv'  BY <1>5 DEF MadeInv, DoneInv
<1>8. GoingInv'
  <2>1. Going(b, parts', cursorPart', cursorOffset', sent' + staged', total')  BY <1>1, <1>5
  <2>2. bytes' = total' /\ sent' < bytes' /\ wire' = Run(0, sent' + staged')  BY <1>1, <1>4
  <2>3. QED BY <2>1, <2>2 DEF GoingInv
<1>9. HeldInv'  BY <1>1, <1>5 DEF HeldInv
<1>10. QED BY <1>6, <1>7, <1>8, <1>9 DEF Inv

\* Bytes that are written follow those that were.
LEMMA WireGrows ==
    ASSUME NEW x \in Nat, NEW n \in Nat, wire = Run(0, x), SubSeq(Rest, 1, n) = Run(x, x + n)
    PROVE  wire \o SubSeq(Rest, 1, n) = Run(0, x + n)
<1>1. PICK z \in Nat : z = 0  OBVIOUS
<1>2. PICK y \in Nat : y = x + n  OBVIOUS
<1>3. z <= x /\ x <= y  BY <1>1, <1>2
<1>4. Run(z, x) \o Run(x, y) = Run(z, y)  BY <1>3, RunJoin
<1>5. QED BY <1>1, <1>2, <1>4

\* sendmsg() takes some of what it is offered.
LEMMA WriteTCPInv == Inv /\ WriteTCP => Inv'
<1> SUFFICES ASSUME Inv, WriteTCP PROVE Inv'  OBVIOUS
<1>1. /\ phase = "flush" /\ ~tls
      /\ UNCHANGED <<tls, bytes, staged, batch, total>>
  BY DEF WriteTCP
<1>2. PICK n \in 1..Covered : wire' = wire \o SubSeq(Rest, 1, n) /\ Advance(n) /\ Sent(n)
  BY DEF WriteTCP
<1>3. PICK b : Going(b, parts, cursorPart, cursorOffset, sent + staged, total)
  BY <1>1 DEF Inv, GoingInv
<1>4. bytes = total /\ sent < bytes /\ wire = Run(0, sent + staged)  BY <1>1 DEF Inv, GoingInv
<1>5. staged = 0 /\ sent \in Nat  BY <1>1 DEF Inv, TypeInv
<1>6. PICK x \in Nat : x = sent + staged /\ x = sent  BY <1>5
<1>7. PICK y : y = total  OBVIOUS
<1>8. Going(b, parts, cursorPart, cursorOffset, x, y)  BY <1>3, <1>6, <1>7
<1>9. x < y  BY <1>1, <1>6, <1>7 DEF Inv, GoingInv
<1>10. n \in Nat /\ x + n <= y /\ y \in Nat
  <2>1. Covered \in Nat /\ x + Covered <= y /\ y \in Nat  BY <1>8, <1>9, CoveredIs
  <2>2. PICK c \in Nat : c = Covered  BY <2>1
  <2>3. n \in 1..c /\ x + c <= y  BY <1>2, <2>1, <2>2
  <2>4. QED BY <2>1, <2>3
<1>11. /\ Going(b, parts', cursorPart', cursorOffset', x + n, y)
       /\ \A k \in cursorPart'..Len(parts') :
             k \in cursorPart..Len(parts) /\ parts'[k] = parts[k]
       /\ SubSeq(Rest, 1, n) = Run(x, x + n)
  BY <1>2, <1>8, <1>10, AdvanceGoing
<1>12. wire' = Run(0, x + n)  BY <1>2, <1>4, <1>6, <1>10, <1>11, WireGrows
<1>13. sent' = x + n /\ sent' \in Nat /\ sent' + staged' = x + n
  BY <1>1, <1>2, <1>5, <1>6, <1>10 DEF Sent
<1>14. \/ phase' = "done" /\ inCall' = FALSE /\ sent' = bytes
       \/ phase' = phase /\ inCall' = inCall /\ callback' = callback
  BY <1>2 DEF Sent
<1>15. TypeInv'  BY <1>1, <1>13, <1>14 DEF Inv, TypeInv, Phases
<1>16. MadeInv'  BY <1>1, <1>14 DEF MadeInv
<1>17. DoneInv'  BY <1>1, <1>4, <1>12, <1>13, <1>14 DEF DoneInv
<1>18. GoingInv'
  <2>1. Going(b, parts', cursorPart', cursorOffset', sent' + staged', total')
    BY <1>1, <1>7, <1>11, <1>13
  <2>2. bytes' = total' /\ wire' = Run(0, sent' + staged')  BY <1>1, <1>4, <1>12, <1>13
  <2>3. phase' = "flush" => sent' < bytes'
    <3>1. phase' = "flush" => sent' # bytes  BY <1>2 DEF Sent
    <3>2. QED BY <1>1, <1>4, <1>7, <1>10, <1>13, <3>1
  <2>4. phase' \in {"flush", "done"}  BY <1>1, <1>14
  <2>5. QED BY <2>1, <2>2, <2>3, <2>4 DEF GoingInv
<1>19. HeldInv'  BY <1>1, <1>11, <1>14 DEF Inv, HeldInv
<1>20. QED BY <1>15, <1>16, <1>17, <1>18, <1>19 DEF Inv

\* SSL_write_ex() takes no more than is left of a part.
LEMMA StageTLSInv == Inv /\ StageTLS => Inv'
<1> SUFFICES ASSUME Inv, StageTLS PROVE Inv'  OBVIOUS
<1>1. /\ phase = "flush" /\ tls /\ unstagedBytes > 0
      /\ UNCHANGED <<tls, bytes, sent, callback, phase, inCall, total>>
  BY DEF StageTLS
<1>2. PICK n \in 1..(IF remainingPartBytes < batch THEN remainingPartBytes ELSE batch) :
        /\ wire' = wire \o SubSeq(Rest, 1, n) /\ Advance(n)
        /\ staged' = staged + n /\ batch' = batch - n
  BY DEF StageTLS
<1>3. PICK b : Going(b, parts, cursorPart, cursorOffset, sent + staged, total)
  BY <1>1 DEF Inv, GoingInv
<1>4. bytes = total /\ sent < bytes /\ wire = Run(0, sent + staged)  BY <1>1 DEF Inv, GoingInv
<1>5. sent \in Nat /\ staged \in Nat /\ batch \in Nat /\ bytes \in Nat  BY DEF Inv, TypeInv
<1>6. PICK x \in Nat : x = sent + staged  BY <1>5
<1>7. PICK y : y = total  OBVIOUS
<1>8. Going(b, parts, cursorPart, cursorOffset, x, y)  BY <1>3, <1>6, <1>7
<1>9. x < y  BY <1>1, <1>4, <1>5, <1>6, <1>7 DEF unstagedBytes
<1>10. PICK r \in Nat : r = remainingPartBytes /\ x + r <= y
  BY <1>8, <1>9, CoveredIs
<1>11. y \in Nat  BY <1>8, <1>9, CoveredIs
<1>12. n \in Nat /\ n <= r /\ n <= batch  BY <1>2, <1>5, <1>10
<1>13. x + n <= y  BY <1>10, <1>11, <1>12
<1>14. /\ Going(b, parts', cursorPart', cursorOffset', x + n, y)
       /\ \A k \in cursorPart'..Len(parts') :
             k \in cursorPart..Len(parts) /\ parts'[k] = parts[k]
       /\ SubSeq(Rest, 1, n) = Run(x, x + n)
  BY <1>2, <1>8, <1>12, <1>13, AdvanceGoing
<1>15. wire' = Run(0, x + n)  BY <1>2, <1>4, <1>6, <1>12, <1>14, WireGrows
<1>16. sent' + staged' = x + n /\ staged' \in Nat /\ batch' \in Nat
  BY <1>1, <1>2, <1>5, <1>6, <1>12
<1>17. TypeInv'  BY <1>1, <1>16 DEF Inv, TypeInv
<1>18. MadeInv' /\ DoneInv'  BY <1>1 DEF MadeInv, DoneInv
<1>19. GoingInv'
  <2>1. Going(b, parts', cursorPart', cursorOffset', sent' + staged', total')
    BY <1>1, <1>7, <1>14, <1>16
  <2>2. bytes' = total' /\ sent' < bytes' /\ wire' = Run(0, sent' + staged')  BY <1>1, <1>4, <1>15, <1>16
  <2>3. QED BY <2>1, <2>2 DEF GoingInv
<1>20. HeldInv'  BY <1>1, <1>14 DEF Inv, HeldInv
<1>21. QED BY <1>17, <1>18, <1>19, <1>20 DEF Inv

\* Staged plaintext becomes sent plaintext, and the sum stays.
LEMMA CommitTLSInv == Inv /\ CommitTLS => Inv'
<1> SUFFICES ASSUME Inv, CommitTLS PROVE Inv'  OBVIOUS
<1>1. /\ phase = "flush" /\ tls /\ staged' = 0 /\ batch' = PlaintextBatch /\ sent' = sent + staged
      /\ UNCHANGED <<tls, parts, cursorPart, cursorOffset, bytes, total, wire>>
  BY DEF CommitTLS, Sent
<1>2. \/ phase' = "done" /\ inCall' = FALSE /\ sent' = bytes
      \/ phase' = phase /\ inCall' = inCall /\ callback' = callback
  BY DEF CommitTLS, Sent
<1>3. sent \in Nat /\ staged \in Nat  BY DEF Inv, TypeInv
<1>4. sent' \in Nat /\ sent' + staged' = sent + staged /\ sent' = sent + staged  BY <1>1, <1>3
<1>5. PlaintextBatch \in Nat  BY LimitsAssumption
<1>6. bytes = total /\ sent < bytes /\ wire = Run(0, sent + staged)  BY <1>1 DEF Inv, GoingInv
<1>7. TypeInv'  BY <1>1, <1>2, <1>4, <1>5 DEF Inv, TypeInv, Phases
<1>8. MadeInv'  BY <1>1, <1>2 DEF MadeInv
<1>9. DoneInv'  BY <1>1, <1>2, <1>4, <1>6 DEF DoneInv
<1>10. GoingInv'
  <2>1. PICK b : Going(b, parts, cursorPart, cursorOffset, sent + staged, total)
    BY <1>1 DEF Inv, GoingInv
  <2>2. Going(b, parts', cursorPart', cursorOffset', sent' + staged', total')  BY <1>1, <1>4, <2>1
  <2>3. bytes' = total' /\ wire' = Run(0, sent' + staged')  BY <1>1, <1>4, <1>6
  <2>4. phase' = "flush" => sent' < bytes'
    <3>1. phase' = "flush" => sent' # bytes  BY DEF CommitTLS, Sent
    <3>2. PICK x \in Nat : x = sent + staged  BY <1>3
    <3>3. x <= total
      <4>1. x <= b[Len(parts) + 1] /\ b[Len(parts) + 1] = total  BY <2>1, <3>2, RestIs DEF Going
      <4>2. QED BY <4>1
    <3>4. bytes \in Nat  BY DEF Inv, TypeInv
    <3>5. QED BY <1>1, <1>4, <1>6, <3>1, <3>2, <3>3, <3>4
  <2>5. phase' \in {"flush", "done"}  BY <1>1, <1>2
  <2>6. QED BY <2>1, <2>2, <2>3, <2>4, <2>5 DEF GoingInv
<1>11. HeldInv'  BY <1>1, <1>2 DEF Inv, HeldInv
<1>12. QED BY <1>7, <1>8, <1>9, <1>10, <1>11 DEF Inv

\* A request that is blocked within the call retains what is left; later it was retained.
LEMMA BlockInv == Inv /\ Block => Inv'
<1> SUFFICES ASSUME Inv, Block PROVE Inv'  OBVIOUS
<1>1. /\ phase = "flush"
      /\ UNCHANGED <<tls, cursorPart, cursorOffset, bytes, sent, staged, total, wire>>
  BY DEF Block
<1>2. PICK b : Going(b, parts, cursorPart, cursorOffset, sent + staged, total)
  BY <1>1 DEF Inv, GoingInv
<1>3. bytes = total /\ sent < bytes /\ wire = Run(0, sent + staged)  BY <1>1 DEF Inv, GoingInv
<1>4. /\ Going(b, parts', cursorPart, cursorOffset, sent + staged, total)
      /\ phase' = "queued" /\ inCall' \in BOOLEAN
      /\ callback' # "value" /\ \A i \in cursorPart..Len(parts') : parts'[i].store # "js"
  <2>1. CASE inCall
    <3>1. Defer  BY <2>1 DEF Block
    <3>2. QED BY <1>2, <3>1, DeferGoing
  <2>2. CASE ~inCall
    <3>1. phase' = "queued" /\ UNCHANGED <<parts, callback, inCall>>  BY <2>2 DEF Block
    <3>2. callback # "value" /\ \A i \in cursorPart..Len(parts) : parts[i].store # "js"
      BY <1>1, <2>2 DEF Inv, HeldInv
    <3>3. inCall \in BOOLEAN  BY DEF Inv, TypeInv
    <3>4. QED BY <1>2, <3>1, <3>2, <3>3
  <2>3. QED BY <2>1, <2>2
<1>5. batch' \in Nat
  <2>1. PlaintextBatch \in Nat  BY LimitsAssumption
  <2>2. QED BY <2>1 DEF Block
<1>6. TypeInv'  BY <1>1, <1>4, <1>5 DEF Inv, TypeInv, Phases
<1>7. MadeInv' /\ DoneInv'  BY <1>4 DEF MadeInv, DoneInv
<1>8. GoingInv'
  <2>1. Going(b, parts', cursorPart', cursorOffset', sent' + staged', total')  BY <1>1, <1>4
  <2>2. bytes' = total' /\ sent' < bytes' /\ wire' = Run(0, sent' + staged')  BY <1>1, <1>3
  <2>3. QED BY <2>1, <2>2 DEF GoingInv
<1>9. HeldInv'  BY <1>1, <1>4 DEF HeldInv
<1>10. QED BY <1>6, <1>7, <1>8, <1>9 DEF Inv

\* flushWrites() finds the request as it was left.
LEMMA ResumeInv == Inv /\ Resume => Inv'
<1> SUFFICES ASSUME Inv, Resume PROVE Inv'  OBVIOUS
<1>1. /\ phase = "queued" /\ phase' = "flush"
      /\ UNCHANGED <<tls, parts, cursorPart, cursorOffset, bytes, sent, staged, batch, callback,
                     inCall, total, wire>>
  BY DEF Resume
<1>2. PICK b : Going(b, parts, cursorPart, cursorOffset, sent + staged, total)
  BY <1>1 DEF Inv, GoingInv
<1>3. bytes = total /\ sent < bytes /\ wire = Run(0, sent + staged)  BY <1>1 DEF Inv, GoingInv
<1>4. TypeInv'  BY <1>1 DEF Inv, TypeInv, Phases
<1>5. MadeInv' /\ DoneInv'  BY <1>1 DEF MadeInv, DoneInv
<1>6. GoingInv'
  <2>1. Going(b, parts', cursorPart', cursorOffset', sent' + staged', total')  BY <1>1, <1>2
  <2>2. bytes' = total' /\ sent' < bytes' /\ wire' = Run(0, sent' + staged')  BY <1>1, <1>3
  <2>3. QED BY <2>1, <2>2 DEF GoingInv
<1>7. HeldInv'  BY <1>1 DEF Inv, HeldInv
<1>8. QED BY <1>4, <1>5, <1>6, <1>7 DEF Inv

\* Nothing is promised of a request that was cancelled.
LEMMA CancelInv == Inv /\ Cancel => Inv'
<1> SUFFICES ASSUME Inv, Cancel PROVE Inv'  OBVIOUS
<1>1. phase' = "cancelled"  BY DEF Cancel
<1>2. TypeInv'  BY DEF Inv, TypeInv, Cancel, Phases
<1>3. MadeInv' /\ GoingInv' /\ DoneInv' /\ HeldInv'  BY <1>1 DEF MadeInv, GoingInv, DoneInv, HeldInv
<1>4. QED BY <1>2, <1>3 DEF Inv

\* Steps of others change none of this.
LEMMA StutterInv == Inv /\ UNCHANGED vars => Inv'
<1> SUFFICES ASSUME Inv, UNCHANGED vars PROVE Inv'  OBVIOUS
<1>1. TypeInv'  BY DEF Inv, TypeInv, vars
<1>2. MadeInv' /\ DoneInv'  BY DEF Inv, MadeInv, DoneInv, vars
<1>3. GoingInv'
  <2>1. CASE phase \in {"prepared", "flush", "queued"}
    <3>1. PICK b : Going(b, parts, cursorPart, cursorOffset, sent + staged, total)
      BY <2>1 DEF Inv, GoingInv
    <3>2. bytes = total /\ sent < bytes /\ wire = Run(0, sent + staged)  BY <2>1 DEF Inv, GoingInv
    <3>3. Going(b, parts', cursorPart', cursorOffset', sent' + staged', total')  BY <3>1 DEF vars
    <3>4. bytes' = total' /\ sent' < bytes' /\ wire' = Run(0, sent' + staged')  BY <3>2 DEF vars
    <3>5. QED BY <3>3, <3>4 DEF GoingInv
  <2>2. CASE phase \notin {"prepared", "flush", "queued"}  BY <2>2 DEF GoingInv, vars
  <2>3. QED BY <2>1, <2>2
<1>4. HeldInv'  BY DEF Inv, HeldInv, vars
<1>5. QED BY <1>1, <1>2, <1>3, <1>4 DEF Inv

\* The inductive invariant holds in every reachable state.
THEOREM Invariance == Spec => []Inv
<1>1. Init => Inv  BY InitInv
<1>2. Inv /\ [Next]_vars => Inv'
  <2>1. Inv /\ Next => Inv'
    BY MakeInv, SubmitInv, EnqueueInv, WriteTCPInv, StageTLSInv, CommitTLSInv, BlockInv, ResumeInv,
       CancelInv DEF Next
  <2>2. QED BY <2>1, StutterInv
<1>3. QED BY <1>1, <1>2, PTL DEF Spec

\* HeldUntilSent: after the call that sends has returned, neither an unretained buffer nor an
\* unreferenced callback is used (retainRemainingInputs() and defer()).
THEOREM HeldCorrect == Spec => []HeldUntilSent
<1>1. Inv => HeldUntilSent  BY DEF Inv, HeldInv, HeldUntilSent
<1>2. QED BY <1>1, Invariance, PTL

\* WritesSomething: while bytes are left, sendmsg() and SSL_write_ex() are offered at least one
\* (advanceCursor(), skipEmptyParts() and remainingIovecs()).
THEOREM WritesCorrect == Spec => []WritesSomething
<1>1. Inv => WritesSomething
  <2> SUFFICES ASSUME Inv, phase = "flush", unstagedBytes > 0
               PROVE  Covered > 0 /\ remainingPartBytes > 0
    BY DEF WritesSomething
  <2>1. PICK b : Going(b, parts, cursorPart, cursorOffset, sent + staged, total)
    BY DEF Inv, GoingInv
  <2>2. PICK x \in Nat : x = sent + staged  BY DEF Inv, TypeInv
  <2>3. x < total  BY <2>2 DEF Inv, GoingInv, TypeInv, unstagedBytes
  <2>4. QED BY <2>1, <2>2, <2>3, CoveredIs
<1>2. QED BY <1>1, Invariance, PTL

\* WholeMessage: through prepare(), flatten(), coalescePrefix(), partial writes and staging,
\* what is written and what is left are the message, every byte once and in order.
THEOREM WholeCorrect == Spec => []WholeMessage
<1>1. Inv => WholeMessage
  <2> SUFFICES ASSUME Inv PROVE WholeMessage  OBVIOUS
  <2>1. total \in Nat => Message = Run(0, total)
    <3>1. \A i \in 1..total : total \in Nat => 0 + i = i  OBVIOUS
    <3>2. total \in Nat => total - 0 = total  OBVIOUS
    <3>3. QED BY <3>1, <3>2 DEF Message, Run
  <2>2. ASSUME phase \in {"flush", "queued"}
        PROVE  wire \o Rest = Message /\ Len(Rest) = unstagedBytes /\ Len(wire) = sent + staged
    <3>1. PICK b : Going(b, parts, cursorPart, cursorOffset, sent + staged, total)
      BY <2>2 DEF Inv, GoingInv
    <3>2. PICK x \in Nat : x = sent + staged  BY DEF Inv, TypeInv
    <3>3. wire = Run(0, x) /\ bytes = total  BY <2>2, <3>2 DEF Inv, GoingInv
    <3>4. PICK y \in Nat : y = total  BY <3>3 DEF Inv, TypeInv
    <3>5. Rest = Run(x, y) /\ x <= y
      <4>1. /\ x <= b[Len(parts) + 1] /\ Rest = Run(x, b[Len(parts) + 1])
            /\ b[Len(parts) + 1] = y
        BY <3>1, <3>2, <3>4, RestIs DEF Going
      <4>2. QED BY <4>1
    <3>6. PICK z \in Nat : z = 0  OBVIOUS
    <3>7. z <= x /\ x - z = x  BY <3>6
    <3>8. Run(z, x) \o Run(x, y) = Run(z, y)  BY <3>5, <3>7, RunJoin
    <3>9. Len(Run(x, y)) = y - x /\ Len(Run(z, x)) = x  BY <3>5, <3>7, RunType
    <3>10. unstagedBytes = y - x  BY <3>2, <3>3, <3>4 DEF unstagedBytes, Inv, TypeInv
    <3>11. QED BY <2>1, <3>2, <3>3, <3>4, <3>5, <3>6, <3>8, <3>9, <3>10
  <2>3. phase = "done" => wire = Message  BY <2>1 DEF Inv, DoneInv
  <2>4. QED BY <2>2, <2>3 DEF WholeMessage
<1>2. QED BY <1>1, Invariance, PTL
===============================================================================

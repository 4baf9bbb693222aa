---------------------------- MODULE SumTheorems ----------------------------
(***************************************************************************)
(* What a proof needs of a sum over a finite set of reservations: the      *)
(* empty sum, taking an element out, sums of equal summands, of fewer      *)
(* summands; and a column of a table, which replacing one row changes by   *)
(* that row.  The books of the reservation use cases and of the ledger     *)
(* under the saga are such sums.                                           *)
(*                                                                         *)
(* A sum is computed by a fold.  The library's induction theorems take an  *)
(* operator, which no prover here instantiates; a least counterexample     *)
(* does instead (LeastOf, LeastSet).                                       *)
(***************************************************************************)
EXTENDS Integers, FiniteSets, FiniteSetsExt, FiniteSetTheorems,
        WellFoundedInduction, TLAPS

-----------------------------------------------------------------------------
(* Sums of quantities.                                                     *)

\* The units of the reservations S of a table: Total and Units are such sums.
QtySum(t, S) == MapThenSumSet(LAMBDA o : t[o].qty, S)

\* One step of the fold: the element it takes, what it makes of the rest.
Chosen(s) == CHOOSE x \in s : TRUE
FoldStep(it, t, s) == IF s = {} THEN 0 ELSE t[Chosen(s)].qty + it[s \ {Chosen(s)}]
Unfolds(it, t, S) == it = [s \in SUBSET S |-> FoldStep(it, t, s)]

\* A sum is the value of the function the fold is defined by.
LEMMA SumIsUnfolded ==
  ASSUME NEW t, NEW S
  PROVE  QtySum(t, S) = (CHOOSE it : Unfolds(it, t, S))[S]
BY DEF QtySum, MapThenSumSet, MapThenFoldSet, Unfolds, FoldStep, Chosen

\* A set of numbers has a least one.
LEMMA LeastOf ==
  ASSUME NEW N \in SUBSET Nat, N # {}
  PROVE  \E m \in N : \A n \in N : m <= n
<1>1. IsWellFoundedOn(OpToRel(<,Nat), Nat)
  BY NatLessThanWellFounded
<1>2. PICK m \in N : \A n \in N : ~ (<<n, m>> \in OpToRel(<,Nat))
  BY <1>1, WFMin
<1>3. \A n \in N : ~(n < m)
  BY <1>2 DEF OpToRel
<1>. QED
  BY <1>3

\* The fold takes an element of the set.
LEMMA ChosenIsIn ==
  ASSUME NEW s, s # {}
  PROVE  Chosen(s) \in s
BY DEF Chosen

\* ... and goes on with a smaller set.
LEMMA SmallerSet ==
  ASSUME NEW S, IsFiniteSet(S), NEW s \in SUBSET S, NEW x \in s
  PROVE  /\ IsFiniteSet(s) /\ Cardinality(s) \in Nat /\ Cardinality(s) > 0
         /\ Cardinality(s \ {x}) = Cardinality(s) - 1
<1>1. IsFiniteSet(s)
  BY FS_Subset
<1>2. Cardinality(s \ {x}) = Cardinality(s) - 1 /\ IsFiniteSet(s \ {x})
  BY <1>1, FS_RemoveElement
<1>3. Cardinality(s) \in Nat /\ Cardinality(s \ {x}) \in Nat
  BY <1>1, <1>2, FS_CardinalityType
<1>. QED
  BY <1>1, <1>2, <1>3

\* The fold, so far as it is defined on the sets of at most n elements.
Small(S, n) == {s \in SUBSET S : Cardinality(s) <= n}
UnfoldsTo(g, t, S, n) == g = [s \in Small(S, n) |-> FoldStep(g, t, s)]

\* By induction on n, there is such a function for every n.
LEMMA FoldsExist ==
  ASSUME NEW t, NEW S, IsFiniteSet(S)
  PROVE  \A n \in Nat : \E g : UnfoldsTo(g, t, S, n)
<1>. DEFINE Bad == {n \in Nat : ~ \E g : UnfoldsTo(g, t, S, n)}
<1>. SUFFICES ASSUME Bad # {} PROVE FALSE
  OBVIOUS
<1>1. PICK m \in Bad : \A n \in Bad : m <= n
  BY LeastOf
<1>2. CASE m = 0
  <2>1. ASSUME NEW s \in Small(S, 0) PROVE s = {}
    <3>1. s \in SUBSET S /\ Cardinality(s) <= 0
      BY DEF Small
    <3>2. ASSUME NEW x \in s PROVE FALSE
      <4>1. Cardinality(s) \in Nat /\ Cardinality(s) > 0
        BY <3>1, SmallerSet
      <4>. QED
        BY <3>1, <4>1
    <3>. QED
      BY <3>2
  <2>. DEFINE g == [s \in Small(S, 0) |-> 0]
  <2>2. \A s \in Small(S, 0) : FoldStep(g, t, s) = 0
    BY <2>1 DEF FoldStep
  <2>3. UnfoldsTo(g, t, S, 0)
    BY <2>2 DEF UnfoldsTo
  <2>. QED
    BY <1>1, <1>2, <2>3
<1>3. CASE m # 0
  <2>1. m \in Nat /\ m - 1 \in Nat /\ ~(m <= m - 1)
    BY <1>1, <1>3
  <2>2. PICK g : UnfoldsTo(g, t, S, m - 1)
    BY <2>1, <1>1
  <2>. DEFINE h == [s \in Small(S, m) |-> FoldStep(g, t, s)]
  <2>3. ASSUME NEW s \in Small(S, m) PROVE FoldStep(h, t, s) = FoldStep(g, t, s)
    <3>1. CASE s = {}
      BY <3>1 DEF FoldStep
    <3>2. CASE s # {}
      <4>. DEFINE r == s \ {Chosen(s)}
      <4>1. r \in Small(S, m - 1) /\ r \in Small(S, m)
        BY <2>1, <3>2, ChosenIsIn, SmallerSet DEF Small
      <4>2. h[r] = FoldStep(g, t, r) /\ g[r] = FoldStep(g, t, r)
        BY <2>2, <4>1 DEF UnfoldsTo
      <4>. QED
        BY <3>2, <4>2 DEF FoldStep
    <3>. QED
      BY <3>1, <3>2
  <2>4. UnfoldsTo(h, t, S, m)
    BY <2>3 DEF UnfoldsTo
  <2>. QED
    BY <1>1, <2>4
<1>. QED
  BY <1>2, <1>3

\* The function the fold is defined by satisfies its definition.
LEMMA FoldExists ==
  ASSUME NEW t, NEW S, IsFiniteSet(S)
  PROVE  Unfolds(CHOOSE it : Unfolds(it, t, S), t, S)
<1>1. Cardinality(S) \in Nat
  BY FS_CardinalityType
<1>2. Small(S, Cardinality(S)) = SUBSET S
  BY FS_Subset DEF Small
<1>3. \E g : UnfoldsTo(g, t, S, Cardinality(S))
  BY <1>1, FoldsExist
<1>4. \E g : Unfolds(g, t, S)
  BY <1>2, <1>3 DEF UnfoldsTo, Unfolds
<1>. QED
  BY <1>4

\* A set of finite sets has one that contains no other of them.
LEMMA LeastSet ==
  ASSUME NEW S, IsFiniteSet(S), NEW T \in SUBSET (SUBSET S), T # {}
  PROVE  \E r \in T : \A s \in T : s \subseteq r => s = r
<1>. DEFINE Sizes == {Cardinality(s) : s \in T}
<1>1. \A s \in T : IsFiniteSet(s) /\ Cardinality(s) \in Nat
  BY FS_Subset, FS_CardinalityType
<1>2. PICK m \in Sizes : \A n \in Sizes : m <= n
  <2>1. Sizes \in SUBSET Nat /\ Sizes # {}
    BY <1>1
  <2>. HIDE DEF Sizes
  <2>. QED
    BY <2>1, LeastOf
<1>3. PICK r \in T : Cardinality(r) = m
  BY <1>2
<1>4. ASSUME NEW s \in T, s \subseteq r PROVE s = r
  BY <1>1, <1>2, <1>3, <1>4, FS_Subset
<1>. QED
  BY <1>4

\* The fold over a set and the one over a part of it agree on the part.
LEMMA FoldsAgree ==
  ASSUME NEW t, NEW S, IsFiniteSet(S), NEW R \in SUBSET S,
         NEW g, Unfolds(g, t, S), NEW h, Unfolds(h, t, R)
  PROVE  g[R] = h[R]
<1>. DEFINE Bad == {s \in SUBSET R : g[s] # h[s]}
<1>. SUFFICES ASSUME Bad # {} PROVE FALSE
  OBVIOUS
<1>0. IsFiniteSet(R)
  BY FS_Subset
<1>1. PICK r \in Bad : \A s \in Bad : s \subseteq r => s = r
  <2>1. Bad \in SUBSET (SUBSET R)
    OBVIOUS
  <2>. HIDE DEF Bad
  <2>. QED
    BY <1>0, <2>1, LeastSet
<1>2. g[r] = FoldStep(g, t, r) /\ h[r] = FoldStep(h, t, r)
  BY <1>1 DEF Unfolds
<1>3. r # {}
  BY <1>1, <1>2 DEF FoldStep
<1>4. g[r \ {Chosen(r)}] = h[r \ {Chosen(r)}]
  BY <1>1, <1>3, ChosenIsIn
<1>. QED
  BY <1>1, <1>2, <1>3, <1>4 DEF FoldStep

\* The empty sum.
LEMMA SumOfNone ==
  ASSUME NEW t
  PROVE  QtySum(t, {}) = 0
<1>1. IsFiniteSet({})
  BY FS_EmptySet
<1>2. Unfolds(CHOOSE it : Unfolds(it, t, {}), t, {})
  BY <1>1, FoldExists
<1>. QED
  BY <1>2, SumIsUnfolded DEF Unfolds, FoldStep

\* A sum is what the fold takes and the sum of the rest.
LEMMA SumOfChosen ==
  ASSUME NEW t, NEW S, IsFiniteSet(S), S # {}
  PROVE  QtySum(t, S) = t[Chosen(S)].qty + QtySum(t, S \ {Chosen(S)})
<1>. DEFINE R == S \ {Chosen(S)}
            g == CHOOSE it : Unfolds(it, t, S)
            h == CHOOSE it : Unfolds(it, t, R)
<1>1. R \in SUBSET S /\ IsFiniteSet(R)
  BY FS_Subset
<1>2. Unfolds(g, t, S) /\ Unfolds(h, t, R)
  BY <1>1, FoldExists
<1>3. g[R] = h[R]
  BY <1>1, <1>2, FoldsAgree
<1>4. g[S] = FoldStep(g, t, S)
  BY <1>2 DEF Unfolds
<1>5. QtySum(t, S) = g[S] /\ QtySum(t, R) = h[R]
  BY SumIsUnfolded
<1>. QED
  BY <1>3, <1>4, <1>5 DEF FoldStep

\* A sum of quantities is a quantity.
LEMMA SumIsNat ==
  ASSUME NEW t, NEW S, IsFiniteSet(S), \A x \in S : t[x].qty \in Nat
  PROVE  QtySum(t, S) \in Nat
<1>. DEFINE Bad == {s \in SUBSET S : QtySum(t, s) \notin Nat}
<1>. SUFFICES ASSUME Bad # {} PROVE FALSE
  OBVIOUS
<1>1. PICK r \in Bad : \A s \in Bad : s \subseteq r => s = r
  <2>1. Bad \in SUBSET (SUBSET S)
    OBVIOUS
  <2>. HIDE DEF Bad
  <2>. QED
    BY <2>1, LeastSet
<1>2. r # {} /\ IsFiniteSet(r)
  <2>1. IsFiniteSet(r)
    BY FS_Subset
  <2>2. QtySum(t, {}) \in Nat
    BY SumOfNone
  <2>. QED
    BY <1>1, <2>1, <2>2
<1>3. QtySum(t, r \ {Chosen(r)}) \in Nat
  BY <1>1, <1>2, ChosenIsIn
<1>4. t[Chosen(r)].qty \in Nat
  BY <1>2, ChosenIsIn
<1>. QED
  BY <1>2, <1>3, <1>4, SumOfChosen

\* Any element may be taken first, not only the one the fold takes.
LEMMA SumOfRest ==
  ASSUME NEW t, NEW S, IsFiniteSet(S), \A x \in S : t[x].qty \in Nat, NEW x \in S
  PROVE  QtySum(t, S) = t[x].qty + QtySum(t, S \ {x})
<1>. DEFINE Splits(s) == \A y \in s : QtySum(t, s) = t[y].qty + QtySum(t, s \ {y})
            Bad == {s \in SUBSET S : ~ Splits(s)}
<1>. SUFFICES ASSUME Bad # {} PROVE FALSE
  OBVIOUS
<1>1. PICK r \in Bad : \A s \in Bad : s \subseteq r => s = r
  <2>1. Bad \in SUBSET (SUBSET S)
    OBVIOUS
  <2>. HIDE DEF Bad
  <2>. QED
    BY <2>1, LeastSet
<1>2. PICK y \in r : QtySum(t, r) # t[y].qty + QtySum(t, r \ {y})
  BY <1>1
<1>. DEFINE c == Chosen(r)
            rest == r \ {c}
            other == r \ {y}
<1>3. c \in r /\ IsFiniteSet(r) /\ QtySum(t, r) = t[c].qty + QtySum(t, rest)
  BY <1>2, ChosenIsIn, SumOfChosen, FS_Subset
<1>4. y # c
  BY <1>2, <1>3
<1>5. Splits(rest) /\ Splits(other)
  BY <1>1, <1>2, <1>3
<1>6. QtySum(t, rest) = t[y].qty + QtySum(t, rest \ {y})
  BY <1>2, <1>4, <1>5
<1>7. QtySum(t, other) = t[c].qty + QtySum(t, other \ {c})
  BY <1>3, <1>4, <1>5
<1>8. rest \ {y} = other \ {c}
  OBVIOUS
<1>9. QtySum(t, rest \ {y}) \in Nat /\ t[y].qty \in Nat /\ t[c].qty \in Nat
  <2>1. IsFiniteSet(rest \ {y}) /\ rest \ {y} \subseteq S
    BY <1>1, FS_Subset
  <2>2. QtySum(t, rest \ {y}) \in Nat
    BY <2>1, SumIsNat
  <2>. QED
    BY <1>2, <1>3, <2>2
<1>10. QtySum(t, r) # t[y].qty + QtySum(t, other)
  BY <1>2
<1>11. PICK k \in Nat : k = QtySum(t, rest \ {y})
  BY <1>9
<1>12. QtySum(t, rest) = t[y].qty + k /\ QtySum(t, other) = t[c].qty + k
  BY <1>6, <1>7, <1>8, <1>11
<1>13. t[c].qty + (t[y].qty + k) # t[y].qty + (t[c].qty + k)
  BY <1>3, <1>10, <1>12
<1>. QED
  BY <1>9, <1>11, <1>13

\* A sum depends on its summands only.
LEMMA SumsAgree ==
  ASSUME NEW t, NEW u, NEW S, IsFiniteSet(S), \A x \in S : t[x].qty = u[x].qty
  PROVE  QtySum(t, S) = QtySum(u, S)
<1>. DEFINE Bad == {s \in SUBSET S : QtySum(t, s) # QtySum(u, s)}
<1>. SUFFICES ASSUME Bad # {} PROVE FALSE
  OBVIOUS
<1>1. PICK r \in Bad : \A s \in Bad : s \subseteq r => s = r
  <2>1. Bad \in SUBSET (SUBSET S)
    OBVIOUS
  <2>. HIDE DEF Bad
  <2>. QED
    BY <2>1, LeastSet
<1>2. r # {} /\ IsFiniteSet(r)
  BY SumOfNone, FS_Subset
<1>3. QtySum(t, r \ {Chosen(r)}) = QtySum(u, r \ {Chosen(r)})
  BY <1>1, <1>2, ChosenIsIn
<1>. QED
  BY <1>1, <1>2, <1>3, ChosenIsIn, SumOfChosen

\* Fewer reservations hold no more units.
LEMMA SumOfFewer ==
  ASSUME NEW t, NEW S, IsFiniteSet(S), \A x \in S : t[x].qty \in Nat, NEW R \in SUBSET S
  PROVE  QtySum(t, R) <= QtySum(t, S)
<1>. DEFINE Bad == {s \in SUBSET S : R \subseteq s /\ ~ (QtySum(t, R) <= QtySum(t, s))}
<1>. SUFFICES ASSUME Bad # {} PROVE FALSE
  OBVIOUS
<1>1. PICK r \in Bad : \A s \in Bad : s \subseteq r => s = r
  <2>1. Bad \in SUBSET (SUBSET S)
    OBVIOUS
  <2>. HIDE DEF Bad
  <2>. QED
    BY <2>1, LeastSet
<1>2. IsFiniteSet(r) /\ IsFiniteSet(R)
  BY FS_Subset
<1>3. QtySum(t, r) \in Nat /\ QtySum(t, R) \in Nat
  BY <1>2, SumIsNat
<1>4. PICK x \in r : x \notin R
  <2>1. R # r
    BY <1>1, <1>3
  <2>. QED
    BY <1>1, <2>1
<1>5. QtySum(t, R) <= QtySum(t, r \ {x})
  BY <1>1, <1>4
<1>6. QtySum(t, r) = t[x].qty + QtySum(t, r \ {x})
  BY <1>1, <1>2, SumOfRest
<1>7. QtySum(t, r \ {x}) \in Nat
  <2>1. IsFiniteSet(r \ {x}) /\ r \ {x} \subseteq S
    BY <1>1, FS_Subset
  <2>. QED
    BY <2>1, SumIsNat
<1>. QED
  BY <1>1, <1>3, <1>5, <1>6, <1>7

-----------------------------------------------------------------------------
(* The columns of a table.                                                 *)

\* The reservations of S that a table lists under an item and a status.
Column(S, t, i, status) == {o \in S : t[o].item = i /\ t[o].status = status}

\* What a row contributes to a column of the ledger.
Units(r, i, status) == IF r.item = i /\ r.status = status THEN r.qty ELSE 0

\* The tables agree except on one order, and hold quantities.
OneEntry(S, t, u, o) ==
  /\ \A x \in S : t[x].qty \in Nat /\ u[x].qty \in Nat
  /\ \A x \in S \ {o} : u[x] = t[x]

\* Replacing one row moves its units from the column it was in to the column
\* it is in now.
LEMMA Posting ==
  ASSUME NEW S, NEW t, NEW u, NEW o \in S, NEW i, NEW st,
         OneEntry(S, t, u, o), IsFiniteSet(Column(S, t, i, st))
  PROVE  /\ QtySum(t, Column(S, t, i, st)) \in Nat
         /\ QtySum(u, Column(S, u, i, st)) \in Nat
         /\ QtySum(u, Column(S, u, i, st)) + Units(t[o], i, st)
              = QtySum(t, Column(S, t, i, st)) + Units(u[o], i, st)
<1>. DEFINE C == Column(S, t, i, st)
            D == Column(S, u, i, st)
            B == C \ {o}
<1>1. D \ {o} = B
  BY DEF Column, OneEntry
<1>2. IsFiniteSet(C) /\ IsFiniteSet(B) /\ IsFiniteSet(D)
  <2>1. IsFiniteSet(B)
    BY FS_Subset
  <2>2. IsFiniteSet(B \cup {o}) /\ D \subseteq B \cup {o}
    BY <1>1, <2>1, FS_AddElement
  <2>. QED
    BY <2>1, <2>2, FS_Subset
<1>3. C \subseteq S /\ D \subseteq S
  BY DEF Column
<1>4. \A x \in S : t[x].qty \in Nat /\ u[x].qty \in Nat
  BY DEF OneEntry
<1>5. QtySum(t, B) = QtySum(u, B)
  BY <1>2, <1>3, SumsAgree DEF OneEntry
<1>6. QtySum(t, B) \in Nat /\ QtySum(t, C) \in Nat /\ QtySum(u, D) \in Nat
  BY <1>2, <1>3, <1>4, SumIsNat
<1>7. QtySum(t, C) = Units(t[o], i, st) + QtySum(t, B)
  <2>1. CASE o \in C
    <3>1. QtySum(t, C) = t[o].qty + QtySum(t, C \ {o})
      BY <1>2, <1>3, <1>4, <2>1, SumOfRest
    <3>. QED
      BY <2>1, <3>1 DEF Units, Column
  <2>2. CASE o \notin C
    <3>1. C = B /\ Units(t[o], i, st) = 0
      BY <2>2 DEF Units, Column
    <3>. HIDE DEF C, B
    <3>. QED
      BY <1>6, <3>1
  <2>. QED
    BY <2>1, <2>2
<1>8. QtySum(u, D) = Units(u[o], i, st) + QtySum(u, B)
  <2>1. CASE o \in D
    <3>1. QtySum(u, D) = u[o].qty + QtySum(u, D \ {o})
      BY <1>2, <1>3, <1>4, <2>1, SumOfRest
    <3>. QED
      BY <1>1, <2>1, <3>1 DEF Units, Column
  <2>2. CASE o \notin D
    <3>1. D = B /\ Units(u[o], i, st) = 0
      BY <1>1, <2>2 DEF Units, Column
    <3>. HIDE DEF D, B
    <3>. QED
      BY <1>5, <1>6, <3>1
  <2>. QED
    BY <2>1, <2>2
<1>9. Units(t[o], i, st) \in Nat /\ Units(u[o], i, st) \in Nat
  BY <1>4 DEF Units
<1>. HIDE DEF B, C, D
<1>10. QtySum(u, D) + Units(t[o], i, st) = QtySum(t, C) + Units(u[o], i, st)
  BY <1>5, <1>6, <1>7, <1>8, <1>9
<1>. QED
  BY <1>6, <1>10 DEF C, D
=============================================================================

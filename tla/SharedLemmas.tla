------------------------------ MODULE SharedLemmas ------------------------------
(***************************************************************************)
(* What several proof modules rest on: what the folds of the models compute,  *)
(* for every finite input (the sum of a function over a finite set, whatever   *)
(* order the fold takes, and the concatenation of a sequence of sequences), the *)
(* slots of a ring, and the least element of a set of numbers.                *)
(*                                                                         *)
(* The induction theorems of the library take a predicate as a parameter.      *)
(* Here a predicate is the set of the numbers it holds of, and the induction   *)
(* is over that set.                                                         *)
(***************************************************************************)
EXTENDS Integers, Sequences, FiniteSets, FiniteSetsExt, SequencesExt, FiniteSetTheorems,
        SequenceTheorems, WellFoundedInduction, TLAPS

-----------------------------------------------------------------------------
(* Induction *)

\* A set of naturals that holds 0 and with each number the next holds them all.
LEMMA NatSetInduction ==
  ASSUME NEW T, T \subseteq Nat, 0 \in T, \A n \in T : n + 1 \in T
  PROVE  T = Nat
<1> DEFINE U == Nat \ T
           R == {ss \in Nat \X Nat : ss[1] < ss[2]}
<1>1. SUFFICES ASSUME U # {}
               PROVE  FALSE
  OBVIOUS
<1>2. PICK m \in U : \A y \in U : <<y, m>> \notin R
  <2>1. U \subseteq Nat /\ U # {}
    BY <1>1
  <2>2. IsWellFoundedOn(R, Nat)
    BY NatLessThanWellFounded DEF OpToRel
  <2> HIDE DEF U, R
  <2>3. QED
    BY <2>1, <2>2, WFMin
<1>3. m \in Nat /\ m - 1 \in Nat /\ m - 1 < m
  OBVIOUS
<1>4. m - 1 \in T
  BY <1>2, <1>3
<1>5. QED
  BY <1>3, <1>4

-----------------------------------------------------------------------------
(* Sums *)

\* One element of a set, the one the fold takes first.
Chosen(s) == CHOOSE x \in s : TRUE

\* The equation of the fold, at one subset.
SumsAt(it, f, s) == it[s] = IF s = {} THEN 0 ELSE f[Chosen(s)] + it[s \ {Chosen(s)}]

\* A function on the subsets of S that solves it.
SumsOn(it, f, S) == it = [s \in SUBSET S |-> IF s = {} THEN 0
                                             ELSE f[Chosen(s)] + it[s \ {Chosen(s)}]]

LEMMA SumIsFold ==
  ASSUME NEW f, NEW S
  PROVE  SumFunctionOnSet(f, S) = (CHOOSE it : SumsOn(it, f, S))[S]
BY Zenon DEF SumFunctionOnSet, FoldFunctionOnSet, MapThenFoldSet, SumsOn, Chosen

\* Taking an element away counts one less.
LEMMA OneLess ==
  ASSUME NEW S, IsFiniteSet(S), NEW x \in S
  PROVE  /\ IsFiniteSet(S \ {x})
         /\ Cardinality(S \ {x}) = Cardinality(S) - 1
         /\ Cardinality(S) \in Nat \ {0} /\ Cardinality(S \ {x}) \in Nat
<1>1. IsFiniteSet(S \ {x}) /\ Cardinality(S \ {x}) = Cardinality(S) - 1
  BY FS_RemoveElement
<1>2. Cardinality(S) \in Nat /\ Cardinality(S \ {x}) \in Nat
  BY <1>1, FS_CardinalityType
<1>3. QED
  BY <1>1, <1>2

\* The fold is defined on every finite set.
LEMMA SumExists ==
  ASSUME NEW f, NEW S, IsFiniteSet(S)
  PROVE  \E it : SumsOn(it, f, S)
<1> DEFINE Upto(n, it) == \A s \in SUBSET S : Cardinality(s) <= n => SumsAt(it, f, s)
           T == {n \in Nat : \E it : it = [s \in SUBSET S |-> it[s]] /\ Upto(n, it)}
<1>1. \A s \in SUBSET S : IsFiniteSet(s) /\ Cardinality(s) \in Nat
  BY FS_Subset, FS_CardinalityType
<1>2. \A s \in SUBSET S : s # {} => /\ Chosen(s) \in s /\ s \ {Chosen(s)} \in SUBSET S
                                    /\ Cardinality(s \ {Chosen(s)}) = Cardinality(s) - 1
  <2>1. \A s \in SUBSET S : s # {} => Chosen(s) \in s
    BY DEF Chosen
  <2>2. QED
    BY <1>1, <2>1, OneLess
<1>3. 0 \in T
  <2> DEFINE it == [s \in SUBSET S |-> 0]
  <2>1. Upto(0, it)
    <3>1. \A s \in SUBSET S : Cardinality(s) <= 0 => s = {}
      BY <1>1, FS_EmptySet
    <3>2. QED
      BY <3>1 DEF SumsAt
  <2>2. it = [s \in SUBSET S |-> it[s]]
    OBVIOUS
  <2> HIDE DEF it, Upto
  <2>3. QED
    BY <2>1, <2>2
<1>4. ASSUME NEW n \in T
      PROVE  n + 1 \in T
  <2>1. PICK it : it = [s \in SUBSET S |-> it[s]] /\ Upto(n, it)
    OBVIOUS
  <2> DEFINE next == [s \in SUBSET S |-> IF Cardinality(s) <= n THEN it[s]
                                         ELSE f[Chosen(s)] + it[s \ {Chosen(s)}]]
  <2>2. n \in Nat
    OBVIOUS
  <2> HIDE DEF T
  <2>3. Upto(n + 1, next)
    <3>1. SUFFICES ASSUME NEW s \in SUBSET S, Cardinality(s) <= n + 1
                   PROVE  SumsAt(next, f, s)
      OBVIOUS
    <3>2. CASE s = {}
      <4>1. Cardinality(s) = 0
        BY <3>2, FS_EmptySet
      <4>2. Cardinality(s) <= n
        BY <2>2, <4>1
      <4> HIDE DEF next
      <4>3. SumsAt(it, f, s)
        BY <2>1, <4>2
      <4>4. next[s] = it[s]
        BY <4>2 DEF next
      <4>5. QED
        BY <3>2, <4>3, <4>4 DEF SumsAt
    <3>3. CASE s # {}
      <4> DEFINE r == s \ {Chosen(s)}
      <4>1. r \in SUBSET S /\ Cardinality(r) = Cardinality(s) - 1 /\ Cardinality(s) \in Nat
        BY <1>1, <1>2, <3>3
      <4> HIDE DEF r
      <4>2. Cardinality(r) <= n
        BY <2>2, <3>1, <4>1
      <4>3. next[r] = it[r]
        BY <4>1, <4>2
      <4>4. next[s] = f[Chosen(s)] + it[r]
        <5>1. CASE Cardinality(s) <= n
          BY <2>1, <3>3, <5>1 DEF SumsAt, r
        <5>2. CASE ~(Cardinality(s) <= n)
          BY <5>2 DEF r
        <5>3. QED
          BY <5>1, <5>2
      <4>5. QED
        BY <3>3, <4>3, <4>4 DEF SumsAt, r
    <3>4. QED
      BY <3>2, <3>3
  <2>4. next = [s \in SUBSET S |-> next[s]]
    OBVIOUS
  <2> HIDE DEF next, Upto
  <2>5. QED
    BY <2>2, <2>3, <2>4 DEF T
<1>5. T = Nat
  <2>1. T \subseteq Nat
    OBVIOUS
  <2> HIDE DEF T
  <2>2. QED
    BY <1>3, <1>4, <2>1, NatSetInduction
<1>6. PICK it : it = [s \in SUBSET S |-> it[s]] /\ Upto(Cardinality(S), it)
  BY <1>5, FS_CardinalityType
<1>7. \A s \in SUBSET S : SumsAt(it, f, s)
  BY <1>6, FS_Subset
<1>8. SumsOn(it, f, S)
  BY <1>6, <1>7 DEF SumsAt, SumsOn
<1>9. QED
  BY <1>8

-----------------------------------------------------------------------------

\* The sum over a set is an element and the sum over the rest.
LEMMA SumUnfolds ==
  ASSUME NEW f, NEW S, IsFiniteSet(S)
  PROVE  SumFunctionOnSet(f, S) =
           IF S = {} THEN 0 ELSE f[Chosen(S)] + SumFunctionOnSet(f, S \ {Chosen(S)})
<1> DEFINE It(s) == CHOOSE it : SumsOn(it, f, s)
<1>1. \A s : IsFiniteSet(s) => SumsOn(It(s), f, s)
  BY SumExists
<1> HIDE DEF It
<1>2. \A s : SumFunctionOnSet(f, s) = It(s)[s]
  BY SumIsFold DEF It
<1>3. \A s \in SUBSET S : IsFiniteSet(s)
  BY FS_Subset
<1>4. \A s : \A r \in SUBSET s : IsFiniteSet(s) => SumsAt(It(s), f, r)
  BY <1>1 DEF SumsOn, SumsAt
\* The folds over S and over a subset of S agree on the subset's subsets.
<1>5. ASSUME NEW R \in SUBSET S
      PROVE  \A s \in SUBSET R : It(R)[s] = It(S)[s]
  <2> DEFINE T == {n \in Nat : \A s \in SUBSET R : Cardinality(s) = n => It(R)[s] = It(S)[s]}
  <2>1. \A s \in SUBSET R : IsFiniteSet(s) /\ Cardinality(s) \in Nat
    BY <1>3, FS_CardinalityType
  <2>2. \A s \in SUBSET R : SumsAt(It(R), f, s) /\ SumsAt(It(S), f, s)
    BY <1>3, <1>4
  <2>3. 0 \in T
    <3>1. \A s \in SUBSET R : Cardinality(s) = 0 => s = {}
      BY <2>1, FS_EmptySet
    <3>2. QED
      BY <2>2, <3>1 DEF SumsAt
  <2>4. ASSUME NEW n \in T
        PROVE  n + 1 \in T
    <3>1. SUFFICES ASSUME NEW s \in SUBSET R, Cardinality(s) = n + 1
                   PROVE  It(R)[s] = It(S)[s]
      OBVIOUS
    <3> DEFINE r == s \ {Chosen(s)}
    <3>2. n \in Nat /\ n + 1 # 0
      OBVIOUS
    <3>3. s # {}
      <4> HIDE DEF T
      <4>1. QED
        BY <3>1, <3>2, FS_EmptySet
    <3>4. Chosen(s) \in s
      BY <3>3 DEF Chosen
    <3>5. r \in SUBSET R /\ Cardinality(r) = n
      BY <2>1, <3>1, <3>2, <3>4, OneLess
    <3>6. It(R)[r] = It(S)[r]
      BY <3>5
    <3>7. QED
      BY <2>2, <3>3, <3>6 DEF SumsAt
  <2>5. T = Nat
    <3>1. T \subseteq Nat
      OBVIOUS
    <3> HIDE DEF T
    <3>2. QED
      BY <2>3, <2>4, <3>1, NatSetInduction
  <2>6. QED
    BY <2>1, <2>5
<1>6. CASE S = {}
  BY <1>2, <1>4, <1>6 DEF SumsAt
<1>7. CASE S # {}
  <2> DEFINE R == S \ {Chosen(S)}
  <2>1. It(S)[S] = f[Chosen(S)] + It(S)[R]
    BY <1>4, <1>7 DEF SumsAt
  <2>2. It(S)[R] = It(R)[R]
    BY <1>5
  <2>3. QED
    BY <1>2, <1>7, <2>1, <2>2
<1>8. QED
  BY <1>6, <1>7

LEMMA SumEmpty ==
  ASSUME NEW f
  PROVE  SumFunctionOnSet(f, {}) = 0
BY SumUnfolds, FS_EmptySet

\* The sum of a function into a set of numbers that is closed under addition.
LEMMA SumInt ==
  ASSUME NEW D, NEW f \in [D -> Int], NEW S \in SUBSET D, IsFiniteSet(S)
  PROVE  SumFunctionOnSet(f, S) \in Int
<1> DEFINE T == {n \in Nat : \A s \in SUBSET S :
                               Cardinality(s) = n => SumFunctionOnSet(f, s) \in Int}
<1>1. \A s \in SUBSET S : IsFiniteSet(s) /\ Cardinality(s) \in Nat
  BY FS_Subset, FS_CardinalityType
<1>2. 0 \in T
  BY <1>1, FS_EmptySet, SumEmpty
<1>3. ASSUME NEW n \in T
      PROVE  n + 1 \in T
  <2>1. SUFFICES ASSUME NEW s \in SUBSET S, Cardinality(s) = n + 1
                 PROVE  SumFunctionOnSet(f, s) \in Int
    OBVIOUS
  <2> DEFINE r == s \ {Chosen(s)}
  <2>2. n \in Nat
    OBVIOUS
  <2>3. s # {} /\ Chosen(s) \in s
    BY <2>1, <2>2, FS_EmptySet DEF Chosen
  <2>4. r \in SUBSET S /\ Cardinality(r) = n
    BY <1>1, <2>1, <2>2, <2>3, OneLess
  <2>5. SumFunctionOnSet(f, r) \in Int /\ f[Chosen(s)] \in Int
    BY <2>3, <2>4
  <2>6. QED
    BY <1>1, <2>3, <2>5, SumUnfolds
<1>4. T = Nat
  <2>1. T \subseteq Nat
    OBVIOUS
  <2> HIDE DEF T
  <2>2. QED
    BY <1>2, <1>3, <2>1, NatSetInduction
<1>5. QED
  BY <1>1, <1>4

\* Whichever element is taken first.
LEMMA SumTakes ==
  ASSUME NEW D, NEW f \in [D -> Int], NEW S \in SUBSET D, IsFiniteSet(S), NEW x \in S
  PROVE  SumFunctionOnSet(f, S) = f[x] + SumFunctionOnSet(f, S \ {x})
<1> DEFINE Sum(s) == SumFunctionOnSet(f, s)
           T == {n \in Nat : \A s \in SUBSET S : Cardinality(s) = n =>
                               \A y \in s : Sum(s) = f[y] + Sum(s \ {y})}
<1>1. \A s \in SUBSET S : IsFiniteSet(s) /\ Cardinality(s) \in Nat /\ Sum(s) \in Int
  BY FS_Subset, FS_CardinalityType, SumInt
<1>2. \A s \in SUBSET S : s # {} => Sum(s) = f[Chosen(s)] + Sum(s \ {Chosen(s)})
  BY <1>1, SumUnfolds
<1> HIDE DEF Sum
<1>3. 0 \in T
  <2>1. \A s \in SUBSET S : Cardinality(s) = 0 => s = {}
    BY <1>1, FS_EmptySet
  <2>2. QED
    BY <2>1
<1>4. ASSUME NEW n \in T
      PROVE  n + 1 \in T
  <2>1. SUFFICES ASSUME NEW s \in SUBSET S, Cardinality(s) = n + 1, NEW y \in s
                 PROVE  Sum(s) = f[y] + Sum(s \ {y})
    OBVIOUS
  <2> DEFINE c == Chosen(s)
  <2>2. n \in Nat
    OBVIOUS
  <2>3. c \in s /\ s # {}
    BY DEF Chosen
  <2>4. Sum(s) = f[c] + Sum(s \ {c})
    BY <1>2, <2>3
  <2>5. CASE y = c
    BY <2>4, <2>5
  <2>6. CASE y # c
    <3>1. /\ s \ {c} \in SUBSET S /\ Cardinality(s \ {c}) = n /\ y \in s \ {c}
          /\ s \ {y} \in SUBSET S /\ Cardinality(s \ {y}) = n /\ c \in s \ {y}
      BY <1>1, <2>1, <2>2, <2>3, <2>6, OneLess
    <3> HIDE DEF c
    <3>2. Sum(s \ {c}) = f[y] + Sum((s \ {c}) \ {y}) /\ Sum(s \ {y}) = f[c] + Sum((s \ {y}) \ {c})
      BY <3>1
    <3>3. (s \ {c}) \ {y} = (s \ {y}) \ {c} /\ (s \ {c}) \ {y} \in SUBSET S
      OBVIOUS
    <3>4. Sum((s \ {c}) \ {y}) \in Int /\ f[y] \in Int /\ f[c] \in Int
      BY <1>1, <2>3, <3>3
    <3>5. Sum(s \ {y}) \in Int /\ Sum(s \ {c}) \in Int /\ Sum(s) \in Int
      BY <1>1, <3>1
    <3> HIDE DEF T
    <3>6. Sum(s \ {y}) = f[c] + Sum((s \ {c}) \ {y})
      BY <3>2, <3>3
    <3>7. QED
      BY <2>4, <3>2, <3>4, <3>5, <3>6
  <2>7. QED
    BY <2>5, <2>6
<1>5. T = Nat
  <2>1. T \subseteq Nat
    OBVIOUS
  <2> HIDE DEF T
  <2>2. QED
    BY <1>3, <1>4, <2>1, NatSetInduction
<1>6. S \in SUBSET S
  OBVIOUS
<1>7. Sum(S) = f[x] + Sum(S \ {x})
  BY <1>1, <1>5, <1>6
<1>8. QED
  BY <1>7 DEF Sum

\* One more element.
LEMMA SumAdd ==
  ASSUME NEW D, NEW f \in [D -> Int], NEW S \in SUBSET D, IsFiniteSet(S),
         NEW x \in D, x \notin S
  PROVE  /\ SumFunctionOnSet(f, S \cup {x}) = SumFunctionOnSet(f, S) + f[x]
         /\ SumFunctionOnSet(f, S) \in Int
<1>1. S \cup {x} \in SUBSET D /\ x \in S \cup {x} /\ (S \cup {x}) \ {x} = S
  OBVIOUS
<1>2. IsFiniteSet(S \cup {x})
  BY FS_AddElement
<1>3. SumFunctionOnSet(f, S \cup {x}) = f[x] + SumFunctionOnSet(f, (S \cup {x}) \ {x})
  BY <1>1, <1>2, SumTakes
<1>4. SumFunctionOnSet(f, S) \in Int /\ f[x] \in Int
  BY SumInt
<1>5. SumFunctionOnSet(f, S \cup {x}) = f[x] + SumFunctionOnSet(f, S)
  BY <1>1, <1>3
<1>6. QED
  BY <1>4, <1>5

\* A sum over an interval, one number further.
LEMMA SumStep ==
  ASSUME NEW D, NEW f \in [D -> Int], NEW a \in Int, NEW b \in Int, a <= b, a..b \subseteq D
  PROVE  /\ SumFunctionOnSet(f, a..b) = SumFunctionOnSet(f, a..(b - 1)) + f[b]
         /\ SumFunctionOnSet(f, a..(b - 1)) \in Int
<1>1. \A S \in SUBSET D : \A x \in D :
        IsFiniteSet(S) /\ x \notin S =>
          /\ SumFunctionOnSet(f, S \cup {x}) = SumFunctionOnSet(f, S) + f[x]
          /\ SumFunctionOnSet(f, S) \in Int
  BY SumAdd
<1> DEFINE R == a..(b - 1)
<1>2. a..b = R \cup {b}
  OBVIOUS
<1>3. b \notin R /\ b \in D /\ R \in SUBSET D
  OBVIOUS
<1>4. IsFiniteSet(R)
  BY FS_Interval
<1> HIDE DEF R
<1>5. /\ SumFunctionOnSet(f, R \cup {b}) = SumFunctionOnSet(f, R) + f[b]
      /\ SumFunctionOnSet(f, R) \in Int
  BY <1>1, <1>3, <1>4
<1>6. QED
  BY <1>2, <1>5 DEF R

\* Two functions that agree on a set have one sum over it.
LEMMA SumAgrees ==
  ASSUME NEW D, NEW f \in [D -> Int], NEW E, NEW g \in [E -> Int],
         NEW S, S \subseteq D, S \subseteq E, IsFiniteSet(S), \A x \in S : f[x] = g[x]
  PROVE  SumFunctionOnSet(f, S) = SumFunctionOnSet(g, S)
<1> DEFINE T == {n \in Nat : \A s \in SUBSET S : Cardinality(s) = n =>
                               SumFunctionOnSet(f, s) = SumFunctionOnSet(g, s)}
<1>1. \A s \in SUBSET S : IsFiniteSet(s) /\ Cardinality(s) \in Nat
  BY FS_Subset, FS_CardinalityType
<1>2. 0 \in T
  BY <1>1, FS_EmptySet, SumEmpty
<1>3. ASSUME NEW n \in T
      PROVE  n + 1 \in T
  <2>1. SUFFICES ASSUME NEW s \in SUBSET S, Cardinality(s) = n + 1
                 PROVE  SumFunctionOnSet(f, s) = SumFunctionOnSet(g, s)
    OBVIOUS
  <2> DEFINE r == s \ {Chosen(s)}
  <2>2. n \in Nat
    OBVIOUS
  <2>3. s # {} /\ Chosen(s) \in s
    BY <2>1, <2>2, FS_EmptySet DEF Chosen
  <2>4. r \in SUBSET S /\ Cardinality(r) = n
    BY <1>1, <2>1, <2>2, <2>3, OneLess
  <2>5. SumFunctionOnSet(f, r) = SumFunctionOnSet(g, r) /\ f[Chosen(s)] = g[Chosen(s)]
    BY <2>3, <2>4
  <2>6. QED
    BY <1>1, <2>3, <2>5, SumUnfolds
<1>4. T = Nat
  <2>1. T \subseteq Nat
    OBVIOUS
  <2> HIDE DEF T
  <2>2. QED
    BY <1>2, <1>3, <2>1, NatSetInduction
<1>5. QED
  BY <1>1, <1>4

\* The sum after one value has changed.
LEMMA SumChanges ==
  ASSUME NEW D, NEW f \in [D -> Int], NEW g \in [D -> Int], NEW S \in SUBSET D, IsFiniteSet(S),
         NEW x \in S, \A y \in S \ {x} : f[y] = g[y]
  PROVE  SumFunctionOnSet(g, S) = SumFunctionOnSet(f, S) - f[x] + g[x]
<1> DEFINE T == S \ {x}
<1>1. f[x] \in Int /\ g[x] \in Int
  OBVIOUS
<1>2. T \in SUBSET D /\ IsFiniteSet(T)
  BY FS_Subset
<1>3. \A y \in T : f[y] = g[y]
  OBVIOUS
<1> HIDE DEF T
<1>4. SumFunctionOnSet(f, T) = SumFunctionOnSet(g, T) /\ SumFunctionOnSet(f, T) \in Int
  <2>1. SumFunctionOnSet(f, T) = SumFunctionOnSet(g, T)
    BY <1>1, <1>2, <1>3, SumAgrees
  <2>2. SumFunctionOnSet(f, T) \in Int
    BY <1>2, SumInt
  <2>3. QED
    BY <2>1, <2>2
<1>5. SumFunctionOnSet(f, S) = f[x] + SumFunctionOnSet(f, T)
  BY SumTakes DEF T
<1>6. SumFunctionOnSet(g, S) = g[x] + SumFunctionOnSet(g, T)
  BY <1>1, SumTakes DEF T
<1> DEFINE a == SumFunctionOnSet(f, S)
           b == SumFunctionOnSet(g, S)
           c == SumFunctionOnSet(f, T)
<1>7. a = f[x] + c /\ b = g[x] + c /\ c \in Int
  BY <1>4, <1>5, <1>6
<1> HIDE DEF a, b, c
<1>8. b = a - f[x] + g[x]
  BY <1>1, <1>7
<1>9. QED
  BY <1>8 DEF a, b

\* The sum of a function that is at most 1, and at most 0 outside a part P, counts
\* no more than P.
LEMMA SumAtMost ==
  ASSUME NEW D, NEW f \in [D -> Int], NEW S \in SUBSET D, IsFiniteSet(S), NEW P,
         \A x \in S : f[x] <= IF x \in P THEN 1 ELSE 0
  PROVE  SumFunctionOnSet(f, S) <= Cardinality(S \cap P)
<1> DEFINE Count(s) == Cardinality(s \cap P)
           Sum(s) == SumFunctionOnSet(f, s)
           T == {n \in Nat : \A s \in SUBSET S : Cardinality(s) = n => Sum(s) <= Count(s)}
<1>1. \A s \in SUBSET S : IsFiniteSet(s) /\ Cardinality(s) \in Nat /\ Sum(s) \in Int
                          /\ IsFiniteSet(s \cap P) /\ Count(s) \in Nat
  <2>1. SUFFICES ASSUME NEW s \in SUBSET S
                 PROVE  IsFiniteSet(s) /\ Cardinality(s) \in Nat /\ Sum(s) \in Int
                        /\ IsFiniteSet(s \cap P) /\ Count(s) \in Nat
    OBVIOUS
  <2>2. IsFiniteSet(s) /\ s \cap P \subseteq s /\ s \in SUBSET D
    BY FS_Subset
  <2>3. IsFiniteSet(s \cap P)
    BY <2>2, FS_Subset
  <2>4. QED
    BY <2>2, <2>3, FS_CardinalityType, SumInt
<1>2. ASSUME NEW s \in SUBSET S, NEW x \in s
      PROVE  Sum(s) = f[x] + Sum(s \ {x})
  <2>1. s \in SUBSET D /\ IsFiniteSet(s)
    BY <1>1
  <2>2. QED
    BY <2>1, SumTakes
<1>3. Sum({}) = 0 /\ Count({}) = 0
  <2>1. {} \cap P = {}
    OBVIOUS
  <2>2. QED
    BY <2>1, SumEmpty, FS_EmptySet
<1>4. ASSUME NEW s \in SUBSET S, NEW x \in s
      PROVE  Count(s) = Count(s \ {x}) + IF x \in P THEN 1 ELSE 0
  <2>1. CASE x \in P
    <3>1. (s \ {x}) \cap P = (s \cap P) \ {x} /\ x \in s \cap P
      BY <2>1
    <3>2. QED
      BY <1>1, <2>1, <3>1, OneLess
  <2>2. CASE x \notin P
    <3>1. (s \ {x}) \cap P = s \cap P
      BY <2>2
    <3>2. QED
      BY <1>1, <2>2, <3>1
  <2>3. QED
    BY <2>1, <2>2
<1>5. 0 \in T
  <2>1. \A s \in SUBSET S : Cardinality(s) = 0 => s = {}
    BY <1>1, FS_EmptySet
  <2> HIDE DEF Sum, Count
  <2>2. QED
    BY <1>3, <2>1
<1>6. ASSUME NEW n \in T
      PROVE  n + 1 \in T
  <2>1. SUFFICES ASSUME NEW s \in SUBSET S, Cardinality(s) = n + 1
                 PROVE  Sum(s) <= Count(s)
    OBVIOUS
  <2>2. n \in Nat
    OBVIOUS
  <2>3. s # {}
    BY <2>1, <2>2, FS_EmptySet
  <2>4. PICK x \in s : TRUE
    BY <2>3
  <2> DEFINE r == s \ {x}
  <2>5. r \in SUBSET S /\ Cardinality(r) = n
    <3>1. Cardinality(r) = Cardinality(s) - 1
      BY <1>1, OneLess
    <3>2. QED
      BY <2>1, <2>2, <3>1
  <2>6. Sum(r) <= Count(r)
    BY <2>5
  <2>7. Sum(s) = f[x] + Sum(r) /\ Count(s) = Count(r) + IF x \in P THEN 1 ELSE 0
    BY <1>2, <1>4
  <2>8. f[x] \in Int /\ f[x] <= IF x \in P THEN 1 ELSE 0
    OBVIOUS
  <2>9. Sum(r) \in Int /\ Count(r) \in Nat
    BY <1>1, <2>5
  <2> HIDE DEF Sum, Count, r, T
  <2>10. QED
    BY <2>6, <2>7, <2>8, <2>9
<1>7. T = Nat
  <2>1. T \subseteq Nat
    OBVIOUS
  <2> HIDE DEF T
  <2>2. QED
    BY <1>5, <1>6, <2>1, NatSetInduction
<1>8. Sum(S) <= Count(S)
  BY <1>1, <1>7
<1>9. QED
  BY <1>8

-----------------------------------------------------------------------------
(* Concatenation *)

\* The equation of FlattenSeq.
Flattens(fl, s) == fl = [i \in 1..Len(s) |-> IF i = 1 THEN s[i] ELSE fl[i - 1] \o s[i]]

LEMMA FlattenIsFold ==
  ASSUME NEW s, Len(s) # 0
  PROVE  FlattenSeq(s) = (CHOOSE fl : Flattens(fl, s))[Len(s)]
BY Zenon DEF FlattenSeq, Flattens

LEMMA FlattenExists ==
  ASSUME NEW s, Len(s) \in Nat
  PROVE  \E fl : Flattens(fl, s)
<1> DEFINE Here(fl, i) == fl[i] = IF i = 1 THEN s[i] ELSE fl[i - 1] \o s[i]
           Upto(n, fl) == \A i \in 1..Len(s) : i <= n => Here(fl, i)
           T == {n \in Nat : \E fl : fl = [i \in 1..Len(s) |-> fl[i]] /\ Upto(n, fl)}
<1>1. 0 \in T
  <2> DEFINE fl == [i \in 1..Len(s) |-> <<>>]
  <2>1. fl = [i \in 1..Len(s) |-> fl[i]]
    OBVIOUS
  <2>2. Upto(0, fl)
    <3>1. \A i \in 1..Len(s) : ~(i <= 0)
      OBVIOUS
    <3>2. QED
      BY <3>1
  <2> HIDE DEF fl, Upto
  <2>3. QED
    BY <2>1, <2>2
<1>2. ASSUME NEW n \in T
      PROVE  n + 1 \in T
  <2>1. n \in Nat
    OBVIOUS
  <2>2. PICK fl : fl = [i \in 1..Len(s) |-> fl[i]] /\ Upto(n, fl)
    OBVIOUS
  <2> DEFINE next == [i \in 1..Len(s) |-> IF i <= n THEN fl[i]
                                          ELSE IF i = 1 THEN s[i] ELSE fl[i - 1] \o s[i]]
  <2> HIDE DEF T
  <2>3. ASSUME NEW i \in 1..Len(s), i <= n + 1
        PROVE  Here(next, i)
    <3>1. CASE i <= n
      <4>1. Here(fl, i)
        BY <2>2, <3>1
      <4>2. next[i] = fl[i] /\ (i # 1 => next[i - 1] = fl[i - 1])
        BY <2>1, <3>1
      <4> HIDE DEF next
      <4>3. QED
        BY <4>1, <4>2
    <3>2. CASE i = n + 1
      <4>1. next[i] = IF i = 1 THEN s[i] ELSE fl[i - 1] \o s[i]
        BY <2>1, <3>2
      <4>2. i # 1 => next[i - 1] = fl[i - 1]
        BY <2>1, <3>2
      <4> HIDE DEF next
      <4>3. QED
        BY <4>1, <4>2
    <3>3. QED
      BY <2>1, <2>3, <3>1, <3>2
  <2>4. next = [i \in 1..Len(s) |-> next[i]]
    OBVIOUS
  <2> HIDE DEF next, Here
  <2>5. QED
    BY <2>1, <2>3, <2>4 DEF T
<1>3. T = Nat
  <2>1. T \subseteq Nat
    OBVIOUS
  <2> HIDE DEF T
  <2>2. QED
    BY <1>1, <1>2, <2>1, NatSetInduction
<1>4. PICK fl : fl = [i \in 1..Len(s) |-> fl[i]] /\ Upto(Len(s), fl)
  BY <1>3
<1>5. fl = [i \in 1..Len(s) |-> IF i = 1 THEN s[i] ELSE fl[i - 1] \o s[i]]
  <2>1. \A i \in 1..Len(s) : Here(fl, i)
    <3> HIDE DEF Here
    <3>1. \A i \in 1..Len(s) : i <= Len(s)
      OBVIOUS
    <3>2. QED
      BY <1>4, <3>1
  <2>2. QED
    BY <1>4, <2>1, Zenon
<1>6. QED
  BY <1>5 DEF Flattens

\* The numbers after a, up to b.
Run(a, b) == [k \in 1..(b - a) |-> a + k]

\* Runs that meet are one run.
LEMMA RunsMeet ==
  ASSUME NEW a \in Nat, NEW b \in Nat, NEW c \in Nat, a <= b, b <= c
  PROVE  Run(a, b) \o Run(b, c) = Run(a, c)
<1>1. /\ Run(a, b) \in Seq(Nat) /\ Len(Run(a, b)) = b - a
      /\ Run(b, c) \in Seq(Nat) /\ Len(Run(b, c)) = c - b
      /\ Run(a, c) \in Seq(Nat) /\ Len(Run(a, c)) = c - a
  BY DEF Run
<1>2. \A k \in 1..(c - a) : (Run(a, b) \o Run(b, c))[k] = Run(a, c)[k]
  BY <1>1 DEF Run
<1>3. QED
  BY <1>1, <1>2 DEF Run

\* The values of f from a + 1 to b.
Stretch(f, a, b) == [k \in 1..(b - a) |-> f[a + k]]

\* Stretches that meet are one stretch.
LEMMA StretchesMeet ==
  ASSUME NEW f \in [Nat -> Nat], NEW a \in Nat, NEW b \in Nat, NEW c \in Nat, a <= b, b <= c
  PROVE  Stretch(f, a, b) \o Stretch(f, b, c) = Stretch(f, a, c)
<1>1. /\ Stretch(f, a, b) \in Seq(Nat) /\ Len(Stretch(f, a, b)) = b - a
      /\ Stretch(f, b, c) \in Seq(Nat) /\ Len(Stretch(f, b, c)) = c - b
      /\ Stretch(f, a, c) \in Seq(Nat) /\ Len(Stretch(f, a, c)) = c - a
  BY DEF Stretch
<1>2. \A k \in 1..(c - a) : (Stretch(f, a, b) \o Stretch(f, b, c))[k] = Stretch(f, a, c)[k]
  BY <1>1 DEF Stretch
<1>3. QED
  BY <1>1, <1>2 DEF Stretch

\* Cut points from a to b: what f has between them, put together, is what it has
\* from the first to the last.
LEMMA FlattenStretches ==
  ASSUME NEW f \in [Nat -> Nat], NEW n \in Nat \ {0}, NEW cuts \in [0..n -> Nat],
         \A i \in 1..n : cuts[i - 1] <= cuts[i]
  PROVE  /\ FlattenSeq([i \in 1..n |-> Stretch(f, cuts[i - 1], cuts[i])])
               = Stretch(f, cuts[0], cuts[n])
         /\ cuts[0] <= cuts[n]
<1> DEFINE s == [i \in 1..n |-> Stretch(f, cuts[i - 1], cuts[i])]
           fl == CHOOSE fl : Flattens(fl, s)
           T == {m \in Nat : m + 1 <= n => /\ cuts[0] <= cuts[m + 1]
                                           /\ fl[m + 1] = Stretch(f, cuts[0], cuts[m + 1])}
<1>1. Len(s) = n
  OBVIOUS
<1>2. Flattens(fl, s)
  BY <1>1, FlattenExists
<1>3. FlattenSeq(s) = fl[n]
  BY <1>1, FlattenIsFold
<1> HIDE DEF fl
<1>4. \A i \in 1..n : fl[i] = IF i = 1 THEN s[i] ELSE fl[i - 1] \o s[i]
  BY <1>1, <1>2 DEF Flattens
<1>5. 0 \in T
  <2>1. 1 \in 1..n /\ 0 + 1 = 1 /\ 1 - 1 = 0
    OBVIOUS
  <2>2. s[1] = Stretch(f, cuts[0], cuts[1]) /\ cuts[0] <= cuts[1]
    BY <2>1
  <2>3. fl[1] = s[1]
    BY <1>4, <2>1
  <2> HIDE DEF s
  <2>4. QED
    BY <2>1, <2>2, <2>3
<1>6. ASSUME NEW m \in T
      PROVE  m + 1 \in T
  <2>1. m \in Nat /\ (m + 1 <= n => cuts[0] <= cuts[m + 1] /\ fl[m + 1] = Stretch(f, cuts[0], cuts[m + 1]))
    OBVIOUS
  <2>2. SUFFICES ASSUME m + 2 <= n
                 PROVE  cuts[0] <= cuts[m + 2] /\ fl[m + 2] = Stretch(f, cuts[0], cuts[m + 2])
    BY <2>1
  <2> HIDE DEF T
  <2>3. m + 2 \in 1..n /\ m + 2 # 1 /\ (m + 2) - 1 = m + 1 /\ m + 1 \in 0..n /\ 0 \in 0..n
    BY <2>1, <2>2
  <2>4. cuts[m + 1] <= cuts[m + 2] /\ cuts[0] <= cuts[m + 1]
    BY <2>1, <2>2, <2>3
  <2>5. fl[m + 2] = Stretch(f, cuts[0], cuts[m + 1]) \o Stretch(f, cuts[m + 1], cuts[m + 2])
    <3>1. fl[m + 2] = fl[m + 1] \o s[m + 2]
      BY <1>4, <2>3
    <3>2. fl[m + 1] = Stretch(f, cuts[0], cuts[m + 1])
      BY <2>1, <2>2
    <3>3. s[m + 2] = Stretch(f, cuts[m + 1], cuts[m + 2])
      <4>1. \A i \in 1..n : s[i] = Stretch(f, cuts[i - 1], cuts[i])
        OBVIOUS
      <4> HIDE DEF s
      <4>2. QED
        BY <2>3, <4>1
    <3>4. QED
      BY <3>1, <3>2, <3>3
  <2>6. cuts[0] \in Nat /\ cuts[m + 1] \in Nat /\ cuts[m + 2] \in Nat
    BY <2>3
  <2>7. Stretch(f, cuts[0], cuts[m + 1]) \o Stretch(f, cuts[m + 1], cuts[m + 2])
          = Stretch(f, cuts[0], cuts[m + 2])
    BY <2>4, <2>6, StretchesMeet
  <2> DEFINE a == cuts[0]
             b == cuts[m + 1]
             c == cuts[m + 2]
  <2>8. a <= c
    <3>1. a \in Nat /\ b \in Nat /\ c \in Nat /\ a <= b /\ b <= c
      BY <2>4, <2>6
    <3> HIDE DEF a, b, c
    <3>2. QED
      BY <3>1
  <2>9. QED
    BY <2>5, <2>7, <2>8
<1>7. T = Nat
  <2>1. T \subseteq Nat
    OBVIOUS
  <2> HIDE DEF T
  <2>2. QED
    BY <1>5, <1>6, <2>1, NatSetInduction
<1>8. fl[n] = Stretch(f, cuts[0], cuts[n]) /\ cuts[0] <= cuts[n]
  <2>1. n - 1 \in Nat /\ (n - 1) + 1 = n /\ n <= n
    OBVIOUS
  <2>2. n - 1 \in T
    BY <1>7, <2>1
  <2>3. QED
    BY <2>1, <2>2
<1>9. QED
  BY <1>3, <1>8

\* The same of the numbers themselves.
LEMMA FlattenRuns ==
  ASSUME NEW n \in Nat \ {0}, NEW cuts \in [0..n -> Nat],
         \A i \in 1..n : cuts[i - 1] <= cuts[i]
  PROVE  FlattenSeq([i \in 1..n |-> Run(cuts[i - 1], cuts[i])]) = Run(cuts[0], cuts[n])
<1> DEFINE f == [x \in Nat |-> x]
<1>1. \A a, b \in Nat : Stretch(f, a, b) = Run(a, b)
  BY DEF Stretch, Run
<1>2. \A i \in 1..n : cuts[i - 1] \in Nat /\ cuts[i] \in Nat
  OBVIOUS
<1>3. f \in [Nat -> Nat]
  OBVIOUS
<1> HIDE DEF f
<1>4. [i \in 1..n |-> Stretch(f, cuts[i - 1], cuts[i])]
        = [i \in 1..n |-> Run(cuts[i - 1], cuts[i])]
  BY <1>1, <1>2
<1>5. cuts[0] \in Nat /\ cuts[n] \in Nat
  OBVIOUS
<1>6. FlattenSeq([i \in 1..n |-> Stretch(f, cuts[i - 1], cuts[i])]) = Stretch(f, cuts[0], cuts[n])
  BY <1>3, FlattenStretches
<1>7. Stretch(f, cuts[0], cuts[n]) = Run(cuts[0], cuts[n])
  BY <1>1, <1>5
<1>8. QED
  BY <1>4, <1>6, <1>7

-----------------------------------------------------------------------------
(* Slots and least elements *)

\* A multiple of m strictly between -m and m is 0.
LEMMA SmallMultiple ==
  ASSUME NEW m \in Nat \ {0}, NEW q \in Int, m * q > -m, m * q < m
  PROVE  q = 0
<1>1. CASE q >= 1
  <2>1. m * q >= m
    BY <1>1
  <2>2. QED
    BY <2>1
<1>2. CASE q <= -1
  <2>1. m * q <= -m
    BY <1>2
  <2>2. QED
    BY <2>1
<1>3. QED
  BY <1>1, <1>2

\* Division with remainder.
LEMMA DivMod ==
  ASSUME NEW m \in Nat \ {0}, NEW a \in Int
  PROVE  /\ a = (m * (a \div m)) + (a % m)
         /\ a % m \in 0..(m - 1)
         /\ a \div m \in Int
OBVIOUS

\* A number below the modulus is its own remainder: a counter that has not
\* wrapped is exact.
LEMMA ModSmall ==
  ASSUME NEW m \in Nat \ {0}, NEW a \in Nat, a < m
  PROVE  a % m = a
OBVIOUS

\* Line numbers less than m apart never share a slot.
LEMMA SlotInjective ==
  ASSUME NEW m \in Nat \ {0}, NEW a \in Nat, NEW b \in Nat,
         a % m = b % m, a - b > -m, a - b < m
  PROVE  a = b
<1> DEFINE qa == a \div m
           qb == b \div m
<1>1. /\ a = m * qa + (a % m) /\ b = m * qb + (b % m)
      /\ qa \in Int /\ qb \in Int /\ a % m \in Int /\ b % m \in Int
  BY DivMod
<1> HIDE DEF qa, qb
<1>2. a - b = m * (qa - qb)
  BY <1>1
<1>3. qa - qb = 0
  BY <1>1, <1>2, SmallMultiple
<1>4. QED
  BY <1>1, <1>3

\* A non-empty set of naturals has a least element, and Min is it.
LEMMA MinNat ==
  ASSUME NEW S \in SUBSET Nat, S # {}
  PROVE  Min(S) \in S /\ \A y \in S : Min(S) <= y
<1> DEFINE less == {ss \in Nat \X Nat : ss[1] < ss[2]}
<1>1. IsWellFoundedOn(less, Nat)
  <2>1. OpToRel(<, Nat) = less
    BY DEF OpToRel
  <2>2. QED
    BY <2>1, NatLessThanWellFounded
<1>2. \E x \in S : \A y \in S : x <= y
  <2>1. PICK x \in S : \A y \in S : <<y, x>> \notin less
    <3> HIDE DEF less
    <3>1. QED
      BY <1>1, WFMin
  <2>2. ASSUME NEW y \in S
        PROVE  x <= y
    <3>1. /\ <<y, x>> \in Nat \X Nat
          /\ <<y, x>>[1] = y /\ <<y, x>>[2] = x
      OBVIOUS
    <3>2. ~(y < x)
      BY <2>1, <3>1, Zenon
    <3>3. QED
      BY <3>2
  <2>3. QED
    BY <2>2
<1>3. QED
  BY <1>2 DEF Min

LEMMA MinPair ==
  ASSUME NEW a \in Nat, NEW b \in Nat
  PROVE  Min({a, b}) = IF a <= b THEN a ELSE b
<1>1. Min({a, b}) \in {a, b} /\ \A y \in {a, b} : Min({a, b}) <= y
  BY MinNat
<1>2. QED
  BY <1>1
=============================================================================

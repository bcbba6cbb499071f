----------------------------- MODULE SumLemmas -----------------------------
(***************************************************************************)
(* Sums over finite sets.  SumFunctionOnSet of the community modules is a  *)
(* recursive function over the parts of the set: it takes an element the   *)
(* CHOOSE operator names, adds its value, and goes on with the rest.  The  *)
(* lemmas say what comes out of that, whatever elements are named.         *)
(*                                                                         *)
(* The induction they need is over the cardinality of a set.  Induct       *)
(* derives it from the well-foundedness of < on Nat (NatLessThanWellFounded*)
(* and WFMin), both about sets: no step has an operator for a parameter.   *)
(***************************************************************************)
EXTENDS Integers, FiniteSets, FiniteSetsExt, Functions, FiniteSetTheorems, WellFoundedInduction, TLAPS

(* A set of natural numbers that is not empty has a least one. *)
LEMMA Least ==
  ASSUME NEW T, T \subseteq Nat, T # {}
  PROVE  \E x \in T : \A y \in T : x <= y
<1>. DEFINE R == {p \in Nat \X Nat : p[1] < p[2]}
<1>1. IsWellFoundedOn(R, Nat)
  BY NatLessThanWellFounded DEF OpToRel
<1>2. \E x \in T : \A y \in T : <<y, x>> \notin R
  <2>. HIDE DEF R
  <2>. QED BY <1>1, WFMin
<1>3. PICK x \in T : \A y \in T : <<y, x>> \notin R
  BY <1>2
<1>4. ASSUME NEW y \in T, y < x PROVE FALSE
  <2>1. <<y, x>>[1] < <<y, x>>[2] /\ <<y, x>> \in Nat \X Nat
    BY <1>4
  <2>2. <<y, x>> \in R
    BY <2>1
  <2>. QED BY <2>2, <1>3
<1>5. \A y \in T : x <= y
  BY <1>4
<1>. QED BY <1>5

(* Induction over the natural numbers, for a set P in place of a predicate. *)
LEMMA Induct ==
  ASSUME NEW P, 0 \in P, \A n \in Nat : n \in P => n + 1 \in P
  PROVE  Nat \subseteq P
<1>. DEFINE T == Nat \ P
<1>1. SUFFICES ASSUME T # {} PROVE FALSE
  OBVIOUS
<1>2. PICK x \in T : \A y \in T : x <= y
  BY Least, <1>1
<1>3. x # 0 /\ x - 1 \in Nat
  BY <1>2
<1>4. x - 1 \in P
  BY <1>2, <1>3
<1>. QED BY <1>2, <1>3, <1>4

SomeOf(s) == CHOOSE x \in s : TRUE

SumAt(g, f, s) == g[s] = IF s = {} THEN 0 ELSE f[SomeOf(s)] + g[s \ {SomeOf(s)}]

LeqOn(f, h, S) == \A x \in S : f[x] <= h[x]
PlusOn(g, f, h, S) == \A x \in S : g[x] = f[x] + h[x]
AddsUp(g, f, S) == \A s \in SUBSET S : SumAt(g, f, s)

SubsetsUpto(n, S) == {s \in SUBSET S : Cardinality(s) <= n}

LEMMA SomeIn == ASSUME NEW S, IsFiniteSet(S), NEW s \in SUBSET S, s # {}
  PROVE  /\ SomeOf(s) \in s /\ s \ {SomeOf(s)} \in SUBSET S
         /\ IsFiniteSet(s) /\ IsFiniteSet(s \ {SomeOf(s)})
         /\ Cardinality(s) \in Nat /\ Cardinality(s \ {SomeOf(s)}) = Cardinality(s) - 1 /\ Cardinality(s) # 0
<1>1. SomeOf(s) \in s BY DEF SomeOf
<1>2. IsFiniteSet(s) BY FS_Subset
<1>3. /\ IsFiniteSet(s \ {SomeOf(s)})
      /\ Cardinality(s \ {SomeOf(s)}) = Cardinality(s) - 1
  BY <1>1, <1>2, FS_RemoveElement
<1>4. Cardinality(s) \in Nat /\ Cardinality(s) # 0 BY <1>2, FS_CardinalityType, FS_EmptySet
<1>. QED BY <1>1, <1>2, <1>3, <1>4

(* Some function adds f up over every part of S, ... *)
LEMMA SumExists ==
  ASSUME NEW S, IsFiniteSet(S), NEW f, \A x \in S : f[x] \in Int
  PROVE  \E g \in [SUBSET S -> Int] : \A s \in SUBSET S : SumAt(g, f, s)
<1>. DEFINE P == {n \in Nat : \E g \in [SubsetsUpto(n, S) -> Int] : \A s \in SubsetsUpto(n, S) : SumAt(g, f, s)}
<1>1. 0 \in P
  <2>1. ASSUME NEW s \in SubsetsUpto(0, S) PROVE s = {}
    <3>1. s \in SUBSET S /\ Cardinality(s) <= 0
      BY DEF SubsetsUpto
    <3>2. ASSUME s # {} PROVE FALSE
      <4>1. Cardinality(s) \in Nat /\ Cardinality(s) # 0
        BY <3>1, <3>2, SomeIn
      <4>. QED BY <3>1, <4>1
    <3>. QED BY <3>2
  <2>2. [s \in SubsetsUpto(0, S) |-> 0] \in [SubsetsUpto(0, S) -> Int] /\ \A s \in SubsetsUpto(0, S) : SumAt([t \in SubsetsUpto(0, S) |-> 0], f, s)
    BY <2>1 DEF SumAt
  <2>. QED BY <2>2
<1>2. ASSUME NEW n \in Nat, n \in P PROVE n + 1 \in P
  <2>1. PICK g \in [SubsetsUpto(n, S) -> Int] : \A s \in SubsetsUpto(n, S) : SumAt(g, f, s)
    BY <1>2
  <2>. DEFINE h == [s \in SubsetsUpto(n + 1, S) |-> IF s = {} THEN 0 ELSE f[SomeOf(s)] + g[s \ {SomeOf(s)}]]
  <2>2. ASSUME NEW s \in SubsetsUpto(n + 1, S), s # {} PROVE SomeOf(s) \in S /\ s \ {SomeOf(s)} \in SubsetsUpto(n, S)
    <3>1. s \in SUBSET S /\ Cardinality(s) <= n + 1
      BY DEF SubsetsUpto
    <3>2. /\ SomeOf(s) \in s /\ s \ {SomeOf(s)} \in SUBSET S
          /\ Cardinality(s) \in Nat /\ Cardinality(s \ {SomeOf(s)}) = Cardinality(s) - 1
      BY <2>2, <3>1, SomeIn
    <3>. QED BY <3>1, <3>2 DEF SubsetsUpto
  <2>3. h \in [SubsetsUpto(n + 1, S) -> Int]
    BY <2>2
  <2>4. \A s \in SubsetsUpto(n, S) : s \in SubsetsUpto(n + 1, S) /\ h[s] = g[s]
    <3>1. ASSUME NEW s \in SubsetsUpto(n, S) PROVE s \in SubsetsUpto(n + 1, S)
      <4>1. Cardinality(s) \in Nat BY FS_Subset, FS_CardinalityType DEF SubsetsUpto
      <4>. QED BY <4>1 DEF SubsetsUpto
    <3>. QED BY <2>1, <3>1 DEF SumAt
  <2>5. \A s \in SubsetsUpto(n + 1, S) : SumAt(h, f, s)
    BY <2>2, <2>4 DEF SumAt
  <2>. HIDE DEF h
  <2>. QED BY <2>3, <2>5
<1>. HIDE DEF P
<1>3. Cardinality(S) \in P
  BY <1>1, <1>2, Induct, FS_CardinalityType
<1>4. SubsetsUpto(Cardinality(S), S) = SUBSET S
  BY FS_Subset, FS_CardinalityType DEF SubsetsUpto
<1>. QED BY <1>3, <1>4 DEF P

(* ... and any two agree. *)
LEMMA SumUnique ==
  ASSUME NEW S, IsFiniteSet(S), NEW f, NEW T, T \subseteq S, NEW g, NEW h,
         AddsUp(g, f, S), AddsUp(h, f, T)
  PROVE  \A s \in SUBSET T : g[s] = h[s]
<1>. USE DEF AddsUp
<1>. DEFINE P == {n \in Nat : \A s \in SUBSET T : Cardinality(s) <= n => g[s] = h[s]}
<1>0. IsFiniteSet(T) BY FS_Subset
<1>1. 0 \in P
  <2>1. ASSUME NEW s \in SUBSET T, Cardinality(s) <= 0 PROVE g[s] = h[s]
    <3>1. ASSUME s # {} PROVE FALSE
      <4>1. Cardinality(s) \in Nat /\ Cardinality(s) # 0
        BY <1>0, <3>1, SomeIn
      <4>. QED BY <2>1, <4>1
    <3>2. s \in SUBSET S
      OBVIOUS
    <3>. QED BY <3>1, <3>2 DEF SumAt
  <2>. QED BY <2>1
<1>2. ASSUME NEW n \in Nat, n \in P PROVE n + 1 \in P
  <2>1. ASSUME NEW s \in SUBSET T, Cardinality(s) <= n + 1 PROVE g[s] = h[s]
    <3>1. CASE s = {} BY <3>1 DEF SumAt
    <3>2. CASE s # {}
      <4>0. /\ s \ {SomeOf(s)} \in SUBSET T /\ Cardinality(s) \in Nat
            /\ Cardinality(s \ {SomeOf(s)}) = Cardinality(s) - 1
        BY <1>0, <3>2, SomeIn
      <4>1. Cardinality(s \ {SomeOf(s)}) <= n
        BY <2>1, <4>0
      <4>2. g[s \ {SomeOf(s)}] = h[s \ {SomeOf(s)}]
        BY <1>2, <4>0, <4>1
      <4>. QED BY <3>2, <4>2 DEF SumAt
    <3>. QED BY <3>1, <3>2
  <2>. QED BY <2>1
<1>. HIDE DEF P
<1>3. Nat \subseteq P
  BY <1>1, <1>2, Induct
<1>4. \A s \in SUBSET T : Cardinality(s) \in P
  BY <1>0, <1>3, FS_Subset, FS_CardinalityType
<1>. QED
  <2>1. ASSUME NEW s \in SUBSET T PROVE g[s] = h[s]
    <3>1. Cardinality(s) \in Nat /\ Cardinality(s) \in P BY <1>0, <1>4, FS_Subset, FS_CardinalityType
    <3>. QED BY <3>1 DEF P
  <2>. QED BY <2>1

(* The recursive function of the library is that function. *)
LEMMA SumIs ==
  ASSUME NEW S, IsFiniteSet(S), NEW f, \A x \in S : f[x] \in Int
  PROVE  \E g \in [SUBSET S -> Int] : /\ \A s \in SUBSET S : SumAt(g, f, s)
                                      /\ SumFunctionOnSet(f, S) = g[S]
<1>. DEFINE Iter(g) == g = [s \in SUBSET S |-> IF s = {} THEN 0 ELSE f[SomeOf(s)] + g[s \ {SomeOf(s)}]]
            it == CHOOSE g : Iter(g)
<1>1. PICK g \in [SUBSET S -> Int] : \A s \in SUBSET S : SumAt(g, f, s)
  BY SumExists
<1>2. Iter(g)
  BY <1>1 DEF SumAt
<1>3. Iter(it)
  BY <1>2
<1>4. \A s \in SUBSET S : SumAt(it, f, s)
  BY <1>3 DEF SumAt
<1>5. \A s \in SUBSET S : it[s] = g[s]
  <2>1. AddsUp(g, f, S) /\ AddsUp(it, f, S)
    BY <1>1, <1>4 DEF AddsUp
  <2>. HIDE DEF it
  <2>. QED BY <2>1, SumUnique
<1>6. SumFunctionOnSet(f, S) = it[S]
  BY DEF SumFunctionOnSet, FoldFunctionOnSet, MapThenFoldSet, SomeOf
<1>. QED BY <1>1, <1>5, <1>6

AllInts(f, S) == \A x \in S : f[x] \in Int
SumTable(g, f, S) == /\ g \in [SUBSET S -> Int] /\ \A s \in SUBSET S : SumAt(g, f, s)
                  /\ \A T \in SUBSET S : SumFunctionOnSet(f, T) = g[T]

LEMMA SumEmpty == ASSUME NEW f PROVE SumFunctionOnSet(f, {}) = 0
<1>1. {} \in SUBSET {} /\ IsFiniteSet({})
  BY FS_EmptySet
<1>2. \A x \in {} : f[x] \in Int
  OBVIOUS
<1>3. PICK g \in [SUBSET {} -> Int] : /\ \A s \in SUBSET {} : SumAt(g, f, s)
                                       /\ SumFunctionOnSet(f, {}) = g[{}]
  BY <1>1, <1>2, SumIs
<1>. QED BY <1>1, <1>3 DEF SumAt

(* One table of sums serves all the parts of a set. *)
LEMMA SumPart ==
  ASSUME NEW S, IsFiniteSet(S), NEW f, AllInts(f, S)
  PROVE  \E g : SumTable(g, f, S)
<1>1. PICK g \in [SUBSET S -> Int] : \A s \in SUBSET S : SumAt(g, f, s)
  BY SumIs DEF AllInts
<1>2. ASSUME NEW T \in SUBSET S PROVE SumFunctionOnSet(f, T) = g[T]
  <2>1. IsFiniteSet(T) /\ \A x \in T : f[x] \in Int
    BY FS_Subset DEF AllInts
  <2>2. PICK h \in [SUBSET T -> Int] : /\ \A s \in SUBSET T : SumAt(h, f, s)
                                       /\ SumFunctionOnSet(f, T) = h[T]
    BY <2>1, SumIs
  <2>3. AddsUp(g, f, S) /\ AddsUp(h, f, T)
    BY <1>1, <2>2 DEF AddsUp
  <2>4. \A s \in SUBSET T : g[s] = h[s]
    BY <2>3, SumUnique
  <2>. QED BY <2>2, <2>4
<1>. QED BY <1>1, <1>2 DEF SumTable

LEMMA SumType ==
  ASSUME NEW S, IsFiniteSet(S), NEW f, AllInts(f, S)
  PROVE  SumFunctionOnSet(f, S) \in Int
<1>1. PICK g : SumTable(g, f, S)
  BY SumPart
<1>. QED BY <1>1 DEF SumTable

(* Whichever element is taken first. *)
LEMMA SumRemove ==
  ASSUME NEW S, IsFiniteSet(S), NEW f, AllInts(f, S), NEW x \in S
  PROVE  SumFunctionOnSet(f, S) = f[x] + SumFunctionOnSet(f, S \ {x})
<1>0. PICK g : SumTable(g, f, S)
  BY SumPart
<1>1. /\ g \in [SUBSET S -> Int] /\ \A s \in SUBSET S : SumAt(g, f, s)
      /\ \A T \in SUBSET S : SumFunctionOnSet(f, T) = g[T]
  BY <1>0 DEF SumTable
<1>. DEFINE P == {n \in Nat : \A s \in SUBSET S : Cardinality(s) <= n =>
                    \A y \in s : g[s] = f[y] + g[s \ {y}]}
<1>2. 0 \in P
  <2>1. ASSUME NEW s \in SUBSET S, Cardinality(s) <= 0, NEW y \in s PROVE FALSE
    <3>1. Cardinality(s) \in Nat /\ Cardinality(s) # 0
      BY SomeIn
    <3>. QED BY <2>1, <3>1
  <2>. QED BY <2>1
<1>3. ASSUME NEW n \in Nat, n \in P PROVE n + 1 \in P
  <2>1. ASSUME NEW s \in SUBSET S, Cardinality(s) <= n + 1, NEW y \in s
        PROVE  g[s] = f[y] + g[s \ {y}]
    <3>. DEFINE a == SomeOf(s)
    <3>1. a \in s /\ s \ {a} \in SUBSET S /\ Cardinality(s \ {a}) <= n /\ g[s] = f[a] + g[s \ {a}]
      <4>1. /\ SomeOf(s) \in s /\ s \ {SomeOf(s)} \in SUBSET S
            /\ Cardinality(s) \in Nat /\ Cardinality(s \ {SomeOf(s)}) = Cardinality(s) - 1
        BY SomeIn
      <4>. QED BY <1>1, <2>1, <4>1 DEF SumAt
    <3>. HIDE DEF a
    <3>2. CASE y = a
      BY <3>1, <3>2
    <3>3. CASE y # a
      <4>1. IsFiniteSet(s) /\ Cardinality(s \ {y}) <= n /\ s \ {y} \in SUBSET S
        <5>1. IsFiniteSet(s) BY FS_Subset
        <5>2. Cardinality(s \ {y}) = Cardinality(s) - 1 /\ Cardinality(s) \in Nat
          BY <5>1, FS_RemoveElement, FS_CardinalityType
        <5>. QED BY <2>1, <5>1, <5>2
      <4>2. g[s \ {a}] = f[y] + g[(s \ {a}) \ {y}]
        BY <1>3, <3>1, <3>3
      <4>3. g[s \ {y}] = f[a] + g[(s \ {y}) \ {a}]
        BY <1>3, <3>1, <3>3, <4>1
      <4>4. (s \ {a}) \ {y} = (s \ {y}) \ {a}
        OBVIOUS
      <4>5. /\ f[a] \in Int /\ f[y] \in Int /\ g[(s \ {y}) \ {a}] \in Int
        BY <1>1, <3>1 DEF AllInts
      <4>6. g[s] = f[a] + (f[y] + g[(s \ {y}) \ {a}])
        BY <3>1, <4>2, <4>4
      <4>7. f[a] + (f[y] + g[(s \ {y}) \ {a}]) = f[y] + (f[a] + g[(s \ {y}) \ {a}])
        BY <4>5
      <4>. QED BY <4>3, <4>6, <4>7
    <3>. QED BY <3>2, <3>3
  <2>. QED BY <2>1
<1>. HIDE DEF P
<1>4. Cardinality(S) \in P /\ Cardinality(S) \in Nat
  BY <1>2, <1>3, Induct, FS_CardinalityType
<1>5. g[S] = f[x] + g[S \ {x}]
  BY <1>4 DEF P
<1>. QED BY <1>1, <1>5

LEMMA SumAdd ==
  ASSUME NEW S, IsFiniteSet(S), NEW f, AllInts(f, S), NEW x, x \notin S, f[x] \in Int
  PROVE  SumFunctionOnSet(f, S \cup {x}) = f[x] + SumFunctionOnSet(f, S)
<1>1. IsFiniteSet(S \cup {x}) /\ (S \cup {x}) \ {x} = S
  BY FS_AddElement
<1>2. AllInts(f, S \cup {x})
  BY DEF AllInts
<1>. QED BY <1>1, <1>2, SumRemove

(* Only the values on the set count. *)
LEMMA SumSame ==
  ASSUME NEW S, IsFiniteSet(S), NEW f, NEW h, AllInts(f, S), \A x \in S : h[x] = f[x]
  PROVE  SumFunctionOnSet(h, S) = SumFunctionOnSet(f, S)
<1>0. PICK g : SumTable(g, f, S)
  BY SumPart
<1>1. /\ g \in [SUBSET S -> Int] /\ \A s \in SUBSET S : SumAt(g, f, s)
      /\ \A T \in SUBSET S : SumFunctionOnSet(f, T) = g[T]
  BY <1>0 DEF SumTable
<1>2. PICK k : SumTable(k, h, S)
  BY SumPart DEF AllInts
<1>3. ASSUME NEW s \in SUBSET S PROVE SumAt(k, f, s)
  <2>1. CASE s = {}
    BY <1>2, <2>1 DEF SumAt, SumTable
  <2>2. CASE s # {}
    <3>1. SomeOf(s) \in S
      BY <2>2, SomeIn
    <3>. QED BY <1>2, <2>2, <3>1 DEF SumAt, SumTable
  <2>. QED BY <2>1, <2>2
<1>4. AddsUp(g, f, S) /\ AddsUp(k, f, S)
  BY <1>1, <1>3 DEF AddsUp
<1>5. \A s \in SUBSET S : g[s] = k[s]
  BY <1>4, SumUnique
<1>. QED BY <1>1, <1>2, <1>5 DEF SumTable

(* Induction over the parts of a finite set, for a set Q of them. *)
LEMMA SetInduct ==
  ASSUME NEW S, IsFiniteSet(S), NEW Q, {} \in Q,
         \A s \in SUBSET S : \A x \in S \ s : s \in Q => s \cup {x} \in Q
  PROVE  SUBSET S \subseteq Q
<1>. DEFINE P == {n \in Nat : SubsetsUpto(n, S) \subseteq Q}
<1>1. 0 \in P
  <2>1. ASSUME NEW s \in SubsetsUpto(0, S), s # {} PROVE FALSE
    <3>1. s \in SUBSET S /\ Cardinality(s) <= 0
      BY DEF SubsetsUpto
    <3>2. Cardinality(s) \in Nat /\ Cardinality(s) # 0
      BY <2>1, <3>1, SomeIn
    <3>. QED BY <3>1, <3>2
  <2>2. \A s \in SubsetsUpto(0, S) : s \in Q
    BY <2>1
  <2>. QED BY <2>2
<1>2. ASSUME NEW n \in Nat, n \in P PROVE n + 1 \in P
  <2>1. ASSUME NEW s \in SubsetsUpto(n + 1, S), s # {} PROVE s \in Q
    <3>1. s \in SUBSET S /\ Cardinality(s) <= n + 1
      BY DEF SubsetsUpto
    <3>2. /\ SomeOf(s) \in s /\ s \ {SomeOf(s)} \in SUBSET S
          /\ Cardinality(s) \in Nat /\ Cardinality(s \ {SomeOf(s)}) = Cardinality(s) - 1
      BY <2>1, <3>1, SomeIn
    <3>3. s \ {SomeOf(s)} \in SubsetsUpto(n, S)
      BY <3>1, <3>2 DEF SubsetsUpto
    <3>4. s \ {SomeOf(s)} \in Q /\ SomeOf(s) \in S \ (s \ {SomeOf(s)})
      BY <1>2, <3>1, <3>2, <3>3
    <3>5. (s \ {SomeOf(s)}) \cup {SomeOf(s)} \in Q
      BY <3>2, <3>4
    <3>6. (s \ {SomeOf(s)}) \cup {SomeOf(s)} = s
      BY <3>2
    <3>. QED BY <3>5, <3>6
  <2>2. \A s \in SubsetsUpto(n + 1, S) : s \in Q
    BY <2>1
  <2>. QED BY <2>2
<1>. HIDE DEF P
<1>3. Nat \subseteq P
  BY <1>1, <1>2, Induct
<1>4. ASSUME NEW s \in SUBSET S PROVE s \in Q
  <2>1. Cardinality(s) \in Nat /\ s \in SubsetsUpto(Cardinality(s), S)
    BY FS_Subset, FS_CardinalityType DEF SubsetsUpto
  <2>2. Cardinality(s) \in P
    BY <1>3, <2>1
  <2>. QED BY <2>1, <2>2 DEF P
<1>. QED BY <1>4

AddsOne(f, s, x) ==
  /\ SumFunctionOnSet(f, s) \in Int /\ f[x] \in Int
  /\ SumFunctionOnSet(f, s \cup {x}) = f[x] + SumFunctionOnSet(f, s)

LEMMA SumStep ==
  ASSUME NEW S, IsFiniteSet(S), NEW f, AllInts(f, S), NEW s \in SUBSET S, NEW x \in S \ s
  PROVE  AddsOne(f, s, x)
<1>1. IsFiniteSet(s) /\ AllInts(f, s) /\ f[x] \in Int
  BY FS_Subset DEF AllInts
<1>. QED BY <1>1, SumAdd, SumType DEF AddsOne

LEMMA SumZero ==
  ASSUME NEW S, IsFiniteSet(S), NEW f, \A x \in S : f[x] = 0
  PROVE  SumFunctionOnSet(f, S) = 0
<1>. DEFINE Q == {s \in SUBSET S : SumFunctionOnSet(f, s) = 0}
<1>0. AllInts(f, S)
  BY DEF AllInts
<1>1. {} \in Q
  BY SumEmpty
<1>2. \A s \in SUBSET S : \A x \in S \ s : s \in Q => s \cup {x} \in Q
  BY <1>0, SumStep DEF AddsOne
<1>. HIDE DEF Q
<1>3. S \in Q
  BY <1>1, <1>2, SetInduct
<1>. QED BY <1>3 DEF Q

(* A sum grows with its terms, ... *)
LEMMA SumLeq ==
  ASSUME NEW S, IsFiniteSet(S), NEW f, NEW h, AllInts(f, S), AllInts(h, S), LeqOn(f, h, S)
  PROVE  SumFunctionOnSet(f, S) <= SumFunctionOnSet(h, S)
<1>. DEFINE Q == {s \in SUBSET S : SumFunctionOnSet(f, s) <= SumFunctionOnSet(h, s)}
<1>1. {} \in Q
  BY SumEmpty
<1>2. ASSUME NEW s \in SUBSET S, NEW x \in S \ s, s \in Q PROVE s \cup {x} \in Q
  <2>1. AddsOne(f, s, x)
    BY SumStep
  <2>2. AddsOne(h, s, x)
    BY SumStep
  <2>3. f[x] <= h[x]
    BY DEF LeqOn
  <2>. QED BY <1>2, <2>1, <2>2, <2>3 DEF AddsOne
<1>. HIDE DEF Q
<1>3. S \in Q
  BY <1>1, <1>2, SetInduct
<1>. QED BY <1>3 DEF Q

(* ... is linear, ... *)
LEMMA SumPlus ==
  ASSUME NEW S, IsFiniteSet(S), NEW f, NEW h, NEW g, AllInts(f, S), AllInts(h, S), PlusOn(g, f, h, S)
  PROVE  SumFunctionOnSet(g, S) = SumFunctionOnSet(f, S) + SumFunctionOnSet(h, S)
<1>. DEFINE Q == {s \in SUBSET S : SumFunctionOnSet(g, s) = SumFunctionOnSet(f, s) + SumFunctionOnSet(h, s)}
<1>0. AllInts(g, S)
  BY DEF AllInts, PlusOn
<1>1. {} \in Q
  BY SumEmpty
<1>2. ASSUME NEW s \in SUBSET S, NEW x \in S \ s, s \in Q PROVE s \cup {x} \in Q
  <2>1. AddsOne(f, s, x)
    BY SumStep
  <2>2. AddsOne(h, s, x)
    BY SumStep
  <2>3. AddsOne(g, s, x)
    BY <1>0, SumStep
  <2>4. g[x] = f[x] + h[x] /\ SumFunctionOnSet(g, s) = SumFunctionOnSet(f, s) + SumFunctionOnSet(h, s)
    BY <1>2 DEF PlusOn
  <2>5. SumFunctionOnSet(g, s \cup {x}) = SumFunctionOnSet(f, s \cup {x}) + SumFunctionOnSet(h, s \cup {x})
    BY <2>1, <2>2, <2>3, <2>4 DEF AddsOne
  <2>. QED BY <2>5
<1>. HIDE DEF Q
<1>3. S \in Q
  BY <1>1, <1>2, SetInduct
<1>. QED BY <1>3 DEF Q

(* ... changes by what one term changes, ... *)
LEMMA SumChange ==
  ASSUME NEW S, IsFiniteSet(S), NEW f, NEW h, AllInts(f, S), NEW x \in S, h[x] \in Int,
         \A y \in S \ {x} : h[y] = f[y]
  PROVE  SumFunctionOnSet(h, S) = SumFunctionOnSet(f, S) + (h[x] - f[x])
<1>1. IsFiniteSet(S \ {x}) /\ AllInts(f, S \ {x}) /\ AllInts(h, S) /\ f[x] \in Int
  BY FS_RemoveElement DEF AllInts
<1>2. SumFunctionOnSet(h, S \ {x}) = SumFunctionOnSet(f, S \ {x})
  BY <1>1, SumSame
<1>3. /\ SumFunctionOnSet(f, S) = f[x] + SumFunctionOnSet(f, S \ {x})
      /\ SumFunctionOnSet(h, S) = h[x] + SumFunctionOnSet(h, S \ {x})
      /\ SumFunctionOnSet(f, S \ {x}) \in Int
  BY <1>1, SumRemove, SumType
<1>. QED BY <1>1, <1>2, <1>3

(* ... grows with the set where the terms are not negative, ... *)
LEMMA SumSubset ==
  ASSUME NEW S, IsFiniteSet(S), NEW f, AllInts(f, S), NEW T \in SUBSET S, \A x \in S \ T : f[x] >= 0
  PROVE  SumFunctionOnSet(f, T) <= SumFunctionOnSet(f, S)
<1>. DEFINE U == S \ T
            Q == {s \in SUBSET U : SumFunctionOnSet(f, T) <= SumFunctionOnSet(f, T \cup s)}
<1>0. IsFiniteSet(T) /\ IsFiniteSet(U) /\ AllInts(f, T) /\ SumFunctionOnSet(f, T) \in Int
  BY FS_Subset, SumType DEF AllInts
<1>1. {} \in Q
  <2>1. T \cup {} = T
    OBVIOUS
  <2>. QED BY <1>0, <2>1
<1>2. ASSUME NEW s \in SUBSET U, NEW x \in U \ s, s \in Q PROVE s \cup {x} \in Q
  <2>. DEFINE V == T \cup s  W == T \cup (s \cup {x})
  <2>1. V \in SUBSET S /\ x \in S \ V /\ W = V \cup {x} /\ f[x] >= 0 /\ s \cup {x} \in SUBSET U
    OBVIOUS
  <2>2. SumFunctionOnSet(f, T) <= SumFunctionOnSet(f, V)
    BY <1>2
  <2>. HIDE DEF V, W, U
  <2>3. AddsOne(f, V, x)
    BY <2>1, SumStep
  <2>4. SumFunctionOnSet(f, T) <= SumFunctionOnSet(f, W)
    BY <1>0, <2>1, <2>2, <2>3 DEF AddsOne
  <2>. QED BY <2>1, <2>4 DEF W
<1>3. S = T \cup U
  OBVIOUS
<1>. HIDE DEF U, Q
<1>4. U \in Q
  BY <1>0, <1>1, <1>2, SetInduct
<1>. QED BY <1>3, <1>4 DEF Q

Iterates(g, f, S) == g = [s \in SUBSET S |-> IF s = {} THEN 0 ELSE f[SomeOf(s)] + g[s \ {SomeOf(s)}]]

(* Another fold over the same set computes the same sum. *)
LEMMA SumIterates ==
  ASSUME NEW S, IsFiniteSet(S), NEW f, AllInts(f, S)
  PROVE  /\ \E g : Iterates(g, f, S)
         /\ \A g : Iterates(g, f, S) => g[S] = SumFunctionOnSet(f, S)
<1>1. PICK g : SumTable(g, f, S)
  BY SumPart
<1>2. g \in [SUBSET S -> Int] /\ \A s \in SUBSET S : SumAt(g, f, s)
  BY <1>1 DEF SumTable
<1>3. Iterates(g, f, S)
  <2>1. ASSUME NEW s \in SUBSET S PROVE g[s] = IF s = {} THEN 0 ELSE f[SomeOf(s)] + g[s \ {SomeOf(s)}]
    BY <1>2 DEF SumAt
  <2>2. g = [s \in SUBSET S |-> g[s]]
    BY <1>2
  <2>. QED BY <2>1, <2>2, Zenon DEF Iterates
<1>4. ASSUME NEW h, Iterates(h, f, S) PROVE h[S] = SumFunctionOnSet(f, S)
  <2>1. ASSUME NEW s \in SUBSET S PROVE SumAt(h, f, s)
    <3>1. h[s] = IF s = {} THEN 0 ELSE f[SomeOf(s)] + h[s \ {SomeOf(s)}]
      BY <1>4, Zenon DEF Iterates
    <3>. QED BY <3>1 DEF SumAt
  <2>2. AddsUp(g, f, S) /\ AddsUp(h, f, S)
    BY <1>2, <2>1 DEF AddsUp
  <2>3. \A s \in SUBSET S : g[s] = h[s]
    BY <2>2, SumUnique
  <2>4. SumFunctionOnSet(f, S) = g[S]
    BY <1>1 DEF SumTable
  <2>. QED BY <2>3, <2>4
<1>. QED BY <1>3, <1>4

RowSums(m, S, T) == [x \in S |-> SumFunctionOnSet(m[x], T)]
Column(m, S, y) == [x \in S |-> m[x][y]]
ColumnSums(m, s, S, T) == [y \in T |-> SumFunctionOnSet(Column(m, S, y), s)]
IntTable(m, S, T) == \A x \in S : AllInts(m[x], T)

(* A table adds up by rows as by columns. *)
LEMMA SumSwap ==
  ASSUME NEW S, IsFiniteSet(S), NEW T, IsFiniteSet(T), NEW m, IntTable(m, S, T)
  PROVE  SumFunctionOnSet(RowSums(m, S, T), S) = SumFunctionOnSet(ColumnSums(m, S, S, T), T)
<1>. DEFINE Q == {s \in SUBSET S : SumFunctionOnSet(RowSums(m, S, T), s)
                                     = SumFunctionOnSet(ColumnSums(m, s, S, T), T)}
<1>0. AllInts(RowSums(m, S, T), S)
  <2>1. ASSUME NEW x \in S PROVE RowSums(m, S, T)[x] \in Int
    <3>1. AllInts(m[x], T)
      BY DEF IntTable
    <3>2. SumFunctionOnSet(m[x], T) \in Int
      BY <3>1, SumType
    <3>. QED BY <3>2 DEF RowSums
  <2>. QED BY <2>1 DEF AllInts
<1>1. \A y \in T : AllInts(Column(m, S, y), S)
  BY DEF AllInts, Column, IntTable
<1>2. {} \in Q
  <2>1. \A y \in T : ColumnSums(m, {}, S, T)[y] = 0
    BY SumEmpty DEF ColumnSums
  <2>2. SumFunctionOnSet(ColumnSums(m, {}, S, T), T) = 0
    BY <2>1, SumZero
  <2>3. SumFunctionOnSet(RowSums(m, S, T), {}) = 0
    BY SumEmpty
  <2>. QED BY <2>2, <2>3
<1>3. ASSUME NEW s \in SUBSET S, NEW x \in S \ s, s \in Q PROVE s \cup {x} \in Q
  <2>. DEFINE before == ColumnSums(m, s, S, T)  after == ColumnSums(m, s \cup {x}, S, T)
  <2>1. ASSUME NEW y \in T PROVE /\ before[y] \in Int /\ m[x][y] \in Int
                                 /\ after[y] = before[y] + m[x][y]
    <3>1. AddsOne(Column(m, S, y), s, x)
      BY <1>1, SumStep
    <3>2. Column(m, S, y)[x] = m[x][y]
      BY DEF Column
    <3>. QED BY <3>1, <3>2 DEF AddsOne, ColumnSums
  <2>2. AllInts(before, T) /\ AllInts(m[x], T) /\ PlusOn(after, before, m[x], T)
    BY <2>1 DEF AllInts, PlusOn
  <2>. HIDE DEF before, after
  <2>3. SumFunctionOnSet(after, T) = SumFunctionOnSet(before, T) + SumFunctionOnSet(m[x], T)
    BY <2>2, SumPlus
  <2>4. SumFunctionOnSet(before, T) \in Int /\ SumFunctionOnSet(m[x], T) \in Int
    BY <2>2, SumType
  <2>5. AddsOne(RowSums(m, S, T), s, x)
    BY <1>0, SumStep
  <2>6. RowSums(m, S, T)[x] = SumFunctionOnSet(m[x], T)
    BY DEF RowSums
  <2>7. SumFunctionOnSet(RowSums(m, S, T), s) = SumFunctionOnSet(before, T)
    BY <1>3 DEF before
  <2>8. SumFunctionOnSet(RowSums(m, S, T), s \cup {x}) = SumFunctionOnSet(after, T)
    BY <2>3, <2>4, <2>5, <2>6, <2>7 DEF AddsOne
  <2>. QED BY <2>8 DEF after
<1>. HIDE DEF Q
<1>4. S \in Q
  BY <1>2, <1>3, SetInduct
<1>. QED BY <1>4 DEF Q

(* ... and needs only the terms that are not zero. *)
LEMMA SumSupport ==
  ASSUME NEW S, IsFiniteSet(S), NEW f, AllInts(f, S), NEW T \in SUBSET S, \A x \in S \ T : f[x] = 0
  PROVE  SumFunctionOnSet(f, S) = SumFunctionOnSet(f, T)
<1>. DEFINE U == S \ T
            Q == {s \in SUBSET U : SumFunctionOnSet(f, T) = SumFunctionOnSet(f, T \cup s)}
<1>0. IsFiniteSet(T) /\ IsFiniteSet(U) /\ AllInts(f, T) /\ SumFunctionOnSet(f, T) \in Int
  BY FS_Subset, SumType DEF AllInts
<1>1. {} \in Q
  <2>1. T \cup {} = T
    OBVIOUS
  <2>. QED BY <1>0, <2>1
<1>2. ASSUME NEW s \in SUBSET U, NEW x \in U \ s, s \in Q PROVE s \cup {x} \in Q
  <2>. DEFINE V == T \cup s  W == T \cup (s \cup {x})
  <2>1. V \in SUBSET S /\ x \in S \ V /\ W = V \cup {x} /\ f[x] = 0 /\ s \cup {x} \in SUBSET U
    OBVIOUS
  <2>2. SumFunctionOnSet(f, T) = SumFunctionOnSet(f, V)
    BY <1>2
  <2>. HIDE DEF V, W, U
  <2>3. AddsOne(f, V, x)
    BY <2>1, SumStep
  <2>4. SumFunctionOnSet(f, T) = SumFunctionOnSet(f, W)
    BY <1>0, <2>1, <2>2, <2>3 DEF AddsOne
  <2>. QED BY <2>1, <2>4 DEF W
<1>3. S = T \cup U
  OBVIOUS
<1>. HIDE DEF U, Q
<1>4. U \in Q
  BY <1>0, <1>1, <1>2, SetInduct
<1>. QED BY <1>3, <1>4 DEF Q
=============================================================================

---------------------------- MODULE SumTheorems ----------------------------
(***************************************************************************)
(* Lemmas on numbers, finite sets and sums over them that the proofs about *)
(* several components use.  A sum is SumFunctionOnSet(f, S) of the module  *)
(* Functions: the sum of f[x] over the elements x of S.                    *)
(***************************************************************************)
EXTENDS Integers, FiniteSets, Functions, FiniteSetTheorems, WellFoundedInduction, TLAPS

LEMMA Smallest ==
    ASSUME NEW R, IsWellFoundedOn(R, Nat), \A m, n \in Nat : n < m => <<n, m>> \in R,
           NEW T, T \subseteq Nat, T # {}
    PROVE  \E m \in T : \A n \in T : m <= n
<1>1. PICK m \in T : \A n \in T : ~(<<n, m>> \in R)
  BY WFMin
<1>2. \A n \in T : ~(n < m)
  BY <1>1
<1> QED BY <1>2

\* Every set of numbers that is not empty has a smallest one.
LEMMA NatMin ==
    ASSUME NEW T, T \subseteq Nat, T # {}
    PROVE  \E m \in T : \A n \in T : m <= n
<1>1. \A m, n \in Nat : n < m => <<n, m>> \in OpToRel(<, Nat)
  BY DEF OpToRel
<1> QED BY <1>1, NatLessThanWellFounded, Smallest

\* Induction over the subsets of a finite set, for a set of them in place of
\* a predicate.
LEMMA SetInduction ==
    ASSUME NEW U, IsFiniteSet(U), NEW Good,
           \A s \in SUBSET U : (\A x \in s : s \ {x} \in Good) => s \in Good
    PROVE  \A s \in SUBSET U : s \in Good
<1> DEFINE Bad == {s \in SUBSET U : s \notin Good}
           Sizes == {Cardinality(s) : s \in Bad}
<1>1. SUFFICES ASSUME Bad # {} PROVE FALSE
  OBVIOUS
<1>2. \A s \in SUBSET U : IsFiniteSet(s) /\ Cardinality(s) \in Nat
  BY FS_Subset, FS_CardinalityType
<1>3. Sizes \subseteq Nat /\ Sizes # {}
  BY <1>1, <1>2
<1>4. PICK m \in Sizes : \A n \in Sizes : m <= n
  <2> HIDE DEF Sizes
  <2> QED BY <1>3, NatMin
<1>5. PICK s \in Bad : m = Cardinality(s)
  BY <1>4
<1>6. ASSUME NEW x \in s
      PROVE  s \ {x} \in Good
  <2>1. Cardinality(s \ {x}) = Cardinality(s) - 1
    BY <1>2, <1>5, FS_RemoveElement
  <2>2. s \ {x} \in SUBSET U
    BY <1>5
  <2>3. CASE s \ {x} \in Bad
    <3>1. m <= Cardinality(s \ {x})
      BY <1>4, <2>3
    <3> QED BY <1>2, <1>5, <2>1, <3>1
  <2> QED BY <2>2, <2>3
<1> QED BY <1>5, <1>6

\* A finite set with a total order has a greatest element.
LEMMA Greatest ==
    ASSUME NEW S, IsFiniteSet(S), S # {}, NEW R,
           \A x, y \in S : <<x, y>> \in R \/ <<y, x>> \in R,
           \A x, y, z \in S : <<x, y>> \in R /\ <<y, z>> \in R => <<x, z>> \in R
    PROVE  \E m \in S : \A x \in S : <<x, m>> \in R
<1> DEFINE Good == {s \in SUBSET S : s # {} => \E m \in s : \A x \in s : <<x, m>> \in R}
<1>1. ASSUME NEW s \in SUBSET S, \A x \in s : s \ {x} \in Good
      PROVE  s \in Good
  <2>1. SUFFICES ASSUME s # {} PROVE \E m \in s : \A x \in s : <<x, m>> \in R
    OBVIOUS
  <2>2. PICK y \in s : TRUE
    BY <2>1
  <2>3. CASE s \ {y} = {}
    BY <2>2, <2>3
  <2>4. CASE s \ {y} # {}
    <3>1. PICK m \in s \ {y} : \A x \in s \ {y} : <<x, m>> \in R
      BY <1>1, <2>2, <2>4
    <3>2. CASE <<y, m>> \in R
      BY <3>1, <3>2
    <3>3. CASE <<m, y>> \in R
      BY <2>2, <3>1, <3>3
    <3> QED BY <2>2, <3>1, <3>2, <3>3
  <2> QED BY <2>3, <2>4
<1>2. \A s \in SUBSET S : (\A x \in s : s \ {x} \in Good) => s \in Good
  BY <1>1
<1> HIDE DEF Good
<1>3. \A s \in SUBSET S : s \in Good
  BY <1>2, SetInduction
<1> QED BY <1>3 DEF Good

OneOf(s) == CHOOSE x \in s : TRUE
Sums(g, f, S) ==
    g = [s \in SUBSET S |-> IF s = {} THEN 0 ELSE f[OneOf(s)] + g[s \ {OneOf(s)}]]

LEMMA OneOfIsMember == ASSUME NEW s, s # {} PROVE OneOf(s) \in s
BY DEF OneOf

LEMMA SumByFold ==
    ASSUME NEW f, NEW S
    PROVE  SumFunctionOnSet(f, S) = (CHOOSE g : Sums(g, f, S))[S]
BY DEF SumFunctionOnSet, FoldFunctionOnSet, MapThenFoldSet, Sums, OneOf

LEMMA SumsUnique ==
    ASSUME NEW S, IsFiniteSet(S), NEW f, NEW g, NEW h,
           Sums(g, f, S), Sums(h, f, S)
    PROVE  g[S] = h[S]
<1> DEFINE Good == {s \in SUBSET S : g[s] = h[s]}
<1>1. ASSUME NEW s \in SUBSET S, \A x \in s : s \ {x} \in Good
      PROVE  s \in Good
  <2>1. CASE s = {}
    BY <2>1 DEF Sums
  <2>2. CASE s # {}
    <3>1. s \ {OneOf(s)} \in Good
      BY <1>1, <2>2, OneOfIsMember
    <3>2. /\ g[s] = f[OneOf(s)] + g[s \ {OneOf(s)}]
          /\ h[s] = f[OneOf(s)] + h[s \ {OneOf(s)}]
      BY <2>2 DEF Sums
    <3> QED BY <3>1, <3>2
  <2> QED BY <2>1, <2>2
<1> HIDE DEF Good
<1>2. S \in Good
  BY <1>1, SetInduction
<1> QED BY <1>2 DEF Good

\* The sum over a set takes any of its elements first.
Unfolds(f, t) ==
    SumFunctionOnSet(f, t) = IF t = {} THEN 0 ELSE f[OneOf(t)] + SumFunctionOnSet(f, t \ {OneOf(t)})

LEMMA SumUnfolds ==
    ASSUME NEW S, IsFiniteSet(S), NEW f
    PROVE  Unfolds(f, S)
<1> DEFINE Good == {s \in SUBSET S : \A t \in SUBSET s : Unfolds(f, t)}
<1>1. ASSUME NEW s \in SUBSET S, \A x \in s : s \ {x} \in Good
      PROVE  s \in Good
  <2>1. \A t \in SUBSET s : t # s => Unfolds(f, t)
    BY <1>1
  <2> DEFINE g == [t \in SUBSET s |->
                     IF t = s THEN IF s = {} THEN 0
                                   ELSE f[OneOf(s)] + SumFunctionOnSet(f, s \ {OneOf(s)})
                     ELSE SumFunctionOnSet(f, t)]
  <2>2. ASSUME NEW t \in SUBSET s
        PROVE  g[t] = IF t = {} THEN 0 ELSE f[OneOf(t)] + g[t \ {OneOf(t)}]
    <3>1. CASE t = {}
      <4>1. s # {} => SumFunctionOnSet(f, t) = 0
        BY <2>1, <3>1 DEF Unfolds
      <4> QED BY <3>1, <4>1
    <3>2. CASE t # {}
      <4>1. OneOf(t) \in t
        BY <3>2, OneOfIsMember
      <4>2. t \ {OneOf(t)} \in SUBSET s /\ t \ {OneOf(t)} # s
        BY <4>1
      <4>3. g[t \ {OneOf(t)}] = SumFunctionOnSet(f, t \ {OneOf(t)})
        BY <4>2
      <4>4. CASE t = s
        BY <3>2, <4>3, <4>4
      <4>5. CASE t # s
        BY <2>1, <3>2, <4>3, <4>5 DEF Unfolds
      <4> QED BY <4>4, <4>5
    <3> QED BY <3>1, <3>2
  <2>3. Sums(g, f, s)
    BY <2>2 DEF Sums
  <2> DEFINE h == CHOOSE h : Sums(h, f, s)
  <2>4. Sums(h, f, s)
    BY <2>3
  <2>5. g[s] = IF s = {} THEN 0 ELSE f[OneOf(s)] + SumFunctionOnSet(f, s \ {OneOf(s)})
    OBVIOUS
  <2>6. IsFiniteSet(s)
    BY FS_Subset
  <2> HIDE DEF g, h
  <2>7. h[s] = g[s]
    BY <2>3, <2>4, <2>6, SumsUnique
  <2>8. SumFunctionOnSet(f, s) = h[s]
    BY SumByFold DEF h
  <2>9. Unfolds(f, s)
    BY <2>5, <2>7, <2>8 DEF Unfolds
  <2> QED BY <2>1, <2>9
<1> HIDE DEF Good
<1>2. S \in Good
  BY <1>1, SetInduction
<1> QED BY <1>2 DEF Good

Summable(f, S) == IsFiniteSet(S) /\ \A x \in S : f[x] \in Int

LEMMA SumOfNone == ASSUME NEW f PROVE SumFunctionOnSet(f, {}) = 0
BY FS_EmptySet, SumUnfolds DEF Unfolds

LEMMA SumIsInt ==
    ASSUME NEW f, NEW S, Summable(f, S)
    PROVE  SumFunctionOnSet(f, S) \in Int
<1> DEFINE Good == {s \in SUBSET S : SumFunctionOnSet(f, s) \in Int}
<1>1. ASSUME NEW s \in SUBSET S, \A x \in s : s \ {x} \in Good
      PROVE  s \in Good
  <2>1. IsFiniteSet(s)
    BY FS_Subset DEF Summable
  <2>2. Unfolds(f, s)
    BY <2>1, SumUnfolds
  <2>3. CASE s = {}
    BY <2>3, SumOfNone
  <2>4. CASE s # {}
    <3>1. OneOf(s) \in s /\ s \ {OneOf(s)} \in Good
      BY <1>1, <2>4, OneOfIsMember
    <3>2. f[OneOf(s)] \in Int
      BY <3>1 DEF Summable
    <3> QED BY <2>2, <2>4, <3>1, <3>2 DEF Unfolds
  <2> QED BY <2>3, <2>4
<1> HIDE DEF Good
<1>2. S \in Good
  <2>1. IsFiniteSet(S)
    BY DEF Summable
  <2>2. \A s \in SUBSET S : s \in Good
    BY <1>1, <2>1, SetInduction
  <2> QED BY <2>2
<1> QED BY <1>2 DEF Good

\* Whichever element is taken first, the sum is the same.
LEMMA SumTakes ==
    ASSUME NEW f, NEW S, Summable(f, S), NEW y \in S
    PROVE  SumFunctionOnSet(f, S) = f[y] + SumFunctionOnSet(f, S \ {y})
<1> DEFINE Good == {s \in SUBSET S :
                       \A x \in s : SumFunctionOnSet(f, s) = f[x] + SumFunctionOnSet(f, s \ {x})}
<1>1. ASSUME NEW s \in SUBSET S, \A x \in s : s \ {x} \in Good
      PROVE  s \in Good
  <2> SUFFICES ASSUME NEW x \in s
               PROVE  SumFunctionOnSet(f, s) = f[x] + SumFunctionOnSet(f, s \ {x})
    OBVIOUS
  <2>1. IsFiniteSet(s)
    BY FS_Subset DEF Summable
  <2>2. PICK a : a = OneOf(s)
    OBVIOUS
  <2>3. a \in s /\ SumFunctionOnSet(f, s) = f[a] + SumFunctionOnSet(f, s \ {a})
    BY <2>1, <2>2, SumUnfolds, OneOfIsMember DEF Unfolds
  <2>4. CASE x = a
    BY <2>3, <2>4
  <2>5. CASE x # a
    <3>1. SumFunctionOnSet(f, s \ {a}) = f[x] + SumFunctionOnSet(f, (s \ {a}) \ {x})
      BY <1>1, <2>3, <2>5
    <3>2. SumFunctionOnSet(f, s \ {x}) = f[a] + SumFunctionOnSet(f, (s \ {x}) \ {a})
      BY <1>1, <2>3, <2>5
    <3>3. (s \ {a}) \ {x} = (s \ {x}) \ {a}
      OBVIOUS
    <3>4. IsFiniteSet((s \ {x}) \ {a}) /\ (s \ {x}) \ {a} \subseteq S
      BY <2>1, FS_Subset
    <3>5. SumFunctionOnSet(f, (s \ {x}) \ {a}) \in Int /\ f[x] \in Int /\ f[a] \in Int
      BY <2>3, <3>4, SumIsInt DEF Summable
    <3>6. PICK rest : rest = SumFunctionOnSet(f, (s \ {x}) \ {a})
      OBVIOUS
    <3>7. /\ SumFunctionOnSet(f, s \ {a}) = f[x] + rest
          /\ SumFunctionOnSet(f, s \ {x}) = f[a] + rest
      BY <3>1, <3>2, <3>3, <3>6
    <3>8. rest \in Int /\ f[x] \in Int /\ f[a] \in Int
      BY <3>5, <3>6
    <3> QED BY <2>3, <3>7, <3>8
  <2> QED BY <2>4, <2>5
<1> HIDE DEF Good
<1>2. S \in Good
  <2>1. IsFiniteSet(S)
    BY DEF Summable
  <2>2. \A s \in SUBSET S : s \in Good
    BY <1>1, <2>1, SetInduction
  <2> QED BY <2>2
<1> QED BY <1>2 DEF Good

\* Two families that compare element by element compare in their sums.
LEMMA SumsCompare ==
    ASSUME NEW S, NEW f, NEW h, Summable(f, S), Summable(h, S),
           \A x \in S : f[x] <= h[x]
    PROVE  SumFunctionOnSet(f, S) <= SumFunctionOnSet(h, S)
<1> DEFINE Good == {s \in SUBSET S : SumFunctionOnSet(f, s) <= SumFunctionOnSet(h, s)}
<1>1. ASSUME NEW s \in SUBSET S, \A x \in s : s \ {x} \in Good
      PROVE  s \in Good
  <2>1. CASE s = {}
    BY <2>1, SumOfNone
  <2>2. CASE s # {}
    <3>1. PICK x \in s : TRUE
      BY <2>2
    <3>2. Summable(f, s) /\ Summable(h, s)
      BY FS_Subset DEF Summable
    <3>3. /\ SumFunctionOnSet(f, s) = f[x] + SumFunctionOnSet(f, s \ {x})
          /\ SumFunctionOnSet(h, s) = h[x] + SumFunctionOnSet(h, s \ {x})
      BY <3>2, SumTakes
    <3>4. Summable(f, s \ {x}) /\ Summable(h, s \ {x})
      BY <3>2, FS_Subset DEF Summable
    <3>5. SumFunctionOnSet(f, s \ {x}) \in Int /\ SumFunctionOnSet(h, s \ {x}) \in Int
      BY <3>4, SumIsInt
    <3>6. SumFunctionOnSet(f, s \ {x}) <= SumFunctionOnSet(h, s \ {x})
      BY <1>1
    <3>7. f[x] <= h[x] /\ f[x] \in Int /\ h[x] \in Int
      BY DEF Summable
    <3> QED BY <3>3, <3>5, <3>6, <3>7
  <2> QED BY <2>1, <2>2
<1> HIDE DEF Good
<1>2. S \in Good
  <2>1. IsFiniteSet(S)
    BY DEF Summable
  <2>2. \A s \in SUBSET S : s \in Good
    BY <1>1, <2>1, SetInduction
  <2> QED BY <2>2
<1> QED BY <1>2 DEF Good

LEMMA SumsAgree ==
    ASSUME NEW S, NEW f, NEW h, Summable(f, S), \A x \in S : f[x] = h[x]
    PROVE  SumFunctionOnSet(f, S) = SumFunctionOnSet(h, S)
<1>1. Summable(h, S)
  BY DEF Summable
<1>2. (\A x \in S : f[x] <= h[x]) /\ (\A x \in S : h[x] <= f[x])
  BY DEF Summable
<1>3. /\ SumFunctionOnSet(f, S) <= SumFunctionOnSet(h, S)
      /\ SumFunctionOnSet(h, S) <= SumFunctionOnSet(f, S)
  BY <1>1, <1>2, SumsCompare
<1> QED BY <1>1, <1>3, SumIsInt

\* A family that moves at one element moves its sum by as much.
LEMMA SumMoves ==
    ASSUME NEW S, NEW f, NEW h, Summable(f, S), Summable(h, S),
           NEW y \in S, \A x \in S : x # y => f[x] = h[x]
    PROVE  SumFunctionOnSet(h, S) = SumFunctionOnSet(f, S) - f[y] + h[y]
<1>1. /\ SumFunctionOnSet(f, S) = f[y] + SumFunctionOnSet(f, S \ {y})
      /\ SumFunctionOnSet(h, S) = h[y] + SumFunctionOnSet(h, S \ {y})
  BY SumTakes
<1>2. Summable(f, S \ {y}) /\ Summable(h, S \ {y})
  BY FS_Subset DEF Summable
<1>3. SumFunctionOnSet(f, S \ {y}) = SumFunctionOnSet(h, S \ {y})
  BY <1>2, SumsAgree
<1>4. SumFunctionOnSet(f, S \ {y}) \in Int /\ f[y] \in Int /\ h[y] \in Int
  BY <1>2, SumIsInt DEF Summable
<1> QED BY <1>1, <1>3, <1>4

\* Sums add up element by element.
LEMMA SumsAdd ==
    ASSUME NEW S, NEW f, NEW g, NEW h, Summable(f, S), Summable(g, S),
           \A x \in S : h[x] = f[x] + g[x]
    PROVE  SumFunctionOnSet(h, S) = SumFunctionOnSet(f, S) + SumFunctionOnSet(g, S)
<1> DEFINE Good == {s \in SUBSET S :
                       SumFunctionOnSet(h, s) = SumFunctionOnSet(f, s) + SumFunctionOnSet(g, s)}
<1>0. Summable(h, S)
  BY DEF Summable
<1>1. ASSUME NEW s \in SUBSET S, \A x \in s : s \ {x} \in Good
      PROVE  s \in Good
  <2>1. CASE s = {}
    BY <2>1, SumOfNone
  <2>2. CASE s # {}
    <3>1. PICK x \in s : TRUE
      BY <2>2
    <3>2. Summable(f, s) /\ Summable(g, s) /\ Summable(h, s)
      BY <1>0, FS_Subset DEF Summable
    <3>3. /\ SumFunctionOnSet(f, s) = f[x] + SumFunctionOnSet(f, s \ {x})
          /\ SumFunctionOnSet(g, s) = g[x] + SumFunctionOnSet(g, s \ {x})
          /\ SumFunctionOnSet(h, s) = h[x] + SumFunctionOnSet(h, s \ {x})
      BY <3>2, SumTakes
    <3>4. Summable(f, s \ {x}) /\ Summable(g, s \ {x})
      BY <3>2, FS_Subset DEF Summable
    <3>5. SumFunctionOnSet(f, s \ {x}) \in Int /\ SumFunctionOnSet(g, s \ {x}) \in Int
      BY <3>4, SumIsInt
    <3>6. SumFunctionOnSet(h, s \ {x})
          = SumFunctionOnSet(f, s \ {x}) + SumFunctionOnSet(g, s \ {x})
      BY <1>1
    <3>7. h[x] = f[x] + g[x] /\ f[x] \in Int /\ g[x] \in Int
      BY DEF Summable
    <3> QED BY <3>3, <3>5, <3>6, <3>7
  <2> QED BY <2>1, <2>2
<1> HIDE DEF Good
<1>2. S \in Good
  <2>1. IsFiniteSet(S)
    BY DEF Summable
  <2>2. \A s \in SUBSET S : s \in Good
    BY <1>1, <2>1, SetInduction
  <2> QED BY <2>2
<1> QED BY <1>2 DEF Good

\* A sum over some elements is one over all of them, the others counting zero.
LEMMA SumOverAll ==
    ASSUME NEW S, NEW R \in SUBSET S, NEW f, NEW h, Summable(f, R),
           IsFiniteSet(S),
           \A x \in S : h[x] = IF x \in R THEN f[x] ELSE 0
    PROVE  SumFunctionOnSet(f, R) = SumFunctionOnSet(h, S)
<1> DEFINE Good == {s \in SUBSET S : SumFunctionOnSet(f, s \cap R) = SumFunctionOnSet(h, s)}
<1>0. Summable(h, S)
  BY DEF Summable
<1>1. ASSUME NEW s \in SUBSET S, \A x \in s : s \ {x} \in Good
      PROVE  s \in Good
  <2>1. CASE s = {}
    <3>1. s \cap R = {}
      BY <2>1
    <3> QED BY <2>1, <3>1, SumOfNone
  <2>2. CASE s # {}
    <3>1. PICK x \in s : TRUE
      BY <2>2
    <3>2. Summable(f, s \cap R) /\ Summable(h, s)
      BY <1>0, FS_Subset DEF Summable
    <3>3. SumFunctionOnSet(h, s) = h[x] + SumFunctionOnSet(h, s \ {x})
      BY <3>2, SumTakes
    <3>4. SumFunctionOnSet(f, (s \ {x}) \cap R) = SumFunctionOnSet(h, s \ {x})
      BY <1>1
    <3>5. CASE x \in R
      <4>1. SumFunctionOnSet(f, s \cap R) = f[x] + SumFunctionOnSet(f, (s \cap R) \ {x})
        BY <3>2, <3>5, SumTakes
      <4>2. (s \cap R) \ {x} = (s \ {x}) \cap R
        OBVIOUS
      <4> QED BY <3>3, <3>4, <3>5, <4>1, <4>2
    <3>6. CASE x \notin R
      <4>1. s \cap R = (s \ {x}) \cap R
        BY <3>6
      <4>2. Summable(h, s \ {x})
        BY <3>2, FS_Subset DEF Summable
      <4>3. SumFunctionOnSet(h, s \ {x}) \in Int
        BY <4>2, SumIsInt
      <4> QED BY <3>3, <3>4, <3>6, <4>1, <4>3
    <3> QED BY <3>5, <3>6
  <2> QED BY <2>1, <2>2
<1> HIDE DEF Good
<1>2. S \in Good
  BY <1>1, SetInduction
<1>3. S \cap R = R
  OBVIOUS
<1> QED BY <1>2, <1>3 DEF Good

LEMMA SumSplits ==
    ASSUME NEW S, NEW T \in SUBSET S, NEW f, Summable(f, S)
    PROVE  SumFunctionOnSet(f, S) = SumFunctionOnSet(f, T) + SumFunctionOnSet(f, S \ T)
<1> DEFINE in == [x \in S |-> IF x \in T THEN f[x] ELSE 0]
           out == [x \in S |-> IF x \in S \ T THEN f[x] ELSE 0]
<1>1. /\ Summable(f, T) /\ Summable(f, S \ T) /\ IsFiniteSet(S)
      /\ Summable(in, S) /\ Summable(out, S)
  BY FS_Subset DEF Summable
<1>2. /\ \A x \in S : in[x] = IF x \in T THEN f[x] ELSE 0
      /\ \A x \in S : out[x] = IF x \in S \ T THEN f[x] ELSE 0
      /\ S \ T \in SUBSET S
  OBVIOUS
<1> HIDE DEF in, out
<1>3. SumFunctionOnSet(f, T) = SumFunctionOnSet(in, S)
  BY <1>1, <1>2, SumOverAll
<1>4. SumFunctionOnSet(f, S \ T) = SumFunctionOnSet(out, S)
  BY <1>1, <1>2, SumOverAll
<1>5. \A x \in S : f[x] = in[x] + out[x]
  BY <1>2 DEF Summable
<1>6. SumFunctionOnSet(f, S) = SumFunctionOnSet(in, S) + SumFunctionOnSet(out, S)
  BY <1>1, <1>5, SumsAdd
<1> QED BY <1>3, <1>4, <1>6

\* A sum over other names of the same terms.
LEMMA SumRenamed ==
    ASSUME NEW S, NEW f, Summable(f, S), NEW g, NEW m,
           \A x \in S : g[m[x]] = f[x], \A x, y \in S : m[x] = m[y] => x = y
    PROVE  /\ Summable(g, {m[x] : x \in S})
           /\ SumFunctionOnSet(f, S) = SumFunctionOnSet(g, {m[x] : x \in S})
<1> DEFINE Image(s) == {m[x] : x \in s}
           Good == {s \in SUBSET S : /\ IsFiniteSet(Image(s))
                                     /\ SumFunctionOnSet(f, s) = SumFunctionOnSet(g, Image(s))}
<1>1. ASSUME NEW s \in SUBSET S, \A x \in s : s \ {x} \in Good
      PROVE  s \in Good
  <2>1. CASE s = {}
    <3>1. Image(s) = {}
      BY <2>1
    <3> QED BY <2>1, <3>1, SumOfNone, FS_EmptySet
  <2>2. CASE s # {}
    <3>1. PICK y \in s : s \ {y} \in Good
      BY <1>1, <2>2
    <3>2. Image(s) = Image(s \ {y}) \cup {m[y]} /\ Image(s) \ {m[y]} = Image(s \ {y})
      BY <3>1
    <3>3. IsFiniteSet(Image(s \ {y}))
          /\ SumFunctionOnSet(f, s \ {y}) = SumFunctionOnSet(g, Image(s \ {y}))
      BY <3>1
    <3>4. \A z \in Image(s) : g[z] \in Int
      BY DEF Summable
    <3>5. m[y] \in Image(s) /\ g[m[y]] = f[y]
      BY <3>1
    <3> HIDE DEF Image
    <3>6. IsFiniteSet(Image(s))
      <4> DEFINE less == Image(s \ {y})
      <4>1. IsFiniteSet(less \cup {m[y]})
        <5> HIDE DEF less
        <5>1. IsFiniteSet(less)
          BY <3>3 DEF less
        <5> QED BY <5>1, FS_AddElement
      <4> QED BY <3>2, <4>1
    <3>7. SumFunctionOnSet(g, Image(s)) = g[m[y]] + SumFunctionOnSet(g, Image(s) \ {m[y]})
      BY <3>4, <3>5, <3>6, SumTakes DEF Summable
    <3>8. SumFunctionOnSet(f, s) = f[y] + SumFunctionOnSet(f, s \ {y})
      <4>1. Summable(f, s)
        BY FS_Subset DEF Summable
      <4> QED BY <3>1, <4>1, SumTakes
    <3> QED BY <3>2, <3>3, <3>5, <3>6, <3>7, <3>8
  <2> QED BY <2>1, <2>2
<1>2. \A s \in SUBSET S : (\A x \in s : s \ {x} \in Good) => s \in Good
  BY <1>1
<1>3. \A x \in Image(S) : g[x] \in Int
  BY DEF Summable
<1> HIDE DEF Good
<1>4. \A s \in SUBSET S : s \in Good
  BY <1>2, SetInduction DEF Summable
<1> QED BY <1>3, <1>4 DEF Good, Summable

LEMMA SumOfPositives ==
    ASSUME NEW S, NEW f, Summable(f, S), \A x \in S : f[x] > 0, SumFunctionOnSet(f, S) = 0
    PROVE  S = {}
<1> SUFFICES ASSUME S # {} PROVE FALSE
  OBVIOUS
<1>1. PICK y \in S : TRUE
  OBVIOUS
<1>2. SumFunctionOnSet(f, S) = f[y] + SumFunctionOnSet(f, S \ {y})
  BY SumTakes
<1> DEFINE rest == S \ {y}
           zero == [x \in rest |-> 0]
<1>3. Summable(f, rest) /\ Summable(zero, rest) /\ \A x \in rest : zero[x] <= f[x]
  BY FS_Subset DEF Summable
<1>4. {} \in SUBSET rest /\ Summable(zero, {}) /\ \A x \in rest : zero[x] = IF x \in {} THEN zero[x] ELSE 0
  BY FS_EmptySet DEF Summable
<1> HIDE DEF zero, rest
<1>5. SumFunctionOnSet(zero, rest) = 0
  <2>1. IsFiniteSet(rest)
    BY <1>3 DEF Summable
  <2>2. SumFunctionOnSet(zero, {}) = SumFunctionOnSet(zero, rest)
    BY <1>4, <2>1, SumOverAll
  <2> QED BY <2>2, SumOfNone
<1>6. 0 <= SumFunctionOnSet(f, rest)
  BY <1>3, <1>5, SumsCompare
<1>7. SumFunctionOnSet(f, rest) \in Int /\ f[y] \in Int /\ f[y] > 0
  BY <1>1, <1>3, SumIsInt DEF Summable
<1> QED BY <1>2, <1>6, <1>7 DEF rest

\* Two sums that agree class by class agree.
LEMMA SumByClass ==
    ASSUME NEW A, IsFiniteSet(A), NEW S, NEW f, Summable(f, S), NEW c, \A x \in S : c[x] \in A,
           NEW T, NEW g, Summable(g, T), NEW d, \A y \in T : d[y] \in A,
           \A a \in A : SumFunctionOnSet(f, {x \in S : c[x] = a})
                           = SumFunctionOnSet(g, {y \in T : d[y] = a})
    PROVE  SumFunctionOnSet(f, S) = SumFunctionOnSet(g, T)
<1> DEFINE Left(b) == {x \in S : c[x] \in b}
           Right(b) == {y \in T : d[y] \in b}
           Good == {b \in SUBSET A : SumFunctionOnSet(f, Left(b)) = SumFunctionOnSet(g, Right(b))}
<1>1. ASSUME NEW b \in SUBSET A, \A a \in b : b \ {a} \in Good
      PROVE  b \in Good
  <2>1. CASE b = {}
    <3>1. Left(b) = {} /\ Right(b) = {}
      BY <2>1
    <3> QED BY <3>1, SumOfNone
  <2>2. CASE b # {}
    <3>1. PICK a \in b : b \ {a} \in Good
      BY <1>1, <2>2
    <3> DEFINE ofS == {x \in S : c[x] = a}
               ofT == {y \in T : d[y] = a}
    <3>2. /\ ofS \in SUBSET Left(b) /\ Left(b) \ ofS = Left(b \ {a})
          /\ ofT \in SUBSET Right(b) /\ Right(b) \ ofT = Right(b \ {a})
      BY <3>1
    <3>3. Summable(f, Left(b)) /\ Summable(g, Right(b))
      BY FS_Subset DEF Summable
    <3>4. SumFunctionOnSet(f, ofS) = SumFunctionOnSet(g, ofT)
      BY <3>1
    <3>5. SumFunctionOnSet(f, Left(b \ {a})) = SumFunctionOnSet(g, Right(b \ {a}))
      BY <3>1
    <3> HIDE DEF ofS, ofT, Left, Right
    <3>6. SumFunctionOnSet(f, Left(b)) = SumFunctionOnSet(f, ofS) + SumFunctionOnSet(f, Left(b) \ ofS)
      BY <3>2, <3>3, SumSplits
    <3>7. SumFunctionOnSet(g, Right(b)) = SumFunctionOnSet(g, ofT) + SumFunctionOnSet(g, Right(b) \ ofT)
      BY <3>2, <3>3, SumSplits
    <3> QED BY <3>2, <3>4, <3>5, <3>6, <3>7
  <2> QED BY <2>1, <2>2
<1>2. \A b \in SUBSET A : (\A a \in b : b \ {a} \in Good) => b \in Good
  BY <1>1
<1>3. Left(A) = S /\ Right(A) = T
  OBVIOUS
<1> HIDE DEF Good
<1>4. A \in Good
  BY <1>2, SetInduction
<1> QED BY <1>3, <1>4 DEF Good

=============================================================================

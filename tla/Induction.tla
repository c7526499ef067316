------------------------------- MODULE Induction -------------------------------
(***************************************************************************)
(* Induction over data, for the proofs about words, chains and packets of  *)
(* any length: natural induction, functions by primitive recursion, and    *)
(* the folds of the community modules that the models use.                 *)
(*                                                                         *)
(* Everything comes from WFMin, which speaks of sets: a fact is proved of  *)
(* every number by the set of the numbers that have it.                    *)
(***************************************************************************)
EXTENDS Integers, SequencesExt, SequenceTheorems, WellFoundedInduction, TLAPS

----------------------------------------------------------------------------
(* Numbers, and functions defined by recursion *)

\* A set that has zero and every successor has the natural numbers.
LEMMA SetInduction ==
  ASSUME NEW S, 0 \in S, \A k \in S \cap Nat : k + 1 \in S
  PROVE  Nat \subseteq S
<1> DEFINE T == Nat \ S
           R == OpToRel(<, Nat)
<1> SUFFICES ASSUME T # {} PROVE FALSE
  OBVIOUS
<1>1. IsWellFoundedOn(R, Nat)
  BY NatLessThanWellFounded
<1>2. T \subseteq Nat
  OBVIOUS
<1>3. \A x, y \in Nat : y < x => <<y, x>> \in R
  BY DEF OpToRel
<1> HIDE DEF R, T
<1>4. PICK x \in T : \A y \in T : ~(<<y, x>> \in R)
  BY <1>1, <1>2, WFMin
<1>5. x \in Nat /\ x # 0
  BY <1>2 DEF T
<1>6. x - 1 \in Nat /\ x - 1 < x /\ (x - 1) + 1 = x
  BY <1>5
<1>7. x - 1 \notin T
  BY <1>3, <1>4, <1>5, <1>6
<1>8. x - 1 \in S
  BY <1>6, <1>7 DEF T
<1> QED
  BY <1>4, <1>6, <1>8 DEF T

\* The same up to a bound.
LEMMA UpTo ==
  ASSUME NEW m \in Nat, NEW S, 0 \in S, \A k \in 0..(m - 1) : k \in S => k + 1 \in S
  PROVE  0..m \subseteq S
<1> DEFINE T == S \union {k \in Nat : k > m}
<1>1. 0 \in T
  OBVIOUS
<1>2. ASSUME NEW k \in T \cap Nat PROVE k + 1 \in T
  <2>1. CASE k >= m
    <3>1. k + 1 \in Nat /\ k + 1 > m
      BY <1>2, <2>1
    <3> QED
      BY <3>1
  <2>2. CASE k < m
    <3>1. k \in S /\ k \in 0..(m - 1)
      BY <1>2, <2>2
    <3> QED
      BY <3>1
  <2> QED
    BY <1>2, <2>1, <2>2
<1>3. Nat \subseteq T
  <2> HIDE DEF T
  <2> QED
    BY <1>1, <1>2, SetInduction
<1> QED
  BY <1>3

\* A function by primitive recursion, up to a bound.
Recursive(f, m, S, s, step) == /\ f \in [0..m -> S] /\ f[0] = s
                               /\ \A k \in 1..m : f[k] = step[k][f[k - 1]]

\* There is one.
LEMMA Recursion ==
  ASSUME NEW m \in Nat, NEW S, NEW s \in S, NEW step \in [1..m -> [S -> S]]
  PROVE  \E f : Recursive(f, m, S, s, step)
<1> DEFINE Upto(f, j) == f[0] = s /\ \A k \in 1..j : f[k] = step[k][f[k - 1]]
           G == {j \in 0..m : \E f \in [0..j -> S] : Upto(f, j)}
<1>1. 0 \in G
  <2> DEFINE f == [k \in 0..0 |-> s]
  <2>1. f \in [0..0 -> S] /\ Upto(f, 0)
    OBVIOUS
  <2>2. 0 \in 0..m
    OBVIOUS
  <2> HIDE DEF f, Upto
  <2> QED
    BY <2>1, <2>2
<1>2. ASSUME NEW j \in 0..(m - 1), j \in G PROVE j + 1 \in G
  <2>1. PICK f \in [0..j -> S] : Upto(f, j)
    BY <1>2
  <2> DEFINE next == step[j + 1][f[j]]
             g == [k \in 0..(j + 1) |-> IF k = j + 1 THEN next ELSE f[k]]
  <2>2. j \in 0..j /\ j + 1 \in 1..m /\ f[j] \in S
    OBVIOUS
  <2>3. next \in S
    BY <2>2
  <2>4. g \in [0..(j + 1) -> S]
    <3>1. ASSUME NEW k \in 0..(j + 1), k # j + 1 PROVE f[k] \in S
      <4>1. k \in 0..j
        BY <3>1
      <4> QED
        BY <4>1
    <3> HIDE DEF next
    <3> QED
      BY <2>3, <3>1
  <2>5. g[0] = s
    BY <2>1
  <2>6. ASSUME NEW k \in 1..(j + 1) PROVE g[k] = step[k][g[k - 1]]
    <3>1. k \in 0..(j + 1) /\ k - 1 \in 0..(j + 1) /\ k - 1 # j + 1 /\ k - 1 \in 0..j
      OBVIOUS
    <3>2. g[k - 1] = f[k - 1]
      BY <3>1
    <3>3. CASE k = j + 1
      <4>1. k - 1 = j
        BY <3>3
      <4>2. g[k] = next
        BY <3>1, <3>3
      <4> QED
        BY <3>2, <3>3, <4>1, <4>2
    <3>4. CASE k # j + 1
      <4>1. k \in 1..j
        BY <3>4
      <4>2. g[k] = f[k]
        BY <3>1, <3>4
      <4>3. f[k] = step[k][f[k - 1]]
        BY <2>1, <4>1
      <4> HIDE DEF g
      <4> QED
        BY <3>2, <4>2, <4>3
    <3> QED
      BY <3>3, <3>4
  <2>7. Upto(g, j + 1)
    BY <2>5, <2>6
  <2>8. j + 1 \in 0..m
    BY <2>2
  <2> HIDE DEF g, Upto
  <2> QED
    BY <2>4, <2>7, <2>8
<1>3. 0..m \subseteq G
  <2> HIDE DEF G
  <2> QED
    BY <1>1, <1>2, UpTo
<1>4. m \in G
  BY <1>3
<1> QED
  BY <1>4 DEF Recursive

\* What satisfies the equations of a recursion is a function by recursion.
LEMMA Computed ==
  ASSUME NEW m \in Nat, NEW S, NEW s \in S, NEW step \in [1..m -> [S -> S]],
         NEW at, at = [k \in 0..m |-> at[k]], at[0] = s,
         \A k \in 1..m : \A x \in S : at[k - 1] = x => at[k] = step[k][x]
  PROVE  Recursive(at, m, S, s, step)
<1> DEFINE G == {k \in 0..m : at[k] \in S}
<1>1. 0 \in G
  OBVIOUS
<1>2. ASSUME NEW k \in 0..(m - 1), k \in G PROVE k + 1 \in G
  <2>1. k + 1 \in 1..m /\ k + 1 \in 0..m /\ (k + 1) - 1 = k
    OBVIOUS
  <2>2. at[k] \in S
    BY <1>2
  <2>3. at[k + 1] = step[k + 1][at[k]]
    BY <2>1, <2>2
  <2>4. step[k + 1] \in [S -> S]
    BY <2>1
  <2> QED
    BY <2>1, <2>2, <2>3, <2>4
<1>3. 0..m \subseteq G
  <2> HIDE DEF G
  <2> QED
    BY <1>1, <1>2, UpTo
<1>4. \A k \in 0..m : at[k] \in S
  BY <1>3
<1>5. \A k \in 1..m : at[k] = step[k][at[k - 1]]
  <2> TAKE k \in 1..m
  <2>1. k - 1 \in 0..m
    OBVIOUS
  <2> QED
    BY <1>4, <2>1
<1>6. at \in [0..m -> S]
  BY <1>4
<1> QED
  BY <1>5, <1>6 DEF Recursive

\* Two are equal from where they meet, if they go on by the same steps.
LEMMA FromThere ==
  ASSUME NEW m \in Nat, NEW f, NEW g, NEW i \in 0..m, f[i] = g[i],
         \A k \in (i + 1)..m : f[k - 1] = g[k - 1] => f[k] = g[k]
  PROVE  \A k \in i..m : f[k] = g[k]
<1> DEFINE G == {k \in 0..m : k >= i => f[k] = g[k]}
<1>1. 0 \in G
  OBVIOUS
<1>2. ASSUME NEW k \in 0..(m - 1), k \in G PROVE k + 1 \in G
  <2>1. k + 1 \in 0..m /\ (k + 1) - 1 = k
    OBVIOUS
  <2>2. CASE k + 1 <= i
    <3>1. k + 1 >= i => k + 1 = i
      BY <2>2
    <3> QED
      BY <2>1, <3>1
  <2>3. CASE k + 1 > i
    <3>1. k + 1 \in (i + 1)..m /\ k >= i
      BY <2>3
    <3>2. f[k] = g[k]
      BY <1>2, <3>1
    <3> QED
      BY <2>1, <3>1, <3>2
  <2> QED
    BY <2>2, <2>3
<1>3. 0..m \subseteq G
  <2> HIDE DEF G
  <2> QED
    BY <1>1, <1>2, UpTo
<1> QED
  BY <1>3

\* In particular if they agree at the start.
LEMMA FromStart ==
  ASSUME NEW m \in Nat, NEW f, NEW g, f[0] = g[0],
         \A k \in 1..m : f[k - 1] = g[k - 1] => f[k] = g[k]
  PROVE  \A k \in 0..m : f[k] = g[k]
<1>1. PICK i \in 0..m : i = 0
  OBVIOUS
<1>2. f[i] = g[i]
  BY <1>1
<1>3. \A k \in (i + 1)..m : f[k - 1] = g[k - 1] => f[k] = g[k]
  BY <1>1
<1>4. \A k \in i..m : f[k] = g[k]
  BY <1>2, <1>3, FromThere
<1> QED
  BY <1>1, <1>4

\* What a step keeps is kept to the end.
LEMMA Stays == ASSUME NEW n \in Nat, NEW f, NEW i \in 0..n, NEW v, f[i] = v,
                      \A k \in 1..n : f[k - 1] = v => f[k] = v
               PROVE  f[n] = v
<1> DEFINE G == {k \in 0..n : k >= i => f[k] = v}
<1>1. 0 \in G
  <2>1. 0 >= i => i = 0
    OBVIOUS
  <2> QED
    BY <2>1
<1>2. ASSUME NEW k \in 0..(n - 1), k \in G PROVE k + 1 \in G
  <2>1. k + 1 \in 0..n /\ k + 1 \in 1..n /\ (k + 1) - 1 = k
    OBVIOUS
  <2>2. CASE k + 1 <= i
    <3>1. k + 1 >= i => k + 1 = i
      BY <2>2
    <3> QED
      BY <2>1, <3>1
  <2>3. CASE k + 1 > i
    <3>1. k >= i
      BY <2>3
    <3>2. f[k] = v
      BY <1>2, <3>1
    <3> QED
      BY <2>1, <3>2
  <2> QED
    BY <2>2, <2>3
<1>3. 0..n \subseteq G
  <2> HIDE DEF G
  <2> QED
    BY <1>1, <1>2, UpTo
<1>4. n \in 0..n /\ n >= i
  OBVIOUS
<1> QED
  BY <1>3, <1>4

----------------------------------------------------------------------------
(* Folds.  MapThenFoldSet takes the largest index off a set of indices.     *)

\* The largest of a set that holds its bound.
LEMMA MaxIs == ASSUME NEW m \in Nat \ {0}, NEW s \in SUBSET (1..m), m \in s
               PROVE  Max(s) = m
<1>1. \A y \in s : m >= y
  OBVIOUS
<1>2. \A x \in s : (\A y \in s : x >= y) => x = m
  <2> TAKE x \in s
  <2> HAVE \A y \in s : x >= y
  <2>1. x >= m /\ m >= x /\ x \in Nat
    OBVIOUS
  <2> QED
    BY <2>1
<1>3. \E x \in s : \A y \in s : x >= y
  BY <1>1
<1>4. Max(s) \in s /\ \A y \in s : Max(s) >= y
  BY <1>3, Zenon DEF Max
<1> QED
  BY <1>2, <1>4

\* The largest index is one of them.
LEMMA MaxIn == ASSUME NEW n \in Nat, NEW t \in SUBSET (1..n), t # {}
               PROVE  Max(t) \in t
<1> DEFINE G == {m \in 0..n : \A u \in SUBSET (1..m) : u # {} => Max(u) \in u}
<1>1. 0 \in G
  <2>1. \A u \in SUBSET (1..0) : u = {}
    OBVIOUS
  <2>2. \A u \in SUBSET (1..0) : u # {} => Max(u) \in u
    BY <2>1, Zenon
  <2>3. 0 \in 0..n
    OBVIOUS
  <2> QED
    BY <2>2, <2>3
<1>2. ASSUME NEW k \in 0..(n - 1), k \in G PROVE k + 1 \in G
  <2>1. PICK m \in Nat \ {0} : m = k + 1
    OBVIOUS
  <2>2. ASSUME NEW u \in SUBSET (1..m), u # {} PROVE Max(u) \in u
    <3>1. CASE m \in u
      BY <3>1, MaxIs
    <3>2. CASE m \notin u
      <4>1. u \in SUBSET (1..k)
        BY <2>1, <3>2
      <4> QED
        BY <1>2, <2>2, <4>1
    <3> QED
      BY <3>1, <3>2
  <2>3. m \in 0..n
    BY <2>1
  <2> QED
    BY <2>1, <2>2, <2>3
<1>3. 0..n \subseteq G
  <2> HIDE DEF G
  <2> QED
    BY <1>1, <1>2, UpTo
<1>4. n \in 0..n
  OBVIOUS
<1> QED
  BY <1>3, <1>4

\* A fold over a set of indices, by its steps.
Fold(f, T, base, step) ==
    \A s \in T : f[s] = IF s = {} THEN base ELSE step[Max(s)][f[s \ {Max(s)}]]

\* There is one on the subsets of 1..n.
LEMMA FoldExists ==
  ASSUME NEW n \in Nat, NEW V, NEW base \in V, NEW step \in [1..n -> [V -> V]]
  PROVE  \E f \in [SUBSET (1..n) -> V] : Fold(f, SUBSET (1..n), base, step)
<1> DEFINE G == {m \in 0..n : \E f \in [SUBSET (1..m) -> V] : Fold(f, SUBSET (1..m), base, step)}
<1>1. 0 \in G
  <2> DEFINE f == [s \in SUBSET (1..0) |-> base]
  <2>1. f \in [SUBSET (1..0) -> V]
    OBVIOUS
  <2>2. \A s \in SUBSET (1..0) : s = {}
    OBVIOUS
  <2>3. Fold(f, SUBSET (1..0), base, step)
    BY <2>2 DEF Fold
  <2>4. 0 \in 0..n
    OBVIOUS
  <2> HIDE DEF f
  <2> QED
    BY <2>1, <2>3, <2>4
<1>2. ASSUME NEW j \in 0..(n - 1), j \in G PROVE j + 1 \in G
  <2>1. PICK f \in [SUBSET (1..j) -> V] : Fold(f, SUBSET (1..j), base, step)
    BY <1>2
  <2>2. PICK m \in 1..n : m = j + 1
    OBVIOUS
  <2>3. m \in Nat \ {0} /\ j = m - 1 /\ step[m] \in [V -> V]
    BY <2>2
  <2>4. \A s \in SUBSET (1..m) : s \ {m} \in SUBSET (1..j) /\ (m \notin s => s \in SUBSET (1..j))
    BY <2>2
  <2>5. \A s \in SUBSET (1..j) : s \in SUBSET (1..m) /\ m \notin s
    BY <2>2
  <2> DEFINE g == [s \in SUBSET (1..m) |-> IF m \in s THEN step[m][f[s \ {m}]] ELSE f[s]]
  <2>6. g \in [SUBSET (1..m) -> V]
    BY <2>3, <2>4
  <2>7. ASSUME NEW s \in SUBSET (1..m)
        PROVE  g[s] = IF s = {} THEN base ELSE step[Max(s)][g[s \ {Max(s)}]]
    <3>1. CASE m \in s
      <4>1. Max(s) = m /\ s # {}
        BY <2>3, <3>1, MaxIs
      <4>2. g[s] = step[m][f[s \ {m}]] /\ g[s \ {m}] = f[s \ {m}]
        BY <2>4, <2>5, <3>1
      <4> HIDE DEF g
      <4> QED
        BY <4>1, <4>2
    <3>2. CASE m \notin s
      <4>1. s \in SUBSET (1..j)
        BY <2>4, <3>2
      <4>2. f[s] = IF s = {} THEN base ELSE step[Max(s)][f[s \ {Max(s)}]]
        BY <2>1, <4>1 DEF Fold
      <4>3. g[s] = f[s] /\ g[s \ {Max(s)}] = f[s \ {Max(s)}]
        <5>1. s \ {Max(s)} \in SUBSET (1..m) /\ m \notin s \ {Max(s)}
          BY <3>2
        <5> QED
          BY <3>2, <5>1
      <4> HIDE DEF g
      <4> QED
        BY <4>2, <4>3
    <3> QED
      BY <3>1, <3>2
  <2>8. Fold(g, SUBSET (1..m), base, step)
    <3> HIDE DEF g
    <3> QED
      BY <2>7 DEF Fold
  <2>9. j + 1 \in 0..n
    OBVIOUS
  <2> HIDE DEF g
  <2> QED
    BY <2>2, <2>6, <2>8, <2>9
<1>3. 0..n \subseteq G
  <2> HIDE DEF G
  <2> QED
    BY <1>1, <1>2, UpTo
<1>4. n \in G
  <2> HIDE DEF G
  <2> QED
    BY <1>3
<1> QED
  BY <1>4, Zenon

\* The sum of the weights of a set of indices, whichever is taken first.
AddsUp(g, n, w) == /\ g \in [SUBSET (1..n) -> Nat] /\ g[{}] = 0
                   /\ \A s \in SUBSET (1..n) : \A x \in s : g[s] = w[x] + g[s \ {x}]

\* There is such a sum.
LEMMA SumsOfSets == ASSUME NEW n \in Nat, NEW w \in [1..n -> Nat]
                    PROVE  \E g : AddsUp(g, n, w)
<1> DEFINE step == [k \in 1..n |-> [y \in Nat |-> w[k] + y]]
<1>1. step \in [1..n -> [Nat -> Nat]] /\ 0 \in Nat
  OBVIOUS
<1>2. PICK g \in [SUBSET (1..n) -> Nat] : Fold(g, SUBSET (1..n), 0, step)
  <2> HIDE DEF step
  <2> QED
    BY <1>1, FoldExists
<1>3. ASSUME NEW m \in 1..n, NEW s \in SUBSET (1..m), m \in s
      PROVE  g[s] = w[m] + g[s \ {m}]
  <2>1. Max(s) = m /\ s # {} /\ s \in SUBSET (1..n) /\ s \ {m} \in SUBSET (1..n)
    BY <1>3, MaxIs
  <2>2. g[s] = step[m][g[s \ {m}]]
    <3> HIDE DEF step
    <3> QED
      BY <1>2, <2>1 DEF Fold
  <2>3. g[s \ {m}] \in Nat
    BY <1>2, <2>1
  <2> QED
    BY <2>2, <2>3
<1> DEFINE G == {m \in 0..n : \A s \in SUBSET (1..m) : \A x \in s : g[s] = w[x] + g[s \ {x}]}
<1>4. 0 \in G
  <2>1. \A s \in SUBSET (1..0) : \A x \in s : FALSE
    OBVIOUS
  <2> QED
    BY <2>1
<1>5. ASSUME NEW k \in 0..(n - 1), k \in G PROVE k + 1 \in G
  <2>1. PICK m \in 1..n : m = k + 1
    OBVIOUS
  <2>2. ASSUME NEW s \in SUBSET (1..m), NEW x \in s PROVE g[s] = w[x] + g[s \ {x}]
    <3>1. CASE m \notin s
      <4>1. s \in SUBSET (1..k)
        BY <2>1, <3>1
      <4> QED
        BY <1>5, <4>1
    <3>2. CASE x = m
      BY <1>3, <3>2
    <3>3. CASE m \in s /\ x # m
      <4>1. /\ s \ {m} \in SUBSET (1..k) /\ x \in s \ {m}
            /\ s \ {x} \in SUBSET (1..m) /\ m \in s \ {x}
            /\ (s \ {m}) \ {x} = (s \ {x}) \ {m}
            /\ (s \ {m}) \ {x} \in SUBSET (1..n)
        BY <2>1, <3>3
      <4>2. g[s] = w[m] + g[s \ {m}]
        BY <1>3, <3>3
      <4>3. g[s \ {m}] = w[x] + g[(s \ {m}) \ {x}]
        BY <1>5, <4>1
      <4>4. g[s \ {x}] = w[m] + g[(s \ {x}) \ {m}]
        BY <1>3, <4>1
      <4>5. g[(s \ {m}) \ {x}] \in Nat /\ w[m] \in Nat /\ w[x] \in Nat
        <5>1. x \in 1..n
          OBVIOUS
        <5> QED
          BY <1>2, <4>1, <5>1
      <4>6. PICK a \in Nat : a = g[(s \ {m}) \ {x}] /\ a = g[(s \ {x}) \ {m}]
        BY <4>1, <4>5
      <4> QED
        BY <4>2, <4>3, <4>4, <4>5, <4>6
    <3> QED
      BY <3>1, <3>2, <3>3
  <2>3. m \in 0..n
    OBVIOUS
  <2> QED
    BY <2>1, <2>2, <2>3
<1>6. 0..n \subseteq G
  <2> HIDE DEF G
  <2> QED
    BY <1>4, <1>5, UpTo
<1>7. n \in 0..n
  OBVIOUS
<1>8. \A s \in SUBSET (1..n) : \A x \in s : g[s] = w[x] + g[s \ {x}]
  BY <1>6, <1>7
<1>9. g[{}] = 0
  BY <1>2 DEF Fold
<1> QED
  BY <1>2, <1>8, <1>9 DEF AddsUp

\* The indices up to k are those before it, and k.
LEMMA MaxTo == ASSUME NEW k \in Nat \ {0}
               PROVE  Max(1..k) = k /\ (1..k) \ {k} = 1..(k - 1)
<1>1. 1..k \in SUBSET (1..k) /\ k \in 1..k
  OBVIOUS
<1> QED
  BY <1>1, MaxIs

----------------------------------------------------------------------------
(* FlattenSeq *)

\* Where the parts of s begin when it is flattened.
Offsets(off, s) == /\ off \in [0..Len(s) -> Nat] /\ off[0] = 0
                   /\ \A i \in 1..Len(s) : off[i] = off[i - 1] + Len(s[i])

\* t is the parts of s up to the n-th, one after the other.
Flat(t, s, n, off, S) == /\ t \in Seq(S) /\ Len(t) = off[n]
                         /\ \A i \in 1..n : \A j \in 1..Len(s[i]) : t[off[i - 1] + j] = s[i][j]

\* Every sequence of sequences has its offsets.
LEMMA OffsetsExist ==
  ASSUME NEW S, NEW s \in Seq(Seq(S))
  PROVE  \E off : Offsets(off, s)
<1> DEFINE step == [k \in 1..Len(s) |-> [x \in Nat |-> x + Len(s[k])]]
<1>1. \A k \in 1..Len(s) : Len(s[k]) \in Nat
  OBVIOUS
<1>2. step \in [1..Len(s) -> [Nat -> Nat]]
  BY <1>1
<1>3. Len(s) \in Nat /\ 0 \in Nat
  OBVIOUS
<1>4. PICK off : Recursive(off, Len(s), Nat, 0, step)
  <2> HIDE DEF step
  <2> QED
    BY <1>2, <1>3, Recursion
<1>5. \A i \in 1..Len(s) : off[i] = off[i - 1] + Len(s[i])
  <2> TAKE i \in 1..Len(s)
  <2>1. i - 1 \in 0..Len(s)
    OBVIOUS
  <2>2. off[i - 1] \in Nat /\ off[i] = step[i][off[i - 1]]
    <3> HIDE DEF step
    <3> QED
      BY <1>4, <2>1 DEF Recursive
  <2> QED
    BY <2>2
<1> QED
  BY <1>4, <1>5 DEF Offsets, Recursive

\* They do not decrease.
LEMMA OffsetsGrow ==
  ASSUME NEW S, NEW s \in Seq(Seq(S)), NEW off, Offsets(off, s),
         NEW k \in 0..Len(s), NEW i \in 0..k
  PROVE  off[i] <= off[k]
<1> DEFINE G == {j \in 0..(k - i) : off[i] <= off[i + j]}
<1>1. k - i \in Nat /\ i \in 0..Len(s) /\ \A j \in 0..Len(s) : off[j] \in Nat
  BY DEF Offsets
<1>2. 0 \in G
  BY <1>1
<1>3. ASSUME NEW j \in 0..((k - i) - 1), j \in G PROVE j + 1 \in G
  <2>1. PICK n \in 1..Len(s) : n = i + (j + 1)
    OBVIOUS
  <2>2. n - 1 = i + j /\ n - 1 \in 0..Len(s) /\ n \in 0..Len(s)
    BY <2>1
  <2>3. off[n] = off[n - 1] + Len(s[n]) /\ Len(s[n]) \in Nat
    BY DEF Offsets
  <2>4. off[i] <= off[n]
    BY <1>1, <1>3, <2>2, <2>3
  <2> QED
    BY <2>1, <2>4
<1>4. 0..(k - i) \subseteq G
  <2> HIDE DEF G
  <2> QED
    BY <1>1, <1>2, <1>3, UpTo
<1>5. k - i \in 0..(k - i) /\ i + (k - i) = k
  BY <1>1
<1>6. off[i] <= off[i + (k - i)]
  BY <1>4, <1>5
<1> QED
  BY <1>5, <1>6

\* A place in a part is a place in what the part is in.
LEMMA PlaceInPart == \A a, b, c \in Nat : a + b <= c => \A x \in 1..b : a + x \in 1..c
  OBVIOUS

\* One more part.
LEMMA OneMorePart ==
  ASSUME NEW S, NEW s \in Seq(Seq(S)), NEW off, Offsets(off, s), NEW k \in 1..Len(s),
         NEW t, Flat(t, s, k - 1, off, S)
  PROVE  Flat(t \o s[k], s, k, off, S)
<1>1. t \in Seq(S) /\ Len(t) = off[k - 1] /\ s[k] \in Seq(S) /\ k - 1 \in 0..Len(s)
  BY DEF Flat
<1>2. off[k] = off[k - 1] + Len(s[k]) /\ off[k - 1] \in Nat /\ Len(s[k]) \in Nat
  BY <1>1 DEF Offsets
<1> DEFINE u == s[k]
<1>3. t \o u \in Seq(S) /\ Len(t \o u) = off[k]
  <2>1. t \o u \in Seq(S) /\ Len(t \o u) = Len(t) + Len(u)
    <3>1. u \in Seq(S)
      BY <1>1
    <3> HIDE DEF u
    <3> QED
      BY <1>1, <3>1, ConcatProperties
  <2> QED
    BY <1>1, <1>2, <2>1
<1>4. ASSUME NEW i \in 1..k, NEW j \in 1..Len(s[i])
      PROVE  (t \o s[k])[off[i - 1] + j] = s[i][j]
  <2>1. CASE i = k
    <3>1. j \in 1..Len(s[k]) /\ off[i - 1] = Len(t)
      BY <1>1, <2>1
    <3>2. (t \o u)[Len(t) + j] = u[j]
      <4>1. j \in 1..Len(u) /\ u \in Seq(S) /\ Len(u) \in Nat
        BY <1>1, <1>2, <3>1
      <4> HIDE DEF u
      <4>2. Len(t) \in Nat
        BY <1>1
      <4>3. /\ Len(t) + j \in 1..(Len(t) + Len(u))
            /\ ~(Len(t) + j <= Len(t)) /\ (Len(t) + j) - Len(t) = j
        BY <4>1, <4>2
      <4>4. \A x \in 1..(Len(t) + Len(u)) :
               (t \o u)[x] = IF x <= Len(t) THEN t[x] ELSE u[x - Len(t)]
        BY <1>1, <4>1, ConcatProperties
      <4> QED
        BY <4>3, <4>4
    <3> QED
      BY <2>1, <3>1, <3>2
  <2>2. CASE i # k
    <3>1. i \in 1..(k - 1) /\ i \in 0..(k - 1) /\ i \in 1..Len(s) /\ i - 1 \in 0..Len(s)
      BY <2>2
    <3>2. t[off[i - 1] + j] = s[i][j]
      BY <3>1 DEF Flat
    <3>3. off[i] <= off[k - 1]
      BY <1>1, <3>1, OffsetsGrow
    <3>4. off[i] = off[i - 1] + Len(s[i]) /\ off[i - 1] \in Nat
      BY <3>1 DEF Offsets
    <3>5. Len(s[i]) \in Nat
      BY <3>1
    <3>6. PICK m : m = off[i - 1] + j
      OBVIOUS
    <3>7. m \in 1..Len(t)
      <4>1. Len(t) = off[k - 1] /\ Len(t) \in Nat
        BY <1>1, <1>2
      <4>2. PICK a \in Nat, b \in Nat, c \in Nat : a = off[i - 1] /\ b = Len(s[i]) /\ c = Len(t)
        BY <3>4, <3>5, <4>1
      <4>3. off[i] = a + b /\ off[i] <= c
        BY <3>3, <3>4, <4>1, <4>2
      <4>4. a + b <= c /\ j \in 1..b
        BY <4>2, <4>3
      <4>5. a + j \in 1..c
        BY <4>4, PlaceInPart
      <4> QED
        BY <3>6, <4>2, <4>5
    <3>8. (t \o u)[m] = t[m]
      <4>1. u \in Seq(S)
        BY <1>1
      <4> HIDE DEF u
      <4> QED
        BY <1>1, <3>7, <4>1
    <3> QED
      BY <3>2, <3>6, <3>8
  <2> QED
    BY <2>1, <2>2
<1> QED
  BY <1>3, <1>4 DEF Flat

\* FlattenSeq puts all parts one after the other.
LEMMA Flattened ==
  ASSUME NEW S, NEW s \in Seq(Seq(S)), NEW off, Offsets(off, s)
  PROVE  Flat(FlattenSeq(s), s, Len(s), off, S)
<1>1. CASE Len(s) = 0
  <2>1. FlattenSeq(s) = s
    BY <1>1, Zenon DEF FlattenSeq
  <2>2. s = << >> /\ << >> \in Seq(S)
    BY <1>1
  <2>3. off[0] = 0
    BY DEF Offsets
  <2>4. Flat(<< >>, s, 0, off, S)
    BY <2>2, <2>3 DEF Flat
  <2> QED
    BY <1>1, <2>1, <2>2, <2>4
<1>2. CASE Len(s) # 0
  <2>1. PICK n \in Nat \ {0} : n = Len(s)
    BY <1>2
  <2> DEFINE flatten[i \in 1..Len(s)] == IF i = 1 THEN s[i] ELSE flatten[i - 1] \o s[i]
             step == [k \in 1..(n - 1) |-> [x \in Seq(S) |-> x \o s[k + 1]]]
  <2>2. FlattenSeq(s) = flatten[Len(s)]
    BY <1>2, Zenon DEF FlattenSeq
  <2>3. \A k \in 1..n : s[k] \in Seq(S)
    BY <2>1
  <2>4. n - 1 \in Nat /\ 1 \in 1..n /\ s[1] \in Seq(S)
    BY <2>3
  <2>5. step \in [1..(n - 1) -> [Seq(S) -> Seq(S)]]
    <3>1. \A k \in 1..(n - 1) : s[k + 1] \in Seq(S)
      BY <2>3
    <3> QED
      BY <3>1
  <2>6. PICK g : Recursive(g, n - 1, Seq(S), s[1], step)
    <3> HIDE DEF step
    <3> QED
      BY <2>4, <2>5, Recursion
  <2> DEFINE f == [i \in 1..n |-> g[i - 1]]
  <2>7. ASSUME NEW i \in 1..n
        PROVE  f[i] = IF i = 1 THEN s[i] ELSE f[i - 1] \o s[i]
    <3>1. CASE i = 1
      <4>1. f[i] = g[0]
        BY <3>1
      <4>2. g[0] = s[1]
        BY <2>6 DEF Recursive
      <4> HIDE DEF f
      <4> QED
        BY <3>1, <4>1, <4>2
    <3>2. CASE i # 1
      <4>1. i - 1 \in 1..(n - 1) /\ i - 1 \in 1..n /\ (i - 1) - 1 \in 0..(n - 1)
            /\ (i - 1) + 1 = i
        BY <3>2
      <4>2. g[(i - 1) - 1] \in Seq(S) /\ g[i - 1] = step[i - 1][g[(i - 1) - 1]]
        <5> HIDE DEF step
        <5> QED
          BY <2>6, <4>1 DEF Recursive
      <4>3. g[i - 1] = g[(i - 1) - 1] \o s[i]
        BY <4>1, <4>2
      <4>4. f[i] = g[i - 1] /\ f[i - 1] = g[(i - 1) - 1]
        BY <4>1
      <4> HIDE DEF f
      <4> QED
        BY <3>2, <4>3, <4>4
    <3> QED
      BY <3>1, <3>2
  <2>8. flatten = [i \in 1..Len(s) |-> IF i = 1 THEN s[i] ELSE flatten[i - 1] \o s[i]]
    <3>1. f = [i \in 1..Len(s) |-> IF i = 1 THEN s[i] ELSE f[i - 1] \o s[i]]
      <4>1. f = [i \in 1..n |-> f[i]]
        OBVIOUS
      <4> HIDE DEF f
      <4> QED
        BY <2>1, <2>7, <4>1
    <3>2. \E h : h = [i \in 1..Len(s) |-> IF i = 1 THEN s[i] ELSE h[i - 1] \o s[i]]
      BY <3>1
    <3> QED
      BY <3>2, Zenon
  <2> HIDE DEF flatten
  <2> DEFINE G == {k \in 0..(n - 1) : Flat(flatten[k + 1], s, k + 1, off, S)}
  <2>9. off[0] = 0 /\ off[1] = off[0] + Len(s[1])
    BY <2>1 DEF Offsets
  <2>10. 0 \in G
    <3>1. flatten[1] = s[1]
      BY <2>1, <2>4, <2>8
    <3>2. off[1] = Len(s[1])
      BY <2>4, <2>9
    <3>3. Flat(s[1], s, 1, off, S)
      BY <2>4, <2>9, <3>2 DEF Flat
    <3>4. 0 \in 0..(n - 1) /\ 0 + 1 = 1
      BY <2>4
    <3> QED
      BY <3>1, <3>3, <3>4
  <2>11. ASSUME NEW k \in 0..((n - 1) - 1), k \in G PROVE k + 1 \in G
    <3>1. PICK j \in 1..Len(s) : j = (k + 1) + 1
      BY <2>1
    <3>2. j # 1 /\ j - 1 = k + 1 /\ k + 1 \in 0..(n - 1)
      BY <3>1
    <3>3. flatten[j] = flatten[j - 1] \o s[j]
      BY <2>8, <3>2
    <3>4. Flat(flatten[j - 1], s, j - 1, off, S)
      BY <2>11, <3>2
    <3>5. Flat(flatten[j], s, j, off, S)
      BY <3>3, <3>4, OneMorePart
    <3> QED
      BY <3>1, <3>2, <3>5
  <2>12. 0..(n - 1) \subseteq G
    <3> HIDE DEF G
    <3> QED
      BY <2>4, <2>10, <2>11, UpTo
  <2>13. n - 1 \in G /\ (n - 1) + 1 = n
    <3>1. n - 1 \in 0..(n - 1) /\ (n - 1) + 1 = n
      BY <2>4
    <3> HIDE DEF G
    <3> QED
      BY <2>12, <3>1
  <2>14. Flat(flatten[n], s, n, off, S)
    BY <2>13
  <2> QED
    BY <2>1, <2>2, <2>14
<1> QED
  BY <1>1, <1>2

================================================================================

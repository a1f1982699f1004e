-------------------------- MODULE RecursionTheorems --------------------------
(***************************************************************************)
(* Induction over the natural numbers, as a fact about sets of numbers,    *)
(* and the existence of functions that are defined by recursion.  The      *)
(* recursion is the parameter of this module: a module that defines a      *)
(* function recursively instantiates it and learns that the definition     *)
(* defines something.                                                      *)
(***************************************************************************)
EXTENDS Integers, Sequences, WellFoundedInduction, TLAPS

CONSTANT
  Value(_, _, _)    \* Value(c, k, v): the value at k, where v is the one before it

\* A nonempty set of natural numbers has a least element.
LEMMA LeastNumber ==
  ASSUME NEW S, S \subseteq Nat, S # {}
  PROVE  \E x \in S : \A y \in S : x <= y
<1>1. PICK x \in S : \A y \in S : ~ (<<y, x>> \in OpToRel(<, Nat))
  BY NatLessThanWellFounded, WFMin
<1>2. ASSUME NEW y \in S PROVE x <= y
  <2>1. x \in Nat /\ y \in Nat
    OBVIOUS
  <2>2. CASE y < x
    <3>1. <<y, x>> \in Nat \X Nat /\ <<y, x>>[1] = y /\ <<y, x>>[2] = x
      BY <2>1
    <3>2. <<y, x>> \in OpToRel(<, Nat)
      BY <2>2, <3>1 DEF OpToRel
    <3> QED BY <1>1, <3>2
  <2> QED BY <2>1, <2>2
<1> QED BY <1>2

\* A set that has 0, and with a number less than n the next one, has all
\* numbers up to n.
LEMMA Induction ==
  ASSUME NEW n \in Nat, NEW S, 0 \in S, \A k \in 0..n : k < n /\ k \in S => k + 1 \in S
  PROVE  \A k \in 0..n : k \in S
<1> DEFINE Bad == {k \in 0..n : k \notin S}
<1> SUFFICES ASSUME Bad # {} PROVE FALSE
  OBVIOUS
<1>1. Bad \subseteq Nat
  OBVIOUS
<1>2. PICK b \in Bad : \A y \in Bad : b <= y
  <2> HIDE DEF Bad
  <2> QED BY <1>1, LeastNumber
<1>3. b \in 0..n /\ b # 0 /\ b - 1 \in 0..n /\ b - 1 < n /\ (b - 1) + 1 = b
  OBVIOUS
<1>4. b - 1 \notin Bad
  BY <1>2, <1>3
<1> QED BY <1>3, <1>4

\* A function that has these values up to n.
Follows(f, c, n) == f = [k \in 0..n |-> Value(c, k, f[k - 1])]

\* There is one, if the value at 0 needs no other.
THEOREM Recursion ==
  ASSUME NEW c, NEW n \in Nat, \A v, w : Value(c, 0, v) = Value(c, 0, w)
  PROVE  \E f : Follows(f, c, n)
<1> DEFINE S == {k \in 0..n : \E f : Follows(f, c, k)}
<1>1. 0 \in S
  <2> DEFINE f == [k \in 0..0 |-> Value(c, 0, 0)]
  <2>1. f = [k \in 0..0 |-> Value(c, k, f[k - 1])]
    OBVIOUS
  <2> HIDE DEF f
  <2> QED BY <2>1 DEF Follows
<1>2. ASSUME NEW k \in 0..n, k < n, k \in S PROVE k + 1 \in S
  <2>1. PICK f : Follows(f, c, k)
    BY <1>2
  <2> DEFINE g == [i \in 0..(k + 1) |-> IF i = k + 1 THEN Value(c, i, f[k]) ELSE f[i]]
  <2>2. ASSUME NEW i \in 0..(k + 1) PROVE g[i] = Value(c, i, g[i - 1])
    <3>1. CASE i = k + 1
      <4>1. i - 1 = k /\ k \in 0..(k + 1) /\ k # k + 1
        BY <3>1
      <4>2. g[k] = f[k]
        BY <4>1
      <4> QED BY <3>1, <4>1, <4>2
    <3>2. CASE i # k + 1
      <4>1. i \in 0..k
        BY <3>2
      <4>2. f[i] = Value(c, i, f[i - 1])
        BY <2>1, <4>1 DEF Follows
      <4>3. CASE i = 0
        BY <4>2, <4>3
      <4>4. CASE i # 0
        <5>1. i - 1 \in 0..(k + 1) /\ i - 1 # k + 1
          BY <4>1, <4>4
        <5>2. g[i - 1] = f[i - 1]
          BY <5>1
        <5> QED BY <4>2, <5>2, <3>2
      <4> QED BY <4>3, <4>4
    <3> QED BY <3>1, <3>2
  <2>3. g = [i \in 0..(k + 1) |-> Value(c, i, g[i - 1])]
    <3>1. g = [i \in 0..(k + 1) |-> g[i]]
      OBVIOUS
    <3> HIDE DEF g
    <3> QED BY <2>2, <3>1
  <2> HIDE DEF g
  <2> QED BY <1>2, <2>3 DEF Follows
<1>3. \A k \in 0..n : k \in S
  <2> HIDE DEF S
  <2> QED BY <1>1, <1>2, Induction
<1> QED BY <1>3

\* The same from above: the value at k is computed from the one at k + 1.
Leads(f, c, n) == f = [k \in 1..(n + 1) |-> Value(c, k, f[k + 1])]

\* There is such a function, if the value at the end needs no other.
THEOREM Descent ==
  ASSUME NEW c, NEW n \in Nat, \A v, w : Value(c, n + 1, v) = Value(c, n + 1, w)
  PROVE  \E f : Leads(f, c, n)
<1> DEFINE From(d, f) == f = [k \in (n + 1 - d)..(n + 1) |-> Value(c, k, f[k + 1])]
           S == {d \in 0..n : \E f : From(d, f)}
<1>1. 0 \in S
  <2> DEFINE f == [k \in (n + 1 - 0)..(n + 1) |-> Value(c, n + 1, 0)]
  <2>1. ASSUME NEW k \in (n + 1 - 0)..(n + 1) PROVE f[k] = Value(c, k, f[k + 1])
    <3>1. k = n + 1
      OBVIOUS
    <3> QED BY <3>1
  <2>2. f = [k \in (n + 1 - 0)..(n + 1) |-> f[k]]
    OBVIOUS
  <2> HIDE DEF f
  <2>3. f = [k \in (n + 1 - 0)..(n + 1) |-> Value(c, k, f[k + 1])]
    BY <2>1, <2>2
  <2> QED BY <2>3
<1>2. ASSUME NEW d \in 0..n, d < n, d \in S PROVE d + 1 \in S
  <2>1. PICK f : From(d, f)
    BY <1>2
  <2> DEFINE b == n - d
             D == (n + 1 - (d + 1))..(n + 1)
             g == [i \in D |-> IF i = b THEN Value(c, i, f[b + 1]) ELSE f[i]]
  <2>2. ASSUME NEW i \in D PROVE g[i] = Value(c, i, g[i + 1])
    <3>1. CASE i = b
      <4>1. b + 1 \in D /\ b + 1 # b
        BY <1>2
      <4>2. g[b + 1] = f[b + 1]
        BY <4>1
      <4> QED BY <3>1, <4>2
    <3>2. CASE i # b
      <4>1. i \in (n + 1 - d)..(n + 1)
        BY <1>2, <3>2
      <4>2. f[i] = Value(c, i, f[i + 1])
        BY <2>1, <4>1
      <4>3. CASE i = n + 1
        BY <3>2, <4>2, <4>3
      <4>4. CASE i # n + 1
        <5>1. i + 1 \in D /\ i + 1 # b
          BY <4>1, <4>4
        <5>2. g[i + 1] = f[i + 1]
          BY <5>1
        <5> QED BY <4>2, <5>2, <3>2
      <4> QED BY <4>3, <4>4
    <3> QED BY <3>1, <3>2
  <2>3. g = [i \in D |-> Value(c, i, g[i + 1])]
    <3>1. g = [i \in D |-> g[i]]
      OBVIOUS
    <3> HIDE DEF g, D
    <3> QED BY <2>2, <3>1
  <2> HIDE DEF g
  <2> QED BY <1>2, <2>3
<1>3. \A d \in 0..n : d \in S
  <2> HIDE DEF S
  <2> QED BY <1>1, <1>2, Induction
<1>4. PICK f : From(n, f)
  BY <1>3
<1>5. n + 1 - n = 1
  OBVIOUS
<1>6. Leads(f, c, n)
  BY <1>4, <1>5 DEF Leads
<1> QED BY <1>6

------------------------------------------------------------------------------
(* Folds over a sequence.                                                  *)

\* The greatest number of a set.
Greatest(S) == CHOOSE x \in S : \A y \in S : x >= y

\* It exists in a nonempty set of numbers with a bound.
LEMMA GreatestNumber ==
  ASSUME NEW n \in Nat, NEW S, S \subseteq 0..n, S # {}
  PROVE  Greatest(S) \in S /\ \A y \in S : Greatest(S) >= y
<1> DEFINE R == {n - x : x \in S}
<1>1. R \subseteq Nat /\ R # {}
  OBVIOUS
<1>2. PICK r \in R : \A q \in R : r <= q
  <2> HIDE DEF R
  <2> QED BY <1>1, LeastNumber
<1>3. PICK x \in S : r = n - x
  OBVIOUS
<1>4. ASSUME NEW y \in S PROVE x >= y
  <2>1. n - x <= n - y
    BY <1>2, <1>3
  <2> QED BY <2>1
<1>5. \E z \in S : \A y \in S : z >= y
  BY <1>4
<1> QED BY <1>5, Zenon DEF Greatest

\* FoldLeft of SequencesExt, where Value(c, x, v) adds the element x to v: it
\* goes through the sets of indices, and takes the greatest one last.
FoldFrom(iter, S, c, base, s) ==
  IF S = {} THEN base ELSE Value(c, s[Greatest(S)], iter[S \ {Greatest(S)}])

\* The value of the fold: the one at the whole domain.
Fold(c, base, s) ==
  (CHOOSE iter : iter = [S \in SUBSET DOMAIN s |-> FoldFrom(iter, S, c, base, s)])[DOMAIN s]

\* The values after each element.
Steps(f, c, base, s) ==
  f[0] = base /\ \A k \in 1..Len(s) : f[k] = Value(c, s[k], f[k - 1])

\* A fold adds one element after the other.
THEOREM FoldSteps ==
  ASSUME NEW c, NEW base, NEW T, NEW s \in Seq(T)
  PROVE  \E f : Steps(f, c, base, s) /\ Fold(c, base, s) = f[Len(s)]
<1> DEFINE n == Len(s)
           Sets(k) == SUBSET (1..k)
           Folds(iter, k) == \A S \in Sets(k) : iter[S] = FoldFrom(iter, S, c, base, s)
           K == {k \in 0..n : \E iter : Folds(iter, k)}
<1>0. n \in Nat /\ DOMAIN s = 1..n
  OBVIOUS
<1>1. 0 \in K
  <2>1. Sets(0) = {{}}
    OBVIOUS
  <2>2. Folds([S \in {{}} |-> base], 0)
    BY <2>1 DEF FoldFrom
  <2> HIDE DEF Folds
  <2> QED BY <1>0, <2>2
<1>2. ASSUME NEW k \in 0..n, k < n, k \in K PROVE k + 1 \in K
  <2>1. PICK iter : Folds(iter, k)
    BY <1>2
  <2> DEFINE next == [S \in Sets(k + 1) |->
                        IF k + 1 \in S THEN Value(c, s[k + 1], iter[S \ {k + 1}]) ELSE iter[S]]
  <2>2. ASSUME NEW S \in Sets(k + 1)
        PROVE  next[S] = FoldFrom(next, S, c, base, s)
    <3>0. k \in Nat /\ k + 1 \in Nat
      BY <1>0
    <3>1. CASE k + 1 \in S
      <4>1. S \subseteq 0..(k + 1) /\ S # {}
        BY <3>0, <3>1
      <4>2. Greatest(S) \in S /\ \A y \in S : Greatest(S) >= y
        BY <3>0, <4>1, GreatestNumber
      <4>3. Greatest(S) = k + 1
        <5>1. Greatest(S) \in 0..(k + 1) /\ Greatest(S) >= k + 1
          BY <3>1, <4>1, <4>2
        <5> QED BY ONLY <3>0, <5>1
      <4>4. S \ {k + 1} \in Sets(k + 1) /\ k + 1 \notin S \ {k + 1}
        OBVIOUS
      <4>5. next[S \ {k + 1}] = iter[S \ {k + 1}]
        BY <4>4
      <4>6. next[S] = Value(c, s[k + 1], iter[S \ {k + 1}])
        BY <3>1
      <4> HIDE DEF next
      <4> QED BY <4>1, <4>3, <4>5, <4>6 DEF FoldFrom
    <3>2. CASE k + 1 \notin S
      <4>1. S \in Sets(k)
        BY <3>0, <3>2
      <4>2. iter[S] = FoldFrom(iter, S, c, base, s)
        BY <2>1, <4>1
      <4>3. next[S] = iter[S]
        BY <3>2
      <4>4. CASE S = {}
        <5> HIDE DEF next
        <5> QED BY <4>2, <4>3, <4>4 DEF FoldFrom
      <4>5. CASE S # {}
        <5>1. S \subseteq 0..k
          BY <3>0, <4>1
        <5>2. Greatest(S) \in S
          BY <3>0, <4>5, <5>1, GreatestNumber
        <5>3. S \ {Greatest(S)} \in Sets(k + 1) /\ k + 1 \notin S \ {Greatest(S)}
          BY <3>2
        <5>4. next[S \ {Greatest(S)}] = iter[S \ {Greatest(S)}]
          BY <5>3
        <5> HIDE DEF next
        <5> QED BY <4>2, <4>3, <4>5, <5>4 DEF FoldFrom
      <4> QED BY <4>4, <4>5
    <3> QED BY <3>1, <3>2
  <2>3. k + 1 \in 0..n
    BY <1>0, <1>2
  <2> HIDE DEF next, Sets
  <2>4. Folds(next, k + 1)
    BY <2>2
  <2> HIDE DEF Folds
  <2> QED BY <2>3, <2>4
<1>3. \A k \in 0..n : k \in K
  <2> HIDE DEF K, n
  <2> QED BY <1>0, <1>1, <1>2, Induction
<1>4. PICK iter : Folds(iter, n)
  <2>1. n \in 0..n
    BY <1>0
  <2> HIDE DEF Folds, n
  <2> QED BY <1>3, <2>1
<1> DEFINE table == [S \in SUBSET DOMAIN s |-> iter[S]]
           Is(t) == t = [S \in SUBSET DOMAIN s |-> FoldFrom(t, S, c, base, s)]
<1>5. Is(table)
  <2>1. ASSUME NEW S \in SUBSET DOMAIN s PROVE table[S] = FoldFrom(table, S, c, base, s)
    <3>1. table[S] = iter[S] /\ S \in Sets(n)
      BY <1>0
    <3>2. iter[S] = FoldFrom(iter, S, c, base, s)
      BY <1>4, <3>1
    <3>3. table[S \ {Greatest(S)}] = iter[S \ {Greatest(S)}]
      OBVIOUS
    <3> HIDE DEF table
    <3> QED BY <3>1, <3>2, <3>3 DEF FoldFrom
  <2>2. table = [S \in SUBSET DOMAIN s |-> table[S]]
    OBVIOUS
  <2> HIDE DEF table
  <2> QED BY <2>1, <2>2
<1>6. PICK t : t = CHOOSE u : Is(u)
  OBVIOUS
<1>7. Is(t)
  <2> HIDE DEF Is, table
  <2> QED BY <1>5, <1>6, Zenon
<1>8. Fold(c, base, s) = t[DOMAIN s]
  BY <1>6, Zenon DEF Fold
<1> DEFINE f == [k \in 0..n |-> t[1..k]]
<1>9. f[0] = base
  <2>1. 1..0 = {} /\ {} \in SUBSET DOMAIN s /\ 0 \in 0..n
    BY <1>0
  <2>2. t[{}] = FoldFrom(t, {}, c, base, s)
    BY <1>7, <2>1
  <2> QED BY <2>1, <2>2 DEF FoldFrom
<1>10. ASSUME NEW k \in 1..Len(s) PROVE f[k] = Value(c, s[k], f[k - 1])
  <2>0. k \in 1..n
    BY ONLY <1>10
  <2>1. /\ 1..k \in SUBSET DOMAIN s /\ 1..k # {} /\ k \in 1..k /\ k \in Nat
        /\ 1..k \subseteq 0..k /\ k \in 0..n /\ k - 1 \in 0..n
    <3> HIDE DEF n
    <3>1. k \in Nat /\ k >= 1 /\ k <= n
      BY ONLY <1>0, <2>0
    <3>2. 1..k \subseteq 1..n /\ k \in 1..k /\ 1..k \subseteq 0..k /\ k \in 0..n /\ k - 1 \in 0..n
      BY ONLY <1>0, <3>1
    <3> QED BY <1>0, <3>1, <3>2
  <2>2. t[1..k] = FoldFrom(t, 1..k, c, base, s)
    BY <1>7, <2>1
  <2>3. Greatest(1..k) \in 1..k /\ \A y \in 1..k : Greatest(1..k) >= y
    BY <2>1, GreatestNumber
  <2>4. Greatest(1..k) = k
    BY <2>1, <2>3
  <2>5. (1..k) \ {k} = 1..(k - 1)
    BY <2>1
  <2>6. t[1..k] = Value(c, s[k], t[1..(k - 1)])
    BY <2>1, <2>2, <2>4, <2>5 DEF FoldFrom
  <2> QED BY <2>1, <2>6
<1>11. f[n] = t[DOMAIN s]
  BY <1>0
<1> HIDE DEF f
<1>12. Steps(f, c, base, s)
  BY <1>9, <1>10 DEF Steps
<1> QED BY <1>8, <1>11, <1>12

\* The base is in the first set, and a step leads from one set into the next.
Keeps(sets, c, base, s) ==
  /\ base \in sets[0]
  /\ \A k \in 1..Len(s) : \A v \in sets[k - 1] : Value(c, s[k], v) \in sets[k]

\* An invariant of a fold: the values after k elements are in the k-th set.
THEOREM FoldKeeps ==
  ASSUME NEW c, NEW base, NEW T, NEW s \in Seq(T), NEW sets, Keeps(sets, c, base, s)
  PROVE  Fold(c, base, s) \in sets[Len(s)]
<1>1. PICK f : Steps(f, c, base, s) /\ Fold(c, base, s) = f[Len(s)]
  BY FoldSteps
<1> DEFINE n == Len(s)
           K == {k \in 0..n : f[k] \in sets[k]}
<1>2. n \in Nat
  OBVIOUS
<1>3. 0 \in K
  BY <1>1, <1>2 DEF Steps, Keeps
<1>4. ASSUME NEW k \in 0..n, k < n, k \in K PROVE k + 1 \in K
  <2>1. k + 1 \in 1..n /\ k + 1 \in 0..n /\ (k + 1) - 1 = k
    BY ONLY <1>2, <1>4
  <2>2. f[k + 1] = Value(c, s[k + 1], f[k])
    BY <1>1, <2>1 DEF Steps
  <2>3. f[k] \in sets[(k + 1) - 1]
    BY <1>4, <2>1
  <2>4. Value(c, s[k + 1], f[k]) \in sets[k + 1]
    BY <2>1, <2>3 DEF Keeps
  <2> QED BY <2>1, <2>2, <2>4
<1>5. \A k \in 0..n : k \in K
  <2> HIDE DEF K, n
  <2> QED BY <1>2, <1>3, <1>4, Induction
<1> QED BY <1>1, <1>2, <1>5

\* A fold over nothing is its base.
THEOREM FoldNothing ==
  ASSUME NEW c, NEW base
  PROVE  Fold(c, base, << >>) = base
<1>1. << >> \in Seq({}) /\ Len(<< >>) = 0
  OBVIOUS
<1>2. PICK f : Steps(f, c, base, << >>) /\ Fold(c, base, << >>) = f[Len(<< >>)]
  BY <1>1, FoldSteps
<1> QED BY <1>1, <1>2 DEF Steps

\* A fold over one element more takes one step more.
THEOREM FoldAppended ==
  ASSUME NEW c, NEW base, NEW T, NEW s \in Seq(T), NEW x \in T
  PROVE  Fold(c, base, Append(s, x)) = Value(c, x, Fold(c, base, s))
<1> DEFINE longer == Append(s, x)
           n == Len(s)
<1>1. longer \in Seq(T) /\ n \in Nat /\ Len(longer) = n + 1
  OBVIOUS
<1>2. longer[n + 1] = x /\ \A k \in 1..n : longer[k] = s[k]
  OBVIOUS
<1> HIDE DEF longer
<1>3. PICK f : Steps(f, c, base, longer) /\ Fold(c, base, longer) = f[Len(longer)]
  BY <1>1, FoldSteps
<1> DEFINE sets == [k \in 0..n |-> {f[k]}]
<1>4. Keeps(sets, c, base, s)
  <2>1. base \in sets[0]
    BY <1>1, <1>3 DEF Steps
  <2>2. ASSUME NEW k \in 1..n, NEW v \in sets[k - 1] PROVE Value(c, s[k], v) \in sets[k]
    <3> HIDE DEF n
    <3>1. k \in 0..n /\ k - 1 \in 0..n /\ k \in 1..(n + 1)
      BY ONLY <1>1, <2>2
    <3>2. v = f[k - 1] /\ f[k] = Value(c, longer[k], f[k - 1])
      BY <1>1, <1>3, <3>1 DEF Steps
    <3> QED BY <1>2, <3>1, <3>2
  <2> HIDE DEF sets
  <2> QED BY <2>1, <2>2 DEF Keeps
<1>5. Fold(c, base, s) \in sets[n]
  <2> HIDE DEF sets
  <2> QED BY <1>4, FoldKeeps
<1>6. Fold(c, base, s) = f[n]
  BY <1>1, <1>5
<1>7. n + 1 \in 1..(n + 1) /\ (n + 1) - 1 = n
  <2> HIDE DEF n
  <2> QED BY ONLY <1>1
<1>8. f[n + 1] = Value(c, longer[n + 1], f[n])
  BY <1>1, <1>3, <1>7 DEF Steps
<1> QED BY <1>1, <1>2, <1>3, <1>6, <1>8 DEF longer
==============================================================================

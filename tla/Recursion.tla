------------------------------ MODULE Recursion ------------------------------
(***************************************************************************)
(* Induction and recursion, for the proofs.  The induction theorems of the *)
(* library take a predicate; the lemmas here take a set instead, and say   *)
(* that a function of given steps exists and is the only one over the      *)
(* numbers up to n and over the parts of a sequence of sequences, and that *)
(* one exists down links that have no cycle.                               *)
(***************************************************************************)
EXTENDS Naturals, Sequences, SequencesExt, FiniteSetTheorems, SequenceTheorems, WellFoundedInduction, TLAPS

-----------------------------------------------------------------------------
(* Numbers.                                                                *)

(* A non-empty set of numbers has a least one. *)
LEMMA LeastNumber ==
  ASSUME NEW T \in SUBSET Nat, T # {}
  PROVE  \E n \in T : \A k \in T : k >= n
<1>1. PICK n \in T : \A k \in T : <<k, n>> \notin OpToRel(<, Nat)
  <2> DEFINE R == OpToRel(<, Nat)
  <2>1. IsWellFoundedOn(R, Nat)
    BY NatLessThanWellFounded
  <2> HIDE DEF R
  <2>2. \E n \in T : \A k \in T : ~(<<k, n>> \in R)
    BY <2>1, WFMin
  <2> QED
    BY <2>2 DEF R
<1>2. ASSUME NEW k \in T PROVE k >= n
  <2>1. k \in Nat /\ n \in Nat
    OBVIOUS
  <2>2. ~(k < n)
    BY <1>1, <2>1 DEF OpToRel
  <2> QED
    BY <2>1, <2>2
<1> QED
  BY <1>2

(* A non-empty set of places of a sequence has a last one.                 *)
LEMMA LargestPlace ==
  ASSUME NEW n \in Nat, NEW S \in SUBSET (1..n), S # {}
  PROVE  \E i \in S : \A j \in S : j <= i
<1> DEFINE T == {n - i : i \in S}
<1>1. T \in SUBSET Nat /\ T # {}
  <2>1. \A i \in S : n - i \in Nat
    OBVIOUS
  <2> QED
    BY <2>1
<1>2. PICK k \in T : \A l \in T : l >= k
  <2> HIDE DEF T
  <2> QED
    BY <1>1, LeastNumber
<1>3. PICK i \in S : k = n - i
  BY <1>2
<1>4. ASSUME NEW j \in S PROVE j <= i
  <2>1. n - j \in T
    OBVIOUS
  <2>2. n - j >= n - i
    BY <1>2, <1>3, <2>1
  <2> QED
    BY <2>2
<1> QED
  BY <1>3, <1>4

(* Counting to n: a set that holds 0, and with a number the next, up to n. *)
LEMMA CountingUp ==
  ASSUME NEW n \in Nat, NEW T, 0 \in T, \A k \in 0..(n - 1) : k \in T => k + 1 \in T
  PROVE  0..n \subseteq T
<1> DEFINE Missing == {k \in 0..n : k \notin T}
<1> SUFFICES ASSUME Missing # {} PROVE FALSE
  OBVIOUS
<1>1. PICK k \in Missing : \A j \in Missing : j >= k
  <2>1. Missing \in SUBSET Nat
    OBVIOUS
  <2> HIDE DEF Missing
  <2> QED
    BY <2>1, LeastNumber
<1>2. k \in 0..n /\ k \notin T /\ k # 0
  BY <1>1
<1>3. k - 1 \in 0..(n - 1) /\ k - 1 \in 0..n /\ (k - 1) + 1 = k /\ ~(k - 1 >= k)
  BY <1>2
<1> QED
  BY <1>1, <1>2, <1>3

(* A function given by what it is at 0 and by a step from each number to   *)
(* the next.                                                               *)
Steps(n, S) == [(1..n) \X S -> S]

Follows(f, n, S, start, step) ==
  /\ f \in [0..n -> S]
  /\ f[0] = start
  /\ \A i \in 1..n : f[i] = step[<<i, f[i - 1]>>]

(* There is such a function.                                               *)
LEMMA RecursionExists ==
  ASSUME NEW n \in Nat, NEW S, NEW start \in S, NEW step \in Steps(n, S)
  PROVE  \E f : Follows(f, n, S, start, step)
<1> DEFINE Runs(f, k) == f[0] = start /\ \A i \in 1..k : f[i] = step[<<i, f[i - 1]>>]
           T == {k \in 0..n : \E f \in [0..k -> S] : Runs(f, k)}
<1>1. 0 \in T
  <2> DEFINE f == [i \in 0..0 |-> start]
  <2>1. f \in [0..0 -> S] /\ Runs(f, 0) /\ 0 \in 0..n
    OBVIOUS
  <2> HIDE DEF f
  <2> QED
    BY <2>1
<1>2. ASSUME NEW k \in 0..(n - 1), k \in T PROVE k + 1 \in T
  <2>1. PICK f \in [0..k -> S] : Runs(f, k)
    BY <1>2
  <2> DEFINE g == [i \in 0..(k + 1) |-> IF i = k + 1 THEN step[<<k + 1, f[k]>>] ELSE f[i]]
  <2>2. g \in [0..(k + 1) -> S]
    <3>1. <<k + 1, f[k]>> \in (1..n) \X S
      OBVIOUS
    <3>2. step[<<k + 1, f[k]>>] \in S
      BY <3>1 DEF Steps
    <3>3. \A i \in 0..(k + 1) : i # k + 1 => i \in 0..k
      OBVIOUS
    <3> QED
      BY <3>2, <3>3
  <2>3. g[0] = start
    BY <2>1
  <2>4. ASSUME NEW i \in 1..(k + 1) PROVE g[i] = step[<<i, g[i - 1]>>]
    <3>1. i - 1 \in 0..k /\ i - 1 # k + 1 /\ i - 1 \in 0..(k + 1)
      OBVIOUS
    <3>2. g[i - 1] = f[i - 1]
      BY <3>1
    <3>3. CASE i = k + 1
      <4>1. i - 1 = k /\ g[i] = step[<<k + 1, f[k]>>]
        BY <3>3
      <4> HIDE DEF g
      <4> QED
        BY <3>2, <3>3, <4>1
    <3>4. CASE i # k + 1
      <4>1. i \in 1..k /\ g[i] = f[i]
        BY <3>4
      <4>2. f[i] = step[<<i, f[i - 1]>>]
        BY <2>1, <4>1
      <4> HIDE DEF g
      <4> QED
        BY <3>2, <4>1, <4>2
    <3> QED
      BY <3>3, <3>4
  <2>5. k + 1 \in 0..n
    OBVIOUS
  <2> HIDE DEF g
  <2> QED
    BY <2>2, <2>3, <2>4, <2>5
<1>3. n \in T
  <2> HIDE DEF T
  <2> QED
    BY <1>1, <1>2, CountingUp
<1>4. PICK f \in [0..n -> S] : Runs(f, n)
  BY <1>3
<1> QED
  BY <1>4 DEF Follows

(* It is the only one: what takes the same steps, as long as it stays      *)
(* within the values the steps are for, takes the same values.             *)
Tracks(g, n, S, start, step) ==
  /\ g[0] = start
  /\ \A i \in 1..n : g[i - 1] \in S => g[i] = step[<<i, g[i - 1]>>]

LEMMA RecursionUnique ==
  ASSUME NEW n \in Nat, NEW S, NEW start \in S, NEW step \in Steps(n, S),
         NEW f, Follows(f, n, S, start, step),
         NEW g, Tracks(g, n, S, start, step)
  PROVE  \A i \in 0..n : g[i] = f[i] /\ g[i] \in S
<1> DEFINE T == {i \in 0..n : g[i] = f[i]}
<1>1. 0 \in T
  BY DEF Follows, Tracks
<1>2. ASSUME NEW i \in 0..(n - 1), i \in T PROVE i + 1 \in T
  <2>1. i + 1 \in 1..n /\ i + 1 \in 0..n /\ (i + 1) - 1 = i /\ i \in 0..n
    OBVIOUS
  <2>2. g[i] = f[i] /\ f[i] \in S
    BY <1>2, <2>1 DEF Follows
  <2>3. f[i + 1] = step[<<i + 1, f[i]>>]
    BY <2>1 DEF Follows
  <2>4. g[i + 1] = step[<<i + 1, g[i]>>]
    BY <2>1, <2>2 DEF Tracks
  <2> QED
    BY <2>1, <2>2, <2>3, <2>4
<1>3. 0..n \subseteq T
  <2> HIDE DEF T
  <2> QED
    BY <1>1, <1>2, CountingUp
<1> QED
  BY <1>3 DEF Follows

(* A sum of bounded summands. *)
LEMMA SumBound ==
  ASSUME NEW n \in Nat, NEW c \in Nat, NEW f, f[0] = 0,
         \A i \in 1..n : \E w \in Nat : w <= c /\ f[i] = f[i - 1] + w
  PROVE  f[n] \in Nat /\ f[n] <= n * c
<1> DEFINE T == {i \in 0..n : f[i] \in Nat /\ f[i] <= i * c}
<1>1. 0 \in T
  OBVIOUS
<1>2. ASSUME NEW i \in 0..(n - 1), i \in T PROVE i + 1 \in T
  <2>1. i + 1 \in 1..n /\ i + 1 \in 0..n /\ (i + 1) - 1 = i /\ i \in Nat
    OBVIOUS
  <2>2. PICK w \in Nat : w <= c /\ f[i + 1] = f[i] + w
    BY <2>1
  <2>3. (i + 1) * c = i * c + c /\ i * c \in Nat
    BY <2>1
  <2> QED
    BY <1>2, <2>1, <2>2, <2>3
<1>3. 0..n \subseteq T
  <2> HIDE DEF T
  <2> QED
    BY <1>1, <1>2, CountingUp
<1> QED
  BY <1>3

-----------------------------------------------------------------------------
(* Sequences.                                                              *)

(* The parts, one after the other, and how far the first i of them reach. *)
LEMMA Flattening ==
  ASSUME NEW S, NEW n \in Nat, n >= 1, NEW parts \in [1..n -> Seq(S)]
  PROVE  \E flat \in [0..n -> Seq(S)] :
           /\ flat[0] = <<>>
           /\ \A i \in 1..n : flat[i] = flat[i - 1] \o parts[i]
           /\ FlattenSeq(parts) = flat[n]
<1> DEFINE step == [p \in (1..n) \X Seq(S) |-> p[2] \o parts[p[1]]]
           Flat(g) == g = [i \in 1..n |-> IF i = 1 THEN parts[i] ELSE g[i - 1] \o parts[i]]
<1>1. /\ 1 \in 1..n /\ 0 \in 0..n
      /\ \A i \in 1..n : i \in Nat /\ i \in 0..n /\ i - 1 \in 0..n
      /\ \A i \in 1..n : i # 1 => i - 1 \in 1..n
  OBVIOUS
<1>2. <<>> \in Seq(S)
  BY EmptySeq
<1>3. step \in Steps(n, Seq(S))
  <2>1. ASSUME NEW i \in 1..n, NEW t \in Seq(S) PROVE t \o parts[i] \in Seq(S)
    BY ConcatProperties
  <2> QED
    BY <2>1 DEF Steps
<1>4. PICK f : Follows(f, n, Seq(S), <<>>, step)
  <2> HIDE DEF step
  <2> QED
    BY <1>2, <1>3, RecursionExists
<1>5. /\ f \in [0..n -> Seq(S)] /\ f[0] = <<>>
      /\ \A i \in 1..n : f[i] = f[i - 1] \o parts[i]
  <2>1. ASSUME NEW i \in 1..n PROVE f[i] = f[i - 1] \o parts[i]
    <3>1. f[i - 1] \in Seq(S) /\ f[i] = step[<<i, f[i - 1]>>]
      BY <1>1, <1>4, <2>1 DEF Follows
    <3> QED
      BY <3>1
  <2> QED
    BY <1>4, <2>1 DEF Follows
<1>6. f[1] = parts[1]
  <2>1. parts[1] \in Seq(S) /\ f[1] = f[1 - 1] \o parts[1]
    BY <1>1, <1>5
  <2>2. 1 - 1 = 0
    OBVIOUS
  <2> QED
    BY <1>5, <2>1, <2>2, ConcatEmptySeq
<1> DEFINE restricted == [i \in 1..n |-> f[i]]
<1>7. Flat(restricted)
  <2>1. ASSUME NEW i \in 1..n, i # 1
        PROVE  restricted[i] = restricted[i - 1] \o parts[i]
    BY <1>1, <1>5, <2>1
  <2>2. 1 \in 1..n /\ restricted[1] = parts[1]
    BY <1>1, <1>6
  <2>3. restricted = [i \in 1..n |-> restricted[i]]
    OBVIOUS
  <2> HIDE DEF restricted
  <2> QED
    BY <2>1, <2>2, <2>3
<1>8. ASSUME NEW g, Flat(g) PROVE g[n] = f[n]
  <2> DEFINE T == {k \in 0..(n - 1) : g[k + 1] = f[k + 1]}
  <2>1. \A i \in 1..n : g[i] = IF i = 1 THEN parts[i] ELSE g[i - 1] \o parts[i]
    BY <1>8
  <2>2. 0 \in T
    BY <1>1, <1>6, <2>1
  <2>3. ASSUME NEW k \in 0..((n - 1) - 1), k \in T PROVE k + 1 \in T
    <3>1. /\ k + 2 \in 1..n /\ k + 2 # 1 /\ (k + 2) - 1 = k + 1
          /\ (k + 1) + 1 = k + 2 /\ k + 1 \in 0..(n - 1)
      BY <1>1
    <3>2. g[k + 2] = g[k + 1] \o parts[k + 2] /\ f[k + 2] = f[k + 1] \o parts[k + 2]
      BY <1>5, <2>1, <3>1
    <3> QED
      BY <2>3, <3>1, <3>2
  <2>4. 0..(n - 1) \subseteq T
    <3>1. n - 1 \in Nat
      OBVIOUS
    <3> HIDE DEF T
    <3> QED
      BY <2>2, <2>3, <3>1, CountingUp
  <2>5. n - 1 \in 0..(n - 1) /\ (n - 1) + 1 = n
    BY <1>1
  <2> QED
    BY <2>4, <2>5
<1>9. parts \in Seq(Seq(S)) /\ Len(parts) = n
  BY LenProperties
<1>10. FlattenSeq(parts) = (CHOOSE g : Flat(g))[n]
  BY <1>9 DEF FlattenSeq
<1>11. Flat(CHOOSE g : Flat(g))
  <2> HIDE DEF Flat
  <2> QED
    BY <1>7
<1> QED
  BY <1>5, <1>8, <1>10, <1>11

-----------------------------------------------------------------------------
(* Links.                                                                  *)

(* From each p of P the recursion goes on with next[p], or ends. *)
WellFounded(next, P) ==
  \A S \in SUBSET P : S # {} => \E p \in S : p \notin DOMAIN next \/ next[p] \notin S

Descends(f, P, V, next, base, step) ==
  /\ f \in [P -> V]
  /\ \A p \in P : f[p] = IF p \in DOMAIN next THEN step[<<p, f[next[p]]>>] ELSE base[p]

(* There is a function that descends: its graph is the least set of pairs  *)
(* that holds what the steps ask for.                                      *)
LEMMA DescentExists ==
  ASSUME NEW P, NEW V, NEW D \in SUBSET P, NEW next \in [D -> P], WellFounded(next, P),
         NEW base \in [P \ D -> V], NEW step \in [D \X V -> V]
  PROVE  \E f : Descends(f, P, V, next, base, step)
<1> DEFINE Closed(R) ==
             \A p \in P :
               /\ p \in D => \A v \in V : <<next[p], v>> \in R => <<p, step[<<p, v>>]>> \in R
               /\ p \notin D => <<p, base[p]>> \in R
           G == {t \in P \X V : \A R \in SUBSET (P \X V) : Closed(R) => t \in R}
           Only(p, v) == \A w \in V : <<p, w>> \in G <=> w = v
<1>1. /\ \A p \in D : p \in P /\ next[p] \in P /\ \A v \in V : step[<<p, v>>] \in V
      /\ \A p \in P \ D : base[p] \in V
  OBVIOUS
<1>2. Closed(G)
  <2>1. ASSUME NEW p \in D, NEW v \in V, <<next[p], v>> \in G PROVE <<p, step[<<p, v>>]>> \in G
    <3>1. ASSUME NEW R \in SUBSET (P \X V), Closed(R) PROVE <<p, step[<<p, v>>]>> \in R
      <4>1. <<next[p], v>> \in R
        BY <2>1, <3>1
      <4> QED
        BY <1>1, <3>1, <4>1
    <3>2. <<p, step[<<p, v>>]>> \in P \X V
      BY <1>1
    <3> HIDE DEF Closed
    <3> QED
      BY <3>1, <3>2
  <2>2. ASSUME NEW p \in P \ D PROVE <<p, base[p]>> \in G
    <3>1. ASSUME NEW R \in SUBSET (P \X V), Closed(R) PROVE <<p, base[p]>> \in R
      BY <3>1
    <3>2. <<p, base[p]>> \in P \X V
      BY <1>1
    <3> HIDE DEF Closed
    <3> QED
      BY <3>1, <3>2
  <2> HIDE DEF G
  <2> QED
    BY <2>1, <2>2
<1>3. G \in SUBSET (P \X V) /\ \A R \in SUBSET (P \X V) : Closed(R) => G \subseteq R
  OBVIOUS
<1> HIDE DEF G
<1>4. ASSUME NEW p \in P, NEW v \in V, <<p, v>> \in G,
             p \in D => \A u \in V : <<next[p], u>> \in G => step[<<p, u>>] = v,
             p \notin D => base[p] = v
      PROVE  Only(p, v)
  <2> SUFFICES ASSUME NEW w \in V, <<p, w>> \in G, w # v PROVE FALSE
    BY <1>4
  <2> DEFINE R == G \ {<<p, w>>}
  <2>1. ASSUME NEW q \in P
        PROVE  /\ q \in D => \A u \in V : <<next[q], u>> \in R => <<q, step[<<q, u>>]>> \in R
               /\ q \notin D => <<q, base[q]>> \in R
    <3>1. /\ q \in D => \A u \in V : <<next[q], u>> \in G => <<q, step[<<q, u>>]>> \in G
          /\ q \notin D => <<q, base[q]>> \in G
      BY <1>2
    <3>2. CASE q = p /\ p \in D
      <4>1. ASSUME NEW u \in V, <<next[p], u>> \in R PROVE <<p, step[<<p, u>>]>> \in R
        <5>1. <<next[p], u>> \in G
          BY <4>1
        <5>2. <<p, step[<<p, u>>]>> \in G /\ step[<<p, u>>] = v
          BY <1>4, <3>1, <3>2, <5>1
        <5> QED
          BY <5>2
      <4> QED
        BY <3>2, <4>1
    <3>4. CASE q = p /\ p \notin D
      <4>1. <<p, base[p]>> \in G /\ base[p] = v
        BY <1>4, <3>1, <3>4
      <4> QED
        BY <3>4, <4>1
    <3>3. CASE q # p
      BY <3>1, <3>3
    <3> QED
      BY <3>2, <3>3, <3>4
  <2>2. Closed(R)
    <3> HIDE DEF R
    <3> QED
      BY <2>1
  <2>3. R \in SUBSET (P \X V)
    BY <1>3
  <2> HIDE DEF Closed
  <2>4. <<p, w>> \in R
    BY <1>3, <2>2, <2>3
  <2> QED
    BY <2>4
<1> DEFINE Bad == {p \in P : ~ \E v \in V : Only(p, v)}
<1>5. Bad = {}
  <2> SUFFICES ASSUME Bad # {} PROVE FALSE
    OBVIOUS
  <2>1. PICK p \in Bad : p \notin DOMAIN next \/ next[p] \notin Bad
    <3>1. Bad \in SUBSET P
      OBVIOUS
    <3> HIDE DEF Bad
    <3> QED
      BY <3>1 DEF WellFounded
  <2>2. CASE p \notin D
    <3>1. <<p, base[p]>> \in G /\ base[p] \in V
      BY <1>1, <1>2, <2>2
    <3>2. Only(p, base[p])
      BY <1>4, <2>2, <3>1
    <3> HIDE DEF Only
    <3> QED
      BY <3>1, <3>2
  <2>3. CASE p \in D
    <3>1. next[p] \in P /\ next[p] \notin Bad
      BY <1>1, <2>1, <2>3
    <3>2. PICK u \in V : Only(next[p], u)
      BY <3>1
    <3>3. <<next[p], u>> \in G /\ \A x \in V : <<next[p], x>> \in G => x = u
      BY <3>2
    <3>4. <<p, step[<<p, u>>]>> \in G /\ step[<<p, u>>] \in V
      BY <1>1, <1>2, <2>3, <3>3
    <3>5. \A x \in V : <<next[p], x>> \in G => step[<<p, x>>] = step[<<p, u>>]
      BY <3>3
    <3>6. Only(p, step[<<p, u>>])
      <4> HIDE DEF Only
      <4> QED
        BY <1>4, <2>3, <3>4, <3>5
    <3> HIDE DEF Only
    <3> QED
      BY <3>4, <3>6
  <2> QED
    BY <2>2, <2>3
<1> DEFINE f == [p \in P |-> CHOOSE v \in V : Only(p, v)]
<1>6. ASSUME NEW p \in P PROVE f[p] \in V /\ Only(p, f[p])
  <2>1. \E v \in V : Only(p, v)
    BY <1>5
  <2> HIDE DEF Only
  <2> QED
    BY <2>1
<1>7. f \in [P -> V]
  BY <1>6
<1> HIDE DEF f
<1>8. ASSUME NEW p \in P
      PROVE  f[p] = IF p \in DOMAIN next THEN step[<<p, f[next[p]]>>] ELSE base[p]
  <2>1. CASE p \in D
    <3>1. <<next[p], f[next[p]]>> \in G /\ f[next[p]] \in V
      BY <1>1, <1>6, <2>1
    <3>2. <<p, step[<<p, f[next[p]]>>]>> \in G /\ step[<<p, f[next[p]]>>] \in V
      BY <1>1, <1>2, <2>1, <3>1
    <3> QED
      BY <1>6, <2>1, <3>2
  <2>2. CASE p \notin D
    <3>1. <<p, base[p]>> \in G /\ base[p] \in V
      BY <1>1, <1>2, <2>2
    <3> QED
      BY <1>6, <2>2, <3>1
  <2> QED
    BY <2>1, <2>2
<1> QED
  BY <1>7, <1>8 DEF Descends
=============================================================================

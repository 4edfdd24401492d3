---------------------------- MODULE ThreadsProofs ----------------------------
(***************************************************************************)
(* Proofs about conversations, for every inbox however long, every         *)
(* correspondence without a cycle of replies, and every time the clocks    *)
(* show.                                                                   *)
(*                                                                         *)
(* What resolve_root climbs to depends on what it has seen only where      *)
(* links repeat, and without a cycle they do not: so a message has the     *)
(* root of its parent, and a conversation is a set closed under replies.   *)
(* That the links have no cycle is the one thing the invariant adds to the *)
(* types.                                                                  *)
(*                                                                         *)
(* A subject behind reply prefixes has the normal form it had without      *)
(* them: the same tokens are kept, further on.                             *)
(***************************************************************************)
EXTENDS Threads, Recursion

(* The invariant: the types, and no cycle of replies.                      *)
ThreadInv == ThreadTypeOK /\ Acyclic(in_reply_to)

-----------------------------------------------------------------------------
(* Sorting.                                                                *)

(* What Sorted asks of an order.                                           *)
StrictlyOrders(before, S) ==
  /\ \A x \in S : <<x, x>> \notin before
  /\ \A x, y, z \in S : <<x, y>> \in before /\ <<y, z>> \in before => <<x, z>> \in before
  /\ \A x, y \in S : x = y \/ <<x, y>> \in before \/ <<y, x>> \in before

(* Each element once, those before it before it.                           *)
Lists(s, S, before) ==
  /\ s \in [1..Cardinality(S) -> S]
  /\ \A x \in S : \E i \in 1..Cardinality(S) : s[i] = x
  /\ \A i, j \in 1..Cardinality(S) : i < j => <<s[i], s[j]>> \in before

(* Sorted: as many elements come before each one as its place says, so     *)
(* every element has a place and none has two.                             *)
LEMMA SortedLists ==
  ASSUME NEW S, IsFiniteSet(S), NEW before, StrictlyOrders(before, S)
  PROVE  Lists(Sorted(S, before), S, before)
<1> DEFINE n == Cardinality(S)
           Preds(x) == {y \in S : <<y, x>> \in before}
           rank == [x \in S |-> Cardinality(Preds(x))]
           s == Sorted(S, before)
<1>1. n \in Nat
  BY FS_CardinalityType
<1>2. ASSUME NEW x \in S
      PROVE  IsFiniteSet(Preds(x)) /\ rank[x] = Cardinality(Preds(x)) /\ rank[x] \in 0..(n - 1)
  <2>1. Preds(x) \in SUBSET S /\ x \notin Preds(x) /\ rank[x] = Cardinality(Preds(x))
    BY DEF StrictlyOrders
  <2> HIDE DEF Preds, rank
  <2>2. /\ IsFiniteSet(Preds(x)) /\ Cardinality(Preds(x)) <= n
        /\ n = Cardinality(Preds(x)) => S = Preds(x)
    BY <2>1, FS_Subset
  <2>3. Cardinality(Preds(x)) \in Nat /\ Cardinality(Preds(x)) # n
    BY <2>1, <2>2, FS_CardinalityType
  <2> QED
    BY <1>1, <2>1, <2>2, <2>3
<1>3. ASSUME NEW x \in S, NEW y \in S, <<x, y>> \in before PROVE rank[x] < rank[y]
  <2>1. Preds(x) \in SUBSET Preds(y) /\ x \in Preds(y) /\ x \notin Preds(x)
    BY <1>3 DEF StrictlyOrders
  <2> HIDE DEF Preds, rank
  <2>2. /\ IsFiniteSet(Preds(y))
        /\ rank[x] = Cardinality(Preds(x)) /\ rank[y] = Cardinality(Preds(y))
        /\ rank[x] \in Nat /\ rank[y] \in Nat
    BY <1>1, <1>2
  <2>3. Cardinality(Preds(x)) <= Cardinality(Preds(y)) /\ Cardinality(Preds(x)) # Cardinality(Preds(y))
    BY <2>1, <2>2, FS_Subset
  <2> QED
    BY <2>2, <2>3
<1> HIDE DEF Preds
<1>4. \A x, y \in S : rank[x] = rank[y] => x = y
  <2>1. ASSUME NEW x \in S, NEW y \in S, rank[x] = rank[y] PROVE x = y
    <3>1. rank[x] \in Int /\ rank[y] \in Int /\ ~(rank[x] < rank[y]) /\ ~(rank[y] < rank[x])
      BY <1>1, <1>2, <2>1
    <3> HIDE DEF rank
    <3> QED
      BY <1>3, <3>1 DEF StrictlyOrders
  <2> QED
    BY <2>1
<1>5. \A i \in 1..n : \E x \in S : rank[x] = i - 1
  <2>1. rank \in [S -> 0..(n - 1)]
    BY <1>2
  <2> HIDE DEF rank
  <2>2. rank \in Injection(S, 0..(n - 1))
    BY <1>4, <2>1 DEF Injection, IsInjective
  <2>3. IsFiniteSet(0..(n - 1)) /\ Cardinality(0..(n - 1)) = n
    BY <1>1, FS_Interval
  <2>4. rank \in Surjection(S, 0..(n - 1))
    BY <2>2, <2>3, FS_Injection
  <2>5. \A i \in 1..n : i - 1 \in 0..(n - 1)
    BY <1>1
  <2> QED
    BY <2>4, <2>5 DEF Surjection
<1>6. s = [i \in 1..n |-> CHOOSE x \in S : rank[x] = i - 1]
  BY DEF Sorted, Preds
<1> HIDE DEF s, rank
<1>7. ASSUME NEW i \in 1..n PROVE s[i] \in S /\ rank[s[i]] = i - 1
  BY <1>5, <1>6
<1>8. ASSUME NEW x \in S PROVE \E i \in 1..n : s[i] = x
  <2>1. rank[x] + 1 \in 1..n /\ (rank[x] + 1) - 1 = rank[x]
    BY <1>1, <1>2
  <2>2. s[rank[x] + 1] = x
    BY <1>4, <1>7, <2>1
  <2> QED
    BY <2>1, <2>2
<1>9. ASSUME NEW i \in 1..n, NEW j \in 1..n, i < j PROVE <<s[i], s[j]>> \in before
  <2>1. s[i] \in S /\ s[j] \in S /\ rank[s[i]] = i - 1 /\ rank[s[j]] = j - 1
    BY <1>7
  <2>2. s[i] # s[j]
    BY <1>1, <1>9, <2>1
  <2>3. ~(rank[s[j]] < rank[s[i]])
    BY <1>1, <1>9, <2>1
  <2> QED
    BY <1>3, <2>1, <2>2, <2>3 DEF StrictlyOrders
<1>10. s \in [1..n -> S]
  BY <1>6, <1>7
<1> QED
  BY <1>8, <1>9, <1>10 DEF Lists, s

(* There is one list of a set in an order. *)
LEMMA ListsUnique ==
  ASSUME NEW S, IsFiniteSet(S), NEW before, StrictlyOrders(before, S),
         NEW f, Lists(f, S, before), NEW g, Lists(g, S, before)
  PROVE  f = g
<1> DEFINE n == Cardinality(S)
           Bad == {i \in 1..n : f[i] # g[i]}
<1>1. n \in Nat
  BY FS_CardinalityType
<1>2. /\ f \in [1..n -> S] /\ g \in [1..n -> S]
      /\ \A x \in S : (\E i \in 1..n : f[i] = x) /\ (\E i \in 1..n : g[i] = x)
      /\ \A i, j \in 1..n : i < j => <<f[i], f[j]>> \in before /\ <<g[i], g[j]>> \in before
  BY DEF Lists
<1> HIDE DEF n
<1>3. \A x, y \in S : <<x, y>> \in before => x # y /\ <<y, x>> \notin before
  BY DEF StrictlyOrders
<1>4. Bad = {}
  <2> SUFFICES ASSUME Bad # {} PROVE FALSE
    OBVIOUS
  <2>1. Bad \in SUBSET Nat
    BY <1>1
  <2>2. PICK i \in Bad : \A j \in Bad : j >= i
    <3> HIDE DEF Bad
    <3> QED
      BY <2>1, LeastNumber
  <2>3. i \in 1..n /\ f[i] # g[i] /\ f[i] \in S /\ g[i] \in S
    BY <1>2
  <2>4. PICK j \in 1..n : g[j] = f[i]
    BY <1>2, <2>3
  <2>5. PICK k \in 1..n : f[k] = g[i]
    BY <1>2, <2>3
  <2>6. \A m \in 1..n : m < i => f[m] = g[m]
    BY <2>2
  <2>7. \A m \in 1..n : m < i => f[m] # f[i] /\ g[m] # g[i]
    BY <1>2, <1>3, <2>3
  <2>8. j > i
    <3>1. j # i /\ ~(j < i)
      BY <2>3, <2>4, <2>6, <2>7
    <3> QED
      BY <1>1, <3>1
  <2>9. k > i
    <3>1. k # i /\ ~(k < i)
      BY <2>3, <2>5, <2>6, <2>7
    <3> QED
      BY <1>1, <3>1
  <2>10. <<g[i], g[j]>> \in before /\ <<f[i], f[k]>> \in before
    BY <1>2, <2>8, <2>9
  <2> QED
    BY <1>3, <2>3, <2>4, <2>5, <2>10
<1>5. \A i \in 1..n : f[i] = g[i]
  BY <1>4
<1>6. f = [i \in 1..n |-> f[i]] /\ g = [i \in 1..n |-> g[i]]
  BY <1>2
<1> HIDE DEF Bad
<1> QED
  BY <1>5, <1>6

-----------------------------------------------------------------------------
(* Climbing.                                                               *)

(* Where a climb can be: at a message, having seen some. *)
Places == MessageId \X SUBSET MessageId
Ids == MessageId \cup Unseen

Climb(f, place, parents) ==
  IF place[1] \notin DOMAIN parents \/ parents[place[1]] \in place[2] THEN place[1]
  ELSE IF parents[place[1]] \in DOMAIN parents
       THEN f[<<parents[place[1]], place[2] \cup {parents[place[1]]}>>]
       ELSE parents[place[1]]

(* resolve_root ends: the climb is a function of where it is and what it has seen. *)
LEMMA ClimbExists ==
  ASSUME NEW D \in SUBSET MessageId, NEW parents \in [D -> Ids], Acyclic(parents)
  PROVE  \E f \in [Places -> Ids] :
           /\ \A place \in Places : f[place] = Climb(f, place, parents)
           /\ \A m \in MessageId : ResolveRoot(m, parents) = f[<<m, {m}>>]
<1> DEFINE On == {place \in Places : /\ place[1] \in D /\ parents[place[1]] \notin place[2]
                                     /\ parents[place[1]] \in D}
           next == [place \in On |-> <<parents[place[1]], place[2] \cup {parents[place[1]]}>>]
           base == [place \in Places \ On |->
                      IF place[1] \notin D \/ parents[place[1]] \in place[2] THEN place[1]
                      ELSE parents[place[1]]]
           step == [t \in On \X Ids |-> t[2]]
           Climbs(g) == g = [place \in Places |-> Climb(g, place, parents)]
<1>1. next \in [On -> Places]
  <2>1. ASSUME NEW place \in On
        PROVE  <<parents[place[1]], place[2] \cup {parents[place[1]]}>> \in Places
    BY DEF Places
  <2> QED
    BY <2>1
<1>2. WellFounded(next, Places)
  <2> SUFFICES ASSUME NEW S \in SUBSET Places, S # {}
               PROVE  \E p \in S : p \notin DOMAIN next \/ next[p] \notin S
    BY DEF WellFounded
  <2> DEFINE first == {p[1] : p \in S}
  <2>1. CASE first \cap D = {}
    <3>1. PICK p \in S : TRUE
      OBVIOUS
    <3>2. p[1] \notin D
      BY <2>1
    <3>3. p \notin On
      BY <3>2
    <3> QED
      BY <3>3
  <2>2. CASE first \cap D # {}
    <3>1. PICK m \in first \cap D : parents[m] \notin first \cap D
      <4>1. first \cap D \in SUBSET DOMAIN parents
        OBVIOUS
      <4> HIDE DEF first
      <4> QED
        BY <2>2, <4>1 DEF Acyclic
    <3>2. PICK p \in S : p[1] = m
      BY <3>1
    <3>3. p \in On => next[p][1] = parents[m] /\ parents[m] \in D
      BY <3>2
    <3>4. p \in On => next[p] \notin S
      <4> HIDE DEF next, On
      <4> QED
        BY <3>1, <3>3
    <3> QED
      BY <3>4
  <2> QED
    BY <2>1, <2>2
<1>3. base \in [Places \ On -> Ids]
  <2>1. ASSUME NEW place \in Places \ On
        PROVE  (IF place[1] \notin D \/ parents[place[1]] \in place[2] THEN place[1]
                ELSE parents[place[1]]) \in Ids
    BY DEF Places, Ids
  <2> QED
    BY <2>1
<1>4. step \in [On \X Ids -> Ids]
  OBVIOUS
<1>5. On \in SUBSET Places
  OBVIOUS
<1>6. PICK f : Descends(f, Places, Ids, next, base, step)
  <2> HIDE DEF next, base, step, On
  <2> QED
    BY <1>1, <1>2, <1>3, <1>4, <1>5, DescentExists
<1>7. f \in [Places -> Ids]
  BY <1>6 DEF Descends
<1>8. ASSUME NEW place \in Places PROVE f[place] = Climb(f, place, parents)
  <2>1. f[place] = IF place \in DOMAIN next THEN step[<<place, f[next[place]]>>] ELSE base[place]
    BY <1>6 DEF Descends
  <2>2. CASE place \in On
    <3>1. next[place] \in Places
      BY <1>1, <2>2
    <3>2. f[next[place]] \in Ids
      BY <1>7, <3>1
    <3>3. f[place] = f[next[place]]
      BY <2>1, <2>2, <3>2
    <3>4. next[place] = <<parents[place[1]], place[2] \cup {parents[place[1]]}>>
      BY <2>2
    <3> QED
      BY <2>2, <3>3, <3>4 DEF Climb
  <2>3. CASE place \notin On
    <3>1. f[place] = IF place[1] \notin D \/ parents[place[1]] \in place[2] THEN place[1]
                     ELSE parents[place[1]]
      BY <2>1, <2>3
    <3> QED
      BY <2>3, <3>1 DEF Climb
  <2> QED
    BY <2>2, <2>3
<1>9. Climbs(f)
  BY <1>7, <1>8
<1> DEFINE climb == CHOOSE g : Climbs(g)
<1>10. Climbs(climb)
  <2> HIDE DEF Climbs
  <2> QED
    BY <1>9
<1>11. ASSUME NEW m \in MessageId PROVE ResolveRoot(m, parents) = climb[<<m, {m}>>]
  BY DEF ResolveRoot, Climb, Places
<1> HIDE DEF climb
<1>12. \A place \in Places : climb[place] = Climb(climb, place, parents)
  BY <1>10
<1>13. climb \in [Places -> Ids]
  <2> DEFINE Bad == {place \in Places : climb[place] # f[place]}
  <2>1. Bad = {}
    <3> SUFFICES ASSUME Bad # {} PROVE FALSE
      OBVIOUS
    <3>1. PICK p \in Bad : p \notin DOMAIN next \/ next[p] \notin Bad
      <4>1. Bad \in SUBSET Places
        OBVIOUS
      <4> HIDE DEF Bad, next
      <4> QED
        BY <1>2, <4>1 DEF WellFounded
    <3>2. climb[p] = Climb(climb, p, parents) /\ f[p] = Climb(f, p, parents) /\ climb[p] # f[p]
      BY <1>8, <1>12
    <3>3. CASE p \in On
      <4>1. next[p] \in Places /\ next[p] \notin Bad
        BY <1>1, <3>1, <3>3
      <4>2. climb[next[p]] = f[next[p]]
        BY <4>1
      <4>3. next[p] = <<parents[p[1]], p[2] \cup {parents[p[1]]}>>
        BY <3>3
      <4> QED
        BY <3>2, <4>2, <4>3 DEF Climb
    <3>4. CASE p \notin On
      BY <3>2, <3>4 DEF Climb
    <3> QED
      BY <3>3, <3>4
  <2>2. climb = [place \in Places |-> climb[place]]
    BY <1>10
  <2>3. \A place \in Places : climb[place] \in Ids
    BY <1>7, <2>1
  <2> HIDE DEF Bad
  <2> QED
    BY <2>2, <2>3
<1> QED
  BY <1>11, <1>12, <1>13

(* above[m]: what a climb from m comes by. *)
IsAbove(above, D, parents) ==
  /\ above \in [MessageId -> SUBSET Ids]
  /\ \A m \in MessageId \ D : above[m] = {}
  /\ \A m \in D : above[m] = {parents[m]} \cup
                     (IF parents[m] \in MessageId THEN above[parents[m]] ELSE {})

(* What a climb comes by can be collected, for there is no cycle.          *)
LEMMA AboveExists ==
  ASSUME NEW D \in SUBSET MessageId, NEW parents \in [D -> Ids], Acyclic(parents)
  PROVE  \E above : IsAbove(above, D, parents)
<1> DEFINE On == {m \in D : parents[m] \in MessageId}
           next == [m \in On |-> parents[m]]
           base == [m \in MessageId \ On |-> IF m \in D THEN {parents[m]} ELSE {}]
           step == [t \in On \X SUBSET Ids |-> {parents[t[1]]} \cup t[2]]
<1>1. next \in [On -> MessageId] /\ On \in SUBSET MessageId
  OBVIOUS
<1>2. WellFounded(next, MessageId)
  <2> SUFFICES ASSUME NEW S \in SUBSET MessageId, S # {}
               PROVE  \E m \in S : m \notin DOMAIN next \/ next[m] \notin S
    BY DEF WellFounded
  <2>1. CASE S \subseteq On
    <3>1. S \in SUBSET DOMAIN parents
      BY <2>1
    <3>2. PICK m \in S : parents[m] \notin S
      BY <3>1 DEF Acyclic
    <3> QED
      BY <2>1, <3>2
  <2>2. CASE ~(S \subseteq On)
    BY <2>2
  <2> QED
    BY <2>1, <2>2
<1>3. base \in [MessageId \ On -> SUBSET Ids]
  <2>1. \A m \in D : {parents[m]} \in SUBSET Ids
    OBVIOUS
  <2> QED
    BY <2>1
<1>4. step \in [On \X SUBSET Ids -> SUBSET Ids]
  <2>1. \A m \in On, s \in SUBSET Ids : {parents[m]} \cup s \in SUBSET Ids
    OBVIOUS
  <2> QED
    BY <2>1
<1>5. PICK above : Descends(above, MessageId, SUBSET Ids, next, base, step)
  <2> HIDE DEF next, base, step, On
  <2> QED
    BY <1>1, <1>2, <1>3, <1>4, DescentExists
<1>6. above \in [MessageId -> SUBSET Ids]
  BY <1>5 DEF Descends
<1>7. ASSUME NEW m \in MessageId \ D PROVE above[m] = {}
  BY <1>5 DEF Descends
<1>8. ASSUME NEW m \in D
      PROVE  above[m] = {parents[m]} \cup
                          (IF parents[m] \in MessageId THEN above[parents[m]] ELSE {})
  <2>1. above[m] = IF m \in DOMAIN next THEN step[<<m, above[next[m]]>>] ELSE base[m]
    BY <1>5 DEF Descends
  <2>2. CASE parents[m] \in MessageId
    <3>1. m \in On /\ next[m] = parents[m] /\ above[parents[m]] \in SUBSET Ids
      BY <1>6, <2>2
    <3>2. above[m] = step[<<m, above[parents[m]]>>]
      BY <2>1, <3>1
    <3> QED
      BY <2>2, <3>1, <3>2
  <2>3. CASE parents[m] \notin MessageId
    BY <2>1, <2>3
  <2> QED
    BY <2>2, <2>3
<1> QED
  BY <1>6, <1>7, <1>8 DEF IsAbove

(* Nothing is above itself. *)
LEMMA NothingAboveItself ==
  ASSUME NEW D \in SUBSET MessageId, NEW parents \in [D -> Ids], Acyclic(parents),
         NEW above, IsAbove(above, D, parents)
  PROVE  \A m \in MessageId : m \notin above[m]
<1>1. ASSUME NEW c \in MessageId, NEW x \in D, x \in above[c] PROVE parents[x] \in above[c]
  <2> DEFINE Bad == {m \in D : \E y \in above[m] \cap D : parents[y] \notin above[m]}
  <2>1. Bad = {}
    <3> SUFFICES ASSUME Bad # {} PROVE FALSE
      OBVIOUS
    <3>1. PICK m \in Bad : parents[m] \notin Bad
      <4>1. Bad \in SUBSET DOMAIN parents
        OBVIOUS
      <4> HIDE DEF Bad
      <4> QED
        BY <4>1 DEF Acyclic
    <3>2. PICK y \in above[m] \cap D : parents[y] \notin above[m]
      BY <3>1
    <3>3. m \in D /\ above[m] = {parents[m]} \cup
                       (IF parents[m] \in MessageId THEN above[parents[m]] ELSE {})
      BY <3>1 DEF IsAbove
    <3>4. CASE y = parents[m]
      <4>1. above[m] = {parents[m]} \cup above[y]
        BY <3>2, <3>3, <3>4
      <4>2. parents[y] \in above[y]
        BY <3>2 DEF IsAbove
      <4> QED
        BY <3>2, <4>1, <4>2
    <3>5. CASE y # parents[m]
      <4>1. parents[m] \in MessageId /\ y \in above[parents[m]]
        BY <3>2, <3>3, <3>5
      <4>2. parents[m] \in D
        BY <4>1 DEF IsAbove
      <4>3. parents[y] \in above[parents[m]]
        BY <3>1, <3>2, <4>1, <4>2
      <4> QED
        BY <3>2, <3>3, <4>1, <4>3
    <3> QED
      BY <3>4, <3>5
  <2>2. c \in D
    BY <1>1 DEF IsAbove
  <2> QED
    BY <1>1, <2>1, <2>2
<1> DEFINE Loop == {m \in MessageId : m \in above[m]}
<1>2. Loop = {}
  <2> SUFFICES ASSUME Loop # {} PROVE FALSE
    OBVIOUS
  <2>1. Loop \in SUBSET DOMAIN parents
    BY DEF IsAbove
  <2>2. PICK m \in Loop : parents[m] \notin Loop
    <3> HIDE DEF Loop
    <3> QED
      BY <2>1 DEF Acyclic
  <2>3. m \in D /\ above[m] = {parents[m]} \cup
                      (IF parents[m] \in MessageId THEN above[parents[m]] ELSE {})
    BY <2>1, <2>2 DEF IsAbove
  <2>4. m # parents[m] /\ parents[m] \in MessageId /\ m \in above[parents[m]]
    BY <2>2, <2>3
  <2>5. parents[m] \in above[parents[m]]
    BY <1>1, <2>3, <2>4
  <2> QED
    BY <2>2, <2>4, <2>5
<1> QED
  BY <1>2

(* resolve_root never stops at a repetition: a message that replies has    *)
(* the root of its parent.                                                 *)
LEMMA RootsOf ==
  ASSUME ThreadAssumption, NEW D \in SUBSET MessageId, NEW parents \in [D -> Ids], Acyclic(parents),
         NEW m \in MessageId
  PROVE  /\ ResolveRoot(m, parents) \in Ids
         /\ m \notin D => ResolveRoot(m, parents) = m
         /\ m \in D /\ parents[m] \notin MessageId => ResolveRoot(m, parents) = parents[m]
         /\ m \in D /\ parents[m] \in MessageId
              => ResolveRoot(m, parents) = ResolveRoot(parents[m], parents)
<1>1. PICK f \in [Places -> Ids] :
        /\ \A place \in Places : f[place] = Climb(f, place, parents)
        /\ \A x \in MessageId : ResolveRoot(x, parents) = f[<<x, {x}>>]
  BY ClimbExists
<1>2. PICK above : IsAbove(above, D, parents)
  BY AboveExists
<1>3. \A x \in MessageId : x \notin above[x]
  BY <1>2, NothingAboveItself
<1>4. \A x \in D : /\ parents[x] \in above[x]
                   /\ parents[x] \in MessageId => above[parents[x]] \subseteq above[x]
  BY <1>2 DEF IsAbove
<1>5. \A x \in MessageId : <<x, {x}>> \in Places
  BY DEF Places
(* What was seen does not matter, as long as it is not above. *)
<1> DEFINE Free(x) == {seen \in SUBSET MessageId : seen \cap above[x] = {}}
           Bad == {x \in D : \E s, t \in Free(x) : f[<<x, s>>] # f[<<x, t>>]}
<1>6. Bad = {}
  <2> SUFFICES ASSUME Bad # {} PROVE FALSE
    OBVIOUS
  <2>1. PICK x \in Bad : parents[x] \notin Bad
    <3>1. Bad \in SUBSET DOMAIN parents
      OBVIOUS
    <3> HIDE DEF Bad
    <3> QED
      BY <3>1 DEF Acyclic
  <2>2. PICK s \in Free(x), t \in Free(x) : f[<<x, s>>] # f[<<x, t>>]
    BY <2>1
  <2>3. x \in D /\ parents[x] \notin s /\ parents[x] \notin t
    BY <1>4, <2>1, <2>2
  <2>4. /\ <<x, s>> \in Places /\ <<x, t>> \in Places
        /\ <<x, s>>[1] = x /\ <<x, s>>[2] = s /\ <<x, t>>[1] = x /\ <<x, t>>[2] = t
    BY <2>2 DEF Places
  <2>5. /\ f[<<x, s>>] = IF parents[x] \in D THEN f[<<parents[x], s \cup {parents[x]}>>] ELSE parents[x]
        /\ f[<<x, t>>] = IF parents[x] \in D THEN f[<<parents[x], t \cup {parents[x]}>>] ELSE parents[x]
    BY <1>1, <2>3, <2>4 DEF Climb
  <2>6. parents[x] \in D
    BY <2>2, <2>5
  <2>7. ASSUME NEW u \in Free(x) PROVE u \cup {parents[x]} \in Free(parents[x])
    <3>1. u \in SUBSET MessageId /\ u \cap above[x] = {}
      OBVIOUS
    <3>2. parents[x] \in MessageId /\ parents[x] \notin above[parents[x]]
          /\ above[parents[x]] \subseteq above[x]
      BY <1>3, <1>4, <2>3, <2>6
    <3>3. u \cap above[parents[x]] = {}
      BY <3>1, <3>2
    <3>4. u \cup {parents[x]} \in SUBSET MessageId
      BY <3>1, <3>2
    <3>5. (u \cup {parents[x]}) \cap above[parents[x]] = {}
      BY <3>2, <3>3
    <3> QED
      BY <3>4, <3>5
  <2> QED
    BY <2>1, <2>2, <2>5, <2>6, <2>7
<1>7. ASSUME NEW x \in MessageId
      PROVE  f[<<x, {x}>>] = IF x \in D /\ parents[x] # x
                             THEN IF parents[x] \in D THEN f[<<parents[x], {x} \cup {parents[x]}>>]
                                  ELSE parents[x]
                             ELSE x
  <2>1. f[<<x, {x}>>] = Climb(f, <<x, {x}>>, parents)
    BY <1>1, <1>5
  <2> QED
    BY <2>1 DEF Climb
<1>8. m \in D => parents[m] # m /\ parents[m] \in Ids
  BY <1>3, <1>4
<1>9. \A x \in MessageId : ResolveRoot(x, parents) = f[<<x, {x}>>] /\ f[<<x, {x}>>] \in Ids
  BY <1>1, <1>5
<1>10. CASE m \notin D
  <2>1. f[<<m, {m}>>] = m
    BY <1>7, <1>10
  <2> QED
    BY <1>9, <1>10, <2>1
<1>11. CASE m \in D /\ parents[m] \notin MessageId
  <2>1. f[<<m, {m}>>] = parents[m]
    BY <1>7, <1>8, <1>11
  <2> QED
    BY <1>9, <1>11, <2>1
<1>12. CASE m \in D /\ parents[m] \in MessageId
  <2> DEFINE p == parents[m]
  <2>1. /\ m \in D /\ p \in MessageId /\ p # m /\ m \notin above[m] /\ p \in above[m]
        /\ above[p] \subseteq above[m] /\ p \notin above[p]
    BY <1>3, <1>4, <1>8, <1>12
  <2>2. f[<<m, {m}>>] = IF p \in D THEN f[<<p, {m} \cup {p}>>] ELSE p
    BY <1>7, <2>1
  <2> HIDE DEF p
  <2>3. {p} \in Free(p) /\ {m} \cup {p} \in Free(p)
    BY <2>1
  <2>4. f[<<p, {p}>>] = f[<<m, {m}>>]
    <3>1. CASE p \in D
      <4>1. f[<<p, {p}>>] = f[<<p, {m} \cup {p}>>]
        BY <1>6, <2>3, <3>1
      <4> QED
        BY <2>2, <3>1, <4>1
    <3>2. CASE p \notin D
      BY <1>7, <2>1, <2>2, <3>2
    <3> QED
      BY <3>1, <3>2
  <2>5. ResolveRoot(m, parents) = ResolveRoot(p, parents) /\ ResolveRoot(m, parents) \in Ids
    <3>1. ResolveRoot(m, parents) = f[<<m, {m}>>] /\ f[<<m, {m}>>] \in Ids
      BY <1>9
    <3>2. ResolveRoot(p, parents) = f[<<p, {p}>>]
      BY <1>9, <2>1
    <3> QED
      BY <2>4, <3>1, <3>2
  <2> QED
    BY <2>1, <2>5 DEF p
<1> QED
  BY <1>10, <1>11, <1>12

-----------------------------------------------------------------------------
(* Roots.                                                                  *)

(* What group_threads takes apart: the messages of the inbox, the root of  *)
(* each, and the messages under each root.                                 *)
Drained == ToSet(inbox)
Root(m) == ResolveRoot(m, Parents(Drained))
Under(r) == {m \in Drained : Root(m) = r}
Roots == {Root(m) : m \in Drained}

(* The inbox holds finitely many messages, with finitely many roots.       *)
LEMMA DrainedFacts ==
  ASSUME ThreadInv
  PROVE  /\ Drained \in SUBSET MessageId /\ IsFiniteSet(Drained)
         /\ Roots = {Root(m) : m \in Drained} /\ IsFiniteSet(Roots)
<1>1. /\ Len(inbox) \in Nat /\ DOMAIN inbox = 1..Len(inbox) /\ inbox \in [1..Len(inbox) -> MessageId]
      /\ Drained = {inbox[i] : i \in 1..Len(inbox)}
  BY LenProperties DEF ThreadInv, ThreadTypeOK, Drained, ToSet
<1>2. IsFiniteSet(1..Len(inbox))
  BY <1>1, FS_Interval
<1>3. inbox \in Surjection(1..Len(inbox), Drained)
  BY <1>1 DEF Surjection
<1>4. Drained \in SUBSET MessageId /\ IsFiniteSet(Drained)
  BY <1>1, <1>2, <1>3, FS_Surjection
<1> DEFINE f == [m \in Drained |-> Root(m)]
<1>5. f \in Surjection(Drained, Roots)
  BY DEF Surjection, Roots
<1> HIDE DEF f
<1>6. IsFiniteSet(Roots)
  BY <1>4, <1>5, FS_Surjection
<1> QED
  BY <1>4, <1>6 DEF Roots

(* The root of a message is where the links that the inbox knows lead.     *)
LEMMA InboxRoots ==
  ASSUME ThreadAssumption, ThreadInv, NEW m \in MessageId
  PROVE  /\ Root(m) \in Ids
         /\ m \notin Drained \/ in_reply_to[m] = NoParent => Root(m) = m
         /\ m \in Drained /\ in_reply_to[m] \in Unseen => Root(m) = in_reply_to[m]
         /\ m \in Drained /\ in_reply_to[m] \in MessageId => Root(m) = Root(in_reply_to[m])
<1> DEFINE D == {x \in Drained : in_reply_to[x] # NoParent}
           parents == Parents(Drained)
<1>1. in_reply_to \in [MessageId -> Ids \cup {NoParent}] /\ Acyclic(in_reply_to)
  BY DEF ThreadInv, ThreadTypeOK, Ids
<1>2. D \in SUBSET MessageId
  BY DrainedFacts
<1>3. parents = [x \in D |-> in_reply_to[x]]
  BY DEF Parents
<1> HIDE DEF parents
<1>4. parents \in [D -> Ids] /\ DOMAIN parents = D /\ \A x \in D : parents[x] = in_reply_to[x]
  BY <1>1, <1>2, <1>3
<1>5. Acyclic(parents)
  <2> SUFFICES ASSUME NEW S \in SUBSET D, S # {} PROVE \E x \in S : parents[x] \notin S
    BY <1>4 DEF Acyclic
  <2>1. S \in SUBSET DOMAIN in_reply_to
    BY <1>1, <1>2
  <2>2. PICK x \in S : in_reply_to[x] \notin S
    BY <1>1, <2>1 DEF Acyclic
  <2> QED
    BY <1>4, <2>2
<1>6. NoParent \notin Ids /\ Unseen \cap MessageId = {}
  BY ThreadAssumption DEF Ids
<1>7. in_reply_to[m] # NoParent /\ m \in Drained <=> m \in D
  OBVIOUS
<1> HIDE DEF D
<1>8. /\ ResolveRoot(m, parents) \in Ids
      /\ m \notin D => ResolveRoot(m, parents) = m
      /\ m \in D /\ parents[m] \notin MessageId => ResolveRoot(m, parents) = parents[m]
      /\ m \in D /\ parents[m] \in MessageId
           => ResolveRoot(m, parents) = ResolveRoot(parents[m], parents)
  BY <1>2, <1>4, <1>5, RootsOf
<1>9. CASE m \notin D
  <2>1. m \notin Drained \/ in_reply_to[m] = NoParent
    BY <1>7, <1>9
  <2> QED
    BY <1>6, <1>8, <1>9, <2>1 DEF Root, Ids, parents
<1>10. CASE m \in D
  <2>1. parents[m] = in_reply_to[m] /\ in_reply_to[m] \in Ids /\ m \in Drained
    BY <1>4, <1>7, <1>10
  <2>2. in_reply_to[m] \in Unseen => parents[m] \notin MessageId
    BY <1>6, <2>1
  <2> QED
    BY <1>6, <1>7, <1>8, <1>10, <2>1, <2>2 DEF Root, parents
<1> QED
  BY <1>9, <1>10

(* Two messages have one root exactly when replies connect them.           *)
LEMMA Components ==
  ASSUME ThreadAssumption, ThreadInv, NEW m \in Drained, NEW n \in Drained
  PROVE  Root(m) = Root(n) <=> Connected(m, n, Drained)
<1>1. /\ Drained \in SUBSET MessageId
      /\ in_reply_to \in [MessageId -> Ids \cup {NoParent}] /\ Acyclic(in_reply_to)
      /\ NoParent \notin Ids /\ Unseen \cap MessageId = {} /\ Ids = MessageId \cup Unseen
  BY DrainedFacts, ThreadAssumption DEF ThreadInv, ThreadTypeOK, Ids
<1>2. \A x \in Drained :
        /\ x \in MessageId
        /\ in_reply_to[x] = NoParent => Root(x) = x
        /\ in_reply_to[x] \in Unseen => Root(x) = in_reply_to[x]
        /\ in_reply_to[x] \in MessageId => Root(x) = Root(in_reply_to[x])
        /\ in_reply_to[x] \in MessageId \ Drained => Root(in_reply_to[x]) = in_reply_to[x]
        /\ in_reply_to[x] \in Ids \cup {NoParent}
  BY <1>1, InboxRoots
<1>3. ASSUME Connected(m, n, Drained) PROVE Root(m) = Root(n)
  <2> DEFINE S == Under(Root(m))
  <2>1. S \in SUBSET Drained /\ m \in S
    BY DEF Under
  <2>2. ASSUME NEW x \in S, NEW y \in Drained, Linked(x, y) PROVE y \in S
    <3>1. x \in Drained /\ Root(x) = Root(m)
      BY DEF Under
    <3>2. Root(x) = Root(y)
      <4>1. CASE in_reply_to[x] = y
        BY <1>2, <3>1, <4>1
      <4>2. CASE in_reply_to[y] = x
        BY <1>2, <3>1, <4>2
      <4>3. CASE in_reply_to[x] = in_reply_to[y] /\ in_reply_to[x] # NoParent
        <5>1. in_reply_to[x] \in MessageId \/ in_reply_to[x] \in Unseen
          BY <1>1, <1>2, <3>1, <4>3
        <5> QED
          BY <1>2, <3>1, <4>3, <5>1
      <4> QED
        BY <2>2, <4>1, <4>2, <4>3 DEF Linked
    <3> QED
      BY <3>1, <3>2 DEF Under
  <2>3. n \in S
    <3> HIDE DEF S
    <3> QED
      BY <1>3, <2>1, <2>2 DEF Connected
  <2> QED
    BY <2>3 DEF Under
<1>4. ASSUME Root(m) = Root(n) PROVE Connected(m, n, Drained)
  <2> SUFFICES ASSUME NEW S \in SUBSET Drained, m \in S,
                      \A x \in S, y \in Drained : Linked(x, y) => y \in S
               PROVE  n \in S
    BY DEF Connected
  <2> DEFINE Reaches(r) == r \in S \/ (r \notin Drained /\ \E x \in S : in_reply_to[x] = r)
             Lost == {x \in S : ~Reaches(Root(x))}
  <2>1. Lost = {}
    <3> SUFFICES ASSUME Lost # {} PROVE FALSE
      OBVIOUS
    <3>1. PICK x \in Lost : in_reply_to[x] \notin Lost
      <4>1. Lost \in SUBSET DOMAIN in_reply_to
        BY <1>1
      <4> HIDE DEF Lost
      <4> QED
        BY <1>1, <4>1 DEF Acyclic
    <3>2. x \in S /\ x \in Drained /\ ~Reaches(Root(x))
      BY <3>1
    <3>3. CASE in_reply_to[x] = NoParent
      BY <1>2, <3>2, <3>3
    <3>4. CASE in_reply_to[x] \in Drained
      <4>1. in_reply_to[x] \in S
        BY <3>2, <3>4 DEF Linked
      <4>2. Root(x) = Root(in_reply_to[x])
        BY <1>1, <1>2, <3>2, <3>4
      <4> QED
        BY <3>1, <3>2, <4>1, <4>2
    <3>5. CASE in_reply_to[x] \notin Drained /\ in_reply_to[x] # NoParent
      <4>1. Root(x) = in_reply_to[x]
        BY <1>1, <1>2, <3>2, <3>5
      <4> QED
        BY <3>2, <3>5, <4>1
    <3> QED
      BY <3>3, <3>4, <3>5
  <2>2. Reaches(Root(n))
    BY <1>4, <2>1
  <2> DEFINE Left == {x \in Drained : Root(x) = Root(n) /\ x \notin S}
  <2>3. Left = {}
    <3> SUFFICES ASSUME Left # {} PROVE FALSE
      OBVIOUS
    <3>1. PICK x \in Left : in_reply_to[x] \notin Left
      <4>1. Left \in SUBSET DOMAIN in_reply_to
        BY <1>1
      <4> HIDE DEF Left
      <4> QED
        BY <1>1, <4>1 DEF Acyclic
    <3>2. x \in Drained /\ Root(x) = Root(n) /\ x \notin S
      BY <3>1
    <3>3. CASE in_reply_to[x] = NoParent
      BY <1>2, <2>2, <3>2, <3>3
    <3>4. CASE in_reply_to[x] \in Drained
      <4>1. Root(x) = Root(in_reply_to[x])
        BY <1>1, <1>2, <3>2, <3>4
      <4>2. in_reply_to[x] \in S
        BY <3>1, <3>2, <3>4, <4>1
      <4> QED
        BY <3>2, <4>2 DEF Linked
    <3>5. CASE in_reply_to[x] \notin Drained /\ in_reply_to[x] # NoParent
      <4>1. Root(x) = in_reply_to[x]
        BY <1>1, <1>2, <3>2, <3>5
      <4>2. PICK y \in S : in_reply_to[y] = in_reply_to[x]
        BY <2>2, <3>2, <3>5, <4>1
      <4> QED
        BY <3>2, <3>5, <4>2 DEF Linked
    <3> QED
      BY <3>3, <3>4, <3>5
  <2> QED
    BY <1>4, <2>3
<1> QED
  BY <1>3, <1>4

-----------------------------------------------------------------------------
(* Conversations.                                                          *)

(* No two messages are at the same place of the order of a conversation,   *)
(* and no two conversations of the order of the listing: ids decide.       *)
LEMMA EarlierOrders ==
  ASSUME ThreadAssumption, ThreadInv, NEW S \in SUBSET MessageId
  PROVE  StrictlyOrders(Earlier(S), S)
<1>1. \A m \in S : m \in Nat /\ sent_at[m] \in Nat
  BY ThreadAssumption DEF ThreadInv, ThreadTypeOK
<1>2. \A m, n \in S :
        <<m, n>> \in Earlier(S) <=> sent_at[m] < sent_at[n] \/ (sent_at[m] = sent_at[n] /\ m < n)
  BY DEF Earlier
<1>3. \A m \in S : <<m, m>> \notin Earlier(S)
  BY <1>1, <1>2
<1>4. ASSUME NEW x \in S, NEW y \in S, NEW z \in S,
             <<x, y>> \in Earlier(S), <<y, z>> \in Earlier(S)
      PROVE  <<x, z>> \in Earlier(S)
  <2>1. /\ x \in Nat /\ y \in Nat /\ z \in Nat
        /\ sent_at[x] \in Nat /\ sent_at[y] \in Nat /\ sent_at[z] \in Nat
    BY <1>1
  <2>2. /\ sent_at[x] < sent_at[y] \/ (sent_at[x] = sent_at[y] /\ x < y)
        /\ sent_at[y] < sent_at[z] \/ (sent_at[y] = sent_at[z] /\ y < z)
    BY <1>2, <1>4
  <2>3. sent_at[x] < sent_at[z] \/ (sent_at[x] = sent_at[z] /\ x < z)
    BY <2>1, <2>2
  <2> QED
    BY <1>2, <2>3
<1>5. ASSUME NEW x \in S, NEW y \in S
      PROVE  x = y \/ <<x, y>> \in Earlier(S) \/ <<y, x>> \in Earlier(S)
  <2>1. x \in Nat /\ y \in Nat /\ sent_at[x] \in Nat /\ sent_at[y] \in Nat
    BY <1>1
  <2> QED
    BY <1>2, <2>1
<1> QED
  BY <1>3, <1>4, <1>5 DEF StrictlyOrders

(* The same of conversations, which their roots tell apart.                *)
LEMMA MoreRecentOrders ==
  ASSUME NEW S \in SUBSET Nat, NEW active \in [S -> Nat]
  PROVE  StrictlyOrders(MoreRecent(active), S)
<1>1. \A r, s \in S :
        <<r, s>> \in MoreRecent(active) <=> active[r] > active[s] \/ (active[r] = active[s] /\ r < s)
  BY DEF MoreRecent
<1>2. \A r \in S : r \in Nat /\ active[r] \in Nat
  OBVIOUS
<1> QED
  BY <1>1, <1>2 DEF StrictlyOrders

(* There is a last message: the one that a sorted list ends with. *)
LEMMA LatestMessage ==
  ASSUME ThreadAssumption, ThreadInv, NEW S \in SUBSET MessageId, IsFiniteSet(S), S # {}
  PROVE  /\ LastActivity(S) \in Nat
         /\ \E m \in S : sent_at[m] = LastActivity(S)
         /\ \A m \in S : sent_at[m] <= LastActivity(S)
<1> DEFINE s == Sorted(S, Earlier(S))
           n == Cardinality(S)
<1>1. Lists(s, S, Earlier(S))
  BY EarlierOrders, SortedLists
<1>2. n \in Nat /\ n # 0
  BY FS_CardinalityType, FS_EmptySet
<1> HIDE DEF s
<1>3. /\ n \in 1..n /\ s[n] \in S /\ s \in [1..n -> S]
      /\ \A x \in S : \E i \in 1..n : s[i] = x
      /\ \A i, j \in 1..n : i < j => <<s[i], s[j]>> \in Earlier(S)
  BY <1>1, <1>2 DEF Lists
<1> HIDE DEF n
<1>4. \A m \in S : sent_at[m] \in Nat /\ sent_at[m] \in Time
  BY ThreadAssumption DEF ThreadInv, ThreadTypeOK
<1>5. ASSUME NEW m \in S PROVE sent_at[m] <= sent_at[s[n]]
  <2>1. PICK i \in 1..n : s[i] = m
    BY <1>3
  <2>2. CASE i = n
    BY <1>3, <1>4, <2>1, <2>2
  <2>3. CASE i < n
    <3>1. <<m, s[n]>> \in Earlier(S)
      BY <1>3, <2>1, <2>3
    <3>2. sent_at[m] < sent_at[s[n]] \/ sent_at[m] = sent_at[s[n]]
      BY <3>1 DEF Earlier
    <3>3. sent_at[m] \in Nat /\ sent_at[s[n]] \in Nat
      BY <1>3, <1>4
    <3> QED
      BY <3>2, <3>3
  <2> QED
    BY <1>2, <2>1, <2>2, <2>3
<1> DEFINE Latest(t) == (\E m \in S : sent_at[m] = t) /\ (\A m \in S : sent_at[m] <= t)
<1>6. Latest(sent_at[s[n]]) /\ sent_at[s[n]] \in Time
  BY <1>3, <1>4, <1>5
<1>7. LastActivity(S) = CHOOSE t \in Time : Latest(t)
  BY DEF LastActivity
<1>8. LastActivity(S) \in Time /\ Latest(LastActivity(S))
  <2> HIDE DEF Latest
  <2> QED
    BY <1>6, <1>7
<1> QED
  BY <1>8, ThreadAssumption

(* group_threads: one conversation for each root, which lists the messages *)
(* under it in their order; the last activity does not increase from one   *)
(* to the next.                                                            *)
LEMMA ConversationsAre ==
  ASSUME ThreadAssumption, ThreadInv
  PROVE  LET conversations == GroupThreads(inbox)
             k == Cardinality(Roots)
         IN  /\ k \in Nat /\ DOMAIN conversations = 1..k
             /\ \E roots \in [1..k -> Roots] :
                  /\ \A r \in Roots : \E i \in 1..k : roots[i] = r
                  /\ \A i, j \in 1..k : i # j => roots[i] # roots[j]
                  /\ \A i, j \in 1..k : i < j =>
                       LastActivity(Under(roots[i])) >= LastActivity(Under(roots[j]))
                  /\ \A i \in 1..k : conversations[i].root = roots[i]
                  /\ \A i \in 1..k : Lists(conversations[i].messages, Under(roots[i]),
                                           Earlier(Under(roots[i])))
<1> DEFINE conversations == GroupThreads(inbox)
           k == Cardinality(Roots)
           active == [r \in Roots |-> LastActivity(Under(r))]
           roots == Sorted(Roots, MoreRecent(active))
<1>1. /\ Drained \in SUBSET MessageId /\ IsFiniteSet(Drained) /\ IsFiniteSet(Roots)
      /\ Roots = {Root(m) : m \in Drained} /\ k \in Nat
  BY DrainedFacts, FS_CardinalityType
<1>2. Roots \in SUBSET Nat
  <2>1. \A m \in Drained : Root(m) \in Nat
    BY <1>1, InboxRoots, ThreadAssumption DEF Ids
  <2> QED
    BY <1>1, <2>1
<1>3. ASSUME NEW r \in Roots
      PROVE  Under(r) \in SUBSET MessageId /\ IsFiniteSet(Under(r)) /\ Under(r) # {}
  <2>1. Under(r) \in SUBSET Drained /\ Under(r) # {}
    BY <1>1 DEF Under
  <2> QED
    BY <1>1, <2>1, FS_Subset
<1>4. ASSUME NEW r \in Roots PROVE LastActivity(Under(r)) \in Nat
  BY <1>3, LatestMessage
<1>5. active \in [Roots -> Nat] /\ DOMAIN active = Roots
  BY <1>4
<1>6. \A r \in Roots : active[r] = LastActivity(Under(r))
  OBVIOUS
<1>7. conversations =
        [i \in DOMAIN roots |->
           [root |-> roots[i], messages |-> Sorted(Under(roots[i]), Earlier(Under(roots[i])))]]
  BY DEF GroupThreads, Roots, Root, Under, Drained
<1> HIDE DEF active
<1>8. Lists(roots, Roots, MoreRecent(active))
  BY <1>1, <1>2, <1>5, MoreRecentOrders, SortedLists
<1> HIDE DEF roots, conversations
<1>9. /\ roots \in [1..k -> Roots] /\ DOMAIN roots = 1..k
      /\ \A r \in Roots : \E i \in 1..k : roots[i] = r
      /\ \A i, j \in 1..k : i < j => <<roots[i], roots[j]>> \in MoreRecent(active)
  BY <1>8 DEF Lists
<1> HIDE DEF k
<1>10. ASSUME NEW i \in 1..k, NEW j \in 1..k, i < j
       PROVE  /\ roots[i] # roots[j]
              /\ LastActivity(Under(roots[i])) >= LastActivity(Under(roots[j]))
  <2>1. /\ roots[i] \in Roots /\ roots[j] \in Roots /\ <<roots[i], roots[j]>> \in MoreRecent(active)
        /\ roots[i] \in Nat /\ roots[j] \in Nat
    BY <1>2, <1>9, <1>10
  <2>2. active[roots[i]] > active[roots[j]]
        \/ (active[roots[i]] = active[roots[j]] /\ roots[i] < roots[j])
    BY <2>1 DEF MoreRecent
  <2>3. active[roots[i]] \in Nat /\ active[roots[j]] \in Nat
    BY <1>5, <2>1
  <2>4. roots[i] # roots[j] /\ active[roots[i]] >= active[roots[j]]
    BY <2>1, <2>2, <2>3
  <2> QED
    BY <1>6, <2>1, <2>4
<1>11. ASSUME NEW i \in 1..k
       PROVE  Lists(conversations[i].messages, Under(roots[i]), Earlier(Under(roots[i])))
  <2>1. roots[i] \in Roots
    BY <1>9
  <2>2. conversations[i].messages = Sorted(Under(roots[i]), Earlier(Under(roots[i])))
    BY <1>7, <1>9
  <2> QED
    BY <1>3, <2>1, <2>2, EarlierOrders, SortedLists
<1>12. \A i, j \in 1..k : i # j => roots[i] # roots[j]
  <2>1. ASSUME NEW i \in 1..k, NEW j \in 1..k, i # j PROVE roots[i] # roots[j]
    <3>1. i < j \/ j < i
      BY <1>1, <2>1
    <3> QED
      BY <1>10, <3>1
  <2> QED
    BY <2>1
<1>13. DOMAIN conversations = 1..k /\ \A i \in 1..k : conversations[i].root = roots[i]
  BY <1>7, <1>9
<1> QED
  BY <1>1, <1>9, <1>10, <1>11, <1>12, <1>13 DEF conversations, k

(* No element twice in s; an element in s.                                 *)
Once(s) == \A a, b \in 1..Len(s) : a # b => s[a] # s[b]

In(x, s) == \E a \in 1..Len(s) : s[a] = x

(* A list of a set as a sequence.                                          *)
LEMMA ListsIn ==
  ASSUME NEW S, IsFiniteSet(S), NEW before, StrictlyOrders(before, S), NEW s, Lists(s, S, before)
  PROVE  s \in Seq(S) /\ Once(s) /\ ToSet(s) = S /\ \A x \in S : In(x, s)
<1> DEFINE n == Cardinality(S)
<1>1. n \in Nat
  BY FS_CardinalityType
<1>2. /\ s \in [1..n -> S] /\ \A x \in S : \E i \in 1..n : s[i] = x
      /\ \A i, j \in 1..n : i < j => <<s[i], s[j]>> \in before
  BY DEF Lists
<1> HIDE DEF n
<1>3. s \in Seq(S) /\ Len(s) = n /\ DOMAIN s = 1..n
  BY <1>1, <1>2, LenProperties
<1>4. ToSet(s) = S /\ \A x \in S : In(x, s)
  BY <1>2, <1>3 DEF ToSet, In
<1>5. ASSUME NEW i \in 1..n, NEW j \in 1..n, i # j PROVE s[i] # s[j]
  <2>1. i < j \/ j < i
    BY <1>1, <1>5
  <2> QED
    BY <1>2, <2>1 DEF StrictlyOrders
<1> QED
  BY <1>3, <1>4, <1>5 DEF Once

(* Messages share a conversation exactly when they share a root.           *)
LEMMA ConversationsTogether ==
  ASSUME ThreadAssumption, ThreadInv, NEW m \in Drained, NEW n \in Drained
  PROVE  Together(m, n, GroupThreads(inbox)) <=> Root(m) = Root(n)
<1> DEFINE conversations == GroupThreads(inbox)
           k == Cardinality(Roots)
<1>1. PICK roots \in [1..k -> Roots] :
        /\ DOMAIN conversations = 1..k
        /\ \A r \in Roots : \E i \in 1..k : roots[i] = r
        /\ \A i \in 1..k : Lists(conversations[i].messages, Under(roots[i]), Earlier(Under(roots[i])))
  BY ConversationsAre
<1> HIDE DEF conversations, k
<1>2. Drained \in SUBSET MessageId /\ IsFiniteSet(Drained) /\ Roots = {Root(x) : x \in Drained}
  BY DrainedFacts
<1>3. ASSUME NEW i \in 1..k PROVE ToSet(conversations[i].messages) = Under(roots[i])
  <2>1. Under(roots[i]) \in SUBSET Drained
    BY DEF Under
  <2>2. Under(roots[i]) \in SUBSET MessageId /\ IsFiniteSet(Under(roots[i]))
    BY <1>2, <2>1, FS_Subset
  <2> QED
    BY <1>1, <2>2, EarlierOrders, ListsIn
<1>4. Together(m, n, conversations) <=> \E i \in 1..k : m \in Under(roots[i]) /\ n \in Under(roots[i])
  BY <1>1, <1>3 DEF Together
<1>5. \A i \in 1..k : /\ m \in Under(roots[i]) <=> Root(m) = roots[i]
                      /\ n \in Under(roots[i]) <=> Root(n) = roots[i]
  BY DEF Under
<1>6. \E i \in 1..k : roots[i] = Root(m)
  BY <1>1, <1>2
<1> QED
  BY <1>4, <1>5, <1>6 DEF conversations

-----------------------------------------------------------------------------
(* The invariant, and what the conversations are.                          *)

(* Receiving an envelope changes the inbox only, never the links.          *)
LEMMA ThreadInvariant == ThreadSpec => []ThreadInv
<1>1. ThreadInit => ThreadInv
  BY EmptySeq DEF ThreadInit, ThreadInv, ThreadTypeOK
<1>2. ThreadInv /\ [Receive]_threadVars => ThreadInv'
  <2> SUFFICES ASSUME ThreadInv, [Receive]_threadVars PROVE ThreadInv'
    OBVIOUS
  <2>1. in_reply_to' = in_reply_to /\ sent_at' = sent_at /\ subject' = subject
    BY DEF Receive, threadVars
  <2>2. inbox' \in Seq(MessageId)
    BY AppendProperties DEF Receive, threadVars, ThreadInv, ThreadTypeOK
  <2> QED
    BY <2>1, <2>2 DEF ThreadInv, ThreadTypeOK, Acyclic
<1> QED
  BY <1>1, <1>2, PTL DEF ThreadSpec

(* The inbox is a sequence of messages of the correspondence.              *)
THEOREM ThreadTypesOK == ThreadSpec => []ThreadTypeOK
<1>1. ThreadInv => ThreadTypeOK
  BY DEF ThreadInv
<1> QED
  BY <1>1, ThreadInvariant, PTL

(* group_threads: two messages are in one conversation exactly when        *)
(* replies connect them, through messages the inbox has and parents it     *)
(* has never seen.                                                         *)
THEOREM ThreadsAreComponents == ThreadSpec => []ConversationsAreComponents
<1>1. ThreadInv => ConversationsAreComponents
  <2> SUFFICES ASSUME ThreadInv PROVE ConversationsAreComponents
    OBVIOUS
  <2>1. ASSUME NEW m \in Drained, NEW n \in Drained
        PROVE  Together(m, n, GroupThreads(inbox)) <=> Connected(m, n, Drained)
    BY ThreadAssumption, Components, ConversationsTogether
  <2> QED
    BY <2>1 DEF ConversationsAreComponents, Drained
<1> QED
  BY <1>1, ThreadInvariant, PTL

-----------------------------------------------------------------------------
(* What the conversations list.                                            *)

(* Two sequences without a common element, one after the other.            *)
LEMMA JoinedOnce ==
  ASSUME NEW S, NEW p \in Seq(S), NEW q \in Seq(S)
  PROVE  /\ \A x : In(x, p \o q) <=> In(x, p) \/ In(x, q)
         /\ Once(p) /\ Once(q) /\ (\A x \in S : ~(In(x, p) /\ In(x, q))) => Once(p \o q)
<1> DEFINE s == p \o q
           l == Len(p)
<1>1. /\ l \in Nat /\ Len(q) \in Nat /\ Len(s) = l + Len(q)
      /\ \A a \in 1..Len(s) : s[a] = IF a <= l THEN p[a] ELSE q[a - l]
      /\ \A a \in 1..l : p[a] \in S
      /\ \A a \in 1..Len(q) : q[a] \in S
  BY ConcatProperties, LenProperties, ElementOfSeq
<1> HIDE DEF s
<1>2. ASSUME NEW a \in 1..l PROVE a \in 1..Len(s) /\ s[a] = p[a]
  <2>1. a \in 1..Len(s) /\ a <= l
    BY <1>1
  <2> QED
    BY <1>1, <2>1
<1>3. ASSUME NEW a \in 1..Len(q) PROVE a + l \in 1..Len(s) /\ s[a + l] = q[a]
  <2>1. a + l \in 1..Len(s) /\ ~(a + l <= l) /\ (a + l) - l = a
    BY <1>1
  <2> QED
    BY <1>1, <2>1
<1>4. ASSUME NEW a \in 1..Len(s)
      PROVE  a \in 1..l \/ \E c \in 1..Len(q) : a = c + l
  <2>1. a \in 1..l \/ (a - l \in 1..Len(q) /\ a = (a - l) + l)
    BY <1>1
  <2> QED
    BY <2>1
<1>5. ASSUME NEW x PROVE In(x, s) <=> In(x, p) \/ In(x, q)
  <2>1. ASSUME NEW a \in 1..Len(s), s[a] = x PROVE In(x, p) \/ In(x, q)
    <3>1. CASE a \in 1..l
      BY <1>2, <2>1, <3>1 DEF In
    <3>2. CASE \E c \in 1..Len(q) : a = c + l
      BY <1>3, <2>1, <3>2 DEF In
    <3> QED
      BY <1>4, <3>1, <3>2
  <2>2. In(x, p) => In(x, s)
    BY <1>2 DEF In
  <2>3. In(x, q) => In(x, s)
    BY <1>3 DEF In
  <2> QED
    BY <2>1, <2>2, <2>3 DEF In
<1>6. ASSUME Once(p), Once(q), \A x \in S : ~(In(x, p) /\ In(x, q)) PROVE Once(s)
  <2> SUFFICES ASSUME NEW a \in 1..Len(s), NEW b \in 1..Len(s), a # b, s[a] = s[b] PROVE FALSE
    BY DEF Once
  <2>1. CASE a \in 1..l /\ b \in 1..l
    BY <1>2, <1>6, <2>1 DEF Once
  <2>2. ASSUME NEW c \in 1..l, NEW d \in 1..Len(q) PROVE p[c] # q[d]
    <3>1. p[c] \in S /\ In(p[c], p)
      BY <1>1 DEF In
    <3>2. p[c] = q[d] => In(p[c], q)
      BY DEF In
    <3> QED
      BY <1>6, <3>1, <3>2
  <2>3. CASE a \in 1..l /\ b \notin 1..l
    <3>1. PICK d \in 1..Len(q) : b = d + l
      BY <1>4, <2>3
    <3>2. s[a] = p[a] /\ s[b] = q[d] /\ p[a] # q[d]
      BY <1>2, <1>3, <2>2, <2>3, <3>1
    <3> QED
      BY <3>2
  <2>4. CASE a \notin 1..l /\ b \in 1..l
    <3>1. PICK c \in 1..Len(q) : a = c + l
      BY <1>4, <2>4
    <3>2. s[b] = p[b] /\ s[a] = q[c] /\ p[b] # q[c]
      BY <1>2, <1>3, <2>2, <2>4, <3>1
    <3> QED
      BY <3>2
  <2>5. CASE a \notin 1..l /\ b \notin 1..l
    <3>1. PICK c \in 1..Len(q) : a = c + l
      BY <1>4, <2>5
    <3>2. PICK d \in 1..Len(q) : b = d + l
      BY <1>4, <2>5
    <3>3. q[c] = q[d] /\ c # d
      BY <1>3, <3>1, <3>2
    <3> QED
      BY <1>6, <3>3 DEF Once
  <2> QED
    BY <2>1, <2>3, <2>4, <2>5
<1> QED
  BY <1>5, <1>6 DEF s

(* Parts that have no element in common, and none twice, list together     *)
(* each of their elements once.                                            *)
Divides(parts, n, S) ==
  /\ \A i \in 1..n : Once(parts[i])
  /\ \A i, j \in 1..n : i # j => \A x \in S : ~(In(x, parts[i]) /\ In(x, parts[j]))
  /\ \A x \in S : \E i \in 1..n : In(x, parts[i])

(* Such parts, one after the other, are a sequence of the set.             *)
LEMMA PartsListOnce ==
  ASSUME NEW S, NEW n \in Nat, n >= 1, NEW parts \in [1..n -> Seq(S)], Divides(parts, n, S)
  PROVE  FlattenSeq(parts) \in SetToSeqs(S)
<1>1. PICK flat \in [0..n -> Seq(S)] :
        /\ flat[0] = <<>>
        /\ \A i \in 1..n : flat[i] = flat[i - 1] \o parts[i]
        /\ FlattenSeq(parts) = flat[n]
  BY Flattening
<1> DEFINE T == {k \in 0..n : /\ Once(flat[k])
                              /\ \A x \in S : In(x, flat[k]) <=> \E i \in 1..k : In(x, parts[i])}
<1>2. 0 \in T
  <2>1. Len(flat[0]) = 0
    BY <1>1
  <2>2. Once(flat[0]) /\ \A x \in S : ~In(x, flat[0])
    BY <2>1 DEF Once, In
  <2> QED
    BY <2>2
<1>3. ASSUME NEW k \in 0..(n - 1), k \in T PROVE k + 1 \in T
  <2>1. /\ k + 1 \in 1..n /\ k + 1 \in 0..n /\ k \in 0..n /\ (k + 1) - 1 = k
        /\ \A i \in 1..k : i \in 1..n /\ i # k + 1
        /\ \A i \in 1..(k + 1) : i = k + 1 \/ i \in 1..k
        /\ \A i \in 1..k : i \in 1..(k + 1)
        /\ k + 1 \in 1..(k + 1)
    OBVIOUS
  <2> DEFINE p == flat[k]
             q == parts[k + 1]
             s == flat[k + 1]
  <2>2. p \in Seq(S) /\ q \in Seq(S) /\ s = p \o q
    BY <1>1, <2>1
  <2>3. Once(p) /\ \A x \in S : In(x, p) <=> \E i \in 1..k : In(x, parts[i])
    BY <1>3
  <2>4. Once(q) /\ \A x \in S : In(x, q) => \A i \in 1..k : ~In(x, parts[i])
    BY <2>1 DEF Divides
  <2> HIDE DEF p, s, T
  <2>5. /\ \A x \in S : In(x, s) <=> In(x, p) \/ In(x, q)
        /\ Once(s)
    BY <2>2, <2>3, <2>4, JoinedOnce
  <2>6. ASSUME NEW x \in S PROVE In(x, s) <=> \E i \in 1..(k + 1) : In(x, parts[i])
    BY <2>1, <2>3, <2>5
  <2> QED
    BY <2>1, <2>5, <2>6 DEF T, s
<1>4. n \in T
  <2> HIDE DEF T
  <2>1. 0..n \subseteq T
    BY <1>2, <1>3, CountingUp
  <2> QED
    BY <2>1
<1> DEFINE s == flat[n]
<1>5. n \in 0..n /\ s \in Seq(S)
  OBVIOUS
<1>6. Once(s) /\ \A x \in S : In(x, s)
  BY <1>4 DEF Divides
<1> HIDE DEF s, T
<1>7. Len(s) \in Nat /\ DOMAIN s = 1..Len(s) /\ s \in [1..Len(s) -> S]
  BY <1>5, LenProperties
<1>8. s \in Surjection(1..Len(s), S) /\ s \in Injection(1..Len(s), S)
  BY <1>6, <1>7 DEF Surjection, Injection, IsInjective, Once, In
<1>9. Len(s) = Cardinality(S)
  <2>1. IsFiniteSet(1..Len(s)) /\ Cardinality(1..Len(s)) = Len(s)
    <3> DEFINE l == Len(s)
    <3>1. 1 \in Int /\ l \in Int /\ l \in Nat
      BY <1>7
    <3> HIDE DEF l
    <3>2. IsFiniteSet(1..l) /\ Cardinality(1..l) = IF 1 > l THEN 0 ELSE l - 1 + 1
      BY <3>1, FS_Interval
    <3> QED
      BY <3>1, <3>2 DEF l
  <2> QED
    BY <1>8, <2>1, FS_Surjection
<1>10. s \in SetToSeqs(S)
  BY <1>6, <1>7, <1>9 DEF SetToSeqs, Once
<1> QED
  BY <1>1, <1>10 DEF s

(* group_threads lists each message that was drained, however often, once, *)
(* and its conversations by their last activity.                           *)
THEOREM ThreadsListOnce == ThreadSpec => []ListedOnceLatestFirst
<1>1. ASSUME ThreadInv PROVE ListedOnceLatestFirst
  <2> DEFINE conversations == GroupThreads(inbox)
             k == Cardinality(Roots)
             parts == [i \in DOMAIN conversations |-> conversations[i].messages]
  <2>1. k \in Nat /\ DOMAIN conversations = 1..k
    BY ThreadAssumption, <1>1, ConversationsAre
  <2>2. PICK roots \in [1..k -> Roots] :
          /\ \A r \in Roots : \E i \in 1..k : roots[i] = r
          /\ \A i, j \in 1..k : i # j => roots[i] # roots[j]
          /\ \A i, j \in 1..k : i < j =>
               LastActivity(Under(roots[i])) >= LastActivity(Under(roots[j]))
          /\ \A i \in 1..k : Lists(conversations[i].messages, Under(roots[i]),
                                   Earlier(Under(roots[i])))
    BY ThreadAssumption, <1>1, ConversationsAre
  <2> HIDE DEF conversations
  <2>3. Drained \in SUBSET MessageId /\ IsFiniteSet(Drained) /\ IsFiniteSet(Roots)
        /\ Roots = {Root(x) : x \in Drained}
    BY <1>1, DrainedFacts
  <2>4. k = 0 => Drained = {}
    <3>1. k = 0 => Roots = {}
      BY <2>3, FS_EmptySet
    <3> QED
      BY <2>3, <3>1
  <2> HIDE DEF k
  <2>5. ASSUME NEW i \in 1..k
        PROVE  /\ Under(roots[i]) \in SUBSET Drained /\ Under(roots[i]) \in SUBSET MessageId
               /\ IsFiniteSet(Under(roots[i])) /\ Under(roots[i]) # {}
               /\ conversations[i].messages \in Seq(Under(roots[i]))
               /\ Once(conversations[i].messages)
               /\ ToSet(conversations[i].messages) = Under(roots[i])
               /\ \A x \in Under(roots[i]) : In(x, conversations[i].messages)
    <3>1. Under(roots[i]) \in SUBSET Drained /\ Under(roots[i]) # {}
      BY <2>2, <2>3 DEF Under
    <3>2. Under(roots[i]) \in SUBSET MessageId /\ IsFiniteSet(Under(roots[i]))
      BY <2>3, <3>1, FS_Subset
    <3> QED
      BY ThreadAssumption, <1>1, <2>2, <3>1, <3>2, EarlierOrders, ListsIn
  <2>6. FlattenSeq(parts) \in SetToSeqs(Drained)
    <3>1. CASE k = 0
      <4>1. DOMAIN parts = {} /\ Drained = {} /\ parts = <<>>
        BY <2>1, <2>4, <3>1
      <4> HIDE DEF parts
      <4>2. FlattenSeq(parts) = <<>>
        BY <4>1 DEF FlattenSeq
      <4>3. SetToSeqs({}) = {f \in [1..0 -> {}] : \A i, j \in 1..0 : i # j => f[i] # f[j]}
        BY FS_EmptySet DEF SetToSeqs
      <4>4. <<>> \in [1..0 -> {}] /\ 1..0 = {}
        OBVIOUS
      <4> QED
        BY <4>1, <4>2, <4>3, <4>4
    <3>2. CASE k # 0
      <4>1. \A i \in 1..k : parts[i] = conversations[i].messages
        BY <2>1
      <4>2. ASSUME NEW i \in 1..k PROVE parts[i] \in Seq(Drained)
        <5>1. Under(roots[i]) \in SUBSET Drained /\ parts[i] \in Seq(Under(roots[i]))
          BY <2>5, <4>1
        <5> HIDE DEF parts
        <5> QED
          BY <5>1, SeqDef
      <4>3. parts \in [1..k -> Seq(Drained)]
        BY <2>1, <4>2
      <4> HIDE DEF parts
      <4>4. \A i \in 1..k : \A x \in Drained : In(x, parts[i]) => Root(x) = roots[i]
        <5>1. ASSUME NEW i \in 1..k, NEW x \in Drained, In(x, parts[i]) PROVE Root(x) = roots[i]
          <6>1. parts[i] \in Seq(Under(roots[i]))
            BY <2>5, <4>1
          <6>2. x \in Under(roots[i])
            BY <5>1, <6>1, ElementOfSeq DEF In
          <6> QED
            BY <6>2 DEF Under
        <5> QED
          BY <5>1
      <4>5. \A x \in Drained : \E i \in 1..k : In(x, parts[i])
        <5>1. ASSUME NEW x \in Drained PROVE \E i \in 1..k : In(x, parts[i])
          <6>1. PICK i \in 1..k : roots[i] = Root(x)
            BY <2>2, <2>3
          <6>2. x \in Under(roots[i])
            BY <6>1 DEF Under
          <6> QED
            BY <2>5, <4>1, <6>2
        <5> QED
          BY <5>1
      <4>6. Divides(parts, k, Drained)
        BY <2>2, <2>5, <4>1, <4>4, <4>5 DEF Divides
      <4>7. k >= 1
        BY <2>1, <3>2
      <4> QED
        BY <2>1, <4>3, <4>6, <4>7, PartsListOnce
    <3> QED
      BY <3>1, <3>2
  <2>7. ASSUME NEW i \in DOMAIN conversations, NEW j \in DOMAIN conversations, i < j,
               NEW n \in ToSet(conversations[j].messages)
        PROVE  \E m \in ToSet(conversations[i].messages) : sent_at[m] >= sent_at[n]
    <3>1. i \in 1..k /\ j \in 1..k /\ n \in Under(roots[j])
      BY <2>1, <2>5
    <3>2. LastActivity(Under(roots[i])) >= LastActivity(Under(roots[j]))
      BY <2>2, <2>7, <3>1
    <3>3. /\ LastActivity(Under(roots[i])) \in Nat
          /\ \E m \in Under(roots[i]) : sent_at[m] = LastActivity(Under(roots[i]))
      BY ThreadAssumption, <1>1, <2>5, <3>1, LatestMessage
    <3>4. /\ LastActivity(Under(roots[j])) \in Nat
          /\ sent_at[n] <= LastActivity(Under(roots[j]))
      BY ThreadAssumption, <1>1, <2>5, <3>1, LatestMessage
    <3>5. sent_at[n] \in Nat
      BY <1>1, <2>5, <3>1, ThreadAssumption DEF ThreadInv, ThreadTypeOK
    <3>6. PICK m \in Under(roots[i]) : sent_at[m] = LastActivity(Under(roots[i]))
      BY <3>3
    <3>7. sent_at[m] >= sent_at[n]
      BY <3>2, <3>3, <3>4, <3>5, <3>6
    <3> QED
      BY <2>5, <3>1, <3>6, <3>7
  <2> QED
    BY <2>6, <2>7 DEF ListedOnceLatestFirst, conversations, Drained
<1> QED
  BY <1>1, ThreadInvariant, PTL

-----------------------------------------------------------------------------
(* Where a title begins.                                                   *)

Token == DOMAIN Lowercase

(* strip_prefix_token finds one prefix at most: a colon right behind the   *)
(* word, or the first behind a bracketed count.                            *)
LEMMA EndsFromUnique ==
  ASSUME NEW s \in Seq(Token), NEW i \in Nat, i >= 1,
         NEW c \in PrefixEndsFrom(s, i), NEW d \in PrefixEndsFrom(s, i)
  PROVE  c = d
<1> Len(s) \in Nat
  BY LenProperties
<1>1. PICK j \in FirstText(s, i) : c \in PrefixEnd(s, j)
  BY DEF PrefixEndsFrom
<1>2. PICK k \in FirstText(s, i) : d \in PrefixEnd(s, k)
  BY DEF PrefixEndsFrom
<1>3. j = k
  <2>1. /\ j \in i..Len(s) /\ s[j] # Blank /\ \A x \in i..(j - 1) : s[x] = Blank
        /\ k \in i..Len(s) /\ s[k] # Blank /\ \A x \in i..(k - 1) : s[x] = Blank
    BY DEF FirstText
  <2>2. j \in Int /\ k \in Int /\ j >= i /\ k >= i
    BY <2>1
  <2>3. ~(j < k)
    <3>1. j < k => j \in i..(k - 1)
      BY <2>2
    <3> QED
      BY <2>1, <3>1
  <2>4. ~(k < j)
    <3>1. k < j => k \in i..(j - 1)
      BY <2>2
    <3> QED
      BY <2>1, <3>1
  <2> QED
    BY <2>2, <2>3, <2>4
<1> DEFINE Counted(x) == /\ x > j + 2 /\ s[j + 1] = "[" /\ s[x - 1] = "]"
                         /\ \A y \in (j + 2)..(x - 2) : s[y] \in Digit
<1>4. /\ c \in (j + 1)..Len(s) /\ s[c] = ":" /\ (c = j + 1 \/ Counted(c))
      /\ d \in (j + 1)..Len(s) /\ s[d] = ":" /\ (d = j + 1 \/ Counted(d))
      /\ j \in Int /\ c \in Int /\ d \in Int
  BY <1>1, <1>2, <1>3 DEF PrefixEnd, FirstText
<1>5. ":" # "["
  OBVIOUS
<1>6. "]" \notin Digit
  BY DEF Digit
<1>7. ASSUME NEW x \in Int, NEW y \in Int, Counted(x), Counted(y) PROVE ~(x < y)
  <2>1. x < y => x - 1 \in (j + 2)..(y - 2)
    BY <1>4, <1>7
  <2> QED
    BY <1>6, <1>7, <2>1
<1>8. CASE c = j + 1 \/ d = j + 1
  <2>1. s[j + 1] = ":"
    BY <1>4, <1>8
  <2> QED
    BY <1>4, <1>5, <1>8, <2>1
<1>9. CASE Counted(c) /\ Counted(d)
  <2>1. ~(c < d) /\ ~(d < c)
    BY <1>4, <1>7, <1>9
  <2> QED
    BY <1>4, <2>1
<1> QED
  BY <1>4, <1>8, <1>9

(* A prefix ends within the text, and further on than it was looked for.   *)
LEMMA EndsFromRange ==
  ASSUME NEW s \in Seq(Token), NEW i \in Nat, i >= 1
  PROVE  /\ Len(s) \in Nat
         /\ FirstText(s, i) \in SUBSET (1..Len(s))
         /\ \A c \in PrefixEndsFrom(s, i) : c \in 1..Len(s) /\ c > i
<1>1. Len(s) \in Nat
  BY LenProperties
<1>2. FirstText(s, i) \in SUBSET (i..Len(s))
  BY DEF FirstText
<1>3. ASSUME NEW c \in PrefixEndsFrom(s, i) PROVE c \in 1..Len(s) /\ c > i
  <2>1. PICK j \in i..Len(s) : c \in (j + 1)..Len(s)
    BY <1>2, <1>3 DEF PrefixEndsFrom, PrefixEnd
  <2> QED
    BY <1>1, <2>1
<1> QED
  BY <1>1, <1>2, <1>3

(* Where the text from each place on begins behind its prefixes.           *)
Starts(start, s) ==
  /\ start \in [1..(Len(s) + 1) -> SUBSET (1..Len(s))]
  /\ \A i \in 1..(Len(s) + 1) :
       start[i] = IF PrefixEndsFrom(s, i) = {} THEN FirstText(s, i)
                  ELSE UNION {start[c + 1] : c \in PrefixEndsFrom(s, i)}

(* So taking off prefixes ends, and finds one place or none.               *)
LEMMA StartsExists ==
  ASSUME NEW s \in Seq(Token)
  PROVE  \E start : Starts(start, s) /\ TitleStart(s) = start[1]
<1> DEFINE n == Len(s)
           P == 1..(n + 1)
           V == SUBSET (1..n)
           E(i) == PrefixEndsFrom(s, i)
           D == {i \in P : E(i) # {}}
           next == [i \in D |-> (CHOOSE c \in E(i) : TRUE) + 1]
           base == [i \in P \ D |-> FirstText(s, i)]
           step == [t \in D \X V |-> t[2]]
           Starting(f) == f = [i \in P |-> IF PrefixEndsFrom(s, i) = {} THEN FirstText(s, i)
                                           ELSE UNION {f[c + 1] : c \in PrefixEndsFrom(s, i)}]
<1>1. n \in Nat
  BY LenProperties
<1>2. ASSUME NEW i \in P
      PROVE  FirstText(s, i) \in V /\ \A c \in E(i) : c \in 1..n /\ c > i /\ c + 1 \in P /\ c + 1 > i
  <2>1. i \in Nat /\ i >= 1
    BY <1>1
  <2>2. FirstText(s, i) \in V /\ \A c \in E(i) : c \in 1..n /\ c > i
    BY <2>1, EndsFromRange
  <2> QED
    BY <1>1, <2>1, <2>2
<1>3. ASSUME NEW i \in D PROVE \E c \in E(i) : E(i) = {c} /\ next[i] = c + 1
  <2>1. i \in Nat /\ i >= 1
    BY <1>1
  <2>2. \A c, d \in E(i) : c = d
    BY <2>1, EndsFromUnique
  <2> HIDE DEF E
  <2> QED
    BY <2>2
<1> HIDE DEF E
<1>4. next \in [D -> P] /\ D \in SUBSET P
  <2>1. \A i \in D : next[i] \in P
    BY <1>2, <1>3
  <2>2. next = [i \in D |-> next[i]]
    OBVIOUS
  <2> HIDE DEF next
  <2> QED
    BY <2>1, <2>2
<1>5. WellFounded(next, P)
  <2> SUFFICES ASSUME NEW S \in SUBSET P, S # {}
               PROVE  \E p \in S : p \notin DOMAIN next \/ next[p] \notin S
    BY DEF WellFounded
  <2>1. PICK p \in S : \A q \in S : q <= p
    <3>1. n + 1 \in Nat
      BY <1>1
    <3> QED
      BY <3>1, LargestPlace
  <2>2. p \in D => next[p] > p /\ next[p] \in P
    BY <1>2, <1>3
  <2>3. p \in P /\ (next[p] \in P => ~(next[p] > p /\ next[p] <= p))
    BY <1>1
  <2> QED
    BY <2>1, <2>2, <2>3
<1>6. base \in [P \ D -> V] /\ step \in [D \X V -> V]
  BY <1>2
<1> HIDE DEF next
<1>7. PICK f : Descends(f, P, V, next, base, step)
  <2> HIDE DEF P, V, D, base, step
  <2> QED
    BY <1>4, <1>5, <1>6, DescentExists
<1>8. f \in [P -> V]
  BY <1>7 DEF Descends
<1>9. ASSUME NEW i \in P
      PROVE  f[i] = IF PrefixEndsFrom(s, i) = {} THEN FirstText(s, i)
                    ELSE UNION {f[c + 1] : c \in PrefixEndsFrom(s, i)}
  <2>1. f[i] = IF i \in D THEN step[<<i, f[next[i]]>>] ELSE base[i]
    BY <1>4, <1>7 DEF Descends
  <2>2. CASE i \in D
    <3>1. PICK c \in E(i) : E(i) = {c} /\ next[i] = c + 1
      BY <1>3, <2>2
    <3>2. f[c + 1] \in V /\ f[i] = f[c + 1]
      BY <1>4, <1>8, <2>1, <2>2, <3>1
    <3>3. UNION {f[x + 1] : x \in E(i)} = f[c + 1]
      BY <3>1
    <3> QED
      BY <3>1, <3>2, <3>3 DEF E
  <2>3. CASE i \notin D
    BY <2>1, <2>3 DEF E
  <2> QED
    BY <2>2, <2>3
<1> HIDE DEF P
<1>10. Starting(f)
  BY <1>8, <1>9
<1> DEFINE start == CHOOSE g : Starting(g)
<1>11. Starting(start)
  <2> HIDE DEF Starting
  <2> QED
    BY <1>10
<1>12. TitleStart(s) = start[1]
  BY DEF TitleStart, P
<1> HIDE DEF start
<1>13. ASSUME NEW i \in P
       PROVE  start[i] = IF E(i) = {} THEN FirstText(s, i) ELSE UNION {start[c + 1] : c \in E(i)}
  BY <1>11 DEF E
<1>14. \A i \in P : start[i] = f[i]
  <2> DEFINE Bad == {i \in P : start[i] # f[i]}
  <2> SUFFICES ASSUME Bad # {} PROVE FALSE
    OBVIOUS
  <2>1. PICK i \in Bad : i \notin DOMAIN next \/ next[i] \notin Bad
    <3>1. Bad \in SUBSET P
      OBVIOUS
    <3> HIDE DEF Bad
    <3> QED
      BY <1>5, <3>1 DEF WellFounded
  <2>2. CASE i \in D
    <3>1. PICK c \in E(i) : E(i) = {c} /\ next[i] = c + 1
      BY <1>3, <2>2
    <3>2. start[c + 1] = f[c + 1]
      BY <1>4, <2>1, <2>2, <3>1
    <3>3. start[i] = UNION {start[x + 1] : x \in E(i)} /\ f[i] = UNION {f[x + 1] : x \in E(i)}
      BY <1>9, <1>13, <2>1, <3>1 DEF E
    <3>4. start[i] = f[i]
      BY <3>1, <3>2, <3>3
    <3> QED
      BY <2>1, <3>4
  <2>3. CASE i \notin D
    BY <1>9, <1>13, <2>1, <2>3 DEF E
  <2> QED
    BY <2>2, <2>3
<1>15. start \in [P -> V]
  <2>1. start = [i \in P |-> start[i]]
    BY <1>11
  <2> QED
    BY <1>8, <1>14, <2>1
<1> QED
  BY <1>12, <1>13, <1>15 DEF Starts, P, E

(* The places of S, l further on.                                          *)
Shifted(S, l) == {l + x : x \in S}

(* The tokens of a text behind another.                                    *)
LEMMA JoinedTokens ==
  ASSUME NEW p \in Seq(Token), NEW t \in Seq(Token)
  PROVE  /\ p \o t \in Seq(Token) /\ Len(p) \in Nat /\ Len(t) \in Nat
         /\ Len(p \o t) = Len(p) + Len(t)
         /\ \A i \in 1..Len(p) : (p \o t)[i] = p[i]
         /\ \A i \in 1..Len(t) : (p \o t)[Len(p) + i] = t[i]
<1> DEFINE s == p \o t
           l == Len(p)
           n == Len(t)
<1>1. /\ s \in Seq(Token) /\ l \in Nat /\ n \in Nat /\ Len(s) = l + n
      /\ \A i \in 1..Len(s) : s[i] = IF i <= l THEN p[i] ELSE t[i - l]
  BY ConcatProperties, LenProperties
<1> HIDE DEF s, l, n
<1>2. ASSUME NEW i \in 1..l PROVE s[i] = p[i]
  <2>1. i \in 1..Len(s) /\ i <= l
    BY <1>1
  <2> QED
    BY <1>1, <2>1
<1>3. ASSUME NEW i \in 1..n PROVE s[l + i] = t[i]
  <2>1. l + i \in 1..Len(s) /\ ~(l + i <= l) /\ (l + i) - l = i
    BY <1>1
  <2> QED
    BY <1>1, <2>1
<1> QED
  BY <1>1, <1>2, <1>3 DEF s, l, n

(* Behind p the text t has its beginnings and prefixes where it had them.  *)
LEMMA ShiftedText ==
  ASSUME NEW p \in Seq(Token), NEW t \in Seq(Token), NEW i \in 1..(Len(t) + 1)
  PROVE  /\ FirstText(p \o t, Len(p) + i) = Shifted(FirstText(t, i), Len(p))
         /\ PrefixEndsFrom(p \o t, Len(p) + i) = Shifted(PrefixEndsFrom(t, i), Len(p))
<1> DEFINE s == p \o t
           l == Len(p)
           n == Len(t)
<1>1. /\ l \in Nat /\ n \in Nat /\ Len(s) = l + n
      /\ \A x \in 1..n : s[l + x] = t[x]
  BY JoinedTokens
<1> HIDE DEF s, l, n
<1>2. i \in 1..(n + 1)
  BY DEF n
<1>3. ASSUME NEW j \in Int
      PROVE  l + j \in FirstText(s, l + i) <=> j \in FirstText(t, i)
  <2>1. l + j \in (l + i)..Len(s) <=> j \in i..n
    BY <1>1, <1>2
  <2>2. ASSUME j \in i..n
        PROVE  /\ s[l + j] = t[j]
               /\ (\A k \in (l + i)..((l + j) - 1) : s[k] = Blank)
                    <=> (\A k \in i..(j - 1) : t[k] = Blank)
    <3>1. j \in 1..n
      BY <1>1, <1>2, <2>2
    <3>2. ASSUME NEW k \in i..(j - 1)
          PROVE  l + k \in (l + i)..((l + j) - 1) /\ s[l + k] = t[k]
      <4>1. k \in 1..n /\ l + k \in (l + i)..((l + j) - 1)
        BY <1>1, <1>2, <2>2
      <4> QED
        BY <1>1, <4>1
    <3>3. ASSUME NEW k \in (l + i)..((l + j) - 1)
          PROVE  k - l \in i..(j - 1) /\ l + (k - l) = k
      BY <1>1, <1>2
    <3>4. ASSUME \A k \in (l + i)..((l + j) - 1) : s[k] = Blank, NEW k \in i..(j - 1)
          PROVE  t[k] = Blank
      BY <3>2, <3>4
    <3>5. ASSUME \A k \in i..(j - 1) : t[k] = Blank, NEW k \in (l + i)..((l + j) - 1)
          PROVE  s[k] = Blank
      <4>1. t[k - l] = Blank /\ s[l + (k - l)] = t[k - l]
        BY <3>2, <3>3, <3>5
      <4> QED
        BY <3>3, <4>1
    <3>6. s[l + j] = t[j]
      BY <1>1, <3>1
    <3> QED
      BY <3>4, <3>5, <3>6
  <2>3. l + j \in FirstText(s, l + i) <=>
          l + j \in (l + i)..Len(s) /\ s[l + j] # Blank /\ \A k \in (l + i)..((l + j) - 1) : s[k] = Blank
    <3>1. \A a, b : a \in FirstText(s, b) <=>
                       a \in b..Len(s) /\ s[a] # Blank /\ \A k \in b..(a - 1) : s[k] = Blank
      BY DEF FirstText
    <3> QED
      BY <3>1
  <2>4. j \in FirstText(t, i) <=>
          j \in i..n /\ t[j] # Blank /\ \A k \in i..(j - 1) : t[k] = Blank
    BY DEF FirstText, n
  <2>5. CASE j \in i..n
    BY <2>1, <2>2, <2>3, <2>4, <2>5
  <2>6. CASE j \notin i..n
    BY <2>1, <2>3, <2>4, <2>6
  <2> QED
    BY <2>5, <2>6
<1>4. \A j \in FirstText(s, l + i) : j - l \in Int /\ l + (j - l) = j
  BY <1>1 DEF FirstText
<1>5. \A j \in FirstText(t, i) : j \in Int /\ j \in 1..n
  BY <1>1, <1>2 DEF FirstText, n
<1>6. FirstText(s, l + i) = Shifted(FirstText(t, i), l)
  <2>1. ASSUME NEW j \in FirstText(s, l + i) PROVE j \in Shifted(FirstText(t, i), l)
    <3>1. j - l \in FirstText(t, i)
      BY <1>3, <1>4
    <3> QED
      BY <1>4, <3>1 DEF Shifted
  <2>2. ASSUME NEW j \in Shifted(FirstText(t, i), l) PROVE j \in FirstText(s, l + i)
    <3>1. PICK x \in FirstText(t, i) : j = l + x
      BY DEF Shifted
    <3> QED
      BY <1>3, <1>5, <3>1
  <2> QED
    BY <2>1, <2>2
<1>7. ASSUME NEW j \in 1..n, NEW c \in Int
      PROVE  l + c \in PrefixEnd(s, l + j) <=> c \in PrefixEnd(t, j)
  <2>1. l + c \in (l + j + 1)..Len(s) <=> c \in (j + 1)..n
    BY <1>1
  <2>2. s[l + j] = t[j]
    BY <1>1
  <2>3. ASSUME c \in (j + 1)..n
        PROVE  /\ s[l + c] = t[c]
               /\ l + c = l + j + 1 <=> c = j + 1
               /\ l + c > l + j + 2 <=> c > j + 2
    <3>1. c \in 1..n /\ l \in Int /\ j \in Int
      BY <1>1, <2>3
    <3>2. s[l + c] = t[c]
      BY <1>1, <3>1
    <3>3. /\ l + c = l + j + 1 <=> c = j + 1
          /\ l + c > l + j + 2 <=> c > j + 2
      BY <3>1
    <3> QED
      BY <3>2, <3>3
  <2>4. ASSUME c \in (j + 1)..n, c > j + 2
        PROVE  /\ s[l + j + 1] = t[j + 1] /\ s[(l + c) - 1] = t[c - 1]
               /\ (\A k \in (l + j + 2)..((l + c) - 2) : s[k] \in Digit)
                    <=> (\A k \in (j + 2)..(c - 2) : t[k] \in Digit)
    <3>1. /\ j + 1 \in 1..n /\ l + j + 1 = l + (j + 1)
          /\ c - 1 \in 1..n /\ (l + c) - 1 = l + (c - 1)
      BY <1>1, <2>4
    <3>2. ASSUME NEW k \in (j + 2)..(c - 2)
          PROVE  l + k \in (l + j + 2)..((l + c) - 2) /\ s[l + k] = t[k]
      <4>1. k \in 1..n /\ l + k \in (l + j + 2)..((l + c) - 2)
        <5>1. l \in Int /\ n \in Int /\ j \in Int /\ j >= 1 /\ c <= n /\ k >= j + 2 /\ k <= c - 2
          BY <1>1, <2>4
        <5> HIDE DEF l, n
        <5> QED
          BY <5>1
      <4> QED
        BY <1>1, <4>1
    <3>3. ASSUME NEW k \in (l + j + 2)..((l + c) - 2)
          PROVE  k - l \in (j + 2)..(c - 2) /\ l + (k - l) = k
      <4>1. l \in Int /\ j \in Int /\ k >= l + j + 2 /\ k <= (l + c) - 2
        BY <1>1
      <4> HIDE DEF l
      <4> QED
        BY <4>1
    <3>4. ASSUME \A k \in (l + j + 2)..((l + c) - 2) : s[k] \in Digit, NEW k \in (j + 2)..(c - 2)
          PROVE  t[k] \in Digit
      BY <3>2, <3>4
    <3>5. ASSUME \A k \in (j + 2)..(c - 2) : t[k] \in Digit, NEW k \in (l + j + 2)..((l + c) - 2)
          PROVE  s[k] \in Digit
      <4>1. t[k - l] \in Digit /\ s[l + (k - l)] = t[k - l]
        BY <3>2, <3>3, <3>5
      <4> QED
        BY <3>3, <4>1
    <3>6. s[l + (j + 1)] = t[j + 1] /\ s[l + (c - 1)] = t[c - 1]
      BY <1>1, <3>1
    <3>7. s[l + j + 1] = t[j + 1] /\ s[(l + c) - 1] = t[c - 1]
      BY <3>1, <3>6
    <3> QED
      BY <3>4, <3>5, <3>7
  <2> DEFINE Digits(u, a, b) == \A k \in (a + 2)..(b - 2) : u[k] \in Digit
             Counted(u, a, b) == b > a + 2 /\ u[a + 1] = "[" /\ u[b - 1] = "]" /\ Digits(u, a, b)
  <2>5. ASSUME c \in (j + 1)..n PROVE Counted(s, l + j, l + c) <=> Counted(t, j, c)
    <3>1. CASE c > j + 2
      <4>1. Digits(s, l + j, l + c) <=> Digits(t, j, c)
        BY <2>4, <2>5, <3>1
      <4>2. s[l + j + 1] = t[j + 1] /\ s[(l + c) - 1] = t[c - 1] /\ l + c > l + j + 2
        BY <2>3, <2>4, <2>5, <3>1
      <4> HIDE DEF Digits
      <4> QED
        BY <3>1, <4>1, <4>2
    <3>2. CASE ~(c > j + 2)
      BY <2>3, <2>5, <3>2
    <3> QED
      BY <3>1, <3>2
  <2>6. l + c \in PrefixEnd(s, l + j) <=>
          /\ l + c \in (l + j + 1)..Len(s)
          /\ Lowercase[s[l + j]] \in ReplyPrefixes /\ s[l + c] = ":"
          /\ l + c = l + j + 1 \/ Counted(s, l + j, l + c)
    BY DEF PrefixEnd
  <2>7. c \in PrefixEnd(t, j) <=>
          /\ c \in (j + 1)..n
          /\ Lowercase[t[j]] \in ReplyPrefixes /\ t[c] = ":"
          /\ c = j + 1 \/ Counted(t, j, c)
    BY DEF PrefixEnd, n
  <2> HIDE DEF Counted, Digits
  <2>8. CASE c \in (j + 1)..n
    BY <2>1, <2>2, <2>3, <2>5, <2>6, <2>7, <2>8
  <2>9. CASE c \notin (j + 1)..n
    BY <2>1, <2>6, <2>7, <2>9
  <2> QED
    BY <2>8, <2>9
<1>8. PrefixEndsFrom(s, l + i) = Shifted(PrefixEndsFrom(t, i), l)
  <2>1. ASSUME NEW c \in PrefixEndsFrom(s, l + i) PROVE c \in Shifted(PrefixEndsFrom(t, i), l)
    <3>1. PICK j \in FirstText(t, i) : c \in PrefixEnd(s, l + j)
      BY <1>6 DEF PrefixEndsFrom, Shifted
    <3>2. c - l \in Int /\ l + (c - l) = c
      BY <1>1, <1>5, <3>1 DEF PrefixEnd
    <3>3. c - l \in PrefixEnd(t, j)
      BY <1>5, <1>7, <3>1, <3>2
    <3> QED
      BY <3>2, <3>3 DEF PrefixEndsFrom, Shifted
  <2>2. ASSUME NEW c \in Shifted(PrefixEndsFrom(t, i), l) PROVE c \in PrefixEndsFrom(s, l + i)
    <3>1. PICK x \in PrefixEndsFrom(t, i) : c = l + x
      BY DEF Shifted
    <3>5. PICK j \in FirstText(t, i) : x \in PrefixEnd(t, j)
      BY DEF PrefixEndsFrom
    <3>2. x \in Int
      BY <1>5, <3>5 DEF PrefixEnd
    <3>3. c \in PrefixEnd(s, l + j)
      BY <1>5, <1>7, <3>1, <3>2, <3>5
    <3>4. l + j \in FirstText(s, l + i)
      BY <1>6 DEF Shifted
    <3> QED
      BY <3>3, <3>4 DEF PrefixEndsFrom
  <2> QED
    BY <2>1, <2>2
<1> QED
  BY <1>6, <1>8 DEF s, l, n

(* Before t the text p has the prefixes it had, and blanks that end p give *)
(* way to t.                                                               *)
LEMMA FrontText ==
  ASSUME NEW p \in Seq(Token), NEW t \in Seq(Token), NEW i \in 1..(Len(p) + 1)
  PROVE  /\ FirstText(p, i) = {} => FirstText(p \o t, i) = FirstText(p \o t, Len(p) + 1)
         /\ PrefixEndsFrom(p, i) \subseteq PrefixEndsFrom(p \o t, i)
<1> DEFINE s == p \o t
           l == Len(p)
<1>1. /\ l \in Nat /\ Len(s) \in Nat /\ Len(s) >= l
      /\ \A x \in 1..l : s[x] = p[x]
  BY JoinedTokens
<1> HIDE DEF s
<1>2. ASSUME FirstText(p, i) = {} PROVE FirstText(s, i) = FirstText(s, l + 1)
  <2>1. \A k \in i..l : p[k] = Blank
    <3> DEFINE T == {k \in i..l : p[k] # Blank}
    <3> SUFFICES ASSUME T # {} PROVE FALSE
      OBVIOUS
    <3>1. T \in SUBSET Nat
      BY <1>1
    <3>2. PICK j \in T : \A k \in T : k >= j
      <4> HIDE DEF T
      <4> QED
        BY <3>1, LeastNumber
    <3>3. \A k \in i..(j - 1) : k \in i..l /\ ~(k >= j)
      BY <1>1
    <3>4. j \in FirstText(p, i)
      BY <3>2, <3>3 DEF FirstText
    <3> QED
      BY <1>2, <3>4
  <2>2. \A k \in i..l : s[k] = Blank
    BY <1>1, <2>1
  <2>3. ASSUME NEW j \in FirstText(s, i) PROVE j \in FirstText(s, l + 1)
    <3>1. j \in i..Len(s) /\ s[j] # Blank /\ \A k \in i..(j - 1) : s[k] = Blank
      BY DEF FirstText
    <3>2. j \notin i..l
      BY <2>2, <3>1
    <3>3. j \in (l + 1)..Len(s) /\ \A k \in (l + 1)..(j - 1) : k \in i..(j - 1)
      BY <1>1, <3>1, <3>2
    <3> QED
      BY <3>1, <3>3 DEF FirstText
  <2>4. ASSUME NEW j \in FirstText(s, l + 1) PROVE j \in FirstText(s, i)
    <3>1. j \in (l + 1)..Len(s) /\ s[j] # Blank /\ \A k \in (l + 1)..(j - 1) : s[k] = Blank
      BY DEF FirstText
    <3>2. j \in i..Len(s) /\ \A k \in i..(j - 1) : k \in i..l \/ k \in (l + 1)..(j - 1)
      BY <1>1, <3>1
    <3> QED
      BY <2>2, <3>1, <3>2 DEF FirstText
  <2> QED
    BY <2>3, <2>4
<1>3. ASSUME NEW c \in PrefixEndsFrom(p, i) PROVE c \in PrefixEndsFrom(s, i)
  <2>1. PICK j \in FirstText(p, i) : c \in PrefixEnd(p, j)
    BY <1>3 DEF PrefixEndsFrom
  <2>2. j \in i..l /\ p[j] # Blank /\ \A k \in i..(j - 1) : p[k] = Blank
    BY <2>1 DEF FirstText
  <2>3. /\ j \in 1..l /\ j \in i..Len(s)
        /\ \A k \in i..(j - 1) : k \in 1..l
    BY <1>1, <2>2
  <2>4. j \in FirstText(s, i)
    BY <1>1, <2>2, <2>3 DEF FirstText
  <2> DEFINE Counted(u) == /\ c > j + 2 /\ u[j + 1] = "[" /\ u[c - 1] = "]"
                           /\ \A k \in (j + 2)..(c - 2) : u[k] \in Digit
  <2>5. /\ c \in (j + 1)..l /\ Lowercase[p[j]] \in ReplyPrefixes /\ p[c] = ":"
        /\ c = j + 1 \/ Counted(p)
    BY <2>1 DEF PrefixEnd
  <2>6. c \in 1..l /\ c \in (j + 1)..Len(s) /\ s[c] = p[c] /\ s[j] = p[j]
    BY <1>1, <2>3, <2>5
  <2>7. ASSUME Counted(p) PROVE Counted(s)
    <3>1. j + 1 \in 1..l /\ c - 1 \in 1..l /\ \A k \in (j + 2)..(c - 2) : k \in 1..l
      BY <1>1, <2>3, <2>6, <2>7
    <3> QED
      BY <1>1, <2>7, <3>1
  <2>8. c \in PrefixEnd(s, j)
    <3>1. c = j + 1 \/ Counted(s)
      BY <2>5, <2>7
    <3> QED
      BY <2>5, <2>6, <3>1 DEF PrefixEnd
  <2> QED
    BY <2>4, <2>8 DEF PrefixEndsFrom
<1> QED
  BY <1>2, <1>3 DEF s

(* Taking off the one prefix there is goes on behind it.                   *)
LEMMA StartsStep ==
  ASSUME NEW s, NEW start, Starts(start, s), NEW i \in 1..(Len(s) + 1)
  PROVE  /\ PrefixEndsFrom(s, i) = {} => start[i] = FirstText(s, i)
         /\ \A c : PrefixEndsFrom(s, i) = {c} => start[i] = start[c + 1]
<1>1. start[i] = IF PrefixEndsFrom(s, i) = {} THEN FirstText(s, i)
                 ELSE UNION {start[c + 1] : c \in PrefixEndsFrom(s, i)}
  BY DEF Starts
<1>2. ASSUME NEW c, PrefixEndsFrom(s, i) = {c} PROVE start[i] = start[c + 1]
  <2>1. UNION {start[d + 1] : d \in {c}} = start[c + 1]
    OBVIOUS
  <2> QED
    BY <1>1, <1>2, <2>1
<1> QED
  BY <1>1, <1>2

(* The title behind reply prefixes is that of the text they stand before.  *)
LEMMA TitleBehindPrefixes ==
  ASSUME NEW p \in Seq(Token), NEW t \in Seq(Token), OnlyPrefixes(p)
  PROVE  TitleStart(p \o t) = Shifted(TitleStart(t), Len(p))
<1> DEFINE s == p \o t
           l == Len(p)
           n == Len(t)
<1>1. s \in Seq(Token) /\ l \in Nat /\ n \in Nat /\ Len(s) = l + n
  BY JoinedTokens
<1>2. PICK start : Starts(start, s) /\ TitleStart(s) = start[1]
  BY <1>1, StartsExists
<1>3. PICK begin : Starts(begin, t) /\ TitleStart(t) = begin[1]
  BY StartsExists
<1>4. \A i \in 1..(n + 1) :
        /\ FirstText(s, l + i) = Shifted(FirstText(t, i), l)
        /\ PrefixEndsFrom(s, l + i) = Shifted(PrefixEndsFrom(t, i), l)
  BY ShiftedText
<1>5. \A i \in 1..(l + 1) :
        /\ FirstText(p, i) = {} => FirstText(s, i) = FirstText(s, l + 1)
        /\ PrefixEndsFrom(p, i) \subseteq PrefixEndsFrom(s, i)
  BY FrontText
<1>6. \A i \in 1..(n + 1) : \A c \in PrefixEndsFrom(t, i) : c \in 1..n /\ c > i
  <2>1. \A i \in 1..(n + 1) : i \in Nat /\ i >= 1
    BY <1>1
  <2> QED
    BY <2>1, EndsFromRange
<1>7. \A i \in 1..(l + 1) : \A c \in PrefixEndsFrom(p, i) : c \in 1..l /\ c > i
  <2>1. \A i \in 1..(l + 1) : i \in Nat /\ i >= 1
    BY <1>1
  <2> QED
    BY <2>1, EndsFromRange
<1>8. \A i \in 1..(Len(s) + 1) : \A c, d \in PrefixEndsFrom(s, i) : c = d
  <2>1. \A i \in 1..(Len(s) + 1) : i \in Nat /\ i >= 1
    BY <1>1
  <2> QED
    BY <1>1, <2>1, EndsFromUnique
<1> HIDE DEF s, l, n
<1>9. \A i \in 1..(Len(s) + 1) :
        /\ PrefixEndsFrom(s, i) = {} => start[i] = FirstText(s, i)
        /\ \A c : PrefixEndsFrom(s, i) = {c} => start[i] = start[c + 1]
  BY <1>2, StartsStep
<1>10. \A i \in 1..(n + 1) :
         /\ PrefixEndsFrom(t, i) = {} => begin[i] = FirstText(t, i)
         /\ \A c : PrefixEndsFrom(t, i) = {c} => begin[i] = begin[c + 1]
  BY <1>3, StartsStep DEF n
<1>11. \A i \in 1..(n + 1) : start[l + i] = Shifted(begin[i], l)
  <2> DEFINE Bad == {i \in 1..(n + 1) : start[l + i] # Shifted(begin[i], l)}
  <2> SUFFICES ASSUME Bad # {} PROVE FALSE
    OBVIOUS
  <2>1. PICK i \in Bad : \A j \in Bad : j <= i
    <3>1. n + 1 \in Nat /\ Bad \in SUBSET (1..(n + 1))
      BY <1>1
    <3> HIDE DEF Bad
    <3> QED
      BY <3>1, LargestPlace
  <2>2. i \in 1..(n + 1) /\ l + i \in 1..(Len(s) + 1)
    BY <1>1
  <2>3. CASE PrefixEndsFrom(t, i) = {}
    <3>1. PrefixEndsFrom(s, l + i) = {}
      BY <1>4, <2>2, <2>3 DEF Shifted
    <3> QED
      BY <1>4, <1>9, <1>10, <2>2, <2>3, <3>1
  <2>4. CASE PrefixEndsFrom(t, i) # {}
    <3>1. PICK c \in PrefixEndsFrom(t, i) : TRUE
      BY <2>4
    <3>2. l + c \in PrefixEndsFrom(s, l + i)
      BY <1>4, <2>2 DEF Shifted
    <3>3. /\ c \in 1..n /\ c > i /\ c + 1 \in 1..(n + 1) /\ ~(c + 1 <= i)
          /\ (l + c) + 1 = l + (c + 1)
      BY <1>1, <1>6, <2>2
    <3>4. start[l + (c + 1)] = Shifted(begin[c + 1], l)
      BY <2>1, <3>3
    <3>5. PrefixEndsFrom(s, l + i) = {l + c}
      BY <1>8, <2>2, <3>2
    <3>6. PrefixEndsFrom(t, i) = {c}
      <4>1. ASSUME NEW d \in PrefixEndsFrom(t, i) PROVE d = c
        <5>1. l + d \in PrefixEndsFrom(s, l + i)
          BY <1>4, <2>2 DEF Shifted
        <5>2. l + d = l + c /\ d \in 1..n
          BY <1>6, <2>2, <3>5, <5>1
        <5> QED
          BY <1>1, <3>3, <5>2
      <4> QED
        BY <4>1
    <3>7. start[l + i] = start[(l + c) + 1] /\ begin[i] = begin[c + 1]
      BY <1>9, <1>10, <2>2, <3>5, <3>6
    <3> QED
      BY <3>3, <3>4, <3>7
  <2> QED
    BY <2>3, <2>4
<1>12. PICK ends \in SUBSET (0..l) :
         /\ 0 \in ends
         /\ \A c \in ends : FirstText(p, c + 1) = {} \/ PrefixEndsFrom(p, c + 1) \cap ends # {}
  BY DEF OnlyPrefixes, l
<1>13. \A c \in ends : start[c + 1] = start[l + 1]
  <2> DEFINE Bad == {i \in 1..(l + 1) : i - 1 \in ends /\ start[i] # start[l + 1]}
  <2>1. Bad = {}
    <3> SUFFICES ASSUME Bad # {} PROVE FALSE
      OBVIOUS
    <3>1. PICK i \in Bad : \A j \in Bad : j <= i
      <4>1. l + 1 \in Nat /\ Bad \in SUBSET (1..(l + 1))
        BY <1>1
      <4> HIDE DEF Bad
      <4> QED
        BY <4>1, LargestPlace
    <3>2. /\ i \in 1..(l + 1) /\ i - 1 \in ends /\ (i - 1) + 1 = i /\ start[i] # start[l + 1]
          /\ i \in 1..(Len(s) + 1) /\ l + 1 \in 1..(Len(s) + 1)
      BY <1>1
    <3>3. CASE FirstText(p, i) = {}
      <4>1. FirstText(s, i) = FirstText(s, l + 1)
        BY <1>5, <3>2, <3>3
      <4>2. PrefixEndsFrom(s, i) = PrefixEndsFrom(s, l + 1)
        BY <4>1 DEF PrefixEndsFrom
      <4>3. Starts(start, s)
        BY <1>2 DEF s
      <4> QED
        BY <3>2, <4>1, <4>2, <4>3 DEF Starts
    <3>4. CASE FirstText(p, i) # {}
      <4>1. PICK c \in PrefixEndsFrom(p, i) : c \in ends
        BY <1>12, <3>2, <3>4
      <4>2. c \in 1..l /\ c > i /\ c + 1 \in 1..(l + 1) /\ (c + 1) - 1 = c /\ ~(c + 1 <= i)
        BY <1>1, <1>7, <3>2
      <4>3. start[c + 1] = start[l + 1]
        BY <3>1, <4>1, <4>2
      <4>4. PrefixEndsFrom(s, i) = {c}
        BY <1>5, <1>8, <3>2
      <4>5. start[i] = start[c + 1]
        BY <1>9, <3>2, <4>4
      <4> QED
        BY <3>2, <4>3, <4>5
    <3> QED
      BY <3>3, <3>4
  <2>2. ASSUME NEW c \in ends PROVE start[c + 1] = start[l + 1]
    <3>1. c + 1 \in 1..(l + 1) /\ (c + 1) - 1 = c
      BY <1>1
    <3> QED
      BY <2>1, <3>1
  <2> QED
    BY <2>2
<1>14. start[1] = start[l + 1]
  <2>1. 0 + 1 = 1
    OBVIOUS
  <2> QED
    BY <1>12, <1>13, <2>1
<1>15. start[l + 1] = Shifted(begin[1], l)
  <2>1. 1 \in 1..(n + 1)
    BY <1>1
  <2> QED
    BY <1>11, <2>1
<1> QED
  BY <1>2, <1>3, <1>14, <1>15 DEF s, l

(* A title begins at a place of the subject, and with no blank.            *)
LEMMA TitleStartRange ==
  ASSUME NEW s \in Seq(Token)
  PROVE  \A i \in TitleStart(s) : i \in 1..Len(s) /\ s[i] # Blank
<1> DEFINE n == Len(s)
<1>1. n \in Nat
  BY LenProperties
<1>2. PICK start : Starts(start, s) /\ TitleStart(s) = start[1]
  BY StartsExists
<1>3. \A i \in 1..(n + 1) : \A c \in PrefixEndsFrom(s, i) : c \in 1..n /\ c > i
  <2>1. \A i \in 1..(n + 1) : i \in Nat /\ i >= 1
    BY <1>1
  <2> QED
    BY <2>1, EndsFromRange
<1>4. \A i \in 1..(n + 1) :
        start[i] = IF PrefixEndsFrom(s, i) = {} THEN FirstText(s, i)
                   ELSE UNION {start[c + 1] : c \in PrefixEndsFrom(s, i)}
  BY <1>2 DEF Starts
<1> HIDE DEF n
<1> DEFINE Bad == {i \in 1..(n + 1) : \E j \in start[i] : s[j] = Blank}
<1>5. Bad = {}
  <2> SUFFICES ASSUME Bad # {} PROVE FALSE
    OBVIOUS
  <2>1. PICK i \in Bad : \A j \in Bad : j <= i
    <3>1. n + 1 \in Nat /\ Bad \in SUBSET (1..(n + 1))
      BY <1>1
    <3> HIDE DEF Bad
    <3> QED
      BY <3>1, LargestPlace
  <2>2. PICK j \in start[i] : s[j] = Blank
    BY <2>1
  <2>3. j \notin FirstText(s, i)
    BY <2>2 DEF FirstText
  <2>4. PICK c \in PrefixEndsFrom(s, i) : j \in start[c + 1]
    <3>1. start[i] = UNION {start[c + 1] : c \in PrefixEndsFrom(s, i)}
      BY <1>4, <2>1, <2>2, <2>3
    <3> HIDE DEF Bad
    <3> QED
      BY <2>2, <3>1
  <2>5. c + 1 \in 1..(n + 1) /\ ~(c + 1 <= i)
    BY <1>1, <1>3
  <2> QED
    BY <2>1, <2>2, <2>4, <2>5
<1>6. 1 \in 1..(n + 1)
  BY <1>1
<1>7. start[1] \in SUBSET (1..n)
  BY <1>2, <1>6 DEF Starts, n
<1> QED
  BY <1>2, <1>5, <1>6, <1>7 DEF n

-----------------------------------------------------------------------------
(* Normal forms.                                                           *)

(* The order of places.                                                    *)
Ascending(S) == {pair \in S \X S : pair[1] < pair[2]}

(* It orders them.                                                         *)
LEMMA AscendingOrders ==
  ASSUME NEW S \in SUBSET Nat
  PROVE  StrictlyOrders(Ascending(S), S)
<1>1. \A x, y \in S : <<x, y>> \in Ascending(S) <=> x < y
  BY DEF Ascending
<1>2. \A x \in S : x \in Nat
  OBVIOUS
<1> QED
  BY <1>1, <1>2 DEF StrictlyOrders

(* Places further on are in the same order.                                *)
LEMMA ShiftedSorted ==
  ASSUME NEW S \in SUBSET Nat, IsFiniteSet(S), NEW l \in Nat
  PROVE  LET places == Sorted(S, Ascending(S))
         IN  /\ DOMAIN places = 1..Cardinality(S)
             /\ \A i \in 1..Cardinality(S) : places[i] \in S
             /\ Sorted(Shifted(S, l), Ascending(Shifted(S, l)))
                  = [i \in 1..Cardinality(S) |-> l + places[i]]
<1> DEFINE n == Cardinality(S)
           places == Sorted(S, Ascending(S))
           R == Shifted(S, l)
           f == [x \in S |-> l + x]
           g == [i \in 1..n |-> l + places[i]]
<1>1. R \in SUBSET Nat /\ R = {l + x : x \in S}
  BY DEF Shifted
<1>2. Lists(places, S, Ascending(S))
  BY AscendingOrders, SortedLists
<1>3. IsFiniteSet(R) /\ Cardinality(R) = n
  <2>1. f \in [S -> R]
    BY <1>1
  <2>2. ASSUME NEW y \in R PROVE \E x \in S : f[x] = y
    BY <1>1
  <2>3. ASSUME NEW x \in S, NEW y \in S, f[x] = f[y] PROVE x = y
    <3>1. x \in Nat /\ y \in Nat /\ l + x = l + y
      BY <2>3
    <3> QED
      BY <3>1
  <2>4. f \in Bijection(S, R)
    <3> HIDE DEF f, R
    <3> QED
      BY <2>1, <2>2, <2>3 DEF Bijection, Injection, Surjection, IsInjective
  <2> HIDE DEF f, R
  <2> QED
    BY <2>4, FS_Bijection DEF ExistsBijection
<1>4. n \in Nat
  BY FS_CardinalityType
<1> HIDE DEF places
<1>5. /\ places \in [1..n -> S] /\ DOMAIN places = 1..n
      /\ \A x \in S : \E i \in 1..n : places[i] = x
      /\ \A i, j \in 1..n : i < j => <<places[i], places[j]>> \in Ascending(S)
  BY <1>2 DEF Lists
<1> HIDE DEF n, R
<1>6. \A i \in 1..n : places[i] \in S /\ g[i] = l + places[i] /\ g[i] \in R
  BY <1>1, <1>5
<1>7. \A y \in R : \E i \in 1..n : g[i] = y
  BY <1>1, <1>5, <1>6
<1>8. ASSUME NEW i \in 1..n, NEW j \in 1..n, i < j PROVE <<g[i], g[j]>> \in Ascending(R)
  <2>1. places[i] < places[j] /\ places[i] \in Nat /\ places[j] \in Nat
    BY <1>5, <1>6, <1>8 DEF Ascending
  <2>2. l + places[i] < l + places[j]
    BY <2>1
  <2> HIDE DEF g
  <2> QED
    BY <1>6, <2>2 DEF Ascending
<1>9. g \in [1..n -> R]
  BY <1>6
<1> HIDE DEF g
<1>10. Lists(g, R, Ascending(R))
  BY <1>3, <1>7, <1>8, <1>9 DEF Lists
<1>11. Sorted(R, Ascending(R)) = g
  BY <1>1, <1>3, <1>10, AscendingOrders, SortedLists, ListsUnique
<1> QED
  BY <1>5, <1>6, <1>11 DEF n, g, R, places

(* normalize_subject: the text from where the title begins, and the places *)
(* of it that are kept, the blanks collapsed.                              *)
TextOf(s) == UNION {i..Len(s) : i \in TitleStart(s)}

KeptIn(s) ==
  {i \in TextOf(s) :
     s[i] = Blank => s[i - 1] # Blank /\ \E j \in TextOf(s) : j > i /\ s[j] # Blank}

(* What stands before a subject does not show in its normal form, if it is *)
(* nothing but reply prefixes.                                             *)
LEMMA NormalBehindPrefixes ==
  ASSUME NEW p \in Seq(Token), NEW t \in Seq(Token), OnlyPrefixes(p)
  PROVE  NormalizeSubject(p \o t) = NormalizeSubject(t)
<1> DEFINE s == p \o t
           l == Len(p)
           n == Len(t)
<1>1. /\ s \in Seq(Token) /\ l \in Nat /\ n \in Nat /\ Len(s) = l + n
      /\ \A i \in 1..n : s[l + i] = t[i]
  BY JoinedTokens
<1>2. TitleStart(s) = Shifted(TitleStart(t), l)
  BY TitleBehindPrefixes
<1>3. \A i \in TitleStart(t) : i \in 1..n /\ t[i] # Blank
  BY TitleStartRange
<1> HIDE DEF s, l
<1>4. ASSUME NEW j \in Int PROVE l + j \in TextOf(s) <=> j \in TextOf(t)
  <2>1. ASSUME l + j \in TextOf(s) PROVE j \in TextOf(t)
    <3>1. PICK i \in TitleStart(t) : l + j \in (l + i)..Len(s)
      BY <1>2, <2>1 DEF TextOf, Shifted
    <3>2. j \in i..n
      BY <1>1, <1>3, <3>1
    <3> QED
      BY <3>2 DEF TextOf
  <2>2. ASSUME j \in TextOf(t) PROVE l + j \in TextOf(s)
    <3>1. PICK i \in TitleStart(t) : j \in i..n
      BY <2>2 DEF TextOf
    <3>2. l + j \in (l + i)..Len(s) /\ l + i \in TitleStart(s)
      BY <1>1, <1>2, <1>3, <3>1 DEF Shifted
    <3> QED
      BY <3>2 DEF TextOf
  <2> QED
    BY <2>1, <2>2
<1>5. ASSUME NEW j \in TextOf(t)
      PROVE  j \in 1..n /\ j \in Int /\ s[l + j] = t[j] /\ (t[j] = Blank => j - 1 \in 1..n)
  <2>1. PICK i \in TitleStart(t) : j \in i..n
    BY <1>5 DEF TextOf
  <2>2. i \in 1..n /\ t[i] # Blank /\ j \in 1..n
    BY <1>1, <1>3, <2>1
  <2>3. t[j] = Blank => j # i
    BY <2>2
  <2> QED
    BY <1>1, <2>1, <2>2, <2>3
<1>6. ASSUME NEW k \in TextOf(s) PROVE k - l \in Int /\ k = l + (k - l) /\ k - l \in TextOf(t)
  <2>1. k \in Int
    <3>1. PICK i \in TitleStart(s) : k \in i..Len(s)
      BY <1>6 DEF TextOf
    <3> QED
      BY <3>1
  <2>2. k - l \in Int /\ k = l + (k - l)
    BY <1>1, <2>1
  <2> QED
    BY <1>4, <2>2
<1>7. ASSUME NEW j \in TextOf(t) PROVE l + j \in KeptIn(s) <=> j \in KeptIn(t)
  <2>1. /\ j \in 1..n /\ s[l + j] = t[j] /\ l + j \in TextOf(s)
        /\ t[j] = Blank => j - 1 \in 1..n /\ l + (j - 1) = (l + j) - 1
    <3>1. j \in 1..n /\ j \in Int /\ s[l + j] = t[j] /\ (t[j] = Blank => j - 1 \in 1..n)
      BY <1>5
    <3>2. l + (j - 1) = (l + j) - 1
      BY <1>1, <3>1
    <3>3. l + j \in TextOf(s)
      BY <1>4, <3>1
    <3> QED
      BY <3>1, <3>2, <3>3
  <2>2. t[j] = Blank => s[(l + j) - 1] = t[j - 1]
    <3>1. t[j] = Blank => s[l + (j - 1)] = t[j - 1]
      BY <1>1, <2>1
    <3> QED
      BY <2>1, <3>1
  <2>3. (\E k \in TextOf(s) : k > l + j /\ s[k] # Blank) <=> (\E k \in TextOf(t) : k > j /\ t[k] # Blank)
    <3>1. ASSUME NEW k \in TextOf(s), k > l + j, s[k] # Blank
          PROVE  \E m \in TextOf(t) : m > j /\ t[m] # Blank
      <4>1. k - l \in TextOf(t) /\ k - l \in Int /\ k = l + (k - l)
        BY <1>6
      <4>2. s[k] = t[k - l]
        BY <1>5, <4>1
      <4>3. k - l > j
        BY <1>1, <2>1, <3>1, <4>1
      <4> QED
        BY <3>1, <4>1, <4>2, <4>3
    <3>2. ASSUME NEW m \in TextOf(t), m > j, t[m] # Blank
          PROVE  \E k \in TextOf(s) : k > l + j /\ s[k] # Blank
      <4>1. m \in Int /\ s[l + m] = t[m] /\ l + m \in TextOf(s)
        BY <1>4, <1>5
      <4>2. l + m > l + j
        BY <1>1, <2>1, <3>2, <4>1
      <4> QED
        BY <3>2, <4>1, <4>2
    <3> QED
      BY <3>1, <3>2
  <2> DEFINE more == \E k \in TextOf(s) : k > l + j /\ s[k] # Blank
             rest == \E k \in TextOf(t) : k > j /\ t[k] # Blank
  <2>4. l + j \in KeptIn(s) <=> (s[l + j] = Blank => s[(l + j) - 1] # Blank /\ more)
    <3>1. \A x \in TextOf(s) : x \in KeptIn(s) <=>
             (s[x] = Blank => s[x - 1] # Blank /\ \E k \in TextOf(s) : k > x /\ s[k] # Blank)
      BY DEF KeptIn
    <3> QED
      BY <2>1, <3>1
  <2>5. j \in KeptIn(t) <=> (t[j] = Blank => t[j - 1] # Blank /\ rest)
    BY DEF KeptIn
  <2>6. more <=> rest
    BY <2>3
  <2> HIDE DEF more, rest
  <2> QED
    BY <2>1, <2>2, <2>4, <2>5, <2>6
<1>8. KeptIn(s) = Shifted(KeptIn(t), l)
  <2>1. KeptIn(s) \subseteq TextOf(s) /\ KeptIn(t) \subseteq TextOf(t)
    BY DEF KeptIn
  <2>2. ASSUME NEW k \in KeptIn(s) PROVE k \in Shifted(KeptIn(t), l)
    <3>1. k = l + (k - l) /\ k - l \in TextOf(t)
      BY <1>6, <2>1
    <3>2. k - l \in KeptIn(t)
      BY <1>7, <3>1
    <3> QED
      BY <3>1, <3>2 DEF Shifted
  <2>3. ASSUME NEW k \in Shifted(KeptIn(t), l) PROVE k \in KeptIn(s)
    <3>1. PICK j \in KeptIn(t) : k = l + j
      BY DEF Shifted
    <3> QED
      BY <1>7, <2>1, <3>1
  <2> QED
    BY <2>2, <2>3
<1> DEFINE K == KeptIn(t)
           places == Sorted(K, Ascending(K))
           shifted == Sorted(Shifted(K, l), Ascending(Shifted(K, l)))
           m == Cardinality(K)
<1>9. K \in SUBSET (1..n) /\ K \in SUBSET Nat /\ IsFiniteSet(K)
  <2>1. K \in SUBSET (1..n)
    BY <1>5 DEF KeptIn
  <2>2. IsFiniteSet(1..n)
    BY <1>1, FS_Interval
  <2>3. 1..n \in SUBSET Nat
    BY <1>1
  <2> HIDE DEF K, places, shifted, m, n
  <2>4. IsFiniteSet(K)
    BY <2>1, <2>2, FS_Subset
  <2> QED
    BY <2>1, <2>3, <2>4
<1>10. NormalizeSubject(s) = [i \in DOMAIN shifted |-> Lowercase[s[shifted[i]]]]
  <2>1. NormalizeSubject(s) =
          LET q == Sorted(KeptIn(s), Ascending(KeptIn(s)))
          IN  [i \in DOMAIN q |-> Lowercase[s[q[i]]]]
    BY DEF NormalizeSubject, KeptIn, TextOf, Ascending
  <2> QED
    BY <1>8, <2>1
<1>11. NormalizeSubject(t) = [i \in DOMAIN places |-> Lowercase[t[places[i]]]]
  BY DEF NormalizeSubject, KeptIn, TextOf, Ascending
<1> HIDE DEF K, places, shifted
<1>12. /\ DOMAIN places = 1..m /\ \A i \in 1..m : places[i] \in K
       /\ shifted = [i \in 1..m |-> l + places[i]]
  BY <1>1, <1>9, ShiftedSorted DEF places, shifted
<1> HIDE DEF m
<1>13. DOMAIN shifted = 1..m /\ \A i \in 1..m : shifted[i] = l + places[i]
  BY <1>12
<1>14. \A i \in 1..m : s[shifted[i]] = t[places[i]]
  BY <1>1, <1>9, <1>12, <1>13
<1>15. NormalizeSubject(s) = [i \in 1..m |-> Lowercase[t[places[i]]]]
  BY <1>10, <1>13, <1>14
<1>16. NormalizeSubject(t) = [i \in 1..m |-> Lowercase[t[places[i]]]]
  BY <1>11, <1>12
<1> QED
  BY <1>15, <1>16 DEF s

-----------------------------------------------------------------------------
(* Titles.                                                                 *)

(* What is left of a subject has the normal form of the whole.             *)
LEMMA BareHasNormalForm ==
  ASSUME NEW s \in Seq(Token), NEW k \in 0..Len(s), OnlyPrefixes(SubSeq(s, 1, k))
  PROVE  NormalizeSubject(SubSeq(s, k + 1, Len(s))) = NormalizeSubject(s)
<1> DEFINE n == Len(s)
           p == SubSeq(s, 1, k)
           t == SubSeq(s, k + 1, n)
<1>1. n \in Nat /\ k \in 0..n /\ \A i \in 1..n : s[i] \in Token
  BY LenProperties, ElementOfSeq
<1>2. /\ p \in Seq(Token) /\ Len(p) = k /\ \A i \in 1..k : p[i] = s[i]
  <2>1. \A i \in 1..k : s[i] \in Token /\ 1 + i - 1 = i
    BY <1>1
  <2>2. /\ p \in Seq(Token) /\ Len(p) = (IF 1 <= k THEN k - 1 + 1 ELSE 0)
        /\ \A i \in 1..(k - 1 + 1) : p[i] = s[1 + i - 1]
    BY <2>1, SubSeqProperties
  <2> HIDE DEF p
  <2> QED
    BY <1>1, <2>1, <2>2
<1>3. /\ t \in Seq(Token) /\ Len(t) = n - k
      /\ \A i \in 1..(n - k) : t[i] = s[i + k]
  <2>1. \A i \in (k + 1)..n : s[i] \in Token
    BY <1>1
  <2>2. /\ t \in Seq(Token) /\ Len(t) = (IF k + 1 <= n THEN n - (k + 1) + 1 ELSE 0)
        /\ \A i \in 1..(n - (k + 1) + 1) : t[i] = s[(k + 1) + i - 1]
    BY <1>1, <2>1, SubSeqProperties
  <2> HIDE DEF t, n
  <2>3. \A i \in 1..(n - k) : (k + 1) + i - 1 = i + k
    BY <1>1
  <2>4. \A i \in 1..(n - k) : t[i] = s[i + k]
    BY <1>1, <2>2, <2>3
  <2>5. (IF k + 1 <= n THEN n - (k + 1) + 1 ELSE 0) = n - k
    BY <1>1
  <2> QED
    BY <2>2, <2>4, <2>5
<1> HIDE DEF p, t
<1>4. /\ p \o t \in Seq(Token) /\ Len(p \o t) = k + (n - k)
      /\ \A i \in 1..(k + (n - k)) : (p \o t)[i] = IF i <= k THEN p[i] ELSE t[i - k]
  <2>1. p \in Seq(Token) /\ t \in Seq(Token)
    BY <1>2, <1>3
  <2>2. /\ p \o t \in Seq(Token) /\ Len(p \o t) = Len(p) + Len(t)
        /\ \A i \in 1..(Len(p) + Len(t)) : (p \o t)[i] = IF i <= Len(p) THEN p[i] ELSE t[i - Len(p)]
    BY <2>1, ConcatProperties
  <2> QED
    BY <1>2, <1>3, <2>2
<1>5. \A i \in 1..n : (p \o t)[i] = s[i]
  <2>1. ASSUME NEW i \in 1..n, i <= k PROVE (p \o t)[i] = s[i]
    BY <1>1, <1>2, <1>4, <2>1
  <2>2. ASSUME NEW i \in 1..n, ~(i <= k) PROVE (p \o t)[i] = s[i]
    <3>1. i - k \in 1..(n - k) /\ (i - k) + k = i /\ i \in 1..(k + (n - k))
      BY <1>1, <2>2
    <3> QED
      BY <1>3, <1>4, <2>2, <3>1
  <2> QED
    BY <2>1, <2>2
<1>6. p \o t = s
  <2>1. Len(p \o t) = Len(s)
    BY <1>1, <1>4
  <2> QED
    BY <1>4, <1>5, <2>1, SeqEqual DEF n
<1> QED
  BY <1>2, <1>3, <1>6, NormalBehindPrefixes DEF p, t

(* Subjects that are one text behind prefixes have one normal form.        *)
LEMMA SharedText ==
  ASSUME ThreadAssumption, NEW f \in Subjects, NEW m \in MessageId, NEW n \in MessageId,
         Bare[f[m]] \cap Bare[f[n]] # {}
  PROVE  NormalizeSubject(f[m]) = NormalizeSubject(f[n])
<1> DEFINE Left(s) == {SubSeq(s, l + 1, Len(s)) :
                         l \in {k \in 0..Len(s) : OnlyPrefixes(SubSeq(s, 1, k))}}
<1>1. f \in [MessageId -> Seq(Token)]
  BY ThreadAssumption DEF Token
<1>2. \A x \in MessageId : Bare[f[x]] = Left(f[x])
  <2>1. \A x \in MessageId : f[x] \in UNION {Range(g) : g \in Subjects}
    BY <1>1 DEF Range
  <2> QED
    BY <2>1 DEF Bare
<1>3. PICK text : text \in Left(f[m]) /\ text \in Left(f[n])
  BY <1>2
<1>4. ASSUME NEW x \in MessageId, text \in Left(f[x])
      PROVE  NormalizeSubject(text) = NormalizeSubject(f[x])
  <2>1. PICK k \in 0..Len(f[x]) : OnlyPrefixes(SubSeq(f[x], 1, k)) /\ text = SubSeq(f[x], k + 1, Len(f[x]))
    BY <1>4
  <2> QED
    BY <1>1, <2>1, BareHasNormalForm
<1> QED
  BY <1>3, <1>4

(* A conversation has the title of its oldest message, and of every one    *)
(* with that one's subject behind other prefixes, whatever order they came *)
(* in.                                                                     *)
THEOREM ThreadsTitlesIgnorePrefixes == ThreadSpec => []TitlesIgnorePrefixes
<1>1. ASSUME ThreadInv PROVE TitlesIgnorePrefixes
  <2> DEFINE conversations == GroupThreads(inbox)
             k == Cardinality(Roots)
  <2>1. /\ k \in Nat /\ DOMAIN conversations = 1..k
        /\ Drained \in SUBSET MessageId /\ IsFiniteSet(Drained)
        /\ Roots = {Root(m) : m \in Drained}
    BY ThreadAssumption, <1>1, ConversationsAre, DrainedFacts
  <2>2. PICK roots \in [1..k -> Roots] :
          \A i \in 1..k : Lists(conversations[i].messages, Under(roots[i]), Earlier(Under(roots[i])))
    BY ThreadAssumption, <1>1, ConversationsAre
  <2> HIDE DEF conversations, k
  <2>3. ASSUME NEW i \in 1..k
        PROVE  \E oldest \in ToSet(conversations[i].messages) :
                 /\ \A m \in ToSet(conversations[i].messages) : sent_at[oldest] <= sent_at[m]
                 /\ \A m \in ToSet(conversations[i].messages) :
                      Bare[subject[m]] \cap Bare[subject[oldest]] # {} =>
                        Subject(conversations[i]) = NormalizeSubject(subject[m])
    <3> DEFINE S == Under(roots[i])
               first == conversations[i].messages[1]
    <3>1. S \in SUBSET MessageId /\ S \in SUBSET Drained /\ S # {}
      BY <2>1, <2>2 DEF Under
    <3>2. /\ IsFiniteSet(S) /\ Lists(conversations[i].messages, S, Earlier(S))
      BY <2>1, <2>2, <3>1, FS_Subset
    <3>3. ToSet(conversations[i].messages) = S
      BY ThreadAssumption, <1>1, <3>1, <3>2, EarlierOrders, ListsIn
    <3> HIDE DEF S
    <3>4. Cardinality(S) \in Nat /\ Cardinality(S) # 0
      BY <3>1, <3>2, FS_CardinalityType, FS_EmptySet
    <3>5. first \in S /\ \A m \in S : m = first \/ <<first, m>> \in Earlier(S)
      <4>1. 1 \in 1..Cardinality(S) /\ \A j \in 1..Cardinality(S) : j = 1 \/ 1 < j
        BY <3>4
      <4> QED
        BY <3>2, <4>1 DEF Lists
    <3> HIDE DEF first
    <3>6. ASSUME NEW m \in S PROVE sent_at[first] <= sent_at[m]
      <4>1. sent_at[m] \in Nat /\ sent_at[first] \in Nat
        BY ThreadAssumption, <1>1, <3>1, <3>5 DEF ThreadInv, ThreadTypeOK
      <4>2. m = first \/ sent_at[first] < sent_at[m] \/ sent_at[first] = sent_at[m]
        BY <3>5 DEF Earlier
      <4> QED
        BY <4>1, <4>2
    <3>7. Subject(conversations[i]) = NormalizeSubject(subject[first])
      BY DEF Subject, first
    <3>8. ASSUME NEW m \in S, Bare[subject[m]] \cap Bare[subject[first]] # {}
          PROVE  Subject(conversations[i]) = NormalizeSubject(subject[m])
      <4>1. subject \in Subjects /\ m \in MessageId /\ first \in MessageId
        BY <1>1, <3>1, <3>5 DEF ThreadInv, ThreadTypeOK
      <4> QED
        BY ThreadAssumption, <3>7, <3>8, <4>1, SharedText
    <3> QED
      BY <3>3, <3>5, <3>6, <3>8
  <2> QED
    BY <2>1, <2>3 DEF TitlesIgnorePrefixes, conversations
<1> QED
  BY <1>1, ThreadInvariant, PTL
=============================================================================

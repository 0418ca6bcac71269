--------------------------- MODULE PipelineProofs ---------------------------
(***************************************************************************)
(* Proofs about the pipeline, for any types of handlers with any           *)
(* interfaces and any number of them: an event reaches every handler that  *)
(* implements its interface, in the order of the list, and the linked      *)
(* contexts implement the list of AbstractPipeline.  The loops of the code *)
(* are recursive functions, and what they compute is proved by induction.  *)
(***************************************************************************)
EXTENDS Pipeline, SequenceTheorems, WellFoundedInduction, TLAPS

-----------------------------------------------------------------------------
(***************************************************************************)
(* Induction.  The library's theorems that have no operator as a parameter *)
(* give the least element of a set, and with it induction for sets.        *)
(***************************************************************************)

\* Smaller numbers are below greater ones in the library's relation.
LEMMA LessInRelation ==
    ASSUME NEW a \in Nat, NEW b \in Nat, a < b
    PROVE  <<a, b>> \in OpToRel(<, Nat)
  BY DEF OpToRel

\* A set of natural numbers that is not empty has a least element.
LEMMA LeastNumber ==
    ASSUME NEW S \in SUBSET Nat, S # {}
    PROVE  \E x \in S : \A y \in S : x <= y
  <1>. DEFINE R == OpToRel(<, Nat)
  <1>1. IsWellFoundedOn(R, Nat)
    BY NatLessThanWellFounded
  <1>2. \A a, b \in Nat : a < b => <<a, b>> \in R
    BY LessInRelation
  <1>. HIDE DEF R
  <1>3. PICK x \in S : \A y \in S : ~(<<y, x>> \in R)
    BY <1>1, WFMin
  <1>4. ASSUME NEW y \in S PROVE x <= y
    <2>1. x \in Nat /\ y \in Nat
      OBVIOUS
    <2>2. ~(<<y, x>> \in R)
      BY <1>3
    <2>3. ~(y < x)
      BY <1>2, <2>1, <2>2
    <2>. QED
      BY <2>1, <2>3
  <1>. QED
    BY <1>4

\* Induction: a set with 0 and the successors of its elements is Nat.
LEMMA InductiveSet ==
    ASSUME NEW S, S \subseteq Nat, 0 \in S, \A n \in S : n + 1 \in S
    PROVE  S = Nat
  <1>. DEFINE T == Nat \ S
  <1>1. SUFFICES ASSUME T # {} PROVE FALSE
    OBVIOUS
  <1>2. PICK x \in T : \A y \in T : x <= y
    BY <1>1, LeastNumber
  <1>3. x # 0 /\ x - 1 \in Nat
    OBVIOUS
  <1>4. x - 1 \notin T
    BY <1>2, <1>3
  <1>. QED
    BY <1>3, <1>4

-----------------------------------------------------------------------------
(***************************************************************************)
(* The links.  A walk w lists the contexts from the head to the tail.      *)
(***************************************************************************)

\* The links of p are those of the list w, in both directions.
IsList(p, n, w) ==
    /\ p.size = n /\ n \in Nat /\ n >= 2
    /\ w \in [0..n - 1 -> 0..n - 1]
    /\ w[0] = HeadCtx /\ w[n - 1] = TailCtx
    /\ \A i, j \in 0..n - 1 : w[i] = w[j] => i = j
    /\ \A c \in 0..n - 1 : \E i \in 0..n - 1 : w[i] = c
    /\ \A i \in 0..n - 2 : p.next[w[i]] = w[i + 1] /\ p.prev[w[i + 1]] = w[i]
    /\ p.next[TailCtx] = NilCtx /\ p.prev[HeadCtx] = NilCtx

\* The walk w with context c put behind its position k.
Inserted(w, k, c) ==
    [i \in 0..c |-> IF i <= k THEN w[i] ELSE IF i = k + 1 THEN c ELSE w[i - 1]]

\* Steps along links that follow a walk stay on the walk.
LEMMA AlongWalk ==
    ASSUME NEW m \in Nat, NEW w, NEW link,
           \A i \in 0..m - 1 : link[w[i]] = w[i + 1],
           NEW k \in 0..m
    PROVE  Along(link, w[0], k) = w[k]
  <1>. DEFINE F(g) == [i \in 0..k |-> IF i = 0 THEN w[0] ELSE link[g[i - 1]]]
              at == CHOOSE g : g = F(g)
              v == [i \in 0..k |-> w[i]]
              T == {i \in Nat : i \in 0..k => at[i] = w[i]}
  <1>1. v = F(v)
    OBVIOUS
  <1>2. at = F(at)
    BY <1>1
  <1>3. Along(link, w[0], k) = at[k]
    BY DEF Along
  <1>. HIDE DEF at
  <1>4. 0 \in T
    BY <1>2
  <1>5. ASSUME NEW n \in T PROVE n + 1 \in T
    BY <1>2
  <1>6. T \subseteq Nat
    OBVIOUS
  <1>7. T = Nat
    <2>. HIDE DEF T
    <2>. QED
      BY <1>4, <1>5, <1>6, InductiveSet
  <1>. QED
    BY <1>3, <1>7

\* Forward, the walk is met in its order.
LEMMA WalkNext ==
    ASSUME NEW p, NEW n \in Nat, NEW w, IsList(p, n, w), NEW k \in 0..n - 1, NEW i \in 0..n - 1 - k
    PROVE  Along(p.next, w[k], i) = w[k + i]
  <1>. DEFINE v == [j \in 0..n - 1 - k |-> w[k + j]]
  <1>0. /\ p.size = n /\ n >= 2
        /\ w \in [0..n - 1 -> 0..n - 1]
        /\ w[0] = HeadCtx
        /\ \A a, b \in 0..n - 1 : w[a] = w[b] => a = b
        /\ \A a \in 0..n - 2 : p.next[w[a]] = w[a + 1] /\ p.prev[w[a + 1]] = w[a]
    BY DEF IsList
  <1>1. n - 1 - k \in Nat /\ n \in Nat
    BY <1>0
  <1>2. ASSUME NEW j \in 0..n - 1 - k - 1 PROVE p.next[v[j]] = v[j + 1]
    <2>1. k + j \in 0..n - 2 /\ (k + j) + 1 = k + (j + 1)
      BY <1>1
    <2>2. p.next[w[k + j]] = w[(k + j) + 1]
      BY <1>0, <2>1
    <2>. QED
      BY <1>1, <2>1, <2>2
  <1>3. v[0] = w[k] /\ v[i] = w[k + i]
    BY <1>0, <1>1
  <1>4. PICK m \in Nat : m = n - 1 - k
    BY <1>1
  <1>. HIDE DEF v
  <1>5. \A j \in 0..m - 1 : p.next[v[j]] = v[j + 1]
    BY <1>2, <1>4
  <1>6. i \in 0..m
    BY <1>4
  <1>7. Along(p.next, v[0], i) = v[i]
    BY <1>5, <1>6, AlongWalk
  <1>. QED
    BY <1>3, <1>7

\* Backward, it is met in the opposite order.
LEMMA WalkPrev ==
    ASSUME NEW p, NEW n \in Nat, NEW w, IsList(p, n, w), NEW k \in 0..n - 1, NEW i \in 0..k
    PROVE  Along(p.prev, w[k], i) = w[k - i]
  <1>. DEFINE v == [j \in 0..k |-> w[k - j]]
  <1>0. /\ p.size = n /\ n >= 2
        /\ w \in [0..n - 1 -> 0..n - 1]
        /\ w[0] = HeadCtx
        /\ \A a, b \in 0..n - 1 : w[a] = w[b] => a = b
        /\ \A a \in 0..n - 2 : p.next[w[a]] = w[a + 1] /\ p.prev[w[a + 1]] = w[a]
    BY DEF IsList
  <1>1. k \in Nat /\ n \in Nat
    BY <1>0
  <1>2. \A j \in 0..k - 1 : p.prev[v[j]] = v[j + 1]
    <2>. SUFFICES ASSUME NEW j \in 0..k - 1 PROVE p.prev[v[j]] = v[j + 1]
      OBVIOUS
    <2>1. v[j] = w[k - j] /\ v[j + 1] = w[k - (j + 1)]
      BY <1>1
    <2>2. k - (j + 1) \in 0..n - 2 /\ (k - (j + 1)) + 1 = k - j
      BY <1>1
    <2>3. p.prev[w[(k - (j + 1)) + 1]] = w[k - (j + 1)]
      BY <1>0, <2>2
    <2>. QED
      BY <2>1, <2>2, <2>3
  <1>3. v[0] = w[k] /\ v[i] = w[k - i]
    BY <1>1
  <1>. HIDE DEF v
  <1>. QED
    BY <1>1, <1>2, <1>3, AlongWalk

\* The position of a context in the walk is its position in the pipeline.
LEMMA WalkPositions ==
    ASSUME NEW p, NEW n \in Nat, NEW w, IsList(p, n, w), NEW k \in 0..n - 1
    PROVE  ContextAt(p, k) = w[k] /\ Position(p, w[k]) = k
  <1>0. /\ p.size = n /\ n >= 2
        /\ w \in [0..n - 1 -> 0..n - 1]
        /\ w[0] = HeadCtx
        /\ \A a, b \in 0..n - 1 : w[a] = w[b] => a = b
        /\ \A a \in 0..n - 2 : p.next[w[a]] = w[a + 1] /\ p.prev[w[a + 1]] = w[a]
    BY DEF IsList
  <1>1. p.size = n /\ n >= 2 /\ w[0] = HeadCtx
    BY <1>0
  <1>2. \A i \in 0..n - 1 : ContextAt(p, i) = w[i]
    <2>. SUFFICES ASSUME NEW i \in 0..n - 1 PROVE ContextAt(p, i) = w[i]
      OBVIOUS
    <2>1. Along(p.next, w[0], i) = w[0 + i]
      BY <1>1, WalkNext
    <2>. QED
      BY <1>1, <2>1 DEF ContextAt
  <1>3. \A i \in 0..n - 1 : w[i] = w[k] => i = k
    BY <1>0
  <1>4. Position(p, w[k]) = CHOOSE i \in 0..n - 1 : ContextAt(p, i) = w[k]
    BY <1>1 DEF Position
  <1>5. \A i \in 0..n - 1 : ContextAt(p, i) = w[k] <=> i = k
    BY <1>2, <1>3
  <1>. QED
    BY <1>2, <1>4, <1>5

\* A context linked behind position k is in the walk behind position k.
LEMMA LinkList ==
    ASSUME NEW p, NEW n \in Nat, NEW w, IsList(p, n, w), NEW k \in 0..n - 2, NEW t
    PROVE  IsList(Link(p, w[k], t), n + 1, Inserted(w, k, n))
  <1>. DEFINE q == Link(p, w[k], t)
              v == Inserted(w, k, n)
  <1>0. /\ p.size = n /\ n >= 2
        /\ w \in [0..n - 1 -> 0..n - 1]
        /\ w[0] = HeadCtx
        /\ \A a, b \in 0..n - 1 : w[a] = w[b] => a = b
        /\ \A a \in 0..n - 2 : p.next[w[a]] = w[a + 1] /\ p.prev[w[a + 1]] = w[a]
    BY DEF IsList
  <1>1. k \in Nat /\ k \in 0..n - 1 /\ k + 1 \in 0..n - 1 /\ n \in 0..n
    BY <1>0
  <1>2. p.next[w[k]] = w[k + 1]
    BY <1>0
  <1>i. \A a, b \in 0..n - 1 : w[a] = w[b] => a = b
    BY <1>0
  <1>w. \A i \in 0..n - 1 : w[i] \in 0..n /\ w[i] # n
    BY <1>0
  <1>3. /\ q.size = n + 1
        /\ q.next = [c \in 0..n |-> IF c = w[k] THEN n ELSE IF c = n THEN w[k + 1] ELSE p.next[c]]
        /\ q.prev = [c \in 0..n |-> IF c = w[k + 1] THEN n ELSE IF c = n THEN w[k] ELSE p.prev[c]]
    BY <1>0, <1>2 DEF Link
  <1>4. v = [i \in 0..n |-> IF i <= k THEN w[i] ELSE IF i = k + 1 THEN n ELSE w[i - 1]]
    BY DEF Inserted
  <1>5. /\ w[0] = HeadCtx /\ w[n - 1] = TailCtx
        /\ \A i \in 0..n - 2 : p.next[w[i]] = w[i + 1] /\ p.prev[w[i + 1]] = w[i]
        /\ p.next[TailCtx] = NilCtx /\ p.prev[HeadCtx] = NilCtx
        /\ \A c \in 0..n - 1 : \E i \in 0..n - 1 : w[i] = c
    BY DEF IsList
  <1>. HIDE DEF q, v
  <1>6. v \in [0..n -> 0..n]
    BY <1>0, <1>1, <1>4
  <1>7. v[0] = HeadCtx /\ v[n] = TailCtx
    BY <1>0, <1>1, <1>4, <1>5
  <1>8. ASSUME NEW i \in 0..n, NEW j \in 0..n, v[i] = v[j] PROVE i = j
    <2>. DEFINE at(x) == IF x <= k THEN x ELSE x - 1
    <2>1. \A x \in 0..n : x # k + 1 => at(x) \in 0..n - 1 /\ v[x] = w[at(x)] /\ v[x] # n
      BY <1>0, <1>1, <1>4, <1>w
    <2>2. v[k + 1] = n
      BY <1>0, <1>1, <1>4
    <2>3. CASE i = k + 1 \/ j = k + 1
      BY <1>8, <2>1, <2>2, <2>3
    <2>4. CASE i # k + 1 /\ j # k + 1
      <3>1. at(i) = at(j)
        BY <1>i, <1>8, <2>1, <2>4
      <3>. QED
        BY <1>1, <2>4, <3>1
    <2>. QED
      BY <2>3, <2>4
  <1>9. \A c \in 0..n : \E i \in 0..n : v[i] = c
    <2>. SUFFICES ASSUME NEW c \in 0..n PROVE \E i \in 0..n : v[i] = c
      OBVIOUS
    <2>1. CASE c = n
      <3>1. k + 1 \in 0..n /\ v[k + 1] = n
        BY <1>0, <1>1, <1>4
      <3>. QED
        BY <2>1, <3>1
    <2>2. CASE c # n
      <3>1. PICK i \in 0..n - 1 : w[i] = c
        BY <1>0, <1>1, <1>5, <2>2
      <3>2. CASE i <= k
        BY <1>0, <1>1, <1>4, <3>1, <3>2
      <3>3. CASE i > k
        <4>1. i + 1 \in 0..n /\ v[i + 1] = w[i]
          BY <1>0, <1>1, <1>4, <3>3
        <4>. QED
          BY <3>1, <4>1
      <3>. QED
        BY <1>0, <1>1, <3>2, <3>3
    <2>. QED
      BY <2>1, <2>2
  <1>10. ASSUME NEW i \in 0..n - 1 PROVE q.next[v[i]] = v[i + 1] /\ q.prev[v[i + 1]] = v[i]
    <2>1. CASE i < k
      <3>1. v[i] = w[i] /\ v[i + 1] = w[i + 1] /\ i \in 0..n - 2 /\ i + 1 \in 0..n - 1 /\ k \in 0..n - 1
        BY <1>0, <1>1, <1>4, <2>1
      <3>2. w[i] # w[k] /\ w[i] # n /\ w[i + 1] # w[k + 1] /\ w[i + 1] # n /\ w[i] \in 0..n /\ w[i + 1] \in 0..n
        BY <1>i, <1>1, <1>w, <2>1, <3>1
      <3>3. p.next[w[i]] = w[i + 1] /\ p.prev[w[i + 1]] = w[i]
        BY <1>5, <3>1
      <3>. QED
        BY <1>3, <3>1, <3>2, <3>3
    <2>2. CASE i = k
      <3>1. v[i] = w[k] /\ v[i + 1] = n /\ k \in 0..n - 1
        BY <1>0, <1>1, <1>4, <2>2
      <3>2. w[k] \in 0..n /\ n \in 0..n /\ w[k + 1] # n
        BY <1>0, <1>1, <3>1
      <3>. QED
        BY <1>3, <3>1, <3>2
    <2>3. CASE i = k + 1
      <3>1. v[i] = n /\ v[i + 1] = w[k + 1] /\ k \in 0..n - 1
        BY <1>0, <1>1, <1>4, <2>3
      <3>2. w[k] # n /\ n \in 0..n /\ w[k + 1] \in 0..n
        BY <1>0, <1>1, <3>1
      <3>. QED
        BY <1>3, <3>1, <3>2
    <2>4. CASE i > k + 1
      <3>1. v[i] = w[i - 1] /\ v[i + 1] = w[i] /\ i - 1 \in 0..n - 2 /\ i \in 0..n - 1 /\ k \in 0..n - 1 /\ (i - 1) + 1 = i
        BY <1>0, <1>1, <1>4, <2>4
      <3>2. w[i - 1] # w[k] /\ w[i - 1] # n /\ w[i] # w[k + 1] /\ w[i] # n /\ w[i - 1] \in 0..n /\ w[i] \in 0..n
        BY <1>i, <1>1, <1>w, <2>4, <3>1
      <3>3. p.next[w[i - 1]] = w[i] /\ p.prev[w[i]] = w[i - 1]
        BY <1>5, <3>1
      <3>. QED
        BY <1>3, <3>1, <3>2, <3>3
    <2>. QED
      BY <1>0, <1>1, <2>1, <2>2, <2>3, <2>4
  <1>11. q.next[TailCtx] = NilCtx /\ q.prev[HeadCtx] = NilCtx
    <2>1. w[n - 1] # w[k] /\ w[0] # w[k + 1] /\ w[n - 1] # n /\ w[0] # n /\ w[n - 1] \in 0..n /\ w[0] \in 0..n
      BY <1>0, <1>1
    <2>. QED
      BY <1>3, <1>5, <2>1
  <1>12. n + 1 \in Nat /\ n + 1 >= 2 /\ (n + 1) - 1 = n /\ (n + 1) - 2 = n - 1
    BY <1>0, <1>1
  <1>13. IsList(q, n + 1, v)
    BY <1>3, <1>6, <1>7, <1>8, <1>9, <1>10, <1>11, <1>12 DEF IsList
  <1>. QED
    BY <1>13 DEF q, v
-----------------------------------------------------------------------------
(***************************************************************************)
(* Filling.  What the loops of AddFirst, AddLast and AddHandler build is   *)
(* the list of before with the handlers of the call spliced in.            *)
(***************************************************************************)

\* The types of the contexts: only the head and the tail have theirs.
Kinds(p, n) ==
    /\ p.type[HeadCtx] = "head" /\ p.type[TailCtx] = "tail"
    /\ \A c \in 2..n - 1 : p.type[c] \in Types \cup {"executor"}

\* The list T with g put behind its position k.
Splice(T, k, g) ==
    [j \in 1..Len(T) + Len(g) |->
        IF j <= k THEN T[j] ELSE IF j <= k + Len(g) THEN g[j - k] ELSE T[j - Len(g)]]

\* Along the walk v, the pipeline q has the handlers T with g behind position k.
Grown(q, v, T, k, g) ==
    /\ IsList(q, Len(T) + Len(g) + 2, v)
    /\ Kinds(q, Len(T) + Len(g) + 2)
    /\ \A j \in 1..Len(T) + Len(g) : q.type[v[j]] = Splice(T, k, g)[j]

\* The types that Link leaves along the walk.
LEMMA LinkTypes ==
    ASSUME NEW p, NEW n \in Nat, NEW w, IsList(p, n, w), Kinds(p, n),
           NEW k \in 0..n - 2, NEW t \in Types \cup {"executor"}
    PROVE  /\ Kinds(Link(p, w[k], t), n + 1)
           /\ \A j \in 0..n : Link(p, w[k], t).type[Inserted(w, k, n)[j]] =
                  IF j <= k THEN p.type[w[j]] ELSE IF j = k + 1 THEN t ELSE p.type[w[j - 1]]
  <1>. DEFINE q == Link(p, w[k], t)
              v == Inserted(w, k, n)
  <1>1. p.size = n /\ n >= 2 /\ w \in [0..n - 1 -> 0..n - 1]
    BY DEF IsList
  <1>2. q.type = [c \in 0..n |-> IF c = n THEN t ELSE p.type[c]]
    BY <1>1 DEF Link
  <1>3. v = [i \in 0..n |-> IF i <= k THEN w[i] ELSE IF i = k + 1 THEN n ELSE w[i - 1]]
    BY DEF Inserted
  <1>4. \A i \in 0..n - 1 : w[i] \in 0..n /\ w[i] # n
    BY <1>1
  <1>. HIDE DEF q, v
  <1>5. Kinds(q, n + 1)
    <2>1. q.type[HeadCtx] = p.type[HeadCtx] /\ q.type[TailCtx] = p.type[TailCtx]
      BY <1>1, <1>2 DEF HeadCtx, TailCtx
    <2>2. \A c \in 2..n : q.type[c] \in Types \cup {"executor"}
      BY <1>1, <1>2 DEF Kinds
    <2>3. n + 1 - 1 = n
      OBVIOUS
    <2>. QED
      BY <2>1, <2>2, <2>3 DEF Kinds
  <1>6. ASSUME NEW j \in 0..n
        PROVE  q.type[v[j]] = IF j <= k THEN p.type[w[j]] ELSE IF j = k + 1 THEN t ELSE p.type[w[j - 1]]
    <2>1. CASE j <= k
      <3>1. v[j] = w[j] /\ j \in 0..n - 1
        BY <1>1, <1>3, <2>1
      <3>. QED
        BY <1>2, <1>4, <2>1, <3>1
    <2>2. CASE j = k + 1
      <3>1. v[j] = n /\ n \in 0..n /\ ~(j <= k)
        BY <1>1, <1>3, <2>2
      <3>. QED
        BY <1>2, <2>2, <3>1
    <2>3. CASE j > k + 1
      <3>1. v[j] = w[j - 1] /\ j - 1 \in 0..n - 1 /\ ~(j <= k) /\ j # k + 1
        BY <1>1, <1>3, <2>3
      <3>. QED
        BY <1>2, <1>4, <3>1
    <2>. QED
      BY <2>1, <2>2, <2>3
  <1>. QED
    BY <1>5, <1>6 DEF q, v

\* A pipeline is its own list, with nothing spliced in.
LEMMA GrownNothing ==
    ASSUME NEW p, NEW n \in Nat, NEW w, IsList(p, n, w), Kinds(p, n), NEW k \in 0..n - 2
    PROVE  /\ Len(TypesOf(p)) = n - 2
           /\ Grown(p, w, TypesOf(p), k, <<>>)
  <1>1. p.size = n /\ n >= 2
    BY DEF IsList
  <1>2. \A j \in 1..n - 2 : ContextAt(p, j) = w[j]
    BY WalkPositions
  <1>3. TypesOf(p) = [j \in 1..n - 2 |-> p.type[w[j]]]
    BY <1>1, <1>2 DEF TypesOf
  <1>4. n - 2 \in Nat
    BY <1>1
  <1>5. Len(TypesOf(p)) = n - 2
    BY <1>3, <1>4
  <1>6. Len(<<>>) = 0 /\ (n - 2) + 0 + 2 = n /\ (n - 2) + 0 = n - 2
    BY <1>1
  <1>7. Splice(TypesOf(p), k, <<>>) = [j \in 1..n - 2 |-> p.type[w[j]]]
    <2>1. Splice(TypesOf(p), k, <<>>) =
            [j \in 1..n - 2 |-> IF j <= k THEN TypesOf(p)[j]
                                ELSE IF j <= k + 0 THEN <<>>[j - k] ELSE TypesOf(p)[j - 0]]
      BY <1>5, <1>6 DEF Splice
    <2>2. \A j \in 1..n - 2 : j - 0 = j /\ ((j <= k + 0) <=> (j <= k))
      BY <1>4
    <2>. QED
      BY <1>3, <2>1, <2>2
  <1>8. \A j \in 1..n - 2 : p.type[w[j]] = Splice(TypesOf(p), k, <<>>)[j]
    BY <1>7
  <1>. QED
    BY <1>5, <1>6, <1>8 DEF Grown

\* A handler linked in front of those spliced in.
LEMMA GrowFirst ==
    ASSUME NEW T, NEW g, Len(T) \in Nat, Len(g) \in Nat, NEW q, NEW v, NEW k \in 0..Len(T), Grown(q, v, T, k, g),
           NEW t \in Types \cup {"executor"},
           NEW h, Len(h) = Len(g) + 1, h[1] = t, \A j \in 1..Len(g) : h[j + 1] = g[j]
    PROVE  Grown(Link(q, v[k], t), Inserted(v, k, Len(T) + Len(g) + 2), T, k, h)
  <1>1. PICK m \in Nat, l \in Nat : m = Len(T) /\ l = Len(g)
    OBVIOUS
  <1>2. PICK n \in Nat : n = m + l + 2
    OBVIOUS
  <1>3. IsList(q, n, v) /\ Kinds(q, n) /\ k \in 0..n - 2
    BY <1>1, <1>2 DEF Grown
  <1>. DEFINE p == Link(q, v[k], t)
              u == Inserted(v, k, n)
  <1>4. IsList(p, n + 1, u)
    BY <1>3, LinkList
  <1>5. /\ Kinds(p, n + 1)
        /\ \A j \in 0..n : p.type[u[j]] =
              IF j <= k THEN q.type[v[j]] ELSE IF j = k + 1 THEN t ELSE q.type[v[j - 1]]
    BY <1>3, LinkTypes
  <1>6. \A j \in 1..m + l : q.type[v[j]] =
              IF j <= k THEN T[j] ELSE IF j <= k + l THEN g[j - k] ELSE T[j - l]
    BY <1>1 DEF Grown, Splice
  <1>. HIDE DEF p, u
  <1>7. ASSUME NEW j \in 1..m + (l + 1)
        PROVE  p.type[u[j]] = IF j <= k THEN T[j] ELSE IF j <= k + (l + 1) THEN h[j - k] ELSE T[j - (l + 1)]
    <2>1. j \in 0..n
      BY <1>2
    <2>2. CASE j <= k
      <3>1. j \in 1..m + l
        BY <1>1, <2>2
      <3>. QED
        BY <1>5, <1>6, <2>1, <2>2, <3>1
    <2>3. CASE j = k + 1
      <3>1. ~(j <= k) /\ j <= k + (l + 1) /\ j - k = 1
        BY <2>3
      <3>. QED
        BY <1>5, <2>1, <2>3, <3>1
    <2>4. CASE j > k + 1
      <3>1. p.type[u[j]] = q.type[v[j - 1]]
        BY <1>5, <2>1, <2>4
      <3>2. j - 1 \in 1..m + l /\ ~(j - 1 <= k) /\ ~(j <= k) /\ ((j - 1 <= k + l) <=> (j <= k + (l + 1)))
            /\ (j - 1) - l = j - (l + 1)
        BY <2>4
      <3>3. CASE j - 1 <= k + l
        <4>1. p.type[u[j]] = g[(j - 1) - k]
          BY <1>6, <3>1, <3>2, <3>3
        <4>2. (j - 1) - k \in 1..l /\ ((j - 1) - k) + 1 = j - k
          BY <2>4, <3>3
        <4>3. h[j - k] = g[(j - 1) - k]
          BY <1>1, <4>2
        <4>. QED
          BY <3>2, <3>3, <4>1, <4>3
      <3>4. CASE ~(j - 1 <= k + l)
        BY <1>6, <3>1, <3>2, <3>4
      <3>. QED
        BY <3>3, <3>4
    <2>. QED
      BY <2>2, <2>3, <2>4
  <1>8. Len(h) = l + 1 /\ n + 1 = m + (l + 1) + 2
    BY <1>1, <1>2
  <1>9. \A j \in 1..m + (l + 1) : p.type[u[j]] = Splice(T, k, h)[j]
    BY <1>1, <1>7, <1>8 DEF Splice
  <1>10. Grown(p, u, T, k, h)
    BY <1>1, <1>4, <1>5, <1>8, <1>9 DEF Grown
  <1>. QED
    BY <1>1, <1>2, <1>10 DEF p, u

\* A handler linked behind those spliced in.
LEMMA GrowBehind ==
    ASSUME NEW T, NEW g, Len(T) \in Nat, Len(g) \in Nat, NEW q, NEW v, NEW k \in 0..Len(T), Grown(q, v, T, k, g),
           NEW t \in Types \cup {"executor"},
           NEW h, Len(h) = Len(g) + 1, h[Len(g) + 1] = t, \A j \in 1..Len(g) : h[j] = g[j]
    PROVE  Grown(Link(q, v[k + Len(g)], t), Inserted(v, k + Len(g), Len(T) + Len(g) + 2), T, k, h)
  <1>1. PICK m \in Nat, l \in Nat : m = Len(T) /\ l = Len(g)
    OBVIOUS
  <1>2. PICK n \in Nat : n = m + l + 2
    OBVIOUS
  <1>3. IsList(q, n, v) /\ Kinds(q, n) /\ k + l \in 0..n - 2
    BY <1>1, <1>2 DEF Grown
  <1>. DEFINE p == Link(q, v[k + l], t)
              u == Inserted(v, k + l, n)
  <1>4. IsList(p, n + 1, u)
    BY <1>3, LinkList
  <1>5. /\ Kinds(p, n + 1)
        /\ \A j \in 0..n : p.type[u[j]] =
              IF j <= k + l THEN q.type[v[j]] ELSE IF j = k + l + 1 THEN t ELSE q.type[v[j - 1]]
    BY <1>3, LinkTypes
  <1>6. \A j \in 1..m + l : q.type[v[j]] =
              IF j <= k THEN T[j] ELSE IF j <= k + l THEN g[j - k] ELSE T[j - l]
    BY <1>1 DEF Grown, Splice
  <1>. HIDE DEF p, u
  <1>7. ASSUME NEW j \in 1..m + (l + 1)
        PROVE  p.type[u[j]] = IF j <= k THEN T[j] ELSE IF j <= k + (l + 1) THEN h[j - k] ELSE T[j - (l + 1)]
    <2>1. j \in 0..n
      BY <1>2
    <2>2. CASE j <= k + l
      <3>1. j \in 1..m + l /\ j <= k + (l + 1)
        BY <1>1, <2>2
      <3>2. p.type[u[j]] = IF j <= k THEN T[j] ELSE g[j - k]
        BY <1>5, <1>6, <2>1, <2>2, <3>1
      <3>3. CASE j <= k
        BY <3>2, <3>3
      <3>4. CASE ~(j <= k)
        <4>1. j - k \in 1..l
          BY <2>2, <3>4
        <4>2. h[j - k] = g[j - k]
          BY <1>1, <4>1
        <4>. QED
          BY <3>1, <3>2, <3>4, <4>2
      <3>. QED
        BY <3>3, <3>4
    <2>3. CASE j = k + l + 1
      <3>1. ~(j <= k) /\ j <= k + (l + 1) /\ j - k = l + 1 /\ ~(j <= k + l)
        BY <2>3
      <3>. QED
        BY <1>1, <1>5, <2>1, <2>3, <3>1
    <2>4. CASE j > k + l + 1
      <3>1. p.type[u[j]] = q.type[v[j - 1]]
        BY <1>5, <2>1, <2>4
      <3>2. j - 1 \in 1..m + l /\ ~(j - 1 <= k) /\ ~(j <= k) /\ ~(j - 1 <= k + l) /\ ~(j <= k + (l + 1))
            /\ (j - 1) - l = j - (l + 1)
        BY <2>4
      <3>. QED
        BY <1>6, <3>1, <3>2
    <2>. QED
      BY <2>2, <2>3, <2>4
  <1>8. Len(h) = l + 1 /\ n + 1 = m + (l + 1) + 2
    BY <1>1, <1>2
  <1>9. \A j \in 1..m + (l + 1) : p.type[u[j]] = Splice(T, k, h)[j]
    BY <1>1, <1>7, <1>8 DEF Splice
  <1>10. Grown(p, u, T, k, h)
    BY <1>1, <1>4, <1>5, <1>8, <1>9 DEF Grown
  <1>. QED
    BY <1>1, <1>2, <1>10 DEF p, u

\* The pipelines that the loop of AddFirst goes through.
AllFirstLoop(g, p, hs) ==
    g = [i \in 0..Len(hs) |-> IF i = 0 THEN p ELSE addFirst(g[i - 1], hs[i])]

\* The loop of AddFirst has a result.
LEMMA AllFirstRuns ==
    ASSUME NEW p, NEW hs, Len(hs) \in Nat
    PROVE  \E g : AllFirstLoop(g, p, hs)
  <1>. DEFINE F(g, m) == [i \in 0..m |-> IF i = 0 THEN p ELSE addFirst(g[i - 1], hs[i])]
              S == {m \in Nat : \E g : g = F(g, m)}
  <1>1. 0 \in S
    <2>. DEFINE g == [i \in 0..0 |-> p]
    <2>1. g = F(g, 0)
      OBVIOUS
    <2>. QED
      BY <2>1
  <1>2. ASSUME NEW m \in S PROVE m + 1 \in S
    <2>1. PICK g : g = F(g, m)
      BY <1>2
    <2>. DEFINE i == m + 1
                new == addFirst(g[i - 1], hs[i])
                f == [j \in 0..m + 1 |-> IF j = m + 1 THEN new ELSE g[j]]
    <2>2. m \in Nat /\ (m + 1) - 1 = m /\ f[m] = g[m]
      OBVIOUS
    <2>3. ASSUME NEW j \in 0..m + 1 PROVE f[j] = F(f, m + 1)[j]
      <3>1. CASE j = m + 1
        BY <2>2, <3>1
      <3>2. CASE j = 0
        BY <2>1, <2>2, <3>2
      <3>3. CASE j # m + 1 /\ j # 0
        <4>1. j \in 0..m /\ j - 1 \in 0..m /\ f[j] = g[j] /\ f[j - 1] = g[j - 1]
          BY <2>2, <3>3
        <4>2. g[j] = F(g, m)[j]
          BY <2>1
        <4>. QED
          BY <3>3, <4>1, <4>2
      <3>. QED
        BY <3>1, <3>2, <3>3
    <2>4. f = F(f, m + 1)
      BY <2>3
    <2>. HIDE DEF F, f
    <2>5. \E ff : ff = F(ff, m + 1)
      BY <2>4
    <2>. QED
      BY <2>2, <2>5
  <1>3. S \subseteq Nat
    OBVIOUS
  <1>4. S = Nat
    <2>. HIDE DEF S
    <2>. QED
      BY <1>1, <1>2, <1>3, InductiveSet
  <1>5. \E g : g = F(g, Len(hs))
    BY <1>4
  <1>. QED
    BY <1>5 DEF AllFirstLoop

\* The pipelines that the loop of AddLast goes through.
AllLastLoop(g, p, hs) ==
    g = [i \in 0..Len(hs) |-> IF i = 0 THEN p ELSE addLast(g[i - 1], hs[i])]

\* The loop of AddLast has a result.
LEMMA AllLastRuns ==
    ASSUME NEW p, NEW hs, Len(hs) \in Nat
    PROVE  \E g : AllLastLoop(g, p, hs)
  <1>. DEFINE F(g, m) == [i \in 0..m |-> IF i = 0 THEN p ELSE addLast(g[i - 1], hs[i])]
              S == {m \in Nat : \E g : g = F(g, m)}
  <1>1. 0 \in S
    <2>. DEFINE g == [i \in 0..0 |-> p]
    <2>1. g = F(g, 0)
      OBVIOUS
    <2>. QED
      BY <2>1
  <1>2. ASSUME NEW m \in S PROVE m + 1 \in S
    <2>1. PICK g : g = F(g, m)
      BY <1>2
    <2>. DEFINE i == m + 1
                new == addLast(g[i - 1], hs[i])
                f == [j \in 0..m + 1 |-> IF j = m + 1 THEN new ELSE g[j]]
    <2>2. m \in Nat /\ (m + 1) - 1 = m /\ f[m] = g[m]
      OBVIOUS
    <2>3. ASSUME NEW j \in 0..m + 1 PROVE f[j] = F(f, m + 1)[j]
      <3>1. CASE j = m + 1
        BY <2>2, <3>1
      <3>2. CASE j = 0
        BY <2>1, <2>2, <3>2
      <3>3. CASE j # m + 1 /\ j # 0
        <4>1. j \in 0..m /\ j - 1 \in 0..m /\ f[j] = g[j] /\ f[j - 1] = g[j - 1]
          BY <2>2, <3>3
        <4>2. g[j] = F(g, m)[j]
          BY <2>1
        <4>. QED
          BY <3>3, <4>1, <4>2
      <3>. QED
        BY <3>1, <3>2, <3>3
    <2>4. f = F(f, m + 1)
      BY <2>3
    <2>. HIDE DEF F, f
    <2>5. \E ff : ff = F(ff, m + 1)
      BY <2>4
    <2>. QED
      BY <2>2, <2>5
  <1>3. S \subseteq Nat
    OBVIOUS
  <1>4. S = Nat
    <2>. HIDE DEF S
    <2>. QED
      BY <1>1, <1>2, <1>3, InductiveSet
  <1>5. \E g : g = F(g, Len(hs))
    BY <1>4
  <1>. QED
    BY <1>5 DEF AllLastLoop

\* The pipelines that the loop of AddHandler goes through.
InsertAllLoop(g, p, n, hs) ==
    g = [i \in 0..Len(hs) |-> IF i = 0 THEN p ELSE Link(g[i - 1], IF i = 1 THEN n ELSE g[i - 1].size - 1, hs[i])]

\* The loop of AddHandler has a result.
LEMMA InsertAllRuns ==
    ASSUME NEW p, NEW n, NEW hs, Len(hs) \in Nat
    PROVE  \E g : InsertAllLoop(g, p, n, hs)
  <1>. DEFINE F(g, m) == [i \in 0..m |-> IF i = 0 THEN p ELSE Link(g[i - 1], IF i = 1 THEN n ELSE g[i - 1].size - 1, hs[i])]
              S == {m \in Nat : \E g : g = F(g, m)}
  <1>1. 0 \in S
    <2>. DEFINE g == [i \in 0..0 |-> p]
    <2>1. g = F(g, 0)
      OBVIOUS
    <2>. QED
      BY <2>1
  <1>2. ASSUME NEW m \in S PROVE m + 1 \in S
    <2>1. PICK g : g = F(g, m)
      BY <1>2
    <2>. DEFINE i == m + 1
                new == Link(g[i - 1], IF i = 1 THEN n ELSE g[i - 1].size - 1, hs[i])
                f == [j \in 0..m + 1 |-> IF j = m + 1 THEN new ELSE g[j]]
    <2>2. m \in Nat /\ (m + 1) - 1 = m /\ f[m] = g[m]
      OBVIOUS
    <2>3. ASSUME NEW j \in 0..m + 1 PROVE f[j] = F(f, m + 1)[j]
      <3>1. CASE j = m + 1
        BY <2>2, <3>1
      <3>2. CASE j = 0
        BY <2>1, <2>2, <3>2
      <3>3. CASE j # m + 1 /\ j # 0
        <4>1. j \in 0..m /\ j - 1 \in 0..m /\ f[j] = g[j] /\ f[j - 1] = g[j - 1]
          BY <2>2, <3>3
        <4>2. g[j] = F(g, m)[j]
          BY <2>1
        <4>. QED
          BY <3>3, <4>1, <4>2
      <3>. QED
        BY <3>1, <3>2, <3>3
    <2>4. f = F(f, m + 1)
      BY <2>3
    <2>. HIDE DEF F, f
    <2>5. \E ff : ff = F(ff, m + 1)
      BY <2>4
    <2>. QED
      BY <2>2, <2>5
  <1>3. S \subseteq Nat
    OBVIOUS
  <1>4. S = Nat
    <2>. HIDE DEF S
    <2>. QED
      BY <1>1, <1>2, <1>3, InductiveSet
  <1>5. \E g : g = F(g, Len(hs))
    BY <1>4
  <1>. QED
    BY <1>5 DEF InsertAllLoop

\* AddFirst puts its handlers in front, the last of them foremost.
LEMMA AllFirstGrows ==
    ASSUME NEW p, NEW n \in Nat, NEW w, IsList(p, n, w), Kinds(p, n),
           NEW hs \in Seq(Types \cup {"executor"})
    PROVE  \E v : Grown(AllFirst(p, hs), v, TypesOf(p), 0, Reverse(hs))
  <1>. DEFINE q == CHOOSE g : AllFirstLoop(g, p, hs)
              rev(i) == [j \in 1..i |-> hs[(i - j) + 1]]
              P(i) == \E v : Grown(q[i], v, TypesOf(p), 0, rev(i))
              S == {i \in Nat : i <= Len(hs) => P(i)}
  <1>0. AllFirstLoop(q, p, hs)
    <2>1. Len(hs) \in Nat
      OBVIOUS
    <2>2. \E g : AllFirstLoop(g, p, hs)
      BY <2>1, AllFirstRuns
    <2>. QED
      BY <2>2
  <1>1. q = [i \in 0..Len(hs) |-> IF i = 0 THEN p ELSE addFirst(q[i - 1], hs[i])]
    BY <1>0 DEF AllFirstLoop
  <1>2. AllFirst(p, hs) = q[Len(hs)]
    BY DEF AllFirst, AllFirstLoop
  <1>3. n - 2 \in Nat /\ Len(TypesOf(p)) = n - 2 /\ Grown(p, w, TypesOf(p), 0, <<>>)
    <2>1. n - 2 \in Nat
      BY DEF IsList
    <2>. QED
      BY <2>1, GrownNothing
  <1>. HIDE DEF q
  <1>4. 0 \in S
    <2>1. q[0] = p /\ rev(0) = <<>>
      BY <1>1
    <2>. QED
      BY <1>3, <2>1
  <1>5. ASSUME NEW i \in S PROVE i + 1 \in S
    <2>. SUFFICES ASSUME i + 1 <= Len(hs)
                  PROVE  P(i + 1)
      <3>. HIDE DEF P
      <3>. QED
        OBVIOUS
    <2>1. i \in Nat /\ i <= Len(hs) /\ i + 1 \in 1..Len(hs) /\ (i + 1) - 1 = i
      OBVIOUS
    <2>p. P(i)
      <3>. HIDE DEF P
      <3>. QED
        BY <2>1
    <2>2. PICK v : Grown(q[i], v, TypesOf(p), 0, rev(i))
      BY <2>p
    <2>3. q[i + 1] = Link(q[i], HeadCtx, hs[i + 1])
      BY <1>1, <2>1 DEF addFirst
    <2>4. hs[i + 1] \in Types \cup {"executor"}
      BY <2>1
    <2>5. v[0] = HeadCtx
      BY <2>2 DEF Grown, IsList
    <2>6. Len(rev(i)) = i /\ Len(rev(i + 1)) = i + 1
      BY <2>1
    <2>7. rev(i + 1)[1] = hs[i + 1] /\ \A j \in 1..i : rev(i + 1)[j + 1] = rev(i)[j]
      BY <2>1
    <2>. HIDE DEF rev
    <2>8. Grown(Link(q[i], v[0], hs[i + 1]), Inserted(v, 0, Len(TypesOf(p)) + i + 2), TypesOf(p), 0, rev(i + 1))
      <3>1. 0 \in 0..Len(TypesOf(p)) /\ Len(TypesOf(p)) \in Nat /\ Len(rev(i)) \in Nat
        BY <1>3, <2>1, <2>6
      <3>2. Len(rev(i + 1)) = Len(rev(i)) + 1 /\ \A j \in 1..Len(rev(i)) : rev(i + 1)[j + 1] = rev(i)[j]
        BY <2>6, <2>7
      <3>. QED
        BY <2>2, <2>4, <2>6, <2>7, <3>1, <3>2, GrowFirst
    <2>. QED
      BY <2>3, <2>5, <2>8
  <1>6. S \subseteq Nat
    OBVIOUS
  <1>7. S = Nat
    <2>. HIDE DEF S
    <2>. QED
      BY <1>4, <1>5, <1>6, InductiveSet
  <1>8. rev(Len(hs)) = Reverse(hs)
    BY DEF Reverse
  <1>. QED
    <2>1. P(Len(hs))
      <3>. HIDE DEF P
      <3>. QED
        BY <1>7
    <2>2. \E v : Grown(q[Len(hs)], v, TypesOf(p), 0, rev(Len(hs)))
      BY <2>1
    <2>. QED
      BY <1>2, <1>8, <2>2

\* AddLast puts its handlers at the back, in their order.
LEMMA AllLastGrows ==
    ASSUME NEW p, NEW n \in Nat, NEW w, IsList(p, n, w), Kinds(p, n),
           NEW hs \in Seq(Types \cup {"executor"})
    PROVE  \E v : Grown(AllLast(p, hs), v, TypesOf(p), n - 2, hs)
  <1>. DEFINE q == CHOOSE g : AllLastLoop(g, p, hs)
              pre(i) == [j \in 1..i |-> hs[j]]
              P(i) == \E v : Grown(q[i], v, TypesOf(p), n - 2, pre(i))
              S == {i \in Nat : i <= Len(hs) => P(i)}
  <1>0. AllLastLoop(q, p, hs)
    <2>1. Len(hs) \in Nat
      OBVIOUS
    <2>2. \E g : AllLastLoop(g, p, hs)
      BY <2>1, AllLastRuns
    <2>. QED
      BY <2>2
  <1>1. q = [i \in 0..Len(hs) |-> IF i = 0 THEN p ELSE addLast(q[i - 1], hs[i])]
    BY <1>0 DEF AllLastLoop
  <1>2. AllLast(p, hs) = q[Len(hs)]
    BY DEF AllLast, AllLastLoop
  <1>3. n - 2 \in Nat /\ Len(TypesOf(p)) = n - 2 /\ Grown(p, w, TypesOf(p), n - 2, <<>>)
    <2>1. n - 2 \in Nat
      BY DEF IsList
    <2>. QED
      BY <2>1, GrownNothing
  <1>. HIDE DEF q
  <1>4. 0 \in S
    <2>1. q[0] = p /\ pre(0) = <<>>
      BY <1>1
    <2>. QED
      BY <1>3, <2>1
  <1>5. ASSUME NEW i \in S PROVE i + 1 \in S
    <2>. SUFFICES ASSUME i + 1 <= Len(hs)
                  PROVE  P(i + 1)
      <3>. HIDE DEF P
      <3>. QED
        OBVIOUS
    <2>1. i \in Nat /\ i <= Len(hs) /\ i + 1 \in 1..Len(hs) /\ (i + 1) - 1 = i
      OBVIOUS
    <2>p. P(i)
      <3>. HIDE DEF P
      <3>. QED
        BY <2>1
    <2>2. PICK v : Grown(q[i], v, TypesOf(p), n - 2, pre(i))
      BY <2>p
    <2>3. q[i + 1] = Link(q[i], q[i].prev[TailCtx], hs[i + 1])
      BY <1>1, <2>1 DEF addLast
    <2>4. hs[i + 1] \in Types \cup {"executor"}
      BY <2>1
    <2>6. Len(pre(i)) = i /\ Len(pre(i + 1)) = i + 1
      BY <2>1
    <2>7. pre(i + 1)[i + 1] = hs[i + 1] /\ \A j \in 1..i : pre(i + 1)[j] = pre(i)[j]
      BY <2>1
    <2>. HIDE DEF pre
    <2>5. q[i].prev[TailCtx] = v[(n - 2) + i]
      <3>1. PICK m \in Nat : m = (n - 2) + i
        BY <1>3, <2>1
      <3>2. IsList(q[i], m + 2, v)
        BY <1>3, <2>2, <2>6, <3>1 DEF Grown
      <3>3. m \in 0..(m + 2) - 2 /\ (m + 2) - 1 = m + 1
        BY <3>1
      <3>4. v[m + 1] = TailCtx /\ q[i].prev[v[m + 1]] = v[m]
        BY <3>2, <3>3 DEF IsList
      <3>. QED
        BY <3>1, <3>4
    <2>8. Grown(Link(q[i], v[(n - 2) + i], hs[i + 1]), Inserted(v, (n - 2) + i, (n - 2) + i + 2), TypesOf(p), n - 2, pre(i + 1))
      <3>1. n - 2 \in 0..Len(TypesOf(p)) /\ Len(TypesOf(p)) \in Nat /\ Len(pre(i)) \in Nat
        BY <1>3, <2>1, <2>6
      <3>2. /\ Len(pre(i + 1)) = Len(pre(i)) + 1
            /\ pre(i + 1)[Len(pre(i)) + 1] = hs[i + 1]
            /\ \A j \in 1..Len(pre(i)) : pre(i + 1)[j] = pre(i)[j]
        BY <2>6, <2>7
      <3>3. Grown(Link(q[i], v[(n - 2) + Len(pre(i))], hs[i + 1]),
                  Inserted(v, (n - 2) + Len(pre(i)), Len(TypesOf(p)) + Len(pre(i)) + 2), TypesOf(p), n - 2, pre(i + 1))
        BY <2>2, <2>4, <3>1, <3>2, GrowBehind
      <3>. QED
        BY <1>3, <2>6, <3>3
    <2>. QED
      BY <2>3, <2>5, <2>8
  <1>6. S \subseteq Nat
    OBVIOUS
  <1>7. S = Nat
    <2>. HIDE DEF S
    <2>. QED
      BY <1>4, <1>5, <1>6, InductiveSet
  <1>8. pre(Len(hs)) = hs
    OBVIOUS
  <1>. QED
    <2>1. P(Len(hs))
      <3>. HIDE DEF P
      <3>. QED
        BY <1>7
    <2>2. \E v : Grown(q[Len(hs)], v, TypesOf(p), n - 2, pre(Len(hs)))
      BY <2>1
    <2>. QED
      BY <1>2, <1>8, <2>2

\* AddHandler puts its handlers behind a position, in their order.
LEMMA InsertAllGrows ==
    ASSUME NEW p, NEW n \in Nat, NEW w, IsList(p, n, w), Kinds(p, n),
           NEW k \in 0..n - 2, NEW hs \in Seq(Types \cup {"executor"})
    PROVE  \E v : Grown(InsertAll(p, w[k], hs), v, TypesOf(p), k, hs)
  <1>. DEFINE q == CHOOSE g : InsertAllLoop(g, p, w[k], hs)
              pre(i) == [j \in 1..i |-> hs[j]]
              P(i) == \E v : /\ Grown(q[i], v, TypesOf(p), k, pre(i))
                             /\ v[k + i] = IF i = 0 THEN w[k] ELSE q[i].size - 1
              S == {i \in Nat : i <= Len(hs) => P(i)}
  <1>0. InsertAllLoop(q, p, w[k], hs)
    <2>1. Len(hs) \in Nat
      OBVIOUS
    <2>2. \E g : InsertAllLoop(g, p, w[k], hs)
      BY <2>1, InsertAllRuns
    <2>. QED
      BY <2>2
  <1>1. q = [i \in 0..Len(hs) |-> IF i = 0 THEN p ELSE Link(q[i - 1], IF i = 1 THEN w[k] ELSE q[i - 1].size - 1, hs[i])]
    BY <1>0 DEF InsertAllLoop
  <1>2. InsertAll(p, w[k], hs) = q[Len(hs)]
    BY DEF InsertAll, InsertAllLoop
  <1>3. n - 2 \in Nat /\ Len(TypesOf(p)) = n - 2 /\ Grown(p, w, TypesOf(p), k, <<>>)
    <2>1. n - 2 \in Nat
      BY DEF IsList
    <2>. QED
      BY <2>1, GrownNothing
  <1>. HIDE DEF q
  <1>4. 0 \in S
    <2>1. q[0] = p /\ pre(0) = <<>> /\ k + 0 = k
      BY <1>1
    <2>2. P(0)
      BY <1>3, <2>1
    <2>. HIDE DEF P
    <2>. QED
      BY <2>2
  <1>5. ASSUME NEW i \in S PROVE i + 1 \in S
    <2>. SUFFICES ASSUME i + 1 <= Len(hs)
                  PROVE  P(i + 1)
      <3>. HIDE DEF P
      <3>. QED
        OBVIOUS
    <2>1. i \in Nat /\ i <= Len(hs) /\ i + 1 \in 1..Len(hs) /\ (i + 1) - 1 = i
      OBVIOUS
    <2>p. P(i)
      <3>. HIDE DEF P
      <3>. QED
        BY <2>1
    <2>2. PICK v : /\ Grown(q[i], v, TypesOf(p), k, pre(i))
                   /\ v[k + i] = IF i = 0 THEN w[k] ELSE q[i].size - 1
      BY <2>p
    <2>3. q[i + 1] = Link(q[i], v[k + i], hs[i + 1])
      BY <1>1, <2>1, <2>2
    <2>4. hs[i + 1] \in Types \cup {"executor"}
      BY <2>1
    <2>6. Len(pre(i)) = i /\ Len(pre(i + 1)) = i + 1
      BY <2>1
    <2>7. pre(i + 1)[i + 1] = hs[i + 1] /\ \A j \in 1..i : pre(i + 1)[j] = pre(i)[j]
      BY <2>1
    <2>. HIDE DEF pre
    <2>8. Grown(Link(q[i], v[k + i], hs[i + 1]), Inserted(v, k + i, (n - 2) + i + 2), TypesOf(p), k, pre(i + 1))
      <3>1. k \in 0..Len(TypesOf(p)) /\ Len(TypesOf(p)) \in Nat /\ Len(pre(i)) \in Nat
        BY <1>3, <2>1, <2>6
      <3>2. /\ Len(pre(i + 1)) = Len(pre(i)) + 1
            /\ pre(i + 1)[Len(pre(i)) + 1] = hs[i + 1]
            /\ \A j \in 1..Len(pre(i)) : pre(i + 1)[j] = pre(i)[j]
        BY <2>6, <2>7
      <3>3. Grown(Link(q[i], v[k + Len(pre(i))], hs[i + 1]),
                  Inserted(v, k + Len(pre(i)), Len(TypesOf(p)) + Len(pre(i)) + 2), TypesOf(p), k, pre(i + 1))
        BY <2>2, <2>4, <3>1, <3>2, GrowBehind
      <3>. QED
        BY <1>3, <2>6, <3>3
    <2>9. Inserted(v, k + i, (n - 2) + i + 2)[k + (i + 1)] = q[i + 1].size - 1
      <3>1. PICK m \in Nat : m = (n - 2) + i + 2
        BY <1>3, <2>1
      <3>2. q[i + 1].size = m + 1
        <4>1. Len(TypesOf(p)) + Len(pre(i + 1)) + 2 = m + 1
          <5>1. PICK d \in Nat : d = Len(TypesOf(p)) /\ d = n - 2
            BY <1>3
          <5>2. m = d + i + 2 /\ Len(pre(i + 1)) = i + 1
            BY <2>6, <3>1, <5>1
          <5>3. PICK a \in Nat : a = i
            BY <2>1
          <5>4. d + (a + 1) + 2 = (d + a + 2) + 1
            OBVIOUS
          <5>. QED
            BY <5>1, <5>2, <5>3, <5>4
        <4>. QED
          BY <2>3, <2>8, <4>1 DEF Grown, IsList
      <3>3. k + (i + 1) \in 0..m /\ ~(k + (i + 1) <= k + i) /\ k + (i + 1) = k + i + 1
        BY <1>3, <2>1, <3>1
      <3>4. Inserted(v, k + i, m)[k + (i + 1)] = m
        BY <3>3 DEF Inserted
      <3>. QED
        BY <3>1, <3>2, <3>4
    <2>. QED
      <3>. HIDE DEF Grown
      <3>1. i + 1 # 0
        BY <2>1
      <3>. QED
        BY <2>3, <2>8, <2>9, <3>1
  <1>6. S \subseteq Nat
    OBVIOUS
  <1>7. S = Nat
    <2>. HIDE DEF S
    <2>. QED
      BY <1>4, <1>5, <1>6, InductiveSet
  <1>8. pre(Len(hs)) = hs
    OBVIOUS
  <1>. QED
    <2>1. P(Len(hs))
      <3>. HIDE DEF P
      <3>. QED
        BY <1>7
    <2>2. \E v : Grown(q[Len(hs)], v, TypesOf(p), k, pre(Len(hs)))
      BY <2>1
    <2>. QED
      BY <1>2, <1>8, <2>2

-----------------------------------------------------------------------------
(***************************************************************************)
(* Serving.  An event meets the contexts along its way u: the walk, or the *)
(* walk from its end for an event that runs backward.                      *)
(***************************************************************************)

\* The links that an event follows.
LinksOf(p, kind) == IF kind \in Forward THEN p.next ELSE p.prev

\* The way of an event of this kind through the n contexts of the list.
IsWay(p, n, u, kind) ==
    /\ p.size = n /\ n \in Nat /\ n >= 2
    /\ u \in [0..n - 1 -> 0..n - 1]
    /\ u[0] = Outset(kind)
    /\ u[n - 1] = IF kind \in Forward THEN TailCtx ELSE HeadCtx
    /\ \A i, j \in 0..n - 1 : u[i] = u[j] => i = j
    /\ \A c \in 0..n - 1 : \E i \in 0..n - 1 : u[i] = c
    /\ \A i \in 0..n - 2 : LinksOf(p, kind)[u[i]] = u[i + 1]
    /\ LinksOf(p, kind)[u[n - 1]] = NilCtx
    /\ \A i, j \in 0..n - 1 : Before(p, kind, u[i], u[j]) <=> i < j

\* Every event has a way through a list.
LEMMA WayExists ==
    ASSUME NEW p, NEW n \in Nat, NEW w, IsList(p, n, w), NEW kind
    PROVE  \E u : IsWay(p, n, u, kind)
  <1>0. /\ p.size = n /\ n >= 2
        /\ w \in [0..n - 1 -> 0..n - 1]
        /\ w[0] = HeadCtx /\ w[n - 1] = TailCtx
        /\ \A a, b \in 0..n - 1 : w[a] = w[b] => a = b
        /\ \A a \in 0..n - 2 : p.next[w[a]] = w[a + 1] /\ p.prev[w[a + 1]] = w[a]
        /\ \A c \in 0..n - 1 : \E i \in 0..n - 1 : w[i] = c
        /\ p.next[TailCtx] = NilCtx /\ p.prev[HeadCtx] = NilCtx
    BY DEF IsList
  <1>1. \A k \in 0..n - 1 : Position(p, w[k]) = k
    BY WalkPositions
  <1>2. CASE kind \in Forward
    <2>1. LinksOf(p, kind) = p.next /\ Outset(kind) = HeadCtx
      BY <1>2 DEF LinksOf, Outset
    <2>2. \A i, j \in 0..n - 1 : Before(p, kind, w[i], w[j]) <=> i < j
      BY <1>1, <1>2 DEF Before
    <2>3. IsWay(p, n, w, kind)
      BY <1>0, <1>2, <2>1, <2>2 DEF IsWay
    <2>. QED
      BY <2>3
  <1>3. CASE kind \notin Forward
    <2>. DEFINE u == [i \in 0..n - 1 |-> w[n - 1 - i]]
    <2>1. LinksOf(p, kind) = p.prev /\ Outset(kind) = TailCtx
      BY <1>3 DEF LinksOf, Outset
    <2>2. \A i \in 0..n - 1 : n - 1 - i \in 0..n - 1 /\ u[i] = w[n - 1 - i]
      OBVIOUS
    <2>3. ASSUME NEW i \in 0..n - 1, NEW j \in 0..n - 1
          PROVE  Before(p, kind, u[i], u[j]) <=> i < j
      <3>1. Position(p, w[n - 1 - i]) = n - 1 - i /\ Position(p, w[n - 1 - j]) = n - 1 - j
        BY <1>1, <2>2
      <3>2. Before(p, kind, u[i], u[j]) <=> n - 1 - j < n - 1 - i
        BY <1>3, <2>2, <3>1 DEF Before
      <3>. QED
        BY <3>2
    <2>4. u \in [0..n - 1 -> 0..n - 1]
      BY <1>0, <2>2
    <2>5. u[0] = TailCtx /\ u[n - 1] = HeadCtx
      <3>1. 0 \in 0..n - 1 /\ n - 1 \in 0..n - 1 /\ n - 1 - 0 = n - 1 /\ n - 1 - (n - 1) = 0
        BY <1>0
      <3>. QED
        BY <1>0, <2>2, <3>1
    <2>6. ASSUME NEW i \in 0..n - 1, NEW j \in 0..n - 1, u[i] = u[j] PROVE i = j
      <3>1. n - 1 - i = n - 1 - j
        BY <1>0, <2>2, <2>6
      <3>. QED
        BY <3>1
    <2>7. ASSUME NEW c \in 0..n - 1 PROVE \E i \in 0..n - 1 : u[i] = c
      <3>1. PICK i \in 0..n - 1 : w[i] = c
        BY <1>0
      <3>2. n - 1 - i \in 0..n - 1 /\ n - 1 - (n - 1 - i) = i
        OBVIOUS
      <3>3. u[n - 1 - i] = w[i]
        BY <2>2, <3>2
      <3>. QED
        BY <3>1, <3>2, <3>3
    <2>8. ASSUME NEW i \in 0..n - 2 PROVE p.prev[u[i]] = u[i + 1]
      <3>1. i \in 0..n - 1 /\ i + 1 \in 0..n - 1 /\ n - 1 - (i + 1) \in 0..n - 2 /\ (n - 1 - (i + 1)) + 1 = n - 1 - i
        BY <1>0
      <3>2. p.prev[w[(n - 1 - (i + 1)) + 1]] = w[n - 1 - (i + 1)]
        BY <1>0, <3>1
      <3>. QED
        BY <2>2, <3>1, <3>2
    <2>. HIDE DEF u
    <2>9. IsWay(p, n, u, kind)
      BY <1>0, <1>3, <2>1, <2>3, <2>4, <2>5, <2>6, <2>7, <2>8 DEF IsWay
    <2>. QED
      BY <2>9
  <1>. QED
    BY <1>2, <1>3

\* The event e stands at position k of its way u.
StandsAt(p, n, u, e, k) == IsWay(p, n, u, e.kind) /\ k \in 0..n - 1 /\ e.at = u[k]

\* From position k of its way, an event is led along the way and then off it.
LEMMA OnwardAlongWay ==
    ASSUME NEW p, NEW n \in Nat, NEW u, NEW e, NEW k, StandsAt(p, n, u, e, k), NEW i \in 0..n - k
    PROVE  Onward(p, e, i) = IF i = n - k THEN NilCtx ELSE u[k + i]
  <1>. DEFINE link == LinksOf(p, e.kind)
              v == [j \in 0..n - k |-> IF j = n - k THEN NilCtx ELSE u[k + j]]
  <1>s. IsWay(p, n, u, e.kind) /\ k \in 0..n - 1 /\ e.at = u[k]
    BY DEF StandsAt
  <1>0. /\ n >= 2
        /\ \A a \in 0..n - 2 : link[u[a]] = u[a + 1]
        /\ link[u[n - 1]] = NilCtx
    BY <1>s DEF IsWay
  <1>1. PICK m \in Nat : m = n - k
    BY <1>s
  <1>2. Onward(p, e, i) = Along(link, u[k], i)
    BY <1>s DEF Onward, LinksOf
  <1>3. \A j \in 0..m : v[j] = IF j = m THEN NilCtx ELSE u[k + j]
    BY <1>1
  <1>. HIDE DEF v, link
  <1>4. ASSUME NEW j \in 0..m - 1 PROVE link[v[j]] = v[j + 1]
    <2>1. v[j] = u[k + j]
      BY <1>3
    <2>2. CASE j = m - 1
      <3>1. k + j = n - 1 /\ j + 1 = m /\ j + 1 \in 0..m
        BY <1>s, <1>1, <2>2
      <3>. QED
        BY <1>0, <1>3, <2>1, <3>1
    <2>3. CASE j # m - 1
      <3>1. k + j \in 0..n - 2 /\ (k + j) + 1 = k + (j + 1) /\ j + 1 \in 0..m /\ j + 1 # m
        BY <1>s, <1>1, <2>3
      <3>2. link[u[k + j]] = u[(k + j) + 1]
        BY <1>0, <3>1
      <3>. QED
        BY <1>3, <2>1, <3>1, <3>2
    <2>. QED
      BY <2>2, <2>3
  <1>5. v[0] = u[k] /\ i \in 0..m
    <2>1. 0 \in 0..m /\ 0 # m /\ k + 0 = k /\ i \in 0..m
      BY <1>s, <1>1
    <2>. QED
      BY <1>3, <2>1
  <1>6. Along(link, v[0], i) = v[i]
    BY <1>4, <1>5, AlongWalk
  <1>. QED
    BY <1>1, <1>2, <1>3, <1>5, <1>6

\* The search of a handlerContext method finds the first context on the rest of
\* the way that takes the event, and nothing only if none does.
LEMMA SearchFinds ==
    ASSUME NEW p, NEW n \in Nat, NEW u, NEW e, IsWay(p, n, u, e.kind),
           NEW k \in 0..n - 2, e.at = u[k]
    PROVE  \/ \E j \in k + 1..n - 1 : /\ Search(p, e) = u[j] /\ Takes(p, u[j], e.kind)
                                      /\ \A i \in k + 1..j - 1 : ~Takes(p, u[i], e.kind)
           \/ /\ Search(p, e) = NilCtx
              /\ \A i \in k + 1..n - 1 : ~Takes(p, u[i], e.kind)
  <1>0. p.size = n /\ n >= 2 /\ u \in [0..n - 1 -> 0..n - 1]
    BY DEF IsWay
  <1>1. PICK m \in Nat : m = n - k /\ m \in 1..n
    BY <1>0
  <1>2. \A i \in 1..m : Onward(p, e, i) = IF i = m THEN NilCtx ELSE u[k + i]
    <2>. SUFFICES ASSUME NEW i \in 1..m PROVE Onward(p, e, i) = IF i = m THEN NilCtx ELSE u[k + i]
      OBVIOUS
    <2>1. StandsAt(p, n, u, e, k) /\ i \in 0..n - k
      BY <1>0, <1>1 DEF StandsAt
    <2>2. Onward(p, e, i) = IF i = n - k THEN NilCtx ELSE u[k + i]
      BY <2>1, OnwardAlongWay
    <2>. QED
      BY <1>1, <2>2
  <1>3. Stops(p, e, m)
    BY <1>1, <1>2 DEF Stops
  <1>4. ASSUME NEW i \in 1..m, i # m PROVE Stops(p, e, i) <=> Takes(p, u[k + i], e.kind)
    <2>1. k + i \in 0..n - 1
      BY <1>1, <1>4
    <2>2. u[k + i] # NilCtx
      BY <1>0, <2>1 DEF NilCtx
    <2>. QED
      BY <1>2, <1>4, <2>2 DEF Stops
  <1>. DEFINE first(i) == Stops(p, e, i) /\ \A j \in 1..i - 1 : ~Stops(p, e, j)
              c == CHOOSE i \in 1..n : first(i)
              H == {i \in 1..n : Stops(p, e, i)}
  <1>5. Search(p, e) = Onward(p, e, c)
    BY <1>0 DEF Search
  <1>6. \E i \in 1..n : first(i)
    <2>1. H \in SUBSET Nat /\ H # {}
      BY <1>1, <1>3
    <2>. HIDE DEF H
    <2>2. PICK x \in H : \A y \in H : x <= y
      BY <2>1, LeastNumber
    <2>. USE DEF H
    <2>3. x \in 1..n /\ Stops(p, e, x)
      OBVIOUS
    <2>4. \A j \in 1..x - 1 : ~Stops(p, e, j)
      BY <2>2, <2>3
    <2>. QED
      BY <2>3, <2>4
  <1>7. c \in 1..n /\ Stops(p, e, c) /\ \A j \in 1..c - 1 : ~Stops(p, e, j)
    <2>1. c \in 1..n /\ first(c)
      BY <1>6
    <2>. QED
      BY <2>1
  <1>. HIDE DEF c
  <1>8. c \in 1..m
    BY <1>1, <1>3, <1>7
  <1>9. CASE c = m
    <2>1. Search(p, e) = NilCtx
      BY <1>2, <1>5, <1>8, <1>9
    <2>2. ASSUME NEW i \in k + 1..n - 1 PROVE ~Takes(p, u[i], e.kind)
      <3>1. i - k \in 1..m /\ i - k # m /\ i - k \in 1..c - 1 /\ k + (i - k) = i
        BY <1>1, <1>9
      <3>. QED
        BY <1>4, <1>7, <3>1
    <2>. QED
      BY <2>1, <2>2
  <1>10. CASE c # m
    <2>1. k + c \in k + 1..n - 1 /\ (k + c) - 1 = k + c - 1
      BY <1>1, <1>8, <1>10
    <2>2. Search(p, e) = u[k + c] /\ Takes(p, u[k + c], e.kind)
      BY <1>2, <1>4, <1>5, <1>7, <1>8, <1>10
    <2>3. ASSUME NEW i \in k + 1..(k + c) - 1 PROVE ~Takes(p, u[i], e.kind)
      <3>1. i - k \in 1..m /\ i - k # m /\ i - k \in 1..c - 1 /\ k + (i - k) = i
        BY <1>1, <1>8, <1>10
      <3>. QED
        BY <1>4, <1>7, <3>1
    <2>. QED
      BY <2>1, <2>2, <2>3
  <1>. QED
    BY <1>9, <1>10

\* A type of events.
PipeEvents == [kind : {"none"} \cup Forward \cup Backward, from : Int, at : Int, seen : Seq(Nat)]

\* An event is at position k of its way, behind the context where it started
\* and everybody who had to see it.
UnderWay(p, n, u, e, k) ==
    /\ IsWay(p, n, u, e.kind) /\ k \in 0..n - 2 /\ e.at = u[k]
    /\ \E s \in 0..k : e.from = u[s]
    /\ SeenByAll(p, e)

\* The contexts behind position s and up to position k of a way that take an event.
Passed(p, u, kind, s, k) == {u[i] : i \in {j \in s + 1..k : Takes(p, u[j], kind)}}

\* Who an event has to have been seen by, in terms of its way.
LEMMA SeenAlongWay ==
    ASSUME NEW p, NEW n \in Nat, NEW u, NEW kind, IsWay(p, n, u, kind), NEW k \in 0..n - 2, NEW s \in 0..k
    PROVE  Due(p, kind, u[s], u[k]) = Passed(p, u, kind, s, k)
  <1>0. /\ p.size = n /\ n >= 2 /\ u \in [0..n - 1 -> 0..n - 1]
        /\ \A i, j \in 0..n - 1 : u[i] = u[j] => i = j
        /\ \A c \in 0..n - 1 : \E i \in 0..n - 1 : u[i] = c
        /\ \A i, j \in 0..n - 1 : Before(p, kind, u[i], u[j]) <=> i < j
        /\ u[0] = Outset(kind)
        /\ u[n - 1] = IF kind \in Forward THEN TailCtx ELSE HeadCtx
    BY DEF IsWay
  <1>1. {u[0], u[n - 1]} = {0, 1}
    BY <1>0 DEF Outset, HeadCtx, TailCtx
  <1>2. ASSUME NEW i \in 1..n - 2 PROVE u[i] \in 2..n - 1
    <2>1. i \in 0..n - 1 /\ 0 \in 0..n - 1 /\ n - 1 \in 0..n - 1 /\ i # 0 /\ i # n - 1
      BY <1>0
    <2>2. u[i] # u[0] /\ u[i] # u[n - 1] /\ u[i] \in 0..n - 1
      BY <1>0, <2>1
    <2>3. u[i] # 0 /\ u[i] # 1
      BY <1>1, <2>2
    <2>4. \A x \in 0..n - 1 : x # 0 /\ x # 1 => x \in 2..n - 1
      OBVIOUS
    <2>. QED
      BY <2>2, <2>3, <2>4
  <1>3. k \in 0..n - 1 /\ s \in 0..n - 1
    BY <1>0
  <1>4. ASSUME NEW c \in 2..n - 1, Takes(p, c, kind), Before(p, kind, u[s], c), c = u[k] \/ Before(p, kind, c, u[k])
        PROVE  \E i \in s + 1..k : c = u[i] /\ Takes(p, u[i], kind)
    <2>1. PICK i \in 0..n - 1 : u[i] = c
      BY <1>0, <1>4
    <2>2. i <= k
      <3>1. CASE c = u[k]
        BY <1>0, <1>3, <2>1, <3>1
      <3>2. CASE Before(p, kind, c, u[k])
        <4>1. Before(p, kind, u[i], u[k]) <=> i < k
          BY <1>0, <1>3
        <4>. QED
          BY <2>1, <3>2, <4>1
      <3>. QED
        BY <1>4, <3>1, <3>2
    <2>3. s < i
      <3>1. Before(p, kind, u[s], u[i]) <=> s < i
        BY <1>0, <1>3
      <3>. QED
        BY <1>4, <2>1, <3>1
    <2>. QED
      BY <1>4, <2>1, <2>2, <2>3
  <1>5. ASSUME NEW i \in s + 1..k, Takes(p, u[i], kind)
        PROVE  u[i] \in 2..n - 1 /\ Before(p, kind, u[s], u[i]) /\ (u[i] = u[k] \/ Before(p, kind, u[i], u[k]))
    <2>1. i \in 1..n - 2 /\ i \in 0..n - 1 /\ s < i
      BY <1>0
    <2>2. u[i] \in 2..n - 1
      BY <1>2, <2>1
    <2>3. Before(p, kind, u[s], u[i])
      BY <1>0, <1>3, <2>1
    <2>4. CASE i = k
      BY <2>2, <2>3, <2>4
    <2>5. CASE i < k
      BY <1>0, <1>3, <2>1, <2>2, <2>3, <2>5
    <2>. QED
      BY <2>4, <2>5
  <1>7. ASSUME NEW c \in Due(p, kind, u[s], u[k])
        PROVE  c \in Passed(p, u, kind, s, k)
    <2>1. /\ c \in 2..n - 1 /\ Takes(p, c, kind) /\ Before(p, kind, u[s], c)
          /\ c = u[k] \/ Before(p, kind, c, u[k])
      BY <1>0 DEF Due
    <2>2. PICK i \in s + 1..k : c = u[i] /\ Takes(p, u[i], kind)
      BY <1>4, <2>1
    <2>. QED
      BY <2>2 DEF Passed
  <1>8. ASSUME NEW c \in Passed(p, u, kind, s, k)
        PROVE  c \in Due(p, kind, u[s], u[k])
    <2>1. PICK i \in s + 1..k : c = u[i] /\ Takes(p, u[i], kind)
      BY DEF Passed
    <2>2. u[i] \in 2..n - 1 /\ Before(p, kind, u[s], u[i]) /\ (u[i] = u[k] \/ Before(p, kind, u[i], u[k]))
      BY <1>5, <2>1
    <2>. QED
      BY <1>0, <2>1, <2>2 DEF Due
  <1>. QED
    BY <1>7, <1>8

\* A walk that begins on the way of its kind, in front of its end, is under
\* way, and nobody had to see it yet.
LEMMA WalkUnderWay ==
    ASSUME NEW p, NEW n \in Nat, NEW u, NEW kind \in Forward \cup Backward, IsWay(p, n, u, kind),
           NEW s \in 0..n - 2
    PROVE  WalkFrom(u[s], kind) \in PipeEvents /\ UnderWay(p, n, u, WalkFrom(u[s], kind), s)
  <1>1. PICK e : e = WalkFrom(u[s], kind)
    OBVIOUS
  <1>2. e.kind = kind /\ e.from = u[s] /\ e.at = u[s] /\ e.seen = <<>>
    BY <1>1 DEF WalkFrom
  <1>3. n >= 2 /\ u[s] \in 0..n - 1 /\ s \in 0..s
    <2>1. n >= 2 /\ u \in [0..n - 1 -> 0..n - 1]
      BY DEF IsWay
    <2>. QED
      BY <2>1
  <1>4. ToSet(e.seen) = {}
    BY <1>2 DEF ToSet
  <1>5. Passed(p, u, kind, s, s) = {}
    <2>1. s + 1..s = {}
      BY <1>3
    <2>. QED
      BY <2>1 DEF Passed
  <1>6. Due(p, kind, u[s], u[s]) = {}
    BY <1>3, <1>5, SeenAlongWay
  <1>7. SeenByAll(p, e)
    BY <1>2, <1>4, <1>6 DEF SeenByAll
  <1>8. e \in PipeEvents
    <2>1. u[s] \in Int /\ <<>> \in Seq(Nat) /\ kind \in {"none"} \cup Forward \cup Backward
      BY <1>3
    <2>. QED
      BY <1>1, <2>1 DEF PipeEvents, WalkFrom
  <1>. QED
    BY <1>1, <1>2, <1>3, <1>7, <1>8 DEF UnderWay

\* A handler that the search finds takes its place behind those before it.
LEMMA SeenNext ==
    ASSUME NEW p, NEW n \in Nat, NEW u, NEW e \in PipeEvents, NEW k, UnderWay(p, n, u, e, k),
           NEW j \in k + 1..n - 2, Takes(p, u[j], e.kind),
           \A i \in k + 1..j - 1 : ~Takes(p, u[i], e.kind),
           NEW f, f = [e EXCEPT !.at = u[j], !.seen = Append(@, u[j])]
    PROVE  f \in PipeEvents /\ UnderWay(p, n, u, f, j)
  <1>0. /\ IsWay(p, n, u, e.kind) /\ k \in 0..n - 2 /\ e.at = u[k] /\ SeenByAll(p, e)
        /\ e.seen \in Seq(Nat)
    BY DEF UnderWay, PipeEvents
  <1>s. PICK s \in 0..k : e.from = u[s]
    BY DEF UnderWay
  <1>l. Len(e.seen) \in Nat
    <2>1. e.seen \in Seq(Nat)
      BY DEF PipeEvents
    <2>. QED
      BY <2>1
  <1>1. n >= 2 /\ u \in [0..n - 1 -> 0..n - 1] /\ \A a, b \in 0..n - 1 : Before(p, e.kind, u[a], u[b]) <=> a < b
    BY <1>0 DEF IsWay
  <1>2. j \in 1..n - 2 /\ j \in 0..n - 2 /\ j \in 0..n - 1 /\ u[j] \in Nat /\ s \in 0..j /\ s \in 0..k
    BY <1>0, <1>1
  <1>3. f.kind = e.kind /\ f.from = e.from /\ f.at = u[j] /\ f.seen = Append(e.seen, u[j]) /\ f \in PipeEvents
    <2>1. f.kind = e.kind /\ f.from = e.from /\ f.at = u[j] /\ f.seen = Append(e.seen, u[j])
      BY DEF PipeEvents
    <2>2. Append(e.seen, u[j]) \in Seq(Nat) /\ u[j] \in Int
      BY <1>0, <1>2
    <2>. QED
      BY <2>1, <2>2 DEF PipeEvents
  <1>4. ToSet(e.seen) = Passed(p, u, e.kind, s, k)
    <2>1. ToSet(e.seen) = Due(p, e.kind, u[s], u[k])
      BY <1>0, <1>s DEF SeenByAll
    <2>. QED
      BY <1>0, <1>s, <2>1, SeenAlongWay
  <1>5. ToSet(f.seen) = ToSet(e.seen) \cup {u[j]}
    <2>1. PICK l \in Nat : l = Len(e.seen)
      BY <1>l
    <2>2. \A i \in 1..l + 1 : f.seen[i] = IF i = l + 1 THEN u[j] ELSE e.seen[i]
      BY <1>0, <1>2, <1>3, <2>1
    <2>3. DOMAIN f.seen = 1..l + 1 /\ DOMAIN e.seen = 1..l
      BY <1>0, <1>2, <1>3, <2>1
    <2>4. \A i \in 1..l : i \in 1..l + 1 /\ i # l + 1
      OBVIOUS
    <2>5. \A i \in 1..l + 1 : i = l + 1 \/ i \in 1..l
      OBVIOUS
    <2>6. \A c : c \in ToSet(f.seen) <=> \E i \in 1..l + 1 : f.seen[i] = c
      BY <2>3 DEF ToSet
    <2>7. \A c : c \in ToSet(e.seen) <=> \E i \in 1..l : e.seen[i] = c
      BY <2>3 DEF ToSet
    <2>8. l + 1 \in 1..l + 1
      OBVIOUS
    <2>9. ASSUME NEW c \in ToSet(f.seen) PROVE c \in ToSet(e.seen) \cup {u[j]}
      <3>1. PICK i \in 1..l + 1 : f.seen[i] = c
        BY <2>6
      <3>2. CASE i = l + 1
        BY <2>2, <3>1, <3>2
      <3>3. CASE i # l + 1
        <4>1. i \in 1..l /\ e.seen[i] = c
          BY <2>2, <2>5, <3>1, <3>3
        <4>. QED
          BY <2>7, <4>1
      <3>. QED
        BY <3>2, <3>3
    <2>10. ASSUME NEW c \in ToSet(e.seen) \cup {u[j]} PROVE c \in ToSet(f.seen)
      <3>1. CASE c = u[j]
        <4>1. f.seen[l + 1] = c
          BY <2>2, <2>8, <3>1
        <4>. QED
          BY <2>6, <2>8, <4>1
      <3>2. CASE c \in ToSet(e.seen)
        <4>1. PICK i \in 1..l : e.seen[i] = c
          BY <2>7, <3>2
        <4>2. i \in 1..l + 1 /\ f.seen[i] = c
          BY <2>2, <2>4, <4>1
        <4>. QED
          BY <2>6, <4>2
      <3>. QED
        BY <3>1, <3>2
    <2>. QED
      BY <2>9, <2>10
  <1>6. Passed(p, u, e.kind, s, j) = Passed(p, u, e.kind, s, k) \cup {u[j]}
    <2>1. {x \in s + 1..j : Takes(p, u[x], e.kind)} = {x \in s + 1..k : Takes(p, u[x], e.kind)} \cup {j}
      <3>1. \A x \in s + 1..j : x \in s + 1..k \/ x = j \/ x \in k + 1..j - 1
        BY <1>0, <1>2
      <3>2. (\A x \in s + 1..k : x \in s + 1..j) /\ j \in s + 1..j
        BY <1>0, <1>2
      <3>. QED
        BY <3>1, <3>2
    <2>. QED
      BY <2>1 DEF Passed
  <1>7. ToSet(f.seen) = Due(p, e.kind, u[s], u[j])
    <2>1. Due(p, e.kind, u[s], u[j]) = Passed(p, u, e.kind, s, j)
      BY <1>0, <1>2, SeenAlongWay
    <2>. QED
      BY <1>4, <1>5, <1>6, <2>1
  <1>8. ASSUME NEW a \in 1..Len(f.seen), NEW b \in 1..Len(f.seen), a < b
        PROVE  Before(p, e.kind, f.seen[a], f.seen[b])
    <2>1. PICK l \in Nat : l = Len(e.seen)
      BY <1>l
    <2>2. Len(f.seen) = l + 1 /\ f.seen[a] = e.seen[a] /\ a \in 1..l
      BY <1>0, <1>2, <1>3, <1>8, <2>1
    <2>3. CASE b = l + 1
      <3>1. f.seen[b] = u[j]
        BY <1>0, <1>2, <1>3, <2>1, <2>3
      <3>2. e.seen[a] \in ToSet(e.seen)
        BY <2>1, <2>2 DEF ToSet
      <3>3. PICK i \in s + 1..k : e.seen[a] = u[i]
        BY <1>4, <3>2 DEF Passed
      <3>4. i < j /\ i \in 0..n - 1
        BY <1>0, <1>2
      <3>. QED
        BY <1>1, <1>2, <2>2, <3>1, <3>3, <3>4
    <2>4. CASE b # l + 1
      <3>0. b \in 1..l
        BY <2>1, <2>2, <2>4
      <3>1. b \in 1..l /\ f.seen[b] = e.seen[b]
        <4>1. e.seen \in Seq(Nat) /\ b \in 1..Len(e.seen)
          BY <1>0, <2>1, <3>0
        <4>2. Append(e.seen, u[j])[b] = e.seen[b]
          BY <1>2, <4>1
        <4>. QED
          BY <1>3, <3>0, <4>2
      <3>. QED
        BY <1>0, <1>8, <2>1, <2>2, <3>1 DEF SeenByAll
    <2>. QED
      BY <2>3, <2>4
  <1>9. SeenByAll(p, f)
    BY <1>3, <1>s, <1>7, <1>8 DEF SeenByAll
  <1>. QED
    BY <1>0, <1>s, <1>2, <1>3, <1>9 DEF UnderWay

-----------------------------------------------------------------------------
(***************************************************************************)
(* The list that the links stand for.                                      *)
(***************************************************************************)

\* The handlers of a list, in its order.
LEMMA TypesAlongWalk ==
    ASSUME NEW p, NEW n \in Nat, NEW w, IsList(p, n, w), Kinds(p, n)
    PROVE  /\ TypesOf(p) = [j \in 1..n - 2 |-> p.type[w[j]]]
           /\ TypesOf(p) \in Seq(Types \cup {"executor"})
           /\ Len(TypesOf(p)) = n - 2 /\ n - 2 \in Nat
  <1>0. /\ p.size = n /\ n >= 2 /\ w \in [0..n - 1 -> 0..n - 1]
        /\ \A a, b \in 0..n - 1 : w[a] = w[b] => a = b
        /\ w[0] = HeadCtx /\ w[n - 1] = TailCtx
    BY DEF IsList
  <1>1. \A j \in 1..n - 2 : ContextAt(p, j) = w[j]
    BY WalkPositions
  <1>2. TypesOf(p) = [j \in 1..n - 2 |-> p.type[w[j]]]
    BY <1>0, <1>1 DEF TypesOf
  <1>3. ASSUME NEW j \in 1..n - 2 PROVE p.type[w[j]] \in Types \cup {"executor"}
    <2>1. j \in 0..n - 1 /\ 0 \in 0..n - 1 /\ n - 1 \in 0..n - 1 /\ j # 0 /\ j # n - 1
      BY <1>0
    <2>2. w[j] # w[0] /\ w[j] # w[n - 1] /\ w[j] \in 0..n - 1
      BY <1>0, <2>1
    <2>3. w[j] # 0 /\ w[j] # 1
      BY <1>0, <2>2 DEF HeadCtx, TailCtx
    <2>4. \A x \in 0..n - 1 : x # 0 /\ x # 1 => x \in 2..n - 1
      OBVIOUS
    <2>5. w[j] \in 2..n - 1
      BY <2>2, <2>3, <2>4
    <2>. QED
      BY <2>5 DEF Kinds
  <1>4. n - 2 \in Nat
    BY <1>0
  <1>. QED
    BY <1>2, <1>3, <1>4

\* A sequence is the function of its elements.
LEMMA SeqIsFunction ==
    ASSUME NEW X, NEW s \in Seq(X), NEW n, Len(s) = n
    PROVE  s = [j \in 1..n |-> s[j]]
  OBVIOUS

\* Splicing is the insertion of the abstract pipeline.
LEMMA SpliceIsInsert ==
    ASSUME NEW X, NEW T \in Seq(X), NEW g \in Seq(X), NEW k \in 0..Len(T)
    PROVE  Splice(T, k, g) = SubSeq(T, 1, k) \o g \o SubSeq(T, k + 1, Len(T))
  <1>1. PICK m \in Nat, l \in Nat : m = Len(T) /\ l = Len(g)
    OBVIOUS
  <1>. DEFINE a == SubSeq(T, 1, k)
              b == SubSeq(T, k + 1, Len(T))
              c == a \o g
  <1>2. a \in Seq(X) /\ Len(a) = k /\ \A j \in 1..k : a[j] = T[j]
    BY <1>1
  <1>3. b \in Seq(X) /\ Len(b) = m - k /\ \A j \in 1..m - k : b[j] = T[k + j]
    BY <1>1
  <1>. HIDE DEF a, b
  <1>4. c \in Seq(X) /\ Len(c) = k + l /\ \A j \in 1..k + l : c[j] = IF j <= k THEN a[j] ELSE g[j - k]
    BY <1>1, <1>2
  <1>. HIDE DEF c
  <1>5. c \o b \in Seq(X) /\ Len(c \o b) = m + l
    <2>0. c \in Seq(X) /\ b \in Seq(X)
      BY <1>3, <1>4
    <2>1. c \o b \in Seq(X) /\ Len(c \o b) = Len(c) + Len(b)
      BY <2>0, ConcatProperties
    <2>2. (k + l) + (m - k) = m + l
      BY <1>1
    <2>. QED
      BY <1>3, <1>4, <2>1, <2>2
  <1>6. ASSUME NEW j \in 1..m + l
        PROVE  (c \o b)[j] = IF j <= k THEN T[j] ELSE IF j <= k + l THEN g[j - k] ELSE T[j - l]
    <2>1. (c \o b)[j] = IF j <= k + l THEN c[j] ELSE b[j - (k + l)]
      BY <1>1, <1>3, <1>4
    <2>2. CASE j <= k
      BY <1>1, <1>2, <1>4, <2>1, <2>2
    <2>3. CASE ~(j <= k) /\ j <= k + l
      BY <1>1, <1>4, <2>1, <2>3
    <2>4. CASE ~(j <= k + l)
      <3>1. j - (k + l) \in 1..m - k /\ k + (j - (k + l)) = j - l /\ ~(j <= k)
        BY <1>1, <2>4
      <3>. QED
        BY <1>3, <2>1, <2>4, <3>1
    <2>. QED
      BY <2>2, <2>3, <2>4
  <1>7. c \o b = [j \in 1..m + l |-> IF j <= k THEN T[j] ELSE IF j <= k + l THEN g[j - k] ELSE T[j - l]]
    <2>1. c \o b = [j \in 1..m + l |-> (c \o b)[j]]
      BY <1>5, SeqIsFunction
    <2>. QED
      BY <1>6, <2>1
  <1>8. Splice(T, k, g) = c \o b
    BY <1>1, <1>7 DEF Splice
  <1>. QED
    BY <1>8 DEF a, b, c

\* What a pipeline that has grown stands for.
LEMMA GrownTypes ==
    ASSUME NEW X, NEW T \in Seq(X), NEW g \in Seq(X), NEW k \in 0..Len(T), NEW q, NEW v, Grown(q, v, T, k, g)
    PROVE  TypesOf(q) = SubSeq(T, 1, k) \o g \o SubSeq(T, k + 1, Len(T))
  <1>1. PICK m \in Nat, l \in Nat : m = Len(T) /\ l = Len(g)
    OBVIOUS
  <1>2. PICK n \in Nat : n = m + l + 2
    OBVIOUS
  <1>3. IsList(q, n, v) /\ Kinds(q, n)
    BY <1>1, <1>2 DEF Grown
  <1>4. TypesOf(q) = [j \in 1..n - 2 |-> q.type[v[j]]] /\ n - 2 = m + l
    BY <1>2, <1>3, TypesAlongWalk
  <1>5. \A j \in 1..m + l : q.type[v[j]] = Splice(T, k, g)[j]
    BY <1>1 DEF Grown
  <1>6. Splice(T, k, g) = [j \in 1..m + l |-> Splice(T, k, g)[j]]
    BY <1>1 DEF Splice
  <1>7. TypesOf(q) = Splice(T, k, g)
    <2>. HIDE DEF Splice
    <2>. QED
      BY <1>4, <1>5, <1>6
  <1>. QED
    BY <1>7, SpliceIsInsert

\* LastIndexOf is the position of the last context whose type is in S.
LEMMA LastIndexFound ==
    ASSUME NEW p, NEW n \in Nat, NEW w, IsList(p, n, w), Kinds(p, n),
           NEW S, "head" \notin S, "tail" \notin S
    PROVE  \/ LastIndexOf(p, S) = -1 /\ \A j \in 0..n - 1 : p.type[w[j]] \notin S
           \/ /\ LastIndexOf(p, S) \in 1..n - 2
              /\ p.type[w[LastIndexOf(p, S)]] \in S
              /\ \A j \in LastIndexOf(p, S) + 1..n - 1 : p.type[w[j]] \notin S
  <1>0. p.size = n /\ n >= 2 /\ w[0] = HeadCtx /\ w[n - 1] = TailCtx
    BY DEF IsList
  <1>. DEFINE hits == {i \in 0..n - 1 : p.type[Along(p.prev, TailCtx, i)] \in S}
              c == CHOOSE i \in hits : \A j \in hits : i <= j
  <1>1. LastIndexOf(p, S) = IF hits = {} THEN -1 ELSE n - 1 - c
    BY <1>0 DEF LastIndexOf
  <1>2. ASSUME NEW i \in 0..n - 1 PROVE Along(p.prev, TailCtx, i) = w[n - 1 - i]
    <2>1. n - 1 \in 0..n - 1 /\ i \in 0..n - 1
      BY <1>0
    <2>. QED
      BY <1>0, <2>1, WalkPrev
  <1>3. \A i \in 0..n - 1 : i \in hits <=> p.type[w[n - 1 - i]] \in S
    BY <1>2
  <1>4. CASE hits = {}
    <2>1. ASSUME NEW j \in 0..n - 1 PROVE p.type[w[j]] \notin S
      <3>1. n - 1 - j \in 0..n - 1 /\ n - 1 - (n - 1 - j) = j
        OBVIOUS
      <3>. QED
        BY <1>3, <1>4, <3>1
    <2>. QED
      BY <1>1, <1>4, <2>1
  <1>5. CASE hits # {}
    <2>1. hits \in SUBSET Nat
      OBVIOUS
    <2>2. hits \subseteq 0..n - 1
      OBVIOUS
    <2>. HIDE DEF hits
    <2>3. c \in hits /\ \A j \in hits : c <= j
      BY <1>5, <2>1, LeastNumber
    <2>. HIDE DEF c
    <2>4. PICK x \in Int : x = n - 1 - c /\ x \in 0..n - 1 /\ n - 1 - x = c /\ c \in 0..n - 1
      BY <2>2, <2>3
    <2>5. LastIndexOf(p, S) = x
      BY <1>1, <1>5, <2>4
    <2>6. p.type[w[x]] \in S
      BY <1>3, <2>3, <2>4
    <2>7. x # 0 /\ x # n - 1
      BY <1>0, <2>6 DEF Kinds
    <2>8. ASSUME NEW j \in x + 1..n - 1 PROVE p.type[w[j]] \notin S
      <3>1. n - 1 - j \in 0..n - 1 /\ n - 1 - (n - 1 - j) = j /\ ~(c <= n - 1 - j)
        BY <2>4
      <3>. QED
        BY <1>3, <2>3, <3>1
    <2>. QED
      BY <2>4, <2>5, <2>6, <2>7, <2>8
  <1>. QED
    BY <1>4, <1>5

-----------------------------------------------------------------------------
(***************************************************************************)
(* The invariant: the links form a list, and an event that is under way is *)
(* behind everybody on its way who had to see it.                          *)
(***************************************************************************)

\* The contexts of p are linked to a list.
Listed(p) == p.size \in Nat /\ (\E w : IsList(p, p.size, w)) /\ Kinds(p, p.size)

PipeTypeOK == /\ pipeStage \in {"filling", "served", "panic", "closed"}
              /\ event \in PipeEvents
              /\ unhandled \in BOOLEAN

EventOnWay == \E u, k : UnderWay(pipe, pipe.size, u, event, k)

PipeInv == /\ Listed(pipe)
           /\ PipeTypeOK
           /\ event.kind # "none" => pipeStage = "served" /\ EventOnWay
           /\ pipeStage = "filling" => unhandled = FALSE
           /\ unhandled = TRUE => event.kind \in {"exception", "inactive"} \/ pipeStage = "closed"

\* What has grown out of a list is a list.
LEMMA GrownListed ==
    ASSUME NEW T, Len(T) \in Nat, NEW g, Len(g) \in Nat, NEW k, NEW q, NEW v, Grown(q, v, T, k, g)
    PROVE  Listed(q)
  <1>1. PICK n \in Nat : n = Len(T) + Len(g) + 2
    OBVIOUS
  <1>2. IsList(q, n, v) /\ Kinds(q, n)
    BY <1>1 DEF Grown
  <1>3. q.size = n
    BY <1>2 DEF IsList
  <1>. QED
    BY <1>2, <1>3 DEF Listed

\* The handlers of a call are of types that an initializer may add.
LEMMA GroupSeq ==
    ASSUME NEW hs \in Groups
    PROVE  /\ hs \in Seq(Types \cup {"executor"}) /\ Len(hs) \in 1..MaxGroup /\ Len(hs) \in Nat
           /\ hs \in [1..Len(hs) -> Types]
  <1>1. PICK n \in 1..MaxGroup : hs \in [1..n -> Types]
    BY DEF Groups
  <1>2. n \in Nat /\ Len(hs) = n
    BY <1>1, PipeAssumption
  <1>. QED
    BY <1>1, <1>2

\* AddFirst and AddLast accept the handlers up to a refused one.
LEMMA AcceptedPrefix ==
    ASSUME NEW hs \in Groups
    PROVE  /\ Accepted(hs) \in Seq(Types \cup {"executor"})
           /\ \E n \in 0..Len(hs) : Accepted(hs) = SubSeq(hs, 1, n) /\ Abstract!TakesUpTo(hs, n)
  <1>0. /\ hs \in Seq(Types \cup {"executor"}) /\ Len(hs) \in 1..MaxGroup /\ Len(hs) \in Nat
        /\ hs \in [1..Len(hs) -> Types]
    BY GroupSeq
  <1>1. PICK l \in Nat : l = Len(hs)
    BY <1>0
  <1>. DEFINE ok(n) == (\A i \in 1..n : checkHandler(hs[i])) /\ (n < Len(hs) => ~checkHandler(hs[n + 1]))
              c == CHOOSE n \in 0..Len(hs) : ok(n)
              H == {n \in Nat : n \in 1..l /\ ~checkHandler(hs[n])}
  <1>2. Accepted(hs) = SubSeq(hs, 1, c)
    BY DEF Accepted
  <1>3. \E n \in 0..l : ok(n)
    <2>1. CASE H = {}
      <3>1. ok(l) /\ l \in 0..l
        BY <1>1, <2>1
      <3>. QED
        BY <3>1
    <2>2. CASE H # {}
      <3>0. H \in SUBSET Nat
        OBVIOUS
      <3>. HIDE DEF H
      <3>1. PICK x \in H : \A y \in H : x <= y
        BY <2>2, <3>0, LeastNumber
      <3>. USE DEF H
      <3>2. x \in 1..l /\ ~checkHandler(hs[x]) /\ x - 1 \in 0..l /\ (x - 1) + 1 = x
        BY <3>1
      <3>3. \A i \in 1..x - 1 : checkHandler(hs[i])
        BY <3>1, <3>2
      <3>4. ok(x - 1)
        BY <3>2, <3>3
      <3>. QED
        BY <3>2, <3>4
    <2>. QED
      BY <2>1, <2>2
  <1>4. c \in 0..l /\ ok(c)
    <2>. HIDE DEF ok
    <2>. QED
      BY <1>1, <1>3
  <1>. HIDE DEF c
  <1>5. SubSeq(hs, 1, c) \in Seq(Types \cup {"executor"})
    BY <1>0, <1>1, <1>4
  <1>6. \A i \in 1..l : hs[i] \in Types
    BY <1>0, <1>1
  <1>7. \A i \in 1..l : hs[i] \in {t \in Types : checkHandler(t)} <=> checkHandler(hs[i])
    BY <1>6
  <1>8. Abstract!TakesUpTo(hs, c)
    <2>1. \A i \in 1..c : hs[i] \in {t \in Types : checkHandler(t)}
      <3>1. \A i \in 1..c : i \in 1..l
        BY <1>4
      <3>. QED
        BY <1>4, <1>7, <3>1
    <2>2. c < Len(hs) => hs[c + 1] \notin {t \in Types : checkHandler(t)}
      <3>1. c < Len(hs) => c + 1 \in 1..l
        BY <1>1, <1>4
      <3>. QED
        BY <1>4, <1>7, <3>1
    <2>. QED
      BY <2>1, <2>2 DEF Abstract!TakesUpTo
  <1>. QED
    BY <1>1, <1>2, <1>4, <1>5, <1>8

\* AddHandler accepts all handlers of a call or none.
LEMMA AllAccepted ==
    ASSUME NEW hs \in Groups
    PROVE  AllFine(hs) <=> Abstract!TakesUpTo(hs, Len(hs))
  <1>0. Len(hs) \in Nat /\ hs \in [1..Len(hs) -> Types]
    BY GroupSeq
  <1>1. \A i \in 1..Len(hs) : hs[i] \in Types
    BY <1>0
  <1>2. AllFine(hs) <=> \A i \in 1..Len(hs) : hs[i] \in {t \in Types : checkHandler(t)}
    BY <1>1 DEF AllFine
  <1>3. ~(Len(hs) < Len(hs))
    BY <1>0
  <1>. QED
    BY <1>2, <1>3 DEF Abstract!TakesUpTo

\* From p to q, the handlers g are put behind position k of the list.
PipeInserts(p, q, k, g) ==
    TypesOf(q) = SubSeq(TypesOf(p), 1, k) \o g \o SubSeq(TypesOf(p), k + 1, Len(TypesOf(p)))

\* The loop of AddFirst.
LEMMA AllFirstListed ==
    ASSUME NEW p, Listed(p), NEW hs \in Seq(Types \cup {"executor"})
    PROVE  Listed(AllFirst(p, hs)) /\ PipeInserts(p, AllFirst(p, hs), 0, Reverse(hs))
  <1>0. PICK n \in Nat : n = p.size
    BY DEF Listed
  <1>1. PICK w : n = p.size /\ IsList(p, n, w) /\ Kinds(p, n)
    BY <1>0 DEF Listed
  <1>2. PICK v : Grown(AllFirst(p, hs), v, TypesOf(p), 0, Reverse(hs))
    BY <1>1, AllFirstGrows
  <1>3. TypesOf(p) \in Seq(Types \cup {"executor"}) /\ Len(TypesOf(p)) = n - 2 /\ n - 2 \in Nat
    BY <1>1, TypesAlongWalk
  <1>4. Reverse(hs) \in Seq(Types \cup {"executor"}) /\ Len(Reverse(hs)) \in Nat
    BY DEF Reverse
  <1>5. 0 \in 0..Len(TypesOf(p)) /\ Len(TypesOf(p)) \in Nat
    BY <1>3
  <1>. QED
    BY <1>2, <1>3, <1>4, <1>5, GrownTypes, GrownListed DEF PipeInserts

\* The loop of AddLast.
LEMMA AllLastListed ==
    ASSUME NEW p, Listed(p), NEW hs \in Seq(Types \cup {"executor"})
    PROVE  Listed(AllLast(p, hs)) /\ PipeInserts(p, AllLast(p, hs), Len(TypesOf(p)), hs) /\ Len(TypesOf(p)) \in Nat
  <1>0. PICK n \in Nat : n = p.size
    BY DEF Listed
  <1>1. PICK w : n = p.size /\ IsList(p, n, w) /\ Kinds(p, n)
    BY <1>0 DEF Listed
  <1>2. PICK v : Grown(AllLast(p, hs), v, TypesOf(p), n - 2, hs)
    BY <1>1, AllLastGrows
  <1>3. TypesOf(p) \in Seq(Types \cup {"executor"}) /\ Len(TypesOf(p)) = n - 2 /\ n - 2 \in Nat
    BY <1>1, TypesAlongWalk
  <1>5. n - 2 \in 0..Len(TypesOf(p)) /\ Len(TypesOf(p)) \in Nat /\ Len(hs) \in Nat
    BY <1>3
  <1>. QED
    BY <1>2, <1>3, <1>5, GrownTypes, GrownListed DEF PipeInserts

\* The loop of AddHandler, behind position k.
LEMMA InsertAllListed ==
    ASSUME NEW p, Listed(p), NEW k \in 0..p.size - 2, NEW hs \in Seq(Types \cup {"executor"})
    PROVE  /\ Listed(InsertAll(p, ContextAt(p, k), hs))
           /\ PipeInserts(p, InsertAll(p, ContextAt(p, k), hs), k, hs)
           /\ Len(TypesOf(p)) = p.size - 2
  <1>0. PICK n \in Nat : n = p.size
    BY DEF Listed
  <1>1. PICK w : n = p.size /\ IsList(p, n, w) /\ Kinds(p, n)
    BY <1>0 DEF Listed
  <1>k. k \in 0..n - 2 /\ k \in 0..n - 1
    BY <1>1
  <1>c. ContextAt(p, k) = w[k]
    BY <1>1, <1>k, WalkPositions
  <1>2. PICK v : Grown(InsertAll(p, w[k], hs), v, TypesOf(p), k, hs)
    BY <1>1, <1>k, InsertAllGrows
  <1>3. TypesOf(p) \in Seq(Types \cup {"executor"}) /\ Len(TypesOf(p)) = n - 2 /\ n - 2 \in Nat
    BY <1>1, TypesAlongWalk
  <1>5. k \in 0..Len(TypesOf(p)) /\ Len(TypesOf(p)) \in Nat /\ Len(hs) \in Nat
    BY <1>3, <1>k
  <1>6. Listed(InsertAll(p, w[k], hs)) /\ PipeInserts(p, InsertAll(p, w[k], hs), k, hs)
    BY <1>2, <1>3, <1>5, GrownTypes, GrownListed DEF PipeInserts
  <1>. QED
    BY <1>1, <1>c, <1>3, <1>6

\* The links that NewPipelineWith sets are a list of two.
LEMMA PipeInvInit == PipeInit => PipeInv
  <1>. SUFFICES ASSUME PipeInit PROVE PipeInv
    OBVIOUS
  <1>. DEFINE w == [i \in 0..1 |-> i]
  <1>1. /\ pipe.size = 2
        /\ pipe.next = [c \in 0..1 |-> IF c = HeadCtx THEN TailCtx ELSE NilCtx]
        /\ pipe.prev = [c \in 0..1 |-> IF c = TailCtx THEN HeadCtx ELSE NilCtx]
        /\ pipe.type = [c \in 0..1 |-> IF c = HeadCtx THEN "head" ELSE "tail"]
    BY DEF PipeInit
  <1>2. IsList(pipe, 2, w)
    BY <1>1 DEF IsList, HeadCtx, TailCtx, NilCtx
  <1>3. Kinds(pipe, 2)
    BY <1>1 DEF Kinds, HeadCtx, TailCtx
  <1>. HIDE DEF w
  <1>4. Listed(pipe)
    BY <1>1, <1>2, <1>3 DEF Listed
  <1>5. event = [kind |-> "none", from |-> NilCtx, at |-> NilCtx, seen |-> <<>>] /\ unhandled = FALSE /\ pipeStage = "filling"
    BY DEF PipeInit, NoEvent, WalkFrom
  <1>6. PipeTypeOK /\ event.kind = "none"
    <2>1. event \in PipeEvents /\ event.kind = "none"
      BY <1>5 DEF PipeEvents, NilCtx
    <2>2. unhandled \in BOOLEAN
      BY <1>5, Zenon
    <2>. QED
      BY <1>5, <2>1, <2>2 DEF PipeTypeOK
  <1>. QED
    BY <1>4, <1>5, <1>6 DEF PipeInv

\* No event is under way in NoEvent.
LEMMA NoEventType == NoEvent \in PipeEvents /\ NoEvent.kind = "none"
  BY DEF NoEvent, WalkFrom, PipeEvents, NilCtx

\* A walk is under way in any list, from the end where its kind is fired or
\* from a handler.
LEMMA WalkOnWay ==
    ASSUME NEW p, Listed(p), NEW kind \in Forward \cup Backward,
           NEW c, c = Outset(kind) \/ c \in 2..p.size - 1
    PROVE  /\ WalkFrom(c, kind) \in PipeEvents /\ WalkFrom(c, kind).kind = kind /\ kind # "none"
           /\ \E u, k : UnderWay(p, p.size, u, WalkFrom(c, kind), k)
  <1>0. PICK n \in Nat : n = p.size
    BY DEF Listed
  <1>1. PICK w : IsList(p, n, w)
    BY <1>0 DEF Listed
  <1>2. PICK u : IsWay(p, n, u, kind)
    BY <1>1, WayExists
  <1>3. /\ n >= 2 /\ u[0] = Outset(kind) /\ u[n - 1] \in {0, 1}
        /\ \A x \in 0..n - 1 : \E i \in 0..n - 1 : u[i] = x
    BY <1>2 DEF IsWay, HeadCtx, TailCtx
  <1>4. PICK s \in 0..n - 2 : u[s] = c
    <2>1. CASE c = Outset(kind)
      <3>1. 0 \in 0..n - 2
        BY <1>3
      <3>. QED
        BY <1>3, <2>1, <3>1
    <2>2. CASE c \in 2..p.size - 1
      <3>1. c \in 0..n - 1 /\ c \notin {0, 1}
        BY <1>0, <2>2
      <3>2. PICK i \in 0..n - 1 : u[i] = c
        BY <1>3, <3>1
      <3>3. i # n - 1
        BY <1>3, <3>1, <3>2
      <3>4. i \in 0..n - 2
        BY <3>3
      <3>. QED
        BY <3>2, <3>4
    <2>. QED
      BY <2>1, <2>2
  <1>5. WalkFrom(c, kind) \in PipeEvents /\ UnderWay(p, n, u, WalkFrom(c, kind), s)
    BY <1>2, <1>4, WalkUnderWay
  <1>6. WalkFrom(c, kind).kind = kind /\ kind # "none"
    BY DEF WalkFrom, Forward, Backward
  <1>. QED
    BY <1>0, <1>5, <1>6

\* Where AddHandler puts its handlers, if it does.
HandlerPlaced(p, q, pos, hs) ==
    IF ~(pos < p.size /\ AllFine(hs)) THEN q = p
    ELSE PipeInserts(p, q, IF pos = -1 \/ pos = p.size - 1 THEN Len(TypesOf(p)) ELSE pos, hs)

\* A list has as many handlers as contexts besides the head and the tail.
LEMMA ListedLength ==
    ASSUME NEW p, Listed(p)
    PROVE  /\ Len(TypesOf(p)) \in Nat /\ Len(TypesOf(p)) = p.size - 2 /\ p.size \in Nat
  <1>1. PICK n \in Nat : n = p.size
    BY DEF Listed
  <1>2. PICK w : IsList(p, n, w) /\ Kinds(p, n)
    BY <1>1 DEF Listed
  <1>3. Len(TypesOf(p)) = n - 2 /\ n - 2 \in Nat
    BY <1>2, TypesAlongWalk
  <1>. QED
    BY <1>1, <1>3

\* AddFirst keeps the links a list, and puts its handlers at the front, the
\* last of them first.
LEMMA AddFirstPlaces ==
    ASSUME PipeInv, NEW hs \in Groups, AddFirst(hs)
    PROVE  Listed(pipe') /\ PipeInserts(pipe, pipe', 0, Reverse(Accepted(hs)))
  <1>1. Listed(pipe) /\ Accepted(hs) \in Seq(Types \cup {"executor"})
    BY AcceptedPrefix DEF PipeInv
  <1>2. pipe' = AllFirst(pipe, Accepted(hs))
    BY DEF AddFirst
  <1>. QED
    BY <1>1, <1>2, AllFirstListed

\* AddLast keeps the links a list, and puts its handlers at the back.
LEMMA AddLastPlaces ==
    ASSUME PipeInv, NEW hs \in Groups, AddLast(hs)
    PROVE  Listed(pipe') /\ PipeInserts(pipe, pipe', Len(TypesOf(pipe)), Accepted(hs))
  <1>1. Listed(pipe) /\ Accepted(hs) \in Seq(Types \cup {"executor"})
    BY AcceptedPrefix DEF PipeInv
  <1>2. pipe' = AllLast(pipe, Accepted(hs))
    BY DEF AddLast
  <1>. QED
    BY <1>1, <1>2, AllLastListed

\* AddHandler keeps the links a list, and puts its handlers behind its position.
LEMMA AddHandlerPlaces ==
    ASSUME PipeInv, NEW hs \in Groups, NEW pos \in -1..pipe.size, AddHandler(pos, hs)
    PROVE  Listed(pipe') /\ HandlerPlaced(pipe, pipe', pos, hs)
  <1>1. Listed(pipe) /\ hs \in Seq(Types \cup {"executor"})
    BY GroupSeq DEF PipeInv
  <1>2. CASE ~(pos < pipe.size /\ AllFine(hs))
    <2>1. pipe' = pipe
      BY <1>2 DEF AddHandler
    <2>. QED
      BY <1>1, <1>2, <2>1 DEF HandlerPlaced
  <1>3. CASE pos < pipe.size /\ AllFine(hs) /\ (pos = -1 \/ pos = pipe.size - 1)
    <2>1. pipe' = AllLast(pipe, hs)
      BY <1>3 DEF AddHandler
    <2>2. Listed(pipe') /\ PipeInserts(pipe, pipe', Len(TypesOf(pipe)), hs)
      BY <1>1, <2>1, AllLastListed
    <2>. QED
      BY <1>3, <2>2 DEF HandlerPlaced
  <1>4. CASE pos < pipe.size /\ AllFine(hs) /\ ~(pos = -1 \/ pos = pipe.size - 1)
    <2>1. pipe' = InsertAll(pipe, ContextAt(pipe, pos), hs)
      BY <1>4 DEF AddHandler
    <2>2. pos \in 0..pipe.size - 2
      <3>1. PICK n \in Nat : n = pipe.size
        BY <1>1, ListedLength
      <3>2. pos \in 0..n - 2
        BY <1>4, <3>1
      <3>. QED
        BY <3>1, <3>2
    <2>3. Listed(pipe') /\ PipeInserts(pipe, pipe', pos, hs)
      BY <1>1, <2>1, <2>2, InsertAllListed
    <2>. QED
      BY <1>4, <2>3 DEF HandlerPlaced
  <1>. QED
    BY <1>2, <1>3, <1>4

\* Who a search finds, and where that leaves the event.
LEMMA FoundOnWay ==
    ASSUME PipeInv, NEW c, Found(c)
    PROVE  \E n \in Nat, k \in Nat : \E u :
              /\ UnderWay(pipe, n, u, event, k) /\ pipe.size = n
              /\ \/ \E j \in k + 1..n - 1 : /\ c = u[j] /\ Takes(pipe, u[j], event.kind)
                                            /\ \A i \in k + 1..j - 1 : ~Takes(pipe, u[i], event.kind)
                 \/ /\ c = NilCtx
                    /\ \A i \in k + 1..n - 1 : ~Takes(pipe, u[i], event.kind)
  <1>0. PICK n \in Nat : n = pipe.size
    BY DEF PipeInv, Listed
  <1>1. PICK u, k : UnderWay(pipe, n, u, event, k)
    BY <1>0 DEF PipeInv, Found, EventOnWay
  <1>2. IsWay(pipe, n, u, event.kind) /\ k \in 0..n - 2 /\ event.at = u[k]
    BY <1>1 DEF UnderWay
  <1>3. \/ \E j \in k + 1..n - 1 : /\ Search(pipe, event) = u[j] /\ Takes(pipe, u[j], event.kind)
                                   /\ \A i \in k + 1..j - 1 : ~Takes(pipe, u[i], event.kind)
        \/ /\ Search(pipe, event) = NilCtx
           /\ \A i \in k + 1..n - 1 : ~Takes(pipe, u[i], event.kind)
    BY <1>2, SearchFinds
  <1>4. c = Search(pipe, event) /\ k \in Nat
    BY <1>2 DEF Found
  <1>. QED
    BY <1>0, <1>1, <1>3, <1>4

\* An exception that nobody keeps is found by the tail in the end, and an
\* inactive event by the head.
LEMMA LastTakes ==
    ASSUME PipeInv, NEW n \in Nat, NEW u, IsWay(pipe, n, u, event.kind), event.kind \in {"exception", "inactive"}
    PROVE  Takes(pipe, u[n - 1], event.kind)
  <1>1. pipe.size = n /\ u[n - 1] = IF event.kind \in Forward THEN TailCtx ELSE HeadCtx
    BY DEF IsWay
  <1>2. pipe.type[HeadCtx] = "head" /\ pipe.type[TailCtx] = "tail"
    BY DEF PipeInv, Listed, Kinds
  <1>. QED
    BY <1>1, <1>2 DEF Takes, Forward

\* The head is found only by an event that runs backward, the tail only by an exception.
LEMMA EndsFound ==
    ASSUME PipeInv
    PROVE  /\ Found(TailCtx) => event.kind = "exception"
           /\ Found(HeadCtx) => event.kind \in Backward
           /\ Found(NilCtx) => event.kind \notin {"exception", "inactive"}
  <1>k. Listed(pipe) /\ pipe.type[TailCtx] = "tail" /\ HeadCtx # NilCtx /\ TailCtx # NilCtx
    BY DEF PipeInv, Listed, Kinds, HeadCtx, TailCtx, NilCtx
  <1>0. ASSUME NEW c, Found(c)
        PROVE  event.kind \in Forward \cup Backward
    BY <1>0 DEF Found, PipeInv, PipeTypeOK, PipeEvents
  <1>1. ASSUME NEW c \in {HeadCtx, TailCtx}, Found(c)
        PROVE  IF event.kind \in Forward THEN c = TailCtx /\ Takes(pipe, TailCtx, event.kind) ELSE c = HeadCtx
    <2>1. PICK n \in Nat, k \in Nat : \E u :
              /\ UnderWay(pipe, n, u, event, k) /\ pipe.size = n
              /\ \/ \E j \in k + 1..n - 1 : /\ c = u[j] /\ Takes(pipe, u[j], event.kind)
                                            /\ \A i \in k + 1..j - 1 : ~Takes(pipe, u[i], event.kind)
                 \/ /\ c = NilCtx
                    /\ \A i \in k + 1..n - 1 : ~Takes(pipe, u[i], event.kind)
      BY <1>1, FoundOnWay
    <2>2. PICK u : UnderWay(pipe, n, u, event, k)
                   /\ \E j \in k + 1..n - 1 : c = u[j] /\ Takes(pipe, u[j], event.kind)
      BY <1>k, <2>1
    <2>3. PICK j \in k + 1..n - 1 : c = u[j] /\ Takes(pipe, u[j], event.kind)
      BY <2>2
    <2>4. /\ u[0] = Outset(event.kind) /\ k \in 0..n - 2 /\ n >= 2
          /\ u[n - 1] = IF event.kind \in Forward THEN TailCtx ELSE HeadCtx
          /\ \A a, b \in 0..n - 1 : u[a] = u[b] => a = b
      BY <2>2 DEF UnderWay, IsWay
    <2>5. u[j] # u[0]
      <3>1. j \in 0..n - 1 /\ 0 \in 0..n - 1 /\ j # 0
        BY <2>4
      <3>. QED
        BY <2>4, <3>1
    <2>6. Outset(event.kind) = IF event.kind \in Forward THEN HeadCtx ELSE TailCtx
      BY DEF Outset
    <2>. QED
      BY <2>3, <2>4, <2>5, <2>6
  <1>2. ASSUME Found(TailCtx) PROVE event.kind = "exception"
    <2>1. event.kind \in Forward /\ Takes(pipe, TailCtx, event.kind)
      BY <1>1, <1>2 DEF HeadCtx, TailCtx
    <2>. QED
      BY <1>k, <2>1 DEF Takes, Forward
  <1>3. ASSUME Found(HeadCtx) PROVE event.kind \in Backward
    <2>1. event.kind \notin Forward
      BY <1>1, <1>3 DEF HeadCtx, TailCtx
    <2>. QED
      BY <1>0, <1>3, <2>1
  <1>4. ASSUME Found(NilCtx), event.kind \in {"exception", "inactive"} PROVE FALSE
    <2>1. PICK n \in Nat, k \in Nat : \E u :
              /\ UnderWay(pipe, n, u, event, k) /\ pipe.size = n
              /\ \/ \E j \in k + 1..n - 1 : /\ NilCtx = u[j] /\ Takes(pipe, u[j], event.kind)
                                            /\ \A i \in k + 1..j - 1 : ~Takes(pipe, u[i], event.kind)
                 \/ /\ NilCtx = NilCtx
                    /\ \A i \in k + 1..n - 1 : ~Takes(pipe, u[i], event.kind)
      BY <1>4, FoundOnWay
    <2>2. PICK u : /\ UnderWay(pipe, n, u, event, k)
                   /\ \/ \E j \in k + 1..n - 1 : NilCtx = u[j]
                      \/ \A i \in k + 1..n - 1 : ~Takes(pipe, u[i], event.kind)
      BY <2>1
    <2>3. IsWay(pipe, n, u, event.kind) /\ k \in 0..n - 2
      BY <2>2 DEF UnderWay
    <2>4. n >= 2 /\ u \in [0..n - 1 -> 0..n - 1]
      BY <2>3 DEF IsWay
    <2>5. ASSUME NEW j \in k + 1..n - 1 PROVE NilCtx # u[j]
      <3>1. j \in 0..n - 1
        BY <2>3
      <3>. QED
        BY <2>4, <3>1 DEF NilCtx
    <2>6. Takes(pipe, u[n - 1], event.kind)
      BY <1>4, <2>3, LastTakes
    <2>7. n - 1 \in k + 1..n - 1
      BY <2>3, <2>4
    <2>. QED
      BY <2>2, <2>5, <2>6, <2>7
  <1>. QED
    BY <1>2, <1>3, <1>4

\* The last codec is a handler, and the last of the list that is a codec.
LEMMA LastCodecAt ==
    ASSUME NEW p, Listed(p), LastIndexOf(p, Codecs) # -1
    PROVE  /\ LastIndexOf(p, Codecs) \in 0..p.size - 2
           /\ LastIndexOf(p, Codecs) \in 1..Len(TypesOf(p))
           /\ TypesOf(p)[LastIndexOf(p, Codecs)] \in Codecs
           /\ \A j \in LastIndexOf(p, Codecs) + 1..Len(TypesOf(p)) : TypesOf(p)[j] \notin Codecs
  <1>0. PICK n \in Nat : n = p.size
    BY DEF Listed
  <1>1. PICK w : IsList(p, n, w) /\ Kinds(p, n)
    BY <1>0 DEF Listed
  <1>2. "head" \notin Codecs /\ "tail" \notin Codecs
    BY PipeAssumption DEF Codecs
  <1>3. PICK x : x = LastIndexOf(p, Codecs)
    OBVIOUS
  <1>4. x \in 1..n - 2 /\ p.type[w[x]] \in Codecs /\ \A j \in x + 1..n - 1 : p.type[w[j]] \notin Codecs
    BY <1>1, <1>2, <1>3, LastIndexFound
  <1>5. TypesOf(p) = [j \in 1..n - 2 |-> p.type[w[j]]] /\ Len(TypesOf(p)) = n - 2 /\ n - 2 \in Nat
    BY <1>1, TypesAlongWalk
  <1>6. x \in 0..n - 2 /\ \A j \in x + 1..n - 2 : j \in 1..n - 2 /\ j \in x + 1..n - 1
    BY <1>4
  <1>. QED
    BY <1>0, <1>3, <1>4, <1>5, <1>6

\* Without a last codec there is no codec.
LEMMA NoCodecAt ==
    ASSUME NEW p, Listed(p), LastIndexOf(p, Codecs) = -1
    PROVE  \A j \in 1..Len(TypesOf(p)) : TypesOf(p)[j] \notin Codecs
  <1>0. PICK n \in Nat : n = p.size
    BY DEF Listed
  <1>1. PICK w : IsList(p, n, w) /\ Kinds(p, n)
    BY <1>0 DEF Listed
  <1>2. "head" \notin Codecs /\ "tail" \notin Codecs
    BY PipeAssumption DEF Codecs
  <1>3. \A j \in 0..n - 1 : p.type[w[j]] \notin Codecs
    <2>1. ~(-1 \in 1..n - 2)
      OBVIOUS
    <2>. QED
      BY <1>1, <1>2, <2>1, LastIndexFound
  <1>4. TypesOf(p) = [j \in 1..n - 2 |-> p.type[w[j]]] /\ Len(TypesOf(p)) = n - 2 /\ n - 2 \in Nat
    BY <1>1, TypesAlongWalk
  <1>5. \A j \in 1..n - 2 : j \in 0..n - 1
    OBVIOUS
  <1>. QED
    BY <1>3, <1>4, <1>5

\* PipeInv holds after every step.
LEMMA PipeInvNext == PipeInv /\ [PipeNext]_pipeVars => PipeInv'
  <1>. SUFFICES ASSUME PipeInv, [PipeNext]_pipeVars PROVE PipeInv'
    OBVIOUS
  <1>t. /\ Listed(pipe) /\ PipeTypeOK
        /\ event.kind # "none" => pipeStage = "served" /\ EventOnWay
        /\ pipeStage = "filling" => unhandled = FALSE
        /\ unhandled = TRUE => event.kind \in {"exception", "inactive"} \/ pipeStage = "closed"
    BY DEF PipeInv
  <1>u. unhandled \in BOOLEAN /\ event \in PipeEvents
    BY <1>t DEF PipeTypeOK
  \* A step that ends with no event under way.
  <1>n. ASSUME Listed(pipe'), event' \in PipeEvents, event'.kind = "none",
               pipeStage' \in {"filling", "served", "panic", "closed"}, unhandled' \in BOOLEAN,
               pipeStage' = "filling" => unhandled' = FALSE,
               unhandled' = TRUE => pipeStage' = "closed"
        PROVE  PipeInv'
    BY <1>n DEF PipeInv, PipeTypeOK
  \* A step that fires an event.
  <1>f. ASSUME NEW kind \in Forward \cup Backward, NEW c, c = Outset(kind) \/ c \in 2..pipe'.size - 1,
               Listed(pipe'), event' = WalkFrom(c, kind), pipeStage' = "served",
               unhandled' \in BOOLEAN, unhandled' = TRUE => kind \in {"exception", "inactive"}
        PROVE  PipeInv'
    <2>1. /\ WalkFrom(c, kind) \in PipeEvents /\ WalkFrom(c, kind).kind = kind
          /\ \E u, k : UnderWay(pipe', pipe'.size, u, WalkFrom(c, kind), k)
      BY <1>f, WalkOnWay
    <2>2. EventOnWay'
      BY <1>f, <2>1 DEF EventOnWay
    <2>3. PipeTypeOK'
      BY <1>f, <2>1 DEF PipeTypeOK
    <2>4. event'.kind = kind
      BY <1>f, <2>1
    <2>. QED
      BY <1>f, <2>2, <2>3, <2>4 DEF PipeInv
  <1>1. ASSUME NEW hs \in Groups,
               AddFirst(hs) \/ AddLast(hs) \/ \E pos \in -1..pipe.size : AddHandler(pos, hs)
        PROVE  PipeInv'
    <2>1. Listed(pipe')
      BY <1>1, AddFirstPlaces, AddLastPlaces, AddHandlerPlaces
    <2>2. pipeStage = "filling" /\ pipeStage' \in {"filling", "panic"} /\ event' = event /\ unhandled' = unhandled
      BY <1>1 DEF AddFirst, AddLast, AddHandler, Room, Filled
    <2>3. event.kind = "none" /\ unhandled = FALSE
      BY <1>t, <2>2
    <2>. QED
      BY <1>u, <1>n, <2>1, <2>2, <2>3
  <1>2. ASSUME NEW executor \in BOOLEAN, ServePipe(executor) PROVE PipeInv'
    <2>0. pipeStage = "filling" /\ unhandled' = unhandled /\ unhandled = FALSE /\ event.kind = "none"
      BY <1>2, <1>t DEF ServePipe
    <2>1. CASE executor /\ LastIndexOf(pipe, Codecs) = -1
      <3>1. pipeStage' = "panic" /\ pipe' = pipe /\ event' = event
        BY <1>2, <2>1 DEF ServePipe
      <3>2. Listed(pipe')
        BY <1>t, <3>1
      <3>. QED
        BY <1>u, <1>n, <2>0, <3>1, <3>2
    <2>2. CASE ~(executor /\ LastIndexOf(pipe, Codecs) = -1)
      <3>1. /\ pipeStage' = "served" /\ event' = Fired("active")
            /\ pipe' = IF ~executor THEN pipe
                       ELSE InsertAll(pipe, ContextAt(pipe, LastIndexOf(pipe, Codecs)), <<"executor">>)
        BY <1>2, <2>2 DEF ServePipe
      <3>2. Listed(pipe')
        <4>1. CASE ~executor
          BY <1>t, <3>1, <4>1
        <4>2. CASE executor
          <5>1. LastIndexOf(pipe, Codecs) \in 0..pipe.size - 2
            BY <1>t, <2>2, <4>2, LastCodecAt
          <5>2. <<"executor">> \in Seq(Types \cup {"executor"})
            OBVIOUS
          <5>. QED
            BY <1>t, <3>1, <4>2, <5>1, <5>2, InsertAllListed
        <4>. QED
          BY <4>1, <4>2
      <3>3. "active" \in Forward \cup Backward
        BY DEF Forward
      <3>4. event' = WalkFrom(Outset("active"), "active")
        BY <3>1 DEF Fired
      <3>. QED
        BY <1>u, <1>f, <2>0, <3>1, <3>2, <3>3, <3>4
    <2>. QED
      BY <2>1, <2>2
  <1>3. ASSUME NEW kind \in {"read", "exception", "inactive"}, FireEvent(kind) PROVE PipeInv'
    <2>1. /\ pipeStage = "served" /\ pipeStage' = pipeStage /\ pipe' = pipe
          /\ event' = WalkFrom(Outset(kind), kind) /\ unhandled' = (kind = "exception")
      BY <1>3 DEF FireEvent, Quiet, Fired
    <2>2. unhandled' \in BOOLEAN /\ (unhandled' = TRUE => kind \in {"exception", "inactive"})
      BY <2>1, Zenon
    <2>3. Listed(pipe')
      BY <1>t, <2>1
    <2>4. pipeStage' = "served" /\ kind \in Forward \cup Backward
      BY <2>1 DEF Forward, Backward
    <2>. QED
      BY <1>f, <2>1, <2>2, <2>3, <2>4
  <1>9. ASSUME NEW kind \in {"write", "inactive", "event"}, NEW c \in 2..pipe.size - 1, FireFrom(c, kind)
        PROVE  PipeInv'
    <2>1. /\ pipeStage = "served" /\ event.kind = "none" /\ pipeStage' = pipeStage /\ pipe' = pipe
          /\ event' = WalkFrom(c, kind) /\ unhandled' = unhandled
      BY <1>9 DEF FireFrom, Quiet
    <2>2. unhandled # TRUE
      BY <1>t, <2>1
    <2>3. Listed(pipe') /\ c \in 2..pipe'.size - 1
      BY <1>t, <2>1
    <2>4. pipeStage' = "served" /\ kind \in Forward \cup Backward
      BY <2>1 DEF Forward, Backward
    <2>. QED
      BY <1>u, <1>f, <2>1, <2>2, <2>3, <2>4
  <1>4. ASSUME NEW c \in 2..pipe.size, AtHandler(c) PROVE PipeInv'
    <2>0. Found(c) /\ c \notin {HeadCtx, TailCtx, NilCtx} /\ pipe' = pipe /\ pipeStage' = pipeStage
      BY <1>4 DEF AtHandler
    <2>l. Listed(pipe')
      BY <1>t, <2>0
    <2>1. CASE event' = NoEvent /\ unhandled' = FALSE
      <3>1. unhandled' \in BOOLEAN /\ pipeStage' \in {"filling", "served", "panic", "closed"}
        BY <1>t, <2>0, <2>1 DEF PipeTypeOK
      <3>. QED
        BY <1>n, <2>l, <2>1, <3>1, NoEventType
    <2>2. CASE event' = [event EXCEPT !.at = c, !.seen = Append(@, c)] /\ unhandled' = unhandled
      <3>1. PICK n \in Nat, k \in Nat : \E u :
              /\ UnderWay(pipe, n, u, event, k) /\ pipe.size = n
              /\ \/ \E j \in k + 1..n - 1 : /\ c = u[j] /\ Takes(pipe, u[j], event.kind)
                                            /\ \A i \in k + 1..j - 1 : ~Takes(pipe, u[i], event.kind)
                 \/ /\ c = NilCtx
                    /\ \A i \in k + 1..n - 1 : ~Takes(pipe, u[i], event.kind)
        BY <2>0, FoundOnWay
      <3>2. PICK u : /\ UnderWay(pipe, n, u, event, k) /\ pipe.size = n
                     /\ \E j \in k + 1..n - 1 : /\ c = u[j] /\ Takes(pipe, u[j], event.kind)
                                                /\ \A i \in k + 1..j - 1 : ~Takes(pipe, u[i], event.kind)
        BY <2>0, <3>1
      <3>3. PICK j \in k + 1..n - 1 : /\ c = u[j] /\ Takes(pipe, u[j], event.kind)
                                      /\ \A i \in k + 1..j - 1 : ~Takes(pipe, u[i], event.kind)
        BY <3>2
      <3>4. u[n - 1] = IF event.kind \in Forward THEN TailCtx ELSE HeadCtx
        BY <3>2 DEF UnderWay, IsWay
      <3>5. j # n - 1
        BY <2>0, <3>3, <3>4
      <3>6. j \in k + 1..n - 2
        BY <3>5
      <3>7. PICK f : f = [event EXCEPT !.at = u[j], !.seen = Append(@, u[j])]
        OBVIOUS
      <3>8. f \in PipeEvents /\ UnderWay(pipe, n, u, f, j)
        BY <1>u, <3>2, <3>3, <3>6, <3>7, SeenNext
      <3>9. event' = f /\ f.kind = event.kind
        BY <1>u, <2>2, <3>3, <3>7 DEF PipeEvents
      <3>10. EventOnWay'
        BY <2>0, <3>2, <3>8, <3>9 DEF EventOnWay
      <3>11. PipeTypeOK'
        BY <1>t, <2>0, <2>2, <3>8, <3>9 DEF PipeTypeOK
      <3>. QED
        BY <1>t, <2>l, <2>0, <2>2, <3>9, <3>10, <3>11 DEF PipeInv, Found
    <2>. QED
      BY <1>4, <2>1, <2>2 DEF AtHandler
  <1>5. CASE AtTail
    <2>1. Found(TailCtx) /\ event' = Fired("inactive") /\ pipe' = pipe /\ pipeStage' = pipeStage /\ unhandled' = unhandled
      BY <1>5 DEF AtTail
    <2>2. pipeStage' = "served" /\ "inactive" \in Forward \cup Backward
      BY <2>1 DEF Found, Backward
    <2>3. Listed(pipe')
      BY <1>t, <2>1
    <2>4. event' = WalkFrom(Outset("inactive"), "inactive")
      BY <2>1 DEF Fired
    <2>5. unhandled' = TRUE => "inactive" \in {"exception", "inactive"}
      OBVIOUS
    <2>. QED
      BY <1>u, <1>f, <2>1, <2>2, <2>3, <2>4, <2>5
  <1>6. CASE AtHead
    <2>1. /\ Found(HeadCtx) /\ event' = NoEvent /\ pipe' = pipe /\ unhandled' = unhandled
          /\ pipeStage' = IF event.kind = "inactive" THEN "closed" ELSE "served"
      BY <1>6 DEF AtHead
    <2>2. unhandled = TRUE => event.kind = "inactive"
      <3>1. event.kind \in Backward /\ pipeStage = "served"
        BY <2>1, EndsFound DEF Found
      <3>. QED
        BY <1>t, <3>1 DEF Backward
    <2>3. Listed(pipe')
      BY <1>t, <2>1
    <2>. QED
      BY <1>u, <1>n, <2>1, <2>2, <2>3, NoEventType
  <1>7. CASE AtNobody
    <2>1. Found(NilCtx) /\ event' = NoEvent /\ pipe' = pipe /\ pipeStage' = pipeStage /\ unhandled' = unhandled
      BY <1>7 DEF AtNobody
    <2>2. pipeStage = "served" /\ event.kind \notin {"exception", "inactive"}
      BY <2>1, EndsFound DEF Found
    <2>3. unhandled # TRUE
      BY <1>t, <2>2
    <2>4. Listed(pipe')
      BY <1>t, <2>1
    <2>. QED
      BY <1>u, <1>n, <2>1, <2>2, <2>3, <2>4, NoEventType
  <1>8. CASE UNCHANGED pipeVars
    <2>1. pipe' = pipe /\ pipeStage' = pipeStage /\ event' = event /\ unhandled' = unhandled
      BY <1>8 DEF pipeVars
    <2>2. EventOnWay' <=> EventOnWay
      BY <2>1 DEF EventOnWay
    <2>3. Listed(pipe') /\ PipeTypeOK'
      BY <1>t, <2>1 DEF PipeTypeOK
    <2>. QED
      BY <1>t, <2>1, <2>2, <2>3 DEF PipeInv
  <1>. QED
    BY <1>1, <1>2, <1>3, <1>4, <1>5, <1>6, <1>7, <1>8, <1>9 DEF PipeNext, PipeDone

\* An event under way has been seen by everybody it had to be seen by.
LEMMA PipeInvDelivers == PipeInv => EventsDelivered
  <1>. SUFFICES ASSUME PipeInv PROVE EventsDelivered
    OBVIOUS
  <1>1. NobodySkipped
    <2>. SUFFICES ASSUME event.kind # "none" PROVE SeenByAll(pipe, event)
      BY DEF NobodySkipped
    <2>1. PICK u, k : UnderWay(pipe, pipe.size, u, event, k)
      BY DEF PipeInv, EventOnWay
    <2>. QED
      BY <2>1 DEF UnderWay
  <1>2. ExceptionCloses
    <2>1. unhandled = TRUE => event.kind \in {"exception", "inactive"} \/ pipeStage = "closed"
      BY DEF PipeInv
    <2>. QED
      BY <2>1 DEF ExceptionCloses
  <1>. QED
    BY <1>1, <1>2 DEF EventsDelivered

\* Events are delivered, for any handlers in any order: an event that is under
\* way, fired by the channel at an end of the list or by a handler at its own
\* context, has been seen by exactly the handlers between that context and its
\* cursor that implement its interface, in the order of the list, and an
\* exception that no handler deals with closes the channel.
THEOREM PipeDelivery == PipeSpec => []EventsDelivered
  <1>1. PipeInit => PipeInv
    BY PipeInvInit
  <1>2. PipeInv /\ [PipeNext]_pipeVars => PipeInv'
    BY PipeInvNext
  <1>3. PipeInv => EventsDelivered
    BY PipeInvDelivers
  <1>. QED
    BY <1>1, <1>2, <1>3, PTL DEF PipeSpec

\* Links that are left alone stand for the list they stood for.
LEMMA SameList ==
    ASSUME pipe' = pipe
    PROVE  TypesOf(pipe)' = TypesOf(pipe)
  BY DEF TypesOf, ContextAt, Along

\* Who inserts g behind position k of the links inserts it there in the list.
LEMMA InsertsAbstractly ==
    ASSUME NEW k, NEW g, PipeInserts(pipe, pipe', k, g)
    PROVE  TypesOf(pipe)' = Abstract!Insert(k, g)
  <1>1. TypesOf(pipe)' = TypesOf(pipe')
    BY DEF TypesOf, ContextAt, Along
  <1>. QED
    BY <1>1 DEF PipeInserts, Abstract!Insert

\* A step of the initializer is a call of the abstract pipeline.
LEMMA PipeFillStep ==
    ASSUME PipeInv, NEW hs \in Groups,
           AddFirst(hs) \/ AddLast(hs) \/ \E pos \in -1..pipe.size : AddHandler(pos, hs)
    PROVE  Abstract!PipeFill
  <1>. DEFINE T == TypesOf(pipe)
  <1>l. Listed(pipe) /\ Len(T) \in Nat /\ Len(T) = pipe.size - 2 /\ pipe.size \in Nat
    BY ListedLength DEF PipeInv
  <1>f. /\ ~(pipeStage \in {"served", "closed"})
        /\ (pipeStage \in {"served", "closed"})' = FALSE
        /\ called'.hs = hs
    <2>1. pipeStage = "filling" /\ pipeStage' \in {"filling", "panic"}
      BY DEF AddFirst, AddLast, AddHandler, Room, Filled
    <2>2. ~(pipeStage' \in {"served", "closed"})
      BY <2>1
    <2>3. called'.hs = hs
      BY DEF AddFirst, AddLast, AddHandler, Calling
    <2>. QED
      BY <2>1, <2>2, <2>3
  <1>1. CASE AddFirst(hs)
    <2>1. called'.op = "AddFirst"
      BY <1>1 DEF AddFirst, Calling
    <2>2. PICK n \in 0..Len(hs) : Accepted(hs) = SubSeq(hs, 1, n) /\ Abstract!TakesUpTo(hs, n)
      BY AcceptedPrefix
    <2>3. TypesOf(pipe)' = Abstract!Insert(0, Reverse(SubSeq(hs, 1, n)))
      BY <1>1, <2>2, AddFirstPlaces, InsertsAbstractly
    <2>4. Abstract!Reverse(SubSeq(hs, 1, n)) = Reverse(SubSeq(hs, 1, n))
      BY DEF Abstract!Reverse, Reverse
    <2>5. Abstract!PutFirst
      BY <1>f, <2>1, <2>2, <2>3, <2>4 DEF Abstract!PutFirst
    <2>. QED
      BY <1>f, <2>5 DEF Abstract!PipeFill
  <1>2. CASE AddLast(hs)
    <2>1. called'.op = "AddLast"
      BY <1>2 DEF AddLast, Calling
    <2>2. PICK n \in 0..Len(hs) : Accepted(hs) = SubSeq(hs, 1, n) /\ Abstract!TakesUpTo(hs, n)
      BY AcceptedPrefix
    <2>3. TypesOf(pipe)' = Abstract!Insert(Len(T), SubSeq(hs, 1, n))
      BY <1>2, <2>2, AddLastPlaces, InsertsAbstractly
    <2>5. Abstract!PutLast
      BY <1>f, <2>1, <2>2, <2>3 DEF Abstract!PutLast
    <2>. QED
      BY <1>f, <2>5 DEF Abstract!PipeFill
  <1>3. ASSUME NEW pos \in -1..pipe.size, AddHandler(pos, hs)
        PROVE  Abstract!PipeFill
    <2>1. called'.op = "AddHandler" /\ called'.pos = pos
      BY <1>3 DEF AddHandler, Calling
    <2>2. HandlerPlaced(pipe, pipe', pos, hs)
      BY <1>3, AddHandlerPlaces
    <2>. DEFINE legal == pos <= Len(T) + 1 /\ Abstract!TakesUpTo(hs, Len(hs))
                end == pos = -1 \/ pos = Len(T) + 1
    <2>3. legal <=> pos < pipe.size /\ AllFine(hs)
      <3>1. pos <= Len(T) + 1 <=> pos < pipe.size
        BY <1>l
      <3>. QED
        BY <3>1, AllAccepted
    <2>4. end <=> pos = -1 \/ pos = pipe.size - 1
      BY <1>l
    <2>5. TypesOf(pipe)' = IF ~legal THEN T ELSE Abstract!Insert(IF end THEN Len(T) ELSE pos, hs)
      <3>1. CASE ~legal
        <4>1. pipe' = pipe
          BY <2>2, <2>3, <3>1 DEF HandlerPlaced
        <4>2. TypesOf(pipe)' = T
          BY <4>1, SameList
        <4>. QED
          BY <3>1, <4>2
      <3>2. CASE legal
        <4>1. PipeInserts(pipe, pipe', IF end THEN Len(T) ELSE pos, hs)
          BY <2>2, <2>3, <2>4, <3>2 DEF HandlerPlaced
        <4>2. TypesOf(pipe)' = Abstract!Insert(IF end THEN Len(T) ELSE pos, hs)
          BY <4>1, InsertsAbstractly
        <4>. QED
          BY <3>2, <4>2
      <3>. QED
        BY <3>1, <3>2
    <2>6. Abstract!PutBehind
      BY <1>f, <2>1, <2>5 DEF Abstract!PutBehind
    <2>. QED
      BY <1>f, <2>6 DEF Abstract!PipeFill
  <1>. QED
    BY <1>1, <1>2, <1>3

\* Serving the channel is serving the abstract pipeline.
LEMMA PipeServeStep ==
    ASSUME PipeInv, NEW executor \in BOOLEAN, ServePipe(executor)
    PROVE  Abstract!PipeServe
  <1>. DEFINE T == TypesOf(pipe)
  <1>l. Listed(pipe) /\ Len(T) \in Nat
    BY ListedLength DEF PipeInv
  <1>0. pipeStage = "filling" /\ ~(pipeStage \in {"served", "closed"})
    BY DEF ServePipe
  <1>1. CASE ~executor
    <2>1. pipeStage' = "served" /\ pipe' = pipe /\ called'.op = "serve"
      BY <1>1 DEF ServePipe, Calling
    <2>2. TypesOf(pipe)' = T
      BY <2>1, SameList
    <2>3. (pipeStage \in {"served", "closed"})' = TRUE
      BY <2>1
    <2>. QED
      BY <1>0, <2>1, <2>2, <2>3 DEF Abstract!PipeServe
  <1>2. CASE executor /\ LastIndexOf(pipe, Codecs) = -1
    <2>1. pipeStage' = "panic" /\ pipe' = pipe /\ called'.op = "serve with executor"
      BY <1>2 DEF ServePipe, Calling
    <2>2. TypesOf(pipe)' = T
      BY <2>1, SameList
    <2>3. (pipeStage \in {"served", "closed"})' = FALSE
      <3>1. ~(pipeStage' \in {"served", "closed"})
        BY <2>1
      <3>. QED
        BY <3>1
    <2>4. \A j \in 1..Len(T) : T[j] \notin Codecs
      BY <1>l, <1>2, NoCodecAt
    <2>. QED
      BY <1>0, <2>1, <2>2, <2>3, <2>4 DEF Abstract!PipeServe
  <1>3. CASE executor /\ LastIndexOf(pipe, Codecs) # -1
    <2>1. PICK x : x = LastIndexOf(pipe, Codecs)
      OBVIOUS
    <2>2. /\ pipeStage' = "served" /\ called'.op = "serve with executor"
          /\ pipe' = InsertAll(pipe, ContextAt(pipe, x), <<"executor">>)
      BY <1>3, <2>1 DEF ServePipe, Calling
    <2>3. /\ x \in 0..pipe.size - 2 /\ x \in 1..Len(T) /\ T[x] \in Codecs
          /\ \A j \in x + 1..Len(T) : T[j] \notin Codecs
      BY <1>l, <1>3, <2>1, LastCodecAt
    <2>4. <<"executor">> \in Seq(Types \cup {"executor"})
      OBVIOUS
    <2>5. PipeInserts(pipe, pipe', x, <<"executor">>)
      BY <1>l, <2>2, <2>3, <2>4, InsertAllListed
    <2>6. TypesOf(pipe)' = Abstract!Insert(x, <<"executor">>)
      BY <2>5, InsertsAbstractly
    <2>7. Abstract!IsLastCodec(x)
      BY <2>3 DEF Abstract!IsLastCodec
    <2>8. (pipeStage \in {"served", "closed"})' = TRUE
      BY <2>2
    <2>. QED
      BY <1>0, <2>2, <2>3, <2>6, <2>7, <2>8 DEF Abstract!PipeServe
  <1>. QED
    BY <1>1, <1>2, <1>3

\* Every step is a call of the abstract pipeline, or leaves the list alone.
LEMMA PipeListStep ==
    PipeInv /\ [PipeNext]_pipeVars => [Abstract!PipeFill \/ Abstract!PipeServe]_(Abstract!listVars)
  <1>. SUFFICES ASSUME PipeInv, [PipeNext]_pipeVars
                PROVE  [Abstract!PipeFill \/ Abstract!PipeServe]_(Abstract!listVars)
    OBVIOUS
  \* A step that leaves the list, its state and the last call as they were.
  <1>s. ASSUME pipe' = pipe, called' = called,
               pipeStage' \in {"served", "closed"} <=> pipeStage \in {"served", "closed"}
        PROVE  UNCHANGED Abstract!listVars
    <2>1. TypesOf(pipe)' = TypesOf(pipe)
      BY <1>s, SameList
    <2>2. (pipeStage \in {"served", "closed"})' = (pipeStage \in {"served", "closed"})
      BY <1>s
    <2>. QED
      BY <1>s, <2>1, <2>2 DEF Abstract!listVars
  <1>1. ASSUME NEW hs \in Groups,
               AddFirst(hs) \/ AddLast(hs) \/ \E pos \in -1..pipe.size : AddHandler(pos, hs)
        PROVE  Abstract!PipeFill
    BY <1>1, PipeFillStep
  <1>2. ASSUME NEW executor \in BOOLEAN, ServePipe(executor)
        PROVE  Abstract!PipeServe
    BY <1>2, PipeServeStep
  <1>3. CASE \/ \E kind \in {"read", "exception", "inactive"} : FireEvent(kind)
             \/ \E kind \in {"write", "inactive", "event"}, n \in 2..pipe.size - 1 : FireFrom(n, kind)
             \/ \E n \in 2..pipe.size : AtHandler(n)
             \/ AtTail \/ AtHead \/ AtNobody \/ PipeDone
    <2>1. pipe' = pipe /\ called' = called
      BY <1>3 DEF FireEvent, FireFrom, AtHandler, AtTail, AtHead, AtNobody, PipeDone, pipeVars
    <2>2. pipeStage' = pipeStage \/ (pipeStage = "served" /\ pipeStage' \in {"served", "closed"})
      BY <1>3 DEF FireEvent, FireFrom, AtHandler, AtTail, AtHead, AtNobody, PipeDone, pipeVars, Found
    <2>. QED
      BY <1>s, <2>1, <2>2
  <1>4. CASE UNCHANGED pipeVars
    BY <1>s, <1>4 DEF pipeVars
  <1>. QED
    BY <1>1, <1>2, <1>3, <1>4 DEF PipeNext

\* A new pipeline is the empty list, and nothing has been called.
LEMMA PipeListInit == PipeInit => Abstract!PipeSpecInit
  <1>. SUFFICES ASSUME PipeInit PROVE Abstract!PipeSpecInit
    OBVIOUS
  <1>1. pipe.size = 2 /\ pipeStage = "filling" /\ called.op = "none"
    BY DEF PipeInit, Calling
  <1>2. TypesOf(pipe) = <<>>
    BY <1>1 DEF TypesOf
  <1>3. (pipeStage \in {"served", "closed"}) = FALSE
    BY <1>1
  <1>. QED
    BY <1>1, <1>2, <1>3 DEF Abstract!PipeSpecInit

\* The doubly linked contexts implement a list: AddFirst puts the handlers it
\* accepts at the front, each in front of the one before, AddLast puts them at
\* the back, AddHandler all of them or none, in their order, directly behind the
\* position it is given or at the end, and serving the channel puts the executor
\* directly behind the last codec or refuses; nothing else changes the list.
THEOREM PipeImplementsList == PipeSpec => ImplementsList
  <1>1. PipeInit => PipeInv /\ Abstract!PipeSpecInit
    BY PipeInvInit, PipeListInit
  <1>2. PipeInv /\ [PipeNext]_pipeVars => PipeInv'
    BY PipeInvNext
  <1>3. PipeInv /\ [PipeNext]_pipeVars => [Abstract!PipeFill \/ Abstract!PipeServe]_(Abstract!listVars)
    BY PipeListStep
  <1>. QED
    BY <1>1, <1>2, <1>3, PTL DEF PipeSpec, ImplementsList, Abstract!PipePromise
=============================================================================

---------------------------- MODULE CodecProofs ----------------------------
(***************************************************************************)
(* The codecs keep what is written: the frame codecs of netty/codec/frame  *)
(* (RoundTrip) and the protobuf codecs (FramesIntact), for every message,  *)
(* payload, limit and cut of the stream.  The lemmas go from loops, digits *)
(* and joined sequences, by the induction of PipelineProofs, to what each  *)
(* decoder makes of the bytes of its encoder, and from there to the        *)
(* inductive invariants FrmInv and CodInv.                                 *)
(***************************************************************************)
EXTENDS PipelineProofs, ProtobufCodec, FrameCodecs

-----------------------------------------------------------------------------
(***************************************************************************)
(* Loops.  A loop of n turns whose turns stay in a set has a run, and only *)
(* one.                                                                    *)
(***************************************************************************)

\* The turns g of a loop stay in S; in its run q, turn i takes the state of
\* turn i - 1 through g[i]; two runs do the same in every turn.
StaysIn(S, n, g) == \A i \in 1..n : \A s \in S : g[i][s] \in S
IsRun(q, n, a, g) == q[0] = a /\ \A i \in 1..n : q[i] = g[i][q[i - 1]]
Alike(q, w, n) == q[0] = w[0] /\ \A i \in 1..n : q[i - 1] = w[i - 1] => q[i] = w[i]

\* The shifts of x, and the sums of the digits ds.
Shifts(w, base, x, n) == w[0] = x /\ \A i \in 1..n : w[i] = w[i - 1] \div base
Sums(w, base, ds, n) == w[0] = 0 /\ \A i \in 1..n : w[i] = (w[i - 1] * base) + ds[i]

\* A loop whose turns stay in S has a run.
LEMMA LoopRuns ==
    ASSUME NEW S, NEW n \in Nat, NEW a \in S, NEW g, StaysIn(S, n, g)
    PROVE  \E q \in [0..n -> S] : IsRun(q, n, a, g)
  <1>. USE DEF StaysIn, IsRun
  <1>. DEFINE P(m) == \E q \in [0..m -> S] : q[0] = a /\ \A i \in 1..m : q[i] = g[i][q[i - 1]]
              T == {m \in Nat : m <= n => P(m)}
  <1>1. 0 \in T
    <2>. DEFINE q == [i \in 0..0 |-> a]
    <2>1. q \in [0..0 -> S] /\ q[0] = a /\ \A i \in 1..0 : q[i] = g[i][q[i - 1]]
      OBVIOUS
    <2>. QED
      BY <2>1
  <1>2. ASSUME NEW m \in T PROVE m + 1 \in T
    <2>h. m \in Nat /\ (m <= n => P(m))
      OBVIOUS
    <2>s. SUFFICES ASSUME m + 1 <= n PROVE P(m + 1)
      <3>. HIDE DEF P
      <3>. QED
        BY <2>h
    <2>0. m \in Nat /\ m + 1 \in 1..n /\ m <= n
      BY <2>s, <2>h
    <2>1. PICK q \in [0..m -> S] : q[0] = a /\ \A i \in 1..m : q[i] = g[i][q[i - 1]]
      BY <2>h, <2>0
    <2>. DEFINE r == [i \in 0..m + 1 |-> IF i <= m THEN q[i] ELSE g[m + 1][q[m]]]
    <2>2. q[m] \in S
      BY <2>0, <2>1
    <2>3. g[m + 1][q[m]] \in S
      BY <2>0, <2>2
    <2>4. r \in [0..m + 1 -> S]
      BY <2>0, <2>1, <2>3
    <2>5. r[0] = a
      BY <2>0, <2>1
    <2>6. ASSUME NEW i \in 1..m + 1 PROVE r[i] = g[i][r[i - 1]]
      <3>1. CASE i <= m
        <4>1. i \in 1..m /\ i \in 0..m + 1 /\ i - 1 \in 0..m + 1 /\ i - 1 <= m
          BY <2>0, <3>1
        <4>. QED
          BY <2>1, <4>1
      <3>2. CASE i = m + 1
        <4>1. i \in 0..m + 1 /\ ~(i <= m) /\ i - 1 = m /\ m \in 0..m + 1 /\ m <= m
          BY <2>0, <3>2
        <4>2. r[i] = g[m + 1][q[m]] /\ r[i - 1] = q[m]
          BY <4>1
        <4>. QED
          BY <3>2, <4>2
      <3>. QED
        BY <2>0, <3>1, <3>2
    <2>. QED
      BY <2>4, <2>5, <2>6
  <1>3. T \subseteq Nat
    OBVIOUS
  <1>4. T = Nat
    <2>. HIDE DEF T
    <2>. QED
      BY <1>1, <1>2, <1>3, InductiveSet
  <1>. QED
    BY <1>4

\* Two runs that start alike and whose turns do the same are the same.
LEMMA LoopUnique ==
    ASSUME NEW n \in Nat, NEW q, NEW w, Alike(q, w, n)
    PROVE  \A i \in 0..n : q[i] = w[i]
  <1>. USE DEF Alike
  <1>. DEFINE T == {i \in Nat : i <= n => q[i] = w[i]}
  <1>1. 0 \in T
    OBVIOUS
  <1>2. ASSUME NEW i \in T PROVE i + 1 \in T
    <2>. SUFFICES ASSUME i + 1 <= n PROVE q[i + 1] = w[i + 1]
      OBVIOUS
    <2>1. i + 1 \in 1..n /\ (i + 1) - 1 = i /\ i <= n
      OBVIOUS
    <2>2. q[i] = w[i]
      BY <2>1
    <2>. QED
      BY <2>1, <2>2
  <1>3. T \subseteq Nat
    OBVIOUS
  <1>4. T = Nat
    <2>. HIDE DEF T
    <2>. QED
      BY <1>1, <1>2, <1>3, InductiveSet
  <1>. QED
    BY <1>4

-----------------------------------------------------------------------------
(***************************************************************************)
(* Digits.                                                                 *)
(***************************************************************************)

\* Division with a rest.
LEMMA Division ==
    ASSUME NEW base \in Nat, base >= 2, NEW x \in Nat
    PROVE  /\ x \div base \in Nat /\ x % base \in 0..base - 1
           /\ x = (x \div base) * base + (x % base)
           /\ x > 0 => x \div base < x
           /\ x < base => x \div base = 0 /\ x % base = x
  OBVIOUS

\* The shifts are the run of a loop.
LEMMA ShiftedRun ==
    ASSUME NEW base \in Nat, base >= 2, NEW x \in Nat, NEW n \in Nat, NEW w, Shifts(w, base, x, n)
    PROVE  Shifted(base, x, n) = w[n]
  <1>. DEFINE F(g) == [j \in 0..n |-> IF j = 0 THEN x ELSE g[j - 1] \div base]
              q == CHOOSE g : g = F(g)
              v == [j \in 0..n |-> w[j]]
  <1>1. v = F(v)
    BY DEF Shifts
  <1>2. q = F(q)
    BY <1>1
  <1>3. Shifted(base, x, n) = q[n]
    BY DEF Shifted
  <1>. HIDE DEF q
  <1>4. Alike(q, w, n)
    BY <1>2 DEF Alike, Shifts
  <1>5. \A i \in 0..n : q[i] = w[i]
    BY <1>4, LoopUnique
  <1>. QED
    BY <1>3, <1>5

\* Each shift drops a digit.
LEMMA ShiftedStep ==
    ASSUME NEW base \in Nat, base >= 2, NEW x \in Nat, NEW n \in Nat
    PROVE  /\ Shifted(base, x, 0) = x
           /\ Shifted(base, x, n) \in Nat
           /\ Shifted(base, x, n + 1) = Shifted(base, x, n) \div base
  <1>. DEFINE g == [i \in 1..n + 1 |-> [s \in Nat |-> s \div base]]
  <1>1. \A i \in 1..n + 1 : \A s \in Nat : g[i][s] = s \div base /\ g[i][s] \in Nat
    BY Division
  <1>. HIDE DEF g
  <1>2. n + 1 \in Nat /\ StaysIn(Nat, n + 1, g)
    BY <1>1 DEF StaysIn
  <1>r. PICK w \in [0..n + 1 -> Nat] : IsRun(w, n + 1, x, g)
    BY <1>2, LoopRuns
  <1>3. w[0] = x /\ \A i \in 1..n + 1 : w[i] = g[i][w[i - 1]]
    BY <1>r DEF IsRun
  <1>4. ASSUME NEW i \in 1..n + 1 PROVE w[i] = w[i - 1] \div base
    <2>1. i - 1 \in 0..n + 1
      OBVIOUS
    <2>2. w[i - 1] \in Nat
      BY <2>1
    <2>. QED
      BY <1>1, <1>3, <2>2
  <1>5. Shifts(w, base, x, 0) /\ Shifts(w, base, x, n) /\ Shifts(w, base, x, n + 1)
    BY <1>3, <1>4 DEF Shifts
  <1>6. Shifted(base, x, 0) = w[0]
    BY <1>5, ShiftedRun
  <1>7. Shifted(base, x, n) = w[n]
    BY <1>5, ShiftedRun
  <1>8. Shifted(base, x, n + 1) = w[n + 1]
    BY <1>2, <1>5, ShiftedRun
  <1>9. n \in 0..n + 1 /\ n + 1 \in 1..n + 1 /\ (n + 1) - 1 = n
    OBVIOUS
  <1>10. w[n] \in Nat /\ w[n + 1] = w[n] \div base
    BY <1>4, <1>9
  <1>. QED
    BY <1>3, <1>6, <1>7, <1>8, <1>10

\* The number of a sequence of digits is the run of a loop.
LEMMA NumberRun ==
    ASSUME NEW base \in Nat, NEW n \in Nat, NEW ds, Len(ds) = n, NEW w, Sums(w, base, ds, n)
    PROVE  Number(base, ds) = w[n]
  <1>. DEFINE F(g) == [j \in 0..Len(ds) |-> IF j = 0 THEN 0 ELSE (g[j - 1] * base) + ds[j]]
              q == CHOOSE g : g = F(g)
              v == [j \in 0..n |-> w[j]]
  <1>1. v = F(v)
    BY DEF Sums
  <1>2. q = F(q)
    BY <1>1
  <1>3. Number(base, ds) = q[n]
    BY DEF Number
  <1>. HIDE DEF q
  <1>4. Alike(q, w, n)
    BY <1>2 DEF Alike, Sums
  <1>5. \A i \in 0..n : q[i] = w[i]
    BY <1>4, LoopUnique
  <1>. QED
    BY <1>3, <1>5

\* It is a number.
LEMMA NumberTyped ==
    ASSUME NEW base \in Nat, NEW ds \in Seq(Nat)
    PROVE  Number(base, ds) \in Nat
  <1>1. PICK n \in Nat : n = Len(ds)
    OBVIOUS
  <1>. DEFINE g == [i \in 1..n |-> [s \in Nat |-> (s * base) + ds[i]]]
  <1>2. ASSUME NEW i \in 1..n, NEW s \in Nat PROVE g[i][s] = (s * base) + ds[i] /\ g[i][s] \in Nat
    <2>1. ds[i] \in Nat
      BY <1>1
    <2>2. s * base \in Nat
      OBVIOUS
    <2>. QED
      BY <2>1, <2>2
  <1>. HIDE DEF g
  <1>s. StaysIn(Nat, n, g)
    BY <1>2 DEF StaysIn
  <1>r. PICK w \in [0..n -> Nat] : IsRun(w, n, 0, g)
    BY <1>s, LoopRuns
  <1>3. w[0] = 0 /\ \A i \in 1..n : w[i] = g[i][w[i - 1]]
    BY <1>r DEF IsRun
  <1>4. ASSUME NEW i \in 1..n PROVE w[i] = (w[i - 1] * base) + ds[i]
    <2>1. i - 1 \in 0..n
      OBVIOUS
    <2>2. w[i - 1] \in Nat
      BY <2>1
    <2>. QED
      BY <1>2, <1>3, <2>2
  <1>5. Sums(w, base, ds, n)
    BY <1>3, <1>4 DEF Sums
  <1>6. Number(base, ds) = w[n]
    BY <1>1, <1>5, NumberRun
  <1>. QED
    BY <1>6

\* Digits and back: the n digits of a number below base^n give the number.
LEMMA NumberOfDigits ==
    ASSUME NEW base \in Nat, base >= 2, NEW x \in Nat, NEW n \in Nat, Shifted(base, x, n) = 0,
           NEW ds, Len(ds) = n, \A i \in 1..n : ds[i] = Shifted(base, x, n - i) % base
    PROVE  Number(base, ds) = x
  <1>. DEFINE w == [i \in 0..n |-> Shifted(base, x, n - i)]
  <1>1. w[0] = 0 /\ w[n] = x
    <2>1. n - 0 = n /\ n - n = 0 /\ 0 \in 0..n /\ n \in 0..n
      OBVIOUS
    <2>2. Shifted(base, x, 0) = x
      BY ShiftedStep
    <2>. QED
      BY <2>1, <2>2
  <1>2. ASSUME NEW i \in 1..n PROVE w[i] = (w[i - 1] * base) + ds[i]
    <2>1. n - i \in Nat /\ i \in 0..n /\ i - 1 \in 0..n /\ n - (i - 1) = (n - i) + 1
      OBVIOUS
    <2>2. PICK y \in Nat : y = Shifted(base, x, n - i)
      BY <2>1, ShiftedStep
    <2>3. Shifted(base, x, (n - i) + 1) = y \div base
      BY <2>1, <2>2, ShiftedStep
    <2>4. w[i] = y /\ w[i - 1] = y \div base /\ ds[i] = y % base
      BY <2>1, <2>2, <2>3
    <2>5. y = (y \div base) * base + (y % base)
      BY Division
    <2>. QED
      BY <2>4, <2>5
  <1>. HIDE DEF w
  <1>s. Sums(w, base, ds, n)
    BY <1>1, <1>2 DEF Sums
  <1>3. Number(base, ds) = w[n]
    BY <1>s, NumberRun
  <1>. QED
    BY <1>1, <1>3

\* A number of k digits at most stays one of no digits.
LEMMA ShiftedZero ==
    ASSUME NEW base \in Nat, base >= 2, NEW x \in Nat, NEW k \in Nat, Shifted(base, x, k) < base,
           NEW n \in Nat, n > k
    PROVE  Shifted(base, x, n) = 0
  <1>. DEFINE T == {i \in Nat : Shifted(base, x, k + 1 + i) = 0}
  <1>0. Shifted(base, x, k) \in Nat /\ Shifted(base, x, k + 1) = Shifted(base, x, k) \div base
    BY ShiftedStep
  <1>1. Shifted(base, x, k + 1) = 0
    BY <1>0, Division
  <1>2. 0 \in T
    BY <1>1
  <1>3. ASSUME NEW i \in T PROVE i + 1 \in T
    <2>1. i \in Nat /\ k + 1 + i \in Nat /\ k + 1 + (i + 1) = (k + 1 + i) + 1
      OBVIOUS
    <2>2. Shifted(base, x, (k + 1 + i) + 1) = Shifted(base, x, k + 1 + i) \div base
      BY <2>1, ShiftedStep
    <2>3. 0 \div base = 0
      BY Division
    <2>. QED
      BY <2>1, <2>2, <2>3
  <1>4. T \subseteq Nat
    OBVIOUS
  <1>5. T = Nat
    <2>. HIDE DEF T
    <2>. QED
      BY <1>2, <1>3, <1>4, InductiveSet
  <1>6. n - (k + 1) \in Nat /\ k + 1 + (n - (k + 1)) = n
    OBVIOUS
  <1>7. n - (k + 1) \in T
    BY <1>5, <1>6
  <1>. QED
    BY <1>6, <1>7

\* After as many shifts as the number counts, a digit is left at most.
LEMMA ShiftedEnds ==
    ASSUME NEW base \in Nat, base >= 2, NEW x \in Nat
    PROVE  \E k \in 0..x : Shifted(base, x, k) < base /\ \A j \in 0..k - 1 : Shifted(base, x, j) >= base
  <1>. DEFINE T == {i \in Nat : Shifted(base, x, i) < base \/ Shifted(base, x, i) <= x - i}
              D == {k \in Nat : Shifted(base, x, k) < base}
  <1>1. 0 \in T
    BY ShiftedStep
  <1>2. ASSUME NEW i \in T PROVE i + 1 \in T
    <2>1. PICK y \in Nat : y = Shifted(base, x, i)
      BY ShiftedStep
    <2>2. Shifted(base, x, i + 1) = y \div base
      BY <2>1, ShiftedStep
    <2>3. y \div base \in Nat /\ (y > 0 => y \div base < y) /\ (y < base => y \div base = 0)
      BY Division
    <2>4. y < base \/ y <= x - i
      BY <2>1
    <2>5. y \div base < base \/ y \div base <= x - (i + 1)
      BY <2>3, <2>4
    <2>. QED
      BY <2>2, <2>5
  <1>3. T \subseteq Nat
    OBVIOUS
  <1>4. T = Nat
    <2>. HIDE DEF T
    <2>. QED
      BY <1>1, <1>2, <1>3, InductiveSet
  <1>5. x \in D
    <2>1. Shifted(base, x, x) < base \/ Shifted(base, x, x) <= x - x
      BY <1>4
    <2>2. Shifted(base, x, x) \in Nat
      BY ShiftedStep
    <2>. QED
      BY <2>1, <2>2
  <1>6. D \in SUBSET Nat /\ D # {}
    BY <1>5
  <1>7. PICK k \in D : \A y \in D : k <= y
    <2>. HIDE DEF D
    <2>. QED
      BY <1>6, LeastNumber
  <1>8. k \in 0..x /\ Shifted(base, x, k) < base
    BY <1>5, <1>7
  <1>9. ASSUME NEW j \in 0..k - 1 PROVE Shifted(base, x, j) >= base
    <2>1. j \in Nat /\ ~(k <= j)
      BY <1>8
    <2>2. j \notin D
      BY <1>7, <2>1
    <2>3. Shifted(base, x, j) \in Nat
      BY <2>1, ShiftedStep
    <2>. QED
      BY <2>1, <2>2, <2>3
  <1>. QED
    BY <1>8, <1>9

\* The continuation bit does not change the digit.
LEMMA BitDropped ==
    ASSUME NEW base \in Nat, base >= 2, NEW d \in 0..base - 1
    PROVE  d % base = d /\ (d + base) % base = d
  <1>1. d % base = d
    BY Division
  <1>0. PICK y \in Nat : y = d + base
    OBVIOUS
  <1>2. PICK q \in Nat : q = y \div base
    BY Division
  <1>3. PICK r \in 0..base - 1 : r = y % base
    BY Division
  <1>y. y = (y \div base) * base + (y % base)
    BY Division
  <1>4. d + base = q * base + r
    BY <1>0, <1>2, <1>3, <1>y
  <1>5. q # 0
    <2>1. q = 0 => d + base = r
      BY <1>4
    <2>. QED
      BY <2>1
  <1>6. ~(q >= 2)
    <2>. SUFFICES ASSUME q >= 2 PROVE FALSE
      OBVIOUS
    <2>1. q * base >= 2 * base
      OBVIOUS
    <2>2. q * base \in Nat
      OBVIOUS
    <2>. QED
      BY <1>4, <2>1, <2>2
  <1>7. q = 1
    BY <1>5, <1>6
  <1>. QED
    BY <1>0, <1>1, <1>3, <1>4, <1>7

\* h is the varint of x: n bytes, of which the last one is the first without
\* the continuation bit.
IsUvarint(base, x, h, n) ==
    /\ n \in Nat \ {0} /\ h \in Seq(Nat) /\ Len(h) = n
    /\ \A i \in 1..n : (h[i] < base <=> i = n) /\ h[i] % base = Shifted(base, x, i - 1) % base
    /\ Shifted(base, x, n) = 0
    /\ \A m \in Nat \ {0} : Shifted(base, x, m) = 0 => n <= m

\* PutUvarint writes the varint of its number.
LEMMA PutUvarintIs ==
    ASSUME NEW base \in Nat, base >= 2, NEW x \in Nat
    PROVE  \E n : IsUvarint(base, x, PutUvarint(base, x), n)
  <1>. DEFINE C(n) == /\ Shifted(base, x, n - 1) < base
                      /\ \A j \in 1..n - 1 : Shifted(base, x, j - 1) >= base
              n == CHOOSE m \in 1..x + 1 : C(m)
              h == [i \in 1..n |-> (Shifted(base, x, i - 1) % base) + IF i < n THEN base ELSE 0]
  <1>1. \E m \in 1..x + 1 : C(m)
    <2>1. PICK k \in 0..x : Shifted(base, x, k) < base /\ \A j \in 0..k - 1 : Shifted(base, x, j) >= base
      BY ShiftedEnds
    <2>2. k + 1 \in 1..x + 1 /\ (k + 1) - 1 = k
      OBVIOUS
    <2>3. ASSUME NEW j \in 1..(k + 1) - 1 PROVE Shifted(base, x, j - 1) >= base
      <3>1. j - 1 \in 0..k - 1
        OBVIOUS
      <3>. QED
        BY <2>1, <3>1
    <2>4. C(k + 1)
      BY <2>1, <2>2, <2>3
    <2>. QED
      BY <2>2, <2>4
  <1>2. n \in 1..x + 1 /\ C(n)
    <2>. HIDE DEF C
    <2>. QED
      BY <1>1
  <1>3. PutUvarint(base, x) = h
    BY DEF PutUvarint
  <1>. HIDE DEF n
  <1>4. n \in Nat \ {0} /\ n - 1 \in Nat
    BY <1>2
  <1>5. ASSUME NEW i \in 1..n
        PROVE  /\ h[i] \in Nat
               /\ h[i] < base <=> i = n
               /\ h[i] % base = Shifted(base, x, i - 1) % base
    <2>1. i - 1 \in Nat
      BY <1>4
    <2>2. PICK y \in Nat : y = Shifted(base, x, i - 1)
      BY <2>1, ShiftedStep
    <2>3. PICK d \in 0..base - 1 : d = y % base
      BY Division
    <2>4. h[i] = d + IF i < n THEN base ELSE 0
      BY <2>2, <2>3
    <2>5. d % base = d /\ (d + base) % base = d
      BY BitDropped
    <2>. HIDE DEF h
    <2>6. CASE i < n
      <3>1. h[i] = d + base /\ i # n
        BY <1>4, <2>4, <2>6
      <3>. QED
        BY <2>2, <2>3, <2>5, <3>1
    <2>7. CASE ~(i < n)
      <3>1. h[i] = d /\ i = n
        BY <1>4, <2>4, <2>7
      <3>. QED
        BY <2>2, <2>3, <2>5, <3>1
    <2>. QED
      BY <2>6, <2>7
  <1>6. h \in Seq(Nat) /\ Len(h) = n
    BY <1>4, <1>5
  <1>7. Shifted(base, x, n) = 0
    BY <1>2, <1>4, ShiftedZero
  <1>8. ASSUME NEW m \in Nat \ {0}, Shifted(base, x, m) = 0 PROVE n <= m
    <2>. SUFFICES ASSUME m < n PROVE FALSE
      BY <1>4
    <2>1. m - 1 \in Nat /\ (m - 1) + 1 = m /\ m \in 1..n - 1
      BY <1>4
    <2>2. Shifted(base, x, m) \in Nat
      BY ShiftedStep
    <2>3. Shifted(base, x, m - 1) >= base
      BY <1>2, <2>1
    <2>4. PICK y \in Nat : y = Shifted(base, x, m - 1)
      BY <2>1, ShiftedStep
    <2>5. y \div base = 0
      BY <1>8, <2>1, <2>4, ShiftedStep
    <2>6. y = (y \div base) * base + (y % base) /\ y % base \in 0..base - 1
      BY Division
    <2>. QED
      BY <2>3, <2>4, <2>5, <2>6
  <1>. HIDE DEF h
  <1>. QED
    BY <1>3, <1>4, <1>5, <1>6, <1>7, <1>8 DEF IsUvarint

\* As much of h as s has is in front of s.
Starts(s, h) == \A i \in 1..Len(s) : i <= Len(h) => s[i] = h[i]

\* Bytes that start with a whole varint give its value and length; bytes
\* that are a part of one give nothing.
LEMMA UvarintOf ==
    ASSUME NEW base \in Nat, base >= 2, NEW x \in Nat, NEW h, NEW n, IsUvarint(base, x, h, n),
           NEW s \in Seq(Nat), Starts(s, h)
    PROVE  /\ Len(s) < n => UvarintLen(base, s) = 0
           /\ Len(s) >= n => UvarintLen(base, s) = n /\ Uvarint(base, s) = x
  <1>0. /\ n \in Nat \ {0} /\ h \in Seq(Nat) /\ Len(h) = n
        /\ \A i \in 1..n : (h[i] < base <=> i = n) /\ h[i] % base = Shifted(base, x, i - 1) % base
        /\ Shifted(base, x, n) = 0
    BY DEF IsUvarint
  <1>1. PICK l \in Nat : l = Len(s)
    OBVIOUS
  <1>2. \A i \in 1..l : i <= n => s[i] = h[i]
    BY <1>0, <1>1 DEF Starts
  <1>. DEFINE ends == {i \in 1..Len(s) : s[i] < base}
  <1>3. UvarintLen(base, s) = IF ends = {} THEN 0 ELSE CHOOSE i \in ends : \A j \in ends : i <= j
    BY DEF UvarintLen
  <1>4. ASSUME l < n PROVE UvarintLen(base, s) = 0
    <2>1. ASSUME NEW i \in 1..Len(s) PROVE ~(s[i] < base)
      <3>1. i \in 1..l /\ i <= n /\ i \in 1..n /\ i # n
        BY <1>0, <1>1, <1>4
      <3>. QED
        BY <1>0, <1>2, <3>1
    <2>2. ends = {}
      BY <2>1
    <2>. QED
      BY <1>3, <2>2
  <1>5. ASSUME l >= n PROVE UvarintLen(base, s) = n /\ Uvarint(base, s) = x
    <2>1. n \in ends
      <3>1. n \in 1..l /\ n <= n /\ n \in 1..n
        BY <1>0, <1>5
      <3>. QED
        BY <1>0, <1>1, <1>2, <3>1
    <2>2. ASSUME NEW j \in ends PROVE n <= j
      <3>. SUFFICES ASSUME j < n PROVE FALSE
        BY <1>0
      <3>1. j \in 1..l /\ j <= n /\ j \in 1..n /\ j # n
        BY <1>0, <1>1
      <3>. QED
        BY <1>0, <1>2, <3>1
    <2>3. ASSUME NEW i \in ends, \A j \in ends : i <= j PROVE i = n
      <3>1. i \in Nat /\ n \in Nat
        BY <1>0
      <3>2. i <= n /\ n <= i
        BY <2>1, <2>2, <2>3
      <3>. QED
        BY <3>1, <3>2
    <2>4. UvarintLen(base, s) = n
      <3>. HIDE DEF ends
      <3>. QED
        BY <1>3, <2>1, <2>2, <2>3
    <2>. DEFINE ds == [i \in 1..n |-> s[n + 1 - i] % base]
    <2>5. Uvarint(base, s) = Number(base, ds)
      BY <2>4 DEF Uvarint
    <2>6. Len(ds) = n
      BY <1>0
    <2>7. ASSUME NEW i \in 1..n PROVE ds[i] = Shifted(base, x, n - i) % base
      <3>1. n + 1 - i \in 1..n /\ n + 1 - i \in 1..l /\ n + 1 - i <= n /\ (n + 1 - i) - 1 = n - i
        BY <1>0, <1>5
      <3>2. s[n + 1 - i] = h[n + 1 - i]
        BY <1>2, <3>1
      <3>3. h[n + 1 - i] % base = Shifted(base, x, (n + 1 - i) - 1) % base
        BY <1>0, <3>1
      <3>. QED
        BY <3>1, <3>2, <3>3
    <2>. HIDE DEF ds
    <2>8. Number(base, ds) = x
      BY <1>0, <2>6, <2>7, NumberOfDigits
    <2>. QED
      BY <2>4, <2>5, <2>8
  <1>. QED
    BY <1>1, <1>4, <1>5

-----------------------------------------------------------------------------
(***************************************************************************)
(* Streams.                                                                *)
(***************************************************************************)

\* Three sequences may be joined in either order.
Joined(a, b, c) == (a \o b) \o c = a \o (b \o c)

LEMMA JoinThree ==
    ASSUME NEW B
    PROVE  \A a, b, c \in Seq(B) : Joined(a, b, c)
  BY ConcatAssociative DEF Joined

\* The same for bytes.
LEMMA JoinBytes == \A a, b, c \in Seq(Nat) : Joined(a, b, c)
  BY JoinThree

\* The sequences of ss one after the other.
Joins(w, ss, n) == w[0] = <<>> /\ \A i \in 1..n : w[i] = w[i - 1] \o ss[i]

\* FlattenSeq joins the sequences.
LEMMA FlattenRun ==
    ASSUME NEW B, NEW ss \in Seq(Seq(B)), NEW n \in Nat, n = Len(ss), NEW w, Joins(w, ss, n)
    PROVE  FlattenSeq(ss) = w[n]
  <1>j. w[0] = <<>> /\ \A i \in 1..n : w[i] = w[i - 1] \o ss[i]
    BY DEF Joins
  <1>1. CASE n = 0
    <2>1. Len(ss) = 0 /\ ss = <<>>
      BY <1>1, EmptySeq
    <2>2. FlattenSeq(ss) = ss
      BY <2>1 DEF FlattenSeq
    <2>. QED
      BY <1>j, <1>1, <2>1, <2>2
  <1>2. CASE n # 0
    <2>. DEFINE F(g) == [i \in 1..Len(ss) |-> IF i = 1 THEN ss[i] ELSE g[i - 1] \o ss[i]]
                q == CHOOSE g : g = F(g)
                v == [i \in 1..n |-> w[i]]
    <2>0. w[1] = ss[1]
      <3>1. 1 \in 1..n /\ 1 - 1 = 0
        BY <1>2
      <3>2. ss[1] \in Seq(B)
        BY <3>1
      <3>3. w[1] = <<>> \o ss[1]
        BY <1>j, <3>1
      <3>. QED
        BY <3>2, <3>3, ConcatEmptySeq
    <2>a. ASSUME NEW i \in 1..n PROVE v[i] = IF i = 1 THEN ss[i] ELSE v[i - 1] \o ss[i]
      <3>1. CASE i = 1
        BY <2>0, <3>1
      <3>2. CASE i # 1
        <4>1. i - 1 \in 1..n
          BY <3>2
        <4>. QED
          BY <1>j, <3>2, <4>1
      <3>. QED
        BY <3>1, <3>2
    <2>1. v = F(v)
      <3>1. v = [i \in 1..n |-> v[i]]
        OBVIOUS
      <3>. HIDE DEF v
      <3>. QED
        BY <2>a, <3>1
    <2>2. q = F(q)
      BY <2>1
    <2>b. q = [i \in 1..n |-> IF i = 1 THEN ss[i] ELSE q[i - 1] \o ss[i]]
      <3>. HIDE DEF q
      <3>. QED
        BY <2>2
    <2>3. FlattenSeq(ss) = q[n]
      BY <1>2 DEF FlattenSeq
    <2>. HIDE DEF q
    <2>4. q[1] = ss[1] /\ \A i \in 2..n : q[i] = q[i - 1] \o ss[i]
      <3>1. 1 \in 1..n /\ \A i \in 2..n : i \in 1..n /\ i # 1
        BY <1>2
      <3>. QED
        BY <2>b, <3>1
    <2>. DEFINE T == {i \in Nat : i + 1 <= n => q[i + 1] = w[i + 1]}
    <2>5. 0 \in T
      BY <2>0, <2>4
    <2>6. ASSUME NEW i \in T PROVE i + 1 \in T
      <3>. SUFFICES ASSUME (i + 1) + 1 <= n PROVE q[(i + 1) + 1] = w[(i + 1) + 1]
        OBVIOUS
      <3>1. (i + 1) + 1 \in 2..n /\ (i + 1) + 1 \in 1..n /\ ((i + 1) + 1) - 1 = i + 1 /\ i + 1 <= n
        OBVIOUS
      <3>2. q[i + 1] = w[i + 1]
        BY <3>1
      <3>. QED
        BY <1>j, <2>4, <3>1, <3>2
    <2>7. T \subseteq Nat
      OBVIOUS
    <2>8. T = Nat
      <3>. HIDE DEF T
      <3>. QED
        BY <2>5, <2>6, <2>7, InductiveSet
    <2>9. n - 1 \in Nat /\ (n - 1) + 1 = n
      BY <1>2
    <2>10. n - 1 \in T
      BY <2>8, <2>9
    <2>11. q[n] = w[n]
      BY <2>9, <2>10
    <2>. QED
      BY <2>3, <2>11
  <1>. QED
    BY <1>1, <1>2

\* A sequence more at the end is appended.
LEMMA FlattenAppend ==
    ASSUME NEW B, NEW ss \in Seq(Seq(B)), NEW s \in Seq(B)
    PROVE  /\ FlattenSeq(ss) \in Seq(B)
           /\ FlattenSeq(Append(ss, s)) = FlattenSeq(ss) \o s
  <1>1. PICK n \in Nat : n = Len(ss)
    OBVIOUS
  <1>. DEFINE tt == Append(ss, s)
              g == [i \in 1..n + 1 |-> [t \in Seq(B) |-> t \o tt[i]]]
  <1>2. /\ tt \in Seq(Seq(B)) /\ Len(tt) = n + 1
        /\ tt[n + 1] = s /\ \A i \in 1..n : tt[i] = ss[i]
    BY <1>1, AppendProperties
  <1>. HIDE DEF tt
  <1>3. ASSUME NEW i \in 1..n + 1, NEW t \in Seq(B) PROVE g[i][t] = t \o tt[i] /\ g[i][t] \in Seq(B)
    <2>1. tt[i] \in Seq(B)
      BY <1>2
    <2>2. t \o tt[i] \in Seq(B)
      BY <2>1, ConcatProperties
    <2>. QED
      BY <2>2
  <1>. HIDE DEF g
  <1>4. n + 1 \in Nat /\ StaysIn(Seq(B), n + 1, g) /\ <<>> \in Seq(B)
    BY <1>3 DEF StaysIn
  <1>5. PICK w \in [0..n + 1 -> Seq(B)] : IsRun(w, n + 1, <<>>, g)
    BY <1>4, LoopRuns
  <1>6. w[0] = <<>> /\ \A i \in 1..n + 1 : w[i] = g[i][w[i - 1]]
    BY <1>5 DEF IsRun
  <1>7. ASSUME NEW i \in 1..n + 1 PROVE w[i] = w[i - 1] \o tt[i]
    <2>1. i - 1 \in 0..n + 1
      OBVIOUS
    <2>2. w[i - 1] \in Seq(B)
      BY <2>1
    <2>. QED
      BY <1>3, <1>6, <2>2
  <1>8. Joins(w, tt, n + 1)
    BY <1>6, <1>7 DEF Joins
  <1>9. Joins(w, ss, n)
    <2>1. ASSUME NEW i \in 1..n PROVE w[i] = w[i - 1] \o ss[i]
      <3>1. i \in 1..n + 1
        OBVIOUS
      <3>. QED
        BY <1>2, <1>7, <3>1
    <2>. QED
      BY <1>6, <2>1 DEF Joins
  <1>10. FlattenSeq(tt) = w[n + 1]
    BY <1>2, <1>4, <1>8, FlattenRun
  <1>11. FlattenSeq(ss) = w[n]
    BY <1>1, <1>9, FlattenRun
  <1>12. n \in 0..n + 1 /\ n + 1 \in 1..n + 1 /\ (n + 1) - 1 = n
    OBVIOUS
  <1>13. w[n + 1] = w[n] \o s /\ w[n] \in Seq(B)
    BY <1>2, <1>7, <1>12
  <1>. QED
    BY <1>10, <1>11, <1>13 DEF tt

\* What is left of a stream of sequences when k of them have been taken.
Rest(ss, k) == FlattenSeq(SubSeq(ss, k + 1, Len(ss)))

\* The rest grows at its end.
LEMMA RestAppend ==
    ASSUME NEW B, NEW ss \in Seq(Seq(B)), NEW s \in Seq(B), NEW k \in 0..Len(ss)
    PROVE  Rest(ss, k) \in Seq(B) /\ Rest(Append(ss, s), k) = Rest(ss, k) \o s
  <1>1. PICK n \in Nat : n = Len(ss)
    OBVIOUS
  <1>. DEFINE tt == SubSeq(ss, k + 1, n)
  <1>2. tt \in Seq(Seq(B)) /\ Len(tt) = n - k /\ \A i \in 1..n - k : tt[i] = ss[k + i]
    <2>1. \A i \in k + 1..n : ss[i] \in Seq(B)
      BY <1>1
    <2>. QED
      BY <1>1, <2>1, SubSeqProperties
  <1>3. SubSeq(Append(ss, s), k + 1, n + 1) = Append(tt, s)
    <2>0. PICK aa : aa = Append(ss, s)
      OBVIOUS
    <2>1. aa \in Seq(Seq(B)) /\ Len(aa) = n + 1 /\ aa[n + 1] = s /\ \A i \in 1..n : aa[i] = ss[i]
      BY <1>1, <2>0, AppendProperties
    <2>2. k + 1 \in 1..n + 1 /\ n + 1 \in k + 1..n + 1 /\ (n + 1) - 1 = n
      BY <1>1
    <2>3. SubSeq(aa, k + 1, n + 1) = SubSeq(aa, k + 1, n) \o <<aa[n + 1]>>
      BY <2>1, <2>2, SubSeqRecursiveSecond
    <2>4. SubSeq(aa, k + 1, n) = tt
      <3>1. ASSUME NEW i \in k + 1..n PROVE aa[i] = ss[i] /\ aa[i] \in Seq(B)
        <4>1. i \in 1..n
          BY <1>1
        <4>. QED
          BY <1>1, <2>1, <4>1
      <3>2. PICK bb : bb = SubSeq(aa, k + 1, n)
        OBVIOUS
      <3>3. bb \in Seq(Seq(B)) /\ Len(bb) = n - k /\ \A i \in 1..n - k : bb[i] = aa[k + i]
        BY <1>1, <3>1, <3>2, SubSeqProperties
      <3>4. ASSUME NEW i \in 1..n - k PROVE bb[i] = tt[i]
        <4>1. k + i \in k + 1..n
          BY <1>1
        <4>. QED
          BY <1>2, <3>1, <3>3, <4>1
      <3>. HIDE DEF tt
      <3>. QED
        BY <1>2, <3>2, <3>3, <3>4, SeqEqual
    <2>5. tt \o <<s>> = Append(tt, s)
      BY <1>2, AppendIsConcat
    <2>. QED
      BY <2>0, <2>1, <2>3, <2>4, <2>5
  <1>4. Len(Append(ss, s)) = n + 1
    BY <1>1, AppendProperties
  <1>5. Rest(ss, k) = FlattenSeq(tt) /\ Rest(Append(ss, s), k) = FlattenSeq(Append(tt, s))
    BY <1>1, <1>3, <1>4 DEF Rest
  <1>. HIDE DEF tt
  <1>. QED
    BY <1>2, <1>5, FlattenAppend

\* Nothing is left when all of them have been taken.
LEMMA RestEmpty ==
    ASSUME NEW B, NEW ss \in Seq(Seq(B))
    PROVE  Rest(ss, Len(ss)) = <<>>
  <1>1. PICK n \in Nat : n = Len(ss)
    OBVIOUS
  <1>2. SubSeq(ss, n + 1, n) = <<>>
    BY SubSeqEmpty
  <1>3. FlattenSeq(<<>>) = <<>>
    BY DEF FlattenSeq
  <1>. QED
    BY <1>1, <1>2, <1>3 DEF Rest

\* If the next one is in front of what is left, it is so when one is added.
LEMMA RestNextStep ==
    ASSUME NEW B, NEW ss \in Seq(Seq(B)), NEW s \in Seq(B), NEW k \in 0..Len(ss) - 1,
           Rest(ss, k) = ss[k + 1] \o Rest(ss, k + 1)
    PROVE  Rest(Append(ss, s), k) = Append(ss, s)[k + 1] \o Rest(Append(ss, s), k + 1)
  <1>1. k \in 0..Len(ss) /\ k + 1 \in 0..Len(ss) /\ k + 1 \in 1..Len(ss)
    OBVIOUS
  <1>2. Append(ss, s)[k + 1] = ss[k + 1] /\ ss[k + 1] \in Seq(B)
    BY <1>1, AppendProperties
  <1>3. Rest(Append(ss, s), k) = Rest(ss, k) \o s
    BY <1>1, RestAppend
  <1>4. Rest(Append(ss, s), k + 1) = Rest(ss, k + 1) \o s /\ Rest(ss, k + 1) \in Seq(B)
    BY <1>1, RestAppend
  <1>5. PICK a \in Seq(B) : a = ss[k + 1]
    BY <1>2
  <1>6. PICK b \in Seq(B) : b = Rest(ss, k + 1)
    BY <1>4
  <1>7. (a \o b) \o s = a \o (b \o s)
    <2>1. Joined(a, b, s)
      BY JoinThree
    <2>. QED
      BY <2>1 DEF Joined
  <1>. QED
    BY <1>2, <1>3, <1>4, <1>5, <1>6, <1>7

\* The next one is in front of what is left.
LEMMA RestNext ==
    ASSUME NEW B, NEW ss \in Seq(Seq(B)), NEW k \in 0..Len(ss) - 1
    PROVE  Rest(ss, k) = ss[k + 1] \o Rest(ss, k + 1)
  <1>. DEFINE P(n) == \A tt \in Seq(Seq(B)) : Len(tt) = k + 1 + n => Rest(tt, k) = tt[k + 1] \o Rest(tt, k + 1)
              T == {n \in Nat : P(n)}
  <1>k. k \in Nat /\ k + 1 \in Nat
    OBVIOUS
  <1>1. 0 \in T
    <2>1. ASSUME NEW tt \in Seq(Seq(B)), Len(tt) = k + 1 + 0
          PROVE  Rest(tt, k) = tt[k + 1] \o Rest(tt, k + 1)
      <3>1. tt[k + 1] \in Seq(B) /\ Len(tt) = k + 1
        BY <1>k, <2>1
      <3>2. SubSeq(tt, k + 1, k + 1) = <<tt[k + 1]>>
        <4>1. k + 1 \in 1..Len(tt) /\ k + 1 \in k + 1..Len(tt) /\ (k + 1) - 1 = k /\ k < k + 1
          BY <1>k, <3>1
        <4>2. SubSeq(tt, k + 1, k + 1) = SubSeq(tt, k + 1, k) \o <<tt[k + 1]>>
          BY <4>1, SubSeqRecursiveSecond
        <4>3. SubSeq(tt, k + 1, k) = <<>>
          BY <4>1, SubSeqEmpty
        <4>4. <<tt[k + 1]>> \in Seq(Seq(B))
          BY <3>1
        <4>. QED
          BY <4>2, <4>3, <4>4, ConcatEmptySeq
      <3>3. Rest(tt, k) = FlattenSeq(<<tt[k + 1]>>)
        BY <3>1, <3>2 DEF Rest
      <3>4. <<tt[k + 1]>> = Append(<<>>, tt[k + 1]) /\ <<>> \in Seq(Seq(B))
        BY <3>1
      <3>5. FlattenSeq(<<tt[k + 1]>>) = FlattenSeq(<<>>) \o tt[k + 1]
        BY <3>1, <3>4, FlattenAppend
      <3>6. FlattenSeq(<<>>) = <<>>
        BY DEF FlattenSeq
      <3>7. Rest(tt, k + 1) = <<>>
        BY <3>1, RestEmpty
      <3>8. <<>> \o tt[k + 1] = tt[k + 1] /\ tt[k + 1] \o <<>> = tt[k + 1]
        BY <3>1, ConcatEmptySeq
      <3>. QED
        BY <3>3, <3>5, <3>6, <3>7, <3>8
    <2>. QED
      BY <2>1
  <1>2. ASSUME NEW n \in T PROVE n + 1 \in T
    <2>0. n \in Nat /\ P(n)
      OBVIOUS
    <2>1. ASSUME NEW tt \in Seq(Seq(B)), Len(tt) = k + 1 + (n + 1)
          PROVE  Rest(tt, k) = tt[k + 1] \o Rest(tt, k + 1)
      <3>1. tt # <<>>
        BY <1>k, <2>0, <2>1
      <3>2. PICK uu \in Seq(Seq(B)), s \in Seq(B) : tt = Append(uu, s)
        BY <3>1, SequenceEmptyOrAppend
      <3>3. Len(uu) = k + 1 + n /\ k + 1 \in 1..Len(uu) /\ k \in 0..Len(uu) /\ k + 1 \in 0..Len(uu)
        BY <1>k, <2>0, <2>1, <3>2
      <3>4. Rest(uu, k) = uu[k + 1] \o Rest(uu, k + 1)
        BY <2>0, <3>3
      <3>5. k \in 0..Len(uu) - 1
        BY <1>k, <3>3
      <3>. QED
        BY <3>2, <3>4, <3>5, RestNextStep
    <2>2. P(n + 1)
      BY <2>1
    <2>. HIDE DEF P
    <2>. QED
      BY <2>0, <2>2
  <1>3. T \subseteq Nat
    OBVIOUS
  <1>4. T = Nat
    <2>. HIDE DEF T
    <2>. QED
      BY <1>1, <1>2, <1>3, InductiveSet
  <1>5. PICK n \in Nat : Len(ss) = k + 1 + n
    <2>1. Len(ss) - (k + 1) \in Nat /\ Len(ss) = k + 1 + (Len(ss) - (k + 1))
      OBVIOUS
    <2>. QED
      BY <2>1
  <1>6. P(n)
    BY <1>4
  <1>. QED
    BY <1>5, <1>6

-----------------------------------------------------------------------------
(***************************************************************************)
(* The frame codecs.  The bytes of a message that a codec can carry are    *)
(* decoded to the message, whatever follows them in the stream.            *)
(***************************************************************************)

\* A message between a header and what follows.
LEMMA CutBehind ==
    ASSUME NEW h \in Seq(Nat), NEW m \in Seq(Nat), NEW rest \in Seq(Nat)
    PROVE  /\ (h \o m) \o rest \in Seq(Nat) /\ Len((h \o m) \o rest) = Len(h) + Len(m) + Len(rest)
           /\ \A i \in 1..Len(h) : ((h \o m) \o rest)[i] = h[i]
           /\ SubSeq((h \o m) \o rest, Len(h) + 1, Len(h) + Len(m)) = m
           /\ Cut((h \o m) \o rest, Len(h), Len(m)) = [take |-> Len(h) + Len(m), frame |-> m]
  <1>1. PICK a \in Nat, b \in Nat, c \in Nat : a = Len(h) /\ b = Len(m) /\ c = Len(rest)
    OBVIOUS
  <1>2. PICK e \in Seq(Nat) : e = h \o m
    BY ConcatProperties
  <1>3. PICK s \in Seq(Nat) : s = e \o rest
    BY ConcatProperties
  <1>4. /\ Len(e) = a + b
        /\ \A i \in 1..a + b : e[i] = IF i <= a THEN h[i] ELSE m[i - a]
    BY <1>1, <1>2, ConcatProperties
  <1>d. PICK d \in Nat : d = a + b
    OBVIOUS
  <1>s. Len(s) = d + c /\ \A i \in 1..d + c : s[i] = IF i <= d THEN e[i] ELSE rest[i - d]
    <2>1. /\ Len(s) = Len(e) + Len(rest)
          /\ \A i \in 1..Len(e) + Len(rest) : s[i] = IF i <= Len(e) THEN e[i] ELSE rest[i - Len(e)]
      BY <1>3, ConcatProperties
    <2>2. Len(e) = d /\ Len(rest) = c
      BY <1>1, <1>4, <1>d
    <2>. QED
      BY <2>1, <2>2
  <1>5. /\ Len(s) = a + b + c
        /\ \A i \in 1..a + b + c : s[i] = IF i <= a + b THEN e[i] ELSE rest[i - (a + b)]
    BY <1>d, <1>s
  <1>6. ASSUME NEW i \in 1..a PROVE s[i] = h[i]
    <2>1. i \in 1..a + b + c /\ i <= a + b /\ i \in 1..a + b /\ i <= a
      OBVIOUS
    <2>. QED
      BY <1>4, <1>5, <2>1
  <1>7. ASSUME NEW i \in 1..b PROVE s[a + i] = m[i]
    <2>1. a + i \in 1..a + b + c /\ a + i <= a + b /\ a + i \in 1..a + b /\ ~(a + i <= a) /\ (a + i) - a = i
      OBVIOUS
    <2>. QED
      BY <1>4, <1>5, <2>1
  <1>8. PICK t : t = SubSeq(s, a + 1, a + b)
    OBVIOUS
  <1>9. t \in Seq(Nat) /\ Len(t) = b /\ \A i \in 1..b : t[i] = s[a + i]
    <2>1. \A i \in a + 1..a + b : s[i] \in Nat
      BY <1>5
    <2>2. a + 1 \in Int /\ a + b \in Int
      OBVIOUS
    <2>3. /\ t \in Seq(Nat) /\ Len(t) = IF a + 1 <= a + b THEN (a + b) - (a + 1) + 1 ELSE 0
          /\ \A i \in 1..(a + b) - (a + 1) + 1 : t[i] = s[(a + 1) + i - 1]
      BY <1>8, <2>1, <2>2, SubSeqProperties
    <2>4. (a + b) - (a + 1) + 1 = b /\ (a + 1 <= a + b <=> b # 0) /\ \A i \in 1..b : (a + 1) + i - 1 = a + i
      OBVIOUS
    <2>. QED
      BY <2>3, <2>4
  <1>10. t = m
    <2>1. \A i \in 1..Len(t) : t[i] = m[i]
      BY <1>7, <1>9
    <2>. QED
      BY <1>1, <1>9, <2>1, SeqEqual
  <1>11. Cut(s, a, b) = [take |-> a + b, frame |-> m]
    <2>1. ~(Len(s) < a + b)
      BY <1>5
    <2>. QED
      BY <1>8, <1>10, <2>1 DEF Cut
  <1>. QED
    BY <1>1, <1>2, <1>3, <1>5, <1>6, <1>8, <1>10, <1>11

\* Bytes and their numbers.
LEMMA FrmConstants ==
    /\ ByteValues \in Nat /\ ByteValues >= 4 /\ Half \in Nat /\ Half >= 2
    /\ Messages \subseteq Seq(Nat) /\ Delimiter \in Seq(Nat) /\ Len(Delimiter) \in Nat \ {0}
    /\ FixedLength \in Nat \ {0} /\ MaxLength \in Nat
    /\ FieldLengths \subseteq Nat \ {0}
  <1>1. ByteValues \in Nat /\ ByteValues >= 4
    BY FrmAssumption
  <1>2. Half \in Nat /\ Half >= 2
    BY <1>1 DEF Half
  <1>3. ASSUME NEW m \in Seq(0..ByteValues - 1) PROVE m \in Seq(Nat)
    <2>1. 0..ByteValues - 1 \subseteq Nat
      OBVIOUS
    <2>. QED
      BY <2>1, SeqMonotonic
  <1>4. Len(Delimiter) \in Nat \ {0}
    BY FrmAssumption, EmptySeq
  <1>. QED
    BY <1>1, <1>2, <1>3, <1>4, FrmAssumption

\* The length field.
LEMMA LengthFieldDecodes ==
    ASSUME fieldLength \in FieldLengths, NEW m \in Seq(Nat), NEW rest \in Seq(Nat),
           Shifted(ByteValues, Len(m), fieldLength) = 0, Len(m) + fieldLength <= MaxLength
    PROVE  /\ packFieldLength(fieldLength, Len(m)) \in Seq(Nat)
           /\ Len(packFieldLength(fieldLength, Len(m))) = fieldLength
           /\ LengthFieldCodec(LengthFieldPrepender(m) \o rest) = [take |-> fieldLength + Len(m), frame |-> m]
  <1>0. ByteValues \in Nat /\ ByteValues >= 2 /\ MaxLength \in Nat /\ fieldLength \in Nat
    BY FrmConstants
  <1>1. PICK n \in Nat : n = Len(m)
    OBVIOUS
  <1>2. PICK f \in Nat : f = fieldLength
    BY <1>0
  <1>. DEFINE d(i) == Shifted(ByteValues, n, f - i) % ByteValues
  <1>3. PICK h : h = [i \in 1..f |-> d(i)]
    OBVIOUS
  <1>4. ASSUME NEW i \in 1..f PROVE d(i) \in Nat
    <2>1. f - i \in Nat
      OBVIOUS
    <2>2. Shifted(ByteValues, n, f - i) \in Nat
      BY <1>0, <2>1, ShiftedStep
    <2>3. PICK y \in Nat : y = Shifted(ByteValues, n, f - i)
      BY <2>2
    <2>4. y % ByteValues \in 0..ByteValues - 1
      BY <1>0, Division
    <2>. QED
      BY <1>0, <2>3, <2>4
  <1>. HIDE DEF d
  <1>5. h \in Seq(Nat) /\ Len(h) = f
    BY <1>3, <1>4
  <1>6. packFieldLength(fieldLength, Len(m)) = h /\ LengthFieldPrepender(m) = h \o m
    BY <1>1, <1>2, <1>3 DEF packFieldLength, LengthFieldPrepender, d
  <1>7. PICK s : s = (h \o m) \o rest
    OBVIOUS
  <1>s. /\ s \in Seq(Nat) /\ Len(s) = Len(h) + Len(m) + Len(rest)
        /\ \A i \in 1..Len(h) : s[i] = h[i]
        /\ Cut(s, Len(h), Len(m)) = [take |-> Len(h) + Len(m), frame |-> m]
    BY <1>5, <1>7, CutBehind
  <1>8. /\ s \in Seq(Nat) /\ Len(s) = f + n + Len(rest)
        /\ \A i \in 1..f : s[i] = h[i]
        /\ Cut(s, f, n) = [take |-> f + n, frame |-> m]
    BY <1>1, <1>5, <1>s
  <1>9. PICK ds : ds = SubSeq(s, 1, f)
    OBVIOUS
  <1>10. Len(ds) = f /\ \A i \in 1..f : ds[i] = s[i]
    <2>1. \A i \in 1..f : s[i] \in Nat
      BY <1>8
    <2>2. Len(ds) = (IF 1 <= f THEN f - 1 + 1 ELSE 0) /\ \A i \in 1..f - 1 + 1 : ds[i] = s[1 + i - 1]
      BY <1>9, <2>1, SubSeqProperties
    <2>. QED
      BY <2>2
  <1>11. \A i \in 1..f : ds[i] = Shifted(ByteValues, n, f - i) % ByteValues
    BY <1>3, <1>8, <1>10 DEF d
  <1>12. Shifted(ByteValues, n, f) = 0
    BY <1>1, <1>2
  <1>13. Number(ByteValues, ds) = n
    BY <1>0, <1>10, <1>11, <1>12, NumberOfDigits
  <1>14. unpackFieldLength(fieldLength, s) = n
    BY <1>2, <1>9, <1>13 DEF unpackFieldLength
  <1>15. ~(Len(s) < f) /\ ~(n + f > MaxLength)
    BY <1>0, <1>1, <1>2, <1>8
  <1>16. LengthFieldCodec(s) = [take |-> f + n, frame |-> m]
    BY <1>2, <1>8, <1>14, <1>15 DEF LengthFieldCodec
  <1>. QED
    BY <1>1, <1>2, <1>5, <1>6, <1>7, <1>16

\* The varint.
LEMMA VarintDecodes ==
    ASSUME NEW m \in Seq(Nat), NEW rest \in Seq(Nat), Len(m) <= MaxLength
    PROVE  /\ PutUvarint(Half, Len(m)) \in Seq(Nat) /\ PutUvarint(Half, Len(m)) # <<>>
           /\ VarintLengthFieldCodec((PutUvarint(Half, Len(m)) \o m) \o rest)
                = [take |-> Len(PutUvarint(Half, Len(m))) + Len(m), frame |-> m]
  <1>0. Half \in Nat /\ Half >= 2 /\ MaxLength \in Nat
    BY FrmConstants
  <1>1. PICK n \in Nat : n = Len(m)
    OBVIOUS
  <1>2. PICK h : h = PutUvarint(Half, n)
    OBVIOUS
  <1>3. PICK l : IsUvarint(Half, n, h, l)
    BY <1>0, <1>2, PutUvarintIs
  <1>4. l \in Nat \ {0} /\ h \in Seq(Nat) /\ Len(h) = l
    BY <1>3 DEF IsUvarint
  <1>5. PICK s : s = (h \o m) \o rest
    OBVIOUS
  <1>h. h \in Seq(Nat)
    BY <1>4
  <1>s. /\ s \in Seq(Nat) /\ Len(s) = Len(h) + Len(m) + Len(rest)
        /\ \A i \in 1..Len(h) : s[i] = h[i]
        /\ Cut(s, Len(h), Len(m)) = [take |-> Len(h) + Len(m), frame |-> m]
    BY <1>5, <1>h, CutBehind
  <1>6. /\ s \in Seq(Nat) /\ Len(s) = l + n + Len(rest)
        /\ \A i \in 1..l : s[i] = h[i]
        /\ Cut(s, l, n) = [take |-> l + n, frame |-> m]
    BY <1>1, <1>4, <1>s
  <1>7. Starts(s, h)
    BY <1>4, <1>6 DEF Starts
  <1>8. Len(s) >= l
    BY <1>4, <1>6
  <1>9. UvarintLen(Half, s) = l /\ Uvarint(Half, s) = n
    BY <1>0, <1>3, <1>6, <1>7, <1>8, UvarintOf
  <1>10. ~(n > MaxLength) /\ l # 0
    BY <1>0, <1>1, <1>4
  <1>11. VarintLengthFieldCodec(s) = [take |-> l + n, frame |-> m]
    BY <1>6, <1>9, <1>10 DEF VarintLengthFieldCodec
  <1>12. h # <<>>
    BY <1>4
  <1>. QED
    BY <1>1, <1>2, <1>4, <1>5, <1>11, <1>12

\* The front of a sequence.
LEMMA FrontIs ==
    ASSUME NEW s \in Seq(Nat), NEW m \in Seq(Nat), Len(m) <= Len(s), \A i \in 1..Len(m) : s[i] = m[i]
    PROVE  SubSeq(s, 1, Len(m)) = m
  <1>1. PICK n \in Nat : n = Len(m)
    OBVIOUS
  <1>2. PICK t : t = SubSeq(s, 1, n)
    OBVIOUS
  <1>3. /\ t \in Seq(Nat) /\ Len(t) = IF 1 <= n THEN n - 1 + 1 ELSE 0
        /\ \A i \in 1..n - 1 + 1 : t[i] = s[1 + i - 1]
    <2>1. \A i \in 1..n : s[i] \in Nat
      BY <1>1
    <2>. QED
      BY <1>2, <2>1, SubSeqProperties
  <1>4. Len(t) = n /\ \A i \in 1..n : t[i] = s[i]
    BY <1>3
  <1>5. t = m
    BY <1>1, <1>3, <1>4, SeqEqual
  <1>. QED
    BY <1>1, <1>2, <1>5

\* The fixed length.
LEMMA FixedLengthDecodes ==
    ASSUME NEW m \in Seq(Nat), NEW rest \in Seq(Nat), Len(m) = FixedLength
    PROVE  FixedLengthCodec(m \o rest) = [take |-> Len(m), frame |-> m]
  <1>1. PICK n \in Nat : n = Len(m)
    OBVIOUS
  <1>2. PICK s : s = m \o rest
    OBVIOUS
  <1>3. s \in Seq(Nat) /\ Len(s) = Len(m) + Len(rest)
    BY <1>2, ConcatProperties
  <1>4. \A i \in 1..Len(m) : s[i] = m[i]
    BY <1>2, ConcatProperties
  <1>5. Len(m) <= Len(s)
    BY <1>3
  <1>6. SubSeq(s, 1, n) = m
    BY <1>1, <1>3, <1>4, <1>5, FrontIs
  <1>7. ~(Len(s) < 0 + n) /\ 0 + n = n /\ 0 + 1 = 1
    BY <1>1, <1>5
  <1>8. Cut(s, 0, n) = [take |-> n, frame |-> m]
    BY <1>6, <1>7 DEF Cut
  <1>. QED
    BY <1>1, <1>2, <1>8 DEF FixedLengthCodec

\* The delimiter.
LEMMA DelimiterDecodes ==
    ASSUME NEW m \in Seq(Nat), NEW rest \in Seq(Nat),
           Len(m \o Delimiter) <= MaxLength,
           \A i \in 1..Len(m \o Delimiter) - Len(Delimiter) :
              SubSeq(m \o Delimiter, i, i + Len(Delimiter) - 1) # Delimiter
    PROVE  DelimiterCodec((m \o Delimiter) \o rest) = [take |-> Len(m \o Delimiter), frame |-> m]
  <1>0. Delimiter \in Seq(Nat) /\ Len(Delimiter) \in Nat \ {0} /\ MaxLength \in Nat
    BY FrmConstants
  <1>1. PICK d \in Nat \ {0} : d = Len(Delimiter)
    BY <1>0
  <1>2. PICK n \in Nat : n = Len(m)
    OBVIOUS
  <1>3. PICK e \in Seq(Nat) : e = m \o Delimiter
    BY <1>0, ConcatProperties
  <1>4. Len(e) = n + d
    <2>1. Len(e) = Len(m) + Len(Delimiter)
      BY <1>0, <1>3, ConcatProperties
    <2>. QED
      BY <1>1, <1>2, <2>1
  <1>5. PICK s \in Seq(Nat) : s = e \o rest
    BY ConcatProperties
  <1>6. /\ Len(s) = Len(m) + Len(Delimiter) + Len(rest)
        /\ \A i \in 1..Len(m) : s[i] = m[i]
        /\ SubSeq(s, Len(m) + 1, Len(m) + Len(Delimiter)) = Delimiter
    BY <1>0, <1>3, <1>5, CutBehind
  <1>7. /\ Len(s) = n + d + Len(rest) /\ SubSeq(s, n + 1, n + d) = Delimiter
        /\ n <= Len(s) /\ n + d <= Len(s) /\ Len(s) \in Nat
    <2>1. PICK c \in Nat : c = Len(rest)
      OBVIOUS
    <2>2. Len(s) = n + d + c
      BY <1>1, <1>2, <1>6, <2>1
    <2>3. SubSeq(s, n + 1, n + d) = Delimiter
      BY <1>1, <1>2, <1>6
    <2>. QED
      BY <2>1, <2>2, <2>3
  <1>8. SubSeq(s, 1, n) = m
    BY <1>2, <1>6, <1>7, FrontIs
  <1>. DEFINE ends == {i \in d..Len(s) : i <= MaxLength /\ SubSeq(s, i - d + 1, i) = Delimiter}
              last == CHOOSE i \in ends : \A j \in ends : i <= j
  <1>9. n + d \in ends
    <2>1. n + d \in d..Len(s) /\ (n + d) - d + 1 = n + 1 /\ n + d <= MaxLength
      BY <1>3, <1>4, <1>7
    <2>. QED
      BY <1>7, <2>1
  <1>10. ASSUME NEW i \in ends PROVE n + d <= i
    <2>. SUFFICES ASSUME i < n + d PROVE FALSE
      BY <1>7
    <2>1. i \in d..Len(s) /\ SubSeq(s, i - d + 1, i) = Delimiter
      OBVIOUS
    <2>2. PICK j \in Nat : j = i - d + 1
      BY <1>7, <2>1
    <2>3. j \in 1..n /\ i = j + d - 1 /\ j \in 1..Len(e) /\ i \in 1..Len(e)
      BY <1>4, <1>7, <2>1, <2>2
    <2>4. SubSeq(s, j, i) = SubSeq(e, j, i)
      BY <1>5, <2>3, SubSeqOfConcat1
    <2>5. SubSeq(e, j, j + d - 1) # Delimiter
      <3>1. Len(e) - d = n
        BY <1>4
      <3>. QED
        BY <1>1, <1>3, <2>3, <3>1
    <2>. QED
      BY <2>1, <2>2, <2>3, <2>4, <2>5
  <1>11. ASSUME NEW i \in ends, \A j \in ends : i <= j PROVE i = n + d
    <2>1. i <= n + d /\ n + d <= i
      BY <1>9, <1>10, <1>11
    <2>2. i \in Nat
      BY <1>7
    <2>. QED
      BY <2>1, <2>2
  <1>12. last = n + d
    <2>. HIDE DEF ends
    <2>. QED
      BY <1>9, <1>10, <1>11
  <1>13. DelimiterCodec(s) = [take |-> last, frame |-> SubSeq(s, 1, last - d)]
    <2>1. ends # {}
      BY <1>9
    <2>. QED
      BY <1>1, <2>1 DEF DelimiterCodec
  <1>14. (n + d) - d = n
    OBVIOUS
  <1>. HIDE DEF last, ends
  <1>. QED
    BY <1>3, <1>4, <1>5, <1>8, <1>12, <1>13, <1>14

\* Every codec that frames: a message it can carry comes out as it went in.
LEMMA EncodedDecodes ==
    ASSUME codec \in CodecNames, codec # "packet", fieldLength \in FieldLengths,
           NEW m \in Seq(Nat), Carries(m), codec = "varint" => Len(m) <= MaxLength,
           NEW rest \in Seq(Nat)
    PROVE  /\ Encoded(m) \in Seq(Nat) /\ Encoded(m) # <<>>
           /\ Decoded(Encoded(m) \o rest) = [take |-> Len(Encoded(m)), frame |-> m]
  <1>0. /\ Delimiter \in Seq(Nat) /\ Len(Delimiter) \in Nat \ {0}
        /\ FixedLength \in Nat \ {0} /\ FieldLengths \subseteq Nat \ {0}
    BY FrmConstants
  \* A header of one byte at least makes the bytes of the message.
  <1>h. ASSUME NEW h \in Seq(Nat), NEW t \in Seq(Nat), Len(h) + Len(t) # 0
        PROVE  h \o t \in Seq(Nat) /\ Len(h \o t) = Len(h) + Len(t) /\ h \o t # <<>>
    <2>1. h \o t \in Seq(Nat) /\ Len(h \o t) = Len(h) + Len(t)
      BY ConcatProperties
    <2>2. h \o t # <<>>
      BY <1>h, <2>1
    <2>. QED
      BY <2>1, <2>2
  <1>1. CASE codec = "lengthField"
    <2>1. Shifted(ByteValues, Len(m), fieldLength) = 0 /\ Len(m) + fieldLength <= MaxLength
      BY <1>1 DEF Carries
    <2>2. PICK h \in Seq(Nat) : h = packFieldLength(fieldLength, Len(m))
      BY <2>1, LengthFieldDecodes
    <2>3. Len(h) = fieldLength /\ LengthFieldCodec((h \o m) \o rest) = [take |-> Len(h) + Len(m), frame |-> m]
      BY <2>1, <2>2, LengthFieldDecodes DEF LengthFieldPrepender
    <2>4. Encoded(m) = h \o m
      BY <1>1, <2>2 DEF Encoded, LengthFieldPrepender
    <2>5. Len(h) + Len(m) # 0
      BY <1>0, <2>3
    <2>6. Decoded((h \o m) \o rest) = LengthFieldCodec((h \o m) \o rest)
      BY <1>1 DEF Decoded
    <2>. QED
      BY <1>h, <2>3, <2>4, <2>5, <2>6
  <1>2. CASE codec = "varint"
    <2>1. PICK h \in Seq(Nat) : h = PutUvarint(Half, Len(m))
      BY <1>2, VarintDecodes
    <2>2. h # <<>> /\ VarintLengthFieldCodec((h \o m) \o rest) = [take |-> Len(h) + Len(m), frame |-> m]
      BY <1>2, <2>1, VarintDecodes
    <2>3. Encoded(m) = h \o m
      BY <1>2, <2>1 DEF Encoded
    <2>4. Len(h) + Len(m) # 0
      BY <2>2
    <2>5. Decoded((h \o m) \o rest) = VarintLengthFieldCodec((h \o m) \o rest)
      BY <1>2 DEF Decoded
    <2>. QED
      BY <1>h, <2>2, <2>3, <2>4, <2>5
  <1>3. CASE codec = "delimiter"
    <2>1. /\ Len(m \o Delimiter) <= MaxLength
          /\ \A i \in 1..Len(m \o Delimiter) - Len(Delimiter) :
                SubSeq(m \o Delimiter, i, i + Len(Delimiter) - 1) # Delimiter
      BY <1>3 DEF Carries
    <2>2. DelimiterCodec((m \o Delimiter) \o rest) = [take |-> Len(m \o Delimiter), frame |-> m]
      BY <2>1, DelimiterDecodes
    <2>3. Encoded(m) = m \o Delimiter
      BY <1>3 DEF Encoded
    <2>4. Len(m) + Len(Delimiter) # 0
      BY <1>0
    <2>5. Decoded((m \o Delimiter) \o rest) = DelimiterCodec((m \o Delimiter) \o rest)
      BY <1>3 DEF Decoded
    <2>. QED
      BY <1>0, <1>h, <2>2, <2>3, <2>4, <2>5
  <1>4. CASE codec = "fixed"
    <2>1. Len(m) = FixedLength
      BY <1>4 DEF Carries
    <2>2. FixedLengthCodec(m \o rest) = [take |-> Len(m), frame |-> m]
      BY <2>1, FixedLengthDecodes
    <2>3. Encoded(m) = m /\ m # <<>>
      BY <1>0, <1>4, <2>1 DEF Encoded
    <2>4. Decoded(m \o rest) = FixedLengthCodec(m \o rest)
      BY <1>4 DEF Decoded
    <2>. QED
      BY <2>2, <2>3, <2>4
  <1>. QED
    BY <1>1, <1>2, <1>3, <1>4 DEF CodecNames

\* What is behind the front of a sequence.
LEMMA BackIs ==
    ASSUME NEW e \in Seq(Nat), NEW t \in Seq(Nat)
    PROVE  SubSeq(e \o t, Len(e) + 1, Len(e \o t)) = t
  <1>1. PICK a \in Nat, b \in Nat : a = Len(e) /\ b = Len(t)
    OBVIOUS
  <1>2. PICK s \in Seq(Nat) : s = e \o t
    BY ConcatProperties
  <1>3. Len(s) = a + b /\ \A i \in 1..a + b : s[i] = IF i <= a THEN e[i] ELSE t[i - a]
    BY <1>1, <1>2, ConcatProperties
  <1>4. PICK u : u = SubSeq(s, a + 1, a + b)
    OBVIOUS
  <1>5. /\ u \in Seq(Nat) /\ Len(u) = IF a + 1 <= a + b THEN (a + b) - (a + 1) + 1 ELSE 0
        /\ \A i \in 1..(a + b) - (a + 1) + 1 : u[i] = s[(a + 1) + i - 1]
    <2>1. a + 1 \in Int /\ a + b \in Int /\ \A i \in a + 1..a + b : s[i] \in Nat
      BY <1>3
    <2>. QED
      BY <1>4, <2>1, SubSeqProperties
  <1>6. Len(u) = b
    BY <1>5
  <1>7. ASSUME NEW i \in 1..b PROVE u[i] = t[i]
    <2>1. i \in 1..(a + b) - (a + 1) + 1 /\ (a + 1) + i - 1 = a + i /\ a + i \in 1..a + b /\ ~(a + i <= a) /\ (a + i) - a = i
      OBVIOUS
    <2>. QED
      BY <1>3, <1>5, <2>1
  <1>8. u = t
    BY <1>1, <1>5, <1>6, <1>7, SeqEqual
  <1>. QED
    BY <1>1, <1>2, <1>3, <1>4, <1>8

\* The messages as their bytes, and the invariant: what has been read is the
\* front of what was written, and the stream holds the bytes of the rest.
Encs(ms) == [i \in 1..Len(ms) |-> Encoded(ms[i])]
AllCarried == \A i \in 1..Len(sentMsgs) : Carries(sentMsgs[i])

Flows ==
    /\ reading = "ok" /\ frames \in Seq(Seq(Nat)) /\ stream \in Seq(Nat)
    /\ codec = "packet" => FlattenSeq(Append(frames, stream)) = FlattenSeq(sentMsgs)
    /\ codec # "packet" =>
          /\ Len(frames) <= Len(sentMsgs)
          /\ \A i \in 1..Len(frames) : frames[i] = sentMsgs[i]
          /\ stream = Rest(Encs(sentMsgs), Len(frames))

FrmInv ==
    /\ codec \in CodecNames /\ fieldLength \in FieldLengths /\ sentMsgs \in Seq(Seq(Nat))
    /\ codec = "varint" => \A i \in 1..Len(sentMsgs) : Len(sentMsgs[i]) <= MaxLength
    /\ AllCarried => Flows

\* The bytes of messages that are carried.
LEMMA EncsTyped ==
    ASSUME codec \in CodecNames, fieldLength \in FieldLengths, NEW ms \in Seq(Seq(Nat)), codec # "packet",
           \A i \in 1..Len(ms) : Carries(ms[i]) /\ (codec = "varint" => Len(ms[i]) <= MaxLength)
    PROVE  /\ Encs(ms) \in Seq(Seq(Nat)) /\ Len(Encs(ms)) = Len(ms)
           /\ \A i \in 1..Len(ms) : Encs(ms)[i] = Encoded(ms[i])
  <1>1. PICK n \in Nat : n = Len(ms)
    OBVIOUS
  <1>2. ASSUME NEW i \in 1..n PROVE Encoded(ms[i]) \in Seq(Nat)
    <2>1. PICK m \in Seq(Nat) : m = ms[i]
      BY <1>1
    <2>2. Carries(m) /\ (codec = "varint" => Len(m) <= MaxLength) /\ <<>> \in Seq(Nat)
      BY <1>1, <2>1
    <2>3. Encoded(m) \in Seq(Nat)
      BY <2>2, EncodedDecodes
    <2>. QED
      BY <2>1, <2>3
  <1>3. PICK es : es = [i \in 1..n |-> Encoded(ms[i])]
    OBVIOUS
  <1>4. es \in Seq(Seq(Nat)) /\ Len(es) = n /\ \A i \in 1..n : es[i] = Encoded(ms[i])
    BY <1>2, <1>3
  <1>. QED
    BY <1>1, <1>3, <1>4 DEF Encs

\* While a message is missing, the stream starts with its bytes.
LEMMA NextInStream ==
    ASSUME FrmInv, AllCarried, codec # "packet", Len(frames) # Len(sentMsgs)
    PROVE  /\ Len(frames) + 1 \in 1..Len(sentMsgs)
           /\ Decoded(stream) = [take |-> Len(Encoded(sentMsgs[Len(frames) + 1])),
                                 frame |-> sentMsgs[Len(frames) + 1]]
           /\ stream # <<>>
           /\ SubSeq(stream, Len(Encoded(sentMsgs[Len(frames) + 1])) + 1, Len(stream))
                 = Rest(Encs(sentMsgs), Len(frames) + 1)
  <1>1. /\ codec \in CodecNames /\ fieldLength \in FieldLengths /\ sentMsgs \in Seq(Seq(Nat))
        /\ \A i \in 1..Len(sentMsgs) : Carries(sentMsgs[i]) /\ (codec = "varint" => Len(sentMsgs[i]) <= MaxLength)
        /\ frames \in Seq(Seq(Nat)) /\ Len(frames) <= Len(sentMsgs)
        /\ stream = Rest(Encs(sentMsgs), Len(frames))
    BY DEF FrmInv, Flows, AllCarried
  <1>2. PICK k \in Nat : k = Len(frames) /\ k \in 0..Len(sentMsgs) - 1 /\ k + 1 \in 1..Len(sentMsgs)
    BY <1>1
  <1>3. PICK es \in Seq(Seq(Nat)) : es = Encs(sentMsgs)
    BY <1>1, EncsTyped
  <1>4. Len(es) = Len(sentMsgs) /\ es[k + 1] = Encoded(sentMsgs[k + 1])
    BY <1>1, <1>2, <1>3, EncsTyped
  <1>5. PICK m \in Seq(Nat) : m = sentMsgs[k + 1]
    BY <1>1, <1>2
  <1>6. PICK t \in Seq(Nat) : t = Rest(es, k + 1)
    <2>1. k + 1 \in 0..Len(es) /\ <<>> \in Seq(Nat)
      BY <1>2, <1>4
    <2>. QED
      BY <2>1, RestAppend
  <1>7. stream = Encoded(m) \o t
    <2>1. k \in 0..Len(es) - 1
      BY <1>2, <1>4
    <2>2. Rest(es, k) = es[k + 1] \o Rest(es, k + 1)
      BY <2>1, RestNext
    <2>. QED
      BY <1>1, <1>2, <1>3, <1>4, <1>5, <1>6, <2>2
  <1>8. Carries(m) /\ (codec = "varint" => Len(m) <= MaxLength)
    BY <1>1, <1>2, <1>5
  <1>9. PICK e \in Seq(Nat) : e = Encoded(m)
    BY <1>1, <1>6, <1>8, EncodedDecodes
  <1>10. e # <<>> /\ Decoded(e \o t) = [take |-> Len(e), frame |-> m]
    BY <1>1, <1>6, <1>8, <1>9, EncodedDecodes
  <1>11. e \o t # <<>>
    BY <1>9, <1>10, ConcatEqualIffEmpty
  <1>12. SubSeq(e \o t, Len(e) + 1, Len(e \o t)) = t
    BY BackIs
  <1>. QED
    BY <1>2, <1>3, <1>5, <1>6, <1>7, <1>9, <1>10, <1>11, <1>12

\* Nothing is missing when the stream is empty.
LEMMA NothingInStream ==
    ASSUME FrmInv, AllCarried, codec # "packet", Len(frames) = Len(sentMsgs)
    PROVE  stream = <<>>
  <1>1. /\ codec \in CodecNames /\ fieldLength \in FieldLengths /\ sentMsgs \in Seq(Seq(Nat))
        /\ \A i \in 1..Len(sentMsgs) : Carries(sentMsgs[i]) /\ (codec = "varint" => Len(sentMsgs[i]) <= MaxLength)
        /\ stream = Rest(Encs(sentMsgs), Len(sentMsgs))
    BY DEF FrmInv, Flows, AllCarried
  <1>2. Encs(sentMsgs) \in Seq(Seq(Nat)) /\ Len(Encs(sentMsgs)) = Len(sentMsgs)
    BY <1>1, EncsTyped
  <1>. QED
    BY <1>1, <1>2, RestEmpty

\* The property follows.
LEMMA FrmInvRoundTrip == FrmInv => RoundTrip
  <1>. SUFFICES ASSUME FrmInv, AllCarried
                PROVE  /\ reading = "ok"
                       /\ IF codec = "packet" THEN FlattenSeq(Append(frames, stream)) = FlattenSeq(sentMsgs)
                          ELSE /\ IsPrefix(frames, sentMsgs)
                               /\ ~Readable => frames = sentMsgs /\ stream = <<>>
    BY DEF RoundTrip, AllCarried
  <1>1. Flows /\ sentMsgs \in Seq(Seq(Nat))
    BY DEF FrmInv
  <1>2. reading = "ok" /\ (codec = "packet" => FlattenSeq(Append(frames, stream)) = FlattenSeq(sentMsgs))
    BY <1>1 DEF Flows
  <1>3. ASSUME codec # "packet" PROVE IsPrefix(frames, sentMsgs) /\ (~Readable => frames = sentMsgs /\ stream = <<>>)
    <2>1. /\ frames \in Seq(Seq(Nat)) /\ Len(frames) <= Len(sentMsgs)
          /\ \A i \in 1..Len(frames) : frames[i] = sentMsgs[i]
      BY <1>1, <1>3 DEF Flows
    <2>2. IsPrefix(frames, sentMsgs)
      <3>1. DOMAIN frames = 1..Len(frames)
        BY <2>1
      <3>. QED
        BY <1>1, <2>1, <3>1 DEF IsPrefix
    <2>3. ASSUME ~Readable PROVE Len(frames) = Len(sentMsgs)
      <3>. SUFFICES ASSUME Len(frames) # Len(sentMsgs) PROVE FALSE
        OBVIOUS
      <3>1. stream # <<>> /\ Decoded(stream).take = Len(Encoded(sentMsgs[Len(frames) + 1]))
        BY <1>3, NextInStream
      <3>2. Len(frames) + 1 \in 1..Len(sentMsgs)
        BY <1>3, NextInStream
      <3>3. PICK m \in Seq(Nat) : m = sentMsgs[Len(frames) + 1]
        BY <1>1, <3>2
      <3>4. Encoded(m) \in Seq(Nat)
        <4>1. /\ codec \in CodecNames /\ fieldLength \in FieldLengths
              /\ Carries(m) /\ (codec = "varint" => Len(m) <= MaxLength) /\ <<>> \in Seq(Nat)
          BY <3>2, <3>3 DEF FrmInv, AllCarried
        <4>. QED
          BY <1>3, <4>1, EncodedDecodes
      <3>5. Decoded(stream).take \in Nat
        BY <3>1, <3>3, <3>4
      <3>6. Decoded(stream) # Wait
        <4>1. Wait.take = -1
          BY DEF Wait
        <4>. QED
          BY <3>5, <4>1
      <3>. QED
        BY <1>2, <1>3, <2>3, <3>1, <3>6 DEF Readable
    <2>4. Len(frames) = Len(sentMsgs) => frames = sentMsgs /\ stream = <<>>
      <3>. SUFFICES ASSUME Len(frames) = Len(sentMsgs) PROVE frames = sentMsgs /\ stream = <<>>
        OBVIOUS
      <3>1. frames = sentMsgs
        BY <1>1, <2>1, SeqEqual
      <3>. QED
        BY <1>3, <3>1, NothingInStream
    <2>. QED
      BY <2>2, <2>3, <2>4
  <1>. QED
    BY <1>2, <1>3

\* The codec of a channel stays, and with it what a message is encoded to.
LEMMA CodecStays ==
    ASSUME UNCHANGED <<codec, fieldLength>>
    PROVE  /\ Encs(sentMsgs)' = Encs(sentMsgs')
           /\ AllCarried' <=> \A i \in 1..Len(sentMsgs') : Carries(sentMsgs'[i])
  <1>1. Encs(sentMsgs)' = Encs(sentMsgs')
    BY DEF Encs, Encoded, LengthFieldPrepender
  <1>2. AllCarried' <=> \A i \in 1..Len(sentMsgs') : Carries(sentMsgs'[i])
    BY DEF AllCarried, Carries
  <1>. QED
    BY <1>1, <1>2

\* Nothing is written and nothing read at first.
LEMMA FrmInvInit == FrmInit => FrmInv
  <1>. SUFFICES ASSUME FrmInit PROVE FrmInv
    OBVIOUS
  <1>1. /\ codec \in CodecNames /\ fieldLength \in FieldLengths /\ sentMsgs = <<>>
        /\ stream = <<>> /\ frames = <<>> /\ reading = "ok"
    BY DEF FrmInit
  <1>2. /\ sentMsgs \in Seq(Seq(Nat)) /\ Len(sentMsgs) = 0 /\ frames \in Seq(Seq(Nat)) /\ Len(frames) = 0
        /\ stream \in Seq(Nat)
    BY <1>1
  <1>3. FlattenSeq(Append(frames, stream)) = FlattenSeq(sentMsgs)
    <2>1. PICK ss \in Seq(Seq(Nat)), s \in Seq(Nat) : ss = frames /\ s = stream
      BY <1>2
    <2>2. FlattenSeq(Append(ss, s)) = FlattenSeq(ss) \o s
      BY FlattenAppend
    <2>3. FlattenSeq(ss) = <<>>
      BY <1>1, <2>1 DEF FlattenSeq
    <2>. QED
      BY <1>1, <2>1, <2>2, <2>3
  <1>4. Rest(Encs(sentMsgs), 0) = <<>>
    <2>1. Encs(sentMsgs) = <<>>
      BY <1>2 DEF Encs
    <2>2. <<>> \in Seq(Seq(Nat)) /\ Len(<<>>) = 0
      OBVIOUS
    <2>3. Rest(<<>>, Len(<<>>)) = <<>>
      BY <2>2, RestEmpty
    <2>. QED
      BY <2>1, <2>2, <2>3
  <1>5. Flows
    BY <1>1, <1>2, <1>3, <1>4 DEF Flows
  <1>. QED
    BY <1>1, <1>2, <1>5 DEF FrmInv


\* A message is written: its bytes come behind the others.
LEMMA FrmInvWrite ==
    ASSUME FrmInv, NEW m \in Messages, WriteMessage(m)
    PROVE  FrmInv'
  <1>0. /\ codec' = codec /\ fieldLength' = fieldLength /\ frames' = frames /\ reading' = reading
        /\ sentMsgs' = Append(sentMsgs, m) /\ stream' = stream \o Encoded(m)
        /\ codec = "varint" => Len(m) <= MaxLength
    BY DEF WriteMessage
  <1>1. /\ codec \in CodecNames /\ fieldLength \in FieldLengths /\ sentMsgs \in Seq(Seq(Nat))
        /\ codec = "varint" => \A i \in 1..Len(sentMsgs) : Len(sentMsgs[i]) <= MaxLength
        /\ AllCarried => Flows
    BY DEF FrmInv
  <1>2. m \in Seq(Nat)
    BY FrmConstants
  <1>3. PICK n \in Nat : n = Len(sentMsgs)
    BY <1>1
  <1>4. PICK ms \in Seq(Seq(Nat)) : ms = sentMsgs
    BY <1>1
  <1>5. PICK aa \in Seq(Seq(Nat)) : aa = Append(ms, m)
    BY <1>2, <1>4, AppendProperties
  <1>6. /\ Len(aa) = n + 1 /\ aa[n + 1] = m /\ \A i \in 1..n : aa[i] = ms[i]
        /\ n + 1 \in 1..n + 1 /\ \A i \in 1..n : i \in 1..n + 1
    BY <1>2, <1>3, <1>4, <1>5, AppendProperties
  <1>7. sentMsgs' = aa
    BY <1>0, <1>4, <1>5
  <1>8. codec = "varint" => \A i \in 1..n + 1 : Len(aa[i]) <= MaxLength
    <2>. SUFFICES ASSUME codec = "varint", NEW i \in 1..n + 1 PROVE Len(aa[i]) <= MaxLength
      OBVIOUS
    <2>1. CASE i = n + 1
      BY <1>0, <1>6, <2>1
    <2>2. CASE i # n + 1
      <3>1. i \in 1..n
        BY <2>2
      <3>. QED
        BY <1>1, <1>3, <1>4, <1>6, <3>1
    <2>. QED
      BY <2>1, <2>2
  <1>9. ASSUME AllCarried' PROVE Flows'
    <2>1. \A i \in 1..n + 1 : Carries(aa[i])
      BY <1>0, <1>6, <1>7, <1>9, CodecStays
    <2>2. AllCarried /\ Carries(m)
      BY <1>3, <1>4, <1>6, <2>1 DEF AllCarried
    <2>3. /\ reading = "ok" /\ frames \in Seq(Seq(Nat)) /\ stream \in Seq(Nat)
          /\ codec = "packet" => FlattenSeq(Append(frames, stream)) = FlattenSeq(ms)
          /\ codec # "packet" =>
                /\ Len(frames) <= n
                /\ \A i \in 1..Len(frames) : frames[i] = ms[i]
                /\ stream = Rest(Encs(ms), Len(frames))
      BY <1>1, <1>3, <1>4, <2>2 DEF Flows
    <2>4. PICK ff \in Seq(Seq(Nat)), s \in Seq(Nat) : ff = frames /\ s = stream
      BY <2>3
    <2>5. CASE codec = "packet"
      <3>1. Encoded(m) = m
        BY <2>5 DEF Encoded
      <3>2. s \o m \in Seq(Nat)
        BY <1>2, ConcatProperties
      <3>3. FlattenSeq(ff) \in Seq(Nat) /\ FlattenSeq(Append(ff, s)) = FlattenSeq(ff) \o s
        BY FlattenAppend
      <3>4. FlattenSeq(Append(ff, s \o m)) = FlattenSeq(ff) \o (s \o m)
        BY <3>2, FlattenAppend
      <3>5. FlattenSeq(aa) = FlattenSeq(ms) \o m
        BY <1>2, <1>5, FlattenAppend
      <3>6. PICK f \in Seq(Nat) : f = FlattenSeq(ff)
        BY <3>3
      <3>7. (f \o s) \o m = f \o (s \o m)
        <4>1. PICK t \in Seq(Nat) : t = m
          BY <1>2
        <4>2. (f \o s) \o t = f \o (s \o t)
          <5>1. Joined(f, s, t)
            BY JoinBytes
          <5>. QED
            BY <5>1 DEF Joined
        <4>. QED
          BY <4>1, <4>2
      <3>8. FlattenSeq(Append(ff, s \o m)) = FlattenSeq(aa)
        BY <2>3, <2>4, <2>5, <3>3, <3>4, <3>5, <3>6, <3>7
      <3>. QED
        BY <1>0, <1>7, <2>3, <2>4, <2>5, <3>1, <3>2, <3>8 DEF Flows
    <2>6. CASE codec # "packet"
      <3>1. PICK e \in Seq(Nat) : e = Encoded(m)
        <4>1. <<>> \in Seq(Nat)
          OBVIOUS
        <4>. QED
          BY <1>0, <1>1, <1>2, <2>2, <2>6, <4>1, EncodedDecodes
      <3>2. \A i \in 1..Len(ms) : Carries(ms[i]) /\ (codec = "varint" => Len(ms[i]) <= MaxLength)
        BY <1>1, <1>4, <2>2 DEF AllCarried
      <3>3. \A i \in 1..Len(aa) : Carries(aa[i]) /\ (codec = "varint" => Len(aa[i]) <= MaxLength)
        BY <1>6, <1>8, <2>1
      <3>4. Encs(ms) \in Seq(Seq(Nat)) /\ Len(Encs(ms)) = n /\ \A i \in 1..n : Encs(ms)[i] = Encoded(ms[i])
        BY <1>1, <1>3, <1>4, <2>6, <3>2, EncsTyped
      <3>5. Encs(aa) \in Seq(Seq(Nat)) /\ Len(Encs(aa)) = n + 1 /\ \A i \in 1..n + 1 : Encs(aa)[i] = Encoded(aa[i])
        BY <1>1, <1>6, <2>6, <3>3, EncsTyped
      <3>6. PICK ee \in Seq(Seq(Nat)), ff2 \in Seq(Seq(Nat)) : ee = Encs(ms) /\ ff2 = Encs(aa)
        BY <3>4, <3>5
      <3>7. ff2 = Append(ee, e)
        <4>1. PICK bb \in Seq(Seq(Nat)) : bb = Append(ee, e)
          BY AppendProperties
        <4>2. Len(bb) = n + 1 /\ bb[n + 1] = e /\ \A i \in 1..n : bb[i] = ee[i]
          BY <3>4, <3>6, <4>1, AppendProperties
        <4>3. ASSUME NEW i \in 1..n + 1 PROVE ff2[i] = bb[i]
          <5>1. CASE i = n + 1
            BY <1>6, <3>1, <3>5, <3>6, <4>2, <5>1
          <5>2. CASE i # n + 1
            <6>1. i \in 1..n
              BY <5>2
            <6>. QED
              BY <1>6, <3>4, <3>5, <3>6, <4>2, <6>1
          <5>. QED
            BY <5>1, <5>2
        <4>. QED
          BY <3>5, <3>6, <4>1, <4>2, <4>3, SeqEqual
      <3>8. Len(ff) \in 0..Len(ee)
        BY <2>3, <2>4, <2>6, <3>4, <3>6
      <3>9. Rest(ff2, Len(ff)) = Rest(ee, Len(ff)) \o e
        BY <3>7, <3>8, RestAppend
      <3>10. stream' = Rest(Encs(aa), Len(ff)) /\ stream' \in Seq(Nat)
        <4>1. s \o e \in Seq(Nat)
          BY ConcatProperties
        <4>. QED
          BY <1>0, <2>3, <2>4, <2>6, <3>1, <3>6, <3>9, <4>1
      <3>11. Encs(sentMsgs)' = Encs(aa)
        BY <1>0, <1>7, CodecStays
      <3>12. /\ Len(ff) <= n + 1 /\ \A i \in 1..Len(ff) : ff[i] = aa[i]
        <4>1. PICK k \in Nat : k = Len(ff)
          OBVIOUS
        <4>2. k <= n /\ \A i \in 1..k : ff[i] = ms[i] /\ i \in 1..n
          BY <2>3, <2>4, <2>6, <4>1
        <4>3. \A i \in 1..k : ff[i] = aa[i]
          BY <1>6, <4>2
        <4>4. k <= n + 1
          BY <4>2
        <4>. QED
          BY <4>1, <4>3, <4>4
      <3>. QED
        BY <1>0, <1>6, <1>7, <2>3, <2>4, <2>6, <3>10, <3>11, <3>12 DEF Flows
    <2>. QED
      BY <2>5, <2>6
  <1>. QED
    BY <1>0, <1>1, <1>6, <1>7, <1>8, <1>9 DEF FrmInv


\* A frame is read: the next message, and the stream goes on behind it.
LEMMA FrmInvRead ==
    ASSUME FrmInv, ReadFrame
    PROVE  FrmInv'
  <1>0. /\ codec' = codec /\ fieldLength' = fieldLength /\ sentMsgs' = sentMsgs
        /\ codec # "packet" /\ stream # <<>>
        /\ Decoded(stream) # Fail => /\ frames' = Append(frames, Decoded(stream).frame)
                                     /\ stream' = SubSeq(stream, Decoded(stream).take + 1, Len(stream))
                                     /\ reading' = reading
    BY DEF ReadFrame, Readable
  <1>1. /\ codec \in CodecNames /\ fieldLength \in FieldLengths /\ sentMsgs \in Seq(Seq(Nat))
        /\ codec = "varint" => \A i \in 1..Len(sentMsgs) : Len(sentMsgs[i]) <= MaxLength
        /\ AllCarried => Flows
    BY DEF FrmInv
  <1>2. ASSUME AllCarried' PROVE Flows'
    <2>1. AllCarried
      BY <1>0, <1>2, CodecStays DEF AllCarried
    <2>2. /\ reading = "ok" /\ frames \in Seq(Seq(Nat)) /\ stream \in Seq(Nat) /\ Len(frames) <= Len(sentMsgs)
          /\ \A i \in 1..Len(frames) : frames[i] = sentMsgs[i]
      BY <1>0, <1>1, <2>1 DEF Flows
    <2>3. Len(frames) # Len(sentMsgs)
      BY <1>0, <2>1, NothingInStream
    <2>4. PICK k \in Nat : k = Len(frames)
      BY <2>2
    <2>5. PICK m : m = sentMsgs[k + 1]
      OBVIOUS
    <2>6. /\ k + 1 \in 1..Len(sentMsgs)
          /\ Decoded(stream) = [take |-> Len(Encoded(m)), frame |-> m]
          /\ SubSeq(stream, Len(Encoded(m)) + 1, Len(stream)) = Rest(Encs(sentMsgs), k + 1)
      BY <1>0, <2>1, <2>3, <2>4, <2>5, NextInStream
    <2>7. m \in Seq(Nat)
      BY <1>1, <2>5, <2>6
    <2>8. PICK e \in Seq(Nat) : e = Encoded(m)
      <3>1. Carries(m) /\ (codec = "varint" => Len(m) <= MaxLength) /\ <<>> \in Seq(Nat)
        BY <1>1, <2>1, <2>5, <2>6 DEF AllCarried
      <3>. QED
        BY <1>0, <1>1, <2>7, <3>1, EncodedDecodes
    <2>9. Decoded(stream) # Fail
      <3>1. Decoded(stream).take = Len(e) /\ Len(e) \in Nat /\ Fail.take = -2
        BY <2>6, <2>8 DEF Fail
      <3>. QED
        BY <3>1
    <2>10. /\ frames' = Append(frames, m) /\ reading' = reading
           /\ stream' = SubSeq(stream, Len(Encoded(m)) + 1, Len(stream))
      <3>1. Decoded(stream).take = Len(Encoded(m)) /\ Decoded(stream).frame = m
        BY <2>6
      <3>. QED
        BY <1>0, <2>9, <3>1
    <2>11. /\ frames' \in Seq(Seq(Nat)) /\ Len(frames') = k + 1 /\ frames'[k + 1] = m
           /\ \A i \in 1..k : frames'[i] = frames[i]
      BY <2>2, <2>4, <2>7, <2>10, AppendProperties
    <2>12. ASSUME NEW i \in 1..k + 1 PROVE frames'[i] = sentMsgs[i]
      <3>1. CASE i = k + 1
        BY <2>5, <2>11, <3>1
      <3>2. CASE i # k + 1
        <4>1. i \in 1..k
          BY <3>2
        <4>. QED
          BY <2>2, <2>4, <2>11, <4>1
      <3>. QED
        BY <3>1, <3>2
    <2>13. stream' = Rest(Encs(sentMsgs), k + 1)
      BY <2>6, <2>10
    <2>14. stream' \in Seq(Nat)
      <3>1. /\ Encs(sentMsgs) \in Seq(Seq(Nat)) /\ Len(Encs(sentMsgs)) = Len(sentMsgs)
        <4>1. \A i \in 1..Len(sentMsgs) : Carries(sentMsgs[i]) /\ (codec = "varint" => Len(sentMsgs[i]) <= MaxLength)
          BY <1>1, <2>1 DEF AllCarried
        <4>. QED
          BY <1>0, <1>1, <4>1, EncsTyped
      <3>2. PICK ee \in Seq(Seq(Nat)) : ee = Encs(sentMsgs) /\ k + 1 \in 0..Len(ee)
        BY <2>6, <3>1
      <3>3. Rest(ee, k + 1) \in Seq(Nat)
        <4>1. <<>> \in Seq(Nat)
          OBVIOUS
        <4>. QED
          BY <3>2, <4>1, RestAppend
      <3>. QED
        BY <2>13, <3>2, <3>3
    <2>15. Encs(sentMsgs)' = Encs(sentMsgs)
      BY <1>0, CodecStays
    <2>16. Len(frames') <= Len(sentMsgs') /\ \A i \in 1..Len(frames') : frames'[i] = sentMsgs'[i]
      <3>1. k + 1 <= Len(sentMsgs)
        BY <2>6
      <3>. QED
        BY <1>0, <2>11, <2>12, <3>1
    <2>17. stream' = Rest(Encs(sentMsgs), Len(frames))'
      BY <2>11, <2>13, <2>15 DEF Rest
    <2>18. codec' # "packet" /\ reading' = "ok"
      BY <1>0, <2>2, <2>10
    <2>. QED
      BY <2>11, <2>14, <2>16, <2>17, <2>18 DEF Flows
  <1>. QED
    BY <1>0, <1>1, <1>2 DEF FrmInv

\* A piece is read by a codec that does not frame.
LEMMA FrmInvPiece ==
    ASSUME FrmInv, ReadPiece
    PROVE  FrmInv'
  <1>0. /\ codec' = codec /\ fieldLength' = fieldLength /\ sentMsgs' = sentMsgs /\ reading' = reading
        /\ codec = "packet" /\ stream # <<>>
    BY DEF ReadPiece
  <1>1. PICK n \in 1..Len(stream) : /\ frames' = Append(frames, SubSeq(stream, 1, n))
                                    /\ stream' = SubSeq(stream, n + 1, Len(stream))
    BY DEF ReadPiece
  <1>2. /\ codec \in CodecNames /\ fieldLength \in FieldLengths /\ sentMsgs \in Seq(Seq(Nat))
        /\ AllCarried => Flows
    BY DEF FrmInv
  <1>3. ASSUME AllCarried' PROVE Flows'
    <2>1. AllCarried
      BY <1>0, <1>3, CodecStays DEF AllCarried
    <2>2. /\ reading = "ok" /\ frames \in Seq(Seq(Nat)) /\ stream \in Seq(Nat)
          /\ FlattenSeq(Append(frames, stream)) = FlattenSeq(sentMsgs)
      BY <1>0, <1>2, <2>1 DEF Flows
    <2>3. PICK ff \in Seq(Seq(Nat)), s \in Seq(Nat) : ff = frames /\ s = stream
      BY <2>2
    <2>4. PICK l \in Nat : l = Len(s) /\ n \in 1..l
      BY <1>1, <2>3
    <2>5. PICK a \in Seq(Nat) : a = SubSeq(s, 1, n)
      <3>1. 1 \in Int /\ n \in Int /\ \A i \in 1..n : s[i] \in Nat
        BY <2>4
      <3>. QED
        BY <2>4, <3>1, SubSeqProperties
    <2>6. PICK b \in Seq(Nat) : b = SubSeq(s, n + 1, l)
      <3>1. n + 1 \in Int /\ l \in Int /\ \A i \in n + 1..l : s[i] \in Nat
        BY <2>4
      <3>. QED
        BY <2>4, <3>1, SubSeqProperties
    <2>7. a \o b = s
      <3>1. SubSeq(s, 1, l) = s
        BY <2>4, SubSeqFull
      <3>2. SubSeq(s, 1, n) \o SubSeq(s, n + 1, l) = SubSeq(s, 1, l)
        <4>1. 1 \in 1..Len(s) + 1 /\ n \in 1 - 1..Len(s) /\ l \in n..Len(s)
          BY <2>4
        <4>. QED
          BY <4>1, ConcatAdjacentSubSeq
      <3>. QED
        BY <2>5, <2>6, <3>1, <3>2
    <2>8. PICK gg \in Seq(Seq(Nat)) : gg = Append(ff, a)
      BY AppendProperties
    <2>9. PICK f \in Seq(Nat) : f = FlattenSeq(ff)
      BY <2>5, FlattenAppend
    <2>10. FlattenSeq(gg) = f \o a
      BY <2>8, <2>9, FlattenAppend
    <2>11. FlattenSeq(Append(gg, b)) = (f \o a) \o b
      BY <2>10, FlattenAppend
    <2>12. (f \o a) \o b = f \o (a \o b)
      <3>1. Joined(f, a, b)
        BY JoinBytes
      <3>. QED
        BY <3>1 DEF Joined
    <2>13. FlattenSeq(Append(ff, s)) = f \o s
      BY <2>9, FlattenAppend
    <2>14. frames' = gg /\ stream' = b
      BY <1>1, <2>3, <2>4, <2>5, <2>6, <2>8
    <2>. QED
      BY <1>0, <2>2, <2>3, <2>7, <2>11, <2>12, <2>13, <2>14 DEF Flows
  <1>. QED
    BY <1>0, <1>2, <1>3 DEF FrmInv

\* The messages a codec can carry come out as they went in, for every codec,
\* every message and every limit (RoundTrip, what codec/frame promises).
THEOREM FrmRoundTrip == FrmSpec => []RoundTrip
  <1>1. FrmInv /\ [FrmNext]_frmVars => FrmInv'
    <2>. SUFFICES ASSUME FrmInv, [FrmNext]_frmVars PROVE FrmInv'
      OBVIOUS
    <2>1. ASSUME NEW m \in Messages, WriteMessage(m) PROVE FrmInv'
      BY <2>1, FrmInvWrite
    <2>2. CASE ReadFrame
      BY <2>2, FrmInvRead
    <2>3. CASE ReadPiece
      BY <2>3, FrmInvPiece
    <2>4. CASE UNCHANGED frmVars
      <3>1. /\ codec' = codec /\ fieldLength' = fieldLength /\ sentMsgs' = sentMsgs
            /\ stream' = stream /\ frames' = frames /\ reading' = reading
        BY <2>4 DEF frmVars
      <3>2. Encs(sentMsgs)' = Encs(sentMsgs) /\ (AllCarried' => AllCarried)
        BY <3>1, CodecStays DEF AllCarried
      <3>3. Flows => Flows'
        BY <3>1, <3>2 DEF Flows
      <3>. QED
        BY <3>1, <3>2, <3>3 DEF FrmInv
    <2>. QED
      BY <2>1, <2>2, <2>3, <2>4 DEF FrmNext
  <1>. QED
    BY <1>1, FrmInvInit, FrmInvRoundTrip, PTL DEF FrmSpec


-----------------------------------------------------------------------------
(***************************************************************************)
(* The protobuf codecs.  A header holds at most five bytes, whatever       *)
(* follows it; reassembly either stands in front of a header or inside of  *)
(* a frame, until a frame it cannot take.                                  *)
(***************************************************************************)

\* The constants of the codecs.
LEMMA CodConstants ==
    /\ Base \in Nat /\ Base >= 2 /\ Word \in Nat /\ Word >= 1 /\ FrameLimit \in Nat /\ FrameLimit < Word
    /\ \A x \in 0..Word - 1 : Shifted(Base, x, 5) = 0
    /\ PackLength \in Nat /\ PackLength >= 5 /\ Payloads \subseteq Seq(Nat)
  BY CodAssumption

\* p is encoded as the header h of n bytes in front of p.
IsEncoded(p, x, h, n) ==
    /\ x \in 0..Word - 1 /\ x = Len(p) % Word /\ (Len(p) <= FrameLimit => x = Len(p))
    /\ n \in 1..5 /\ h \in Seq(Nat) /\ Len(h) = n /\ IsUvarint(Base, x, h, n)
    /\ h = PutUvarint32(Len(p) % Word)
    /\ Encode(p) = h \o p /\ Encode(p) \in Seq(Nat) /\ Len(Encode(p)) = n + Len(p)

\* Every payload is encoded with a header of one to five bytes.
LEMMA EncodeIs ==
    ASSUME NEW p \in Seq(Nat)
    PROVE  \E x \in 0..Word - 1, h \in Seq(Nat), n \in 1..5 : IsEncoded(p, x, h, n)
  <1>1. PICK l \in Nat : l = Len(p)
    OBVIOUS
  <1>2. PICK x : x = l % Word
    OBVIOUS
  <1>3. x \in 0..Word - 1 /\ x \in Nat /\ (l <= FrameLimit => x = l)
    BY <1>2, CodConstants
  <1>4. PICK h : h = PutUvarint(Base, x)
    OBVIOUS
  <1>5. PICK n : IsUvarint(Base, x, h, n)
    BY <1>3, <1>4, CodConstants, PutUvarintIs
  <1>6. /\ n \in Nat \ {0} /\ h \in Seq(Nat) /\ Len(h) = n
        /\ \A m \in Nat \ {0} : Shifted(Base, x, m) = 0 => n <= m
    BY <1>5 DEF IsUvarint
  <1>7. n \in 1..5
    <2>1. Shifted(Base, x, 5) = 0 /\ 5 \in Nat \ {0}
      BY <1>3, CodConstants
    <2>2. n <= 5
      BY <1>6, <2>1
    <2>. QED
      BY <1>6, <2>2
  <1>8. h \o p \in Seq(Nat) /\ Len(h \o p) = n + l
    BY <1>1, <1>6, ConcatProperties
  <1>9. h = PutUvarint32(Len(p) % Word)
    BY <1>1, <1>2, <1>4 DEF PutUvarint32
  <1>10. Encode(p) = h \o p
    BY <1>9 DEF Encode
  <1>. QED
    BY <1>1, <1>2, <1>3, <1>5, <1>6, <1>7, <1>8, <1>9, <1>10 DEF IsEncoded

\* A header is parsed as soon as it is complete, and not before.
LEMMA Uvarint32Of ==
    ASSUME NEW x \in 0..Word - 1, NEW h, NEW n \in 1..5, IsUvarint(Base, x, h, n),
           NEW s \in Seq(Nat), Starts(s, h)
    PROVE  /\ Len(s) < n => Uvarint32(s) = [x |-> 0, n |-> 0]
           /\ Len(s) >= n => Uvarint32(s) = [x |-> x, n |-> n]
  <1>1. x \in Nat /\ x % Word = x
    BY CodConstants
  <1>2. /\ Len(s) < n => UvarintLen(Base, s) = 0
        /\ Len(s) >= n => UvarintLen(Base, s) = n /\ Uvarint(Base, s) = x
    BY <1>1, CodConstants, UvarintOf
  <1>3. n # 0 /\ ~(n > 6) /\ n # 6
    OBVIOUS
  <1>. QED
    BY <1>1, <1>2, <1>3 DEF Uvarint32

\* Encoded payloads, and the frame that is handed up for a payload.
Encodings(ws) == [i \in 1..Len(ws) |-> Encode(ws[i])]
FrameFor(p) == [type |-> TypeOf(p), data |-> p]

\* The encodings of the payloads, one after the other.
LEMMA EncodingsAre ==
    ASSUME NEW ws \in Seq(Seq(Nat))
    PROVE  /\ Encodings(ws) \in Seq(Seq(Nat)) /\ Len(Encodings(ws)) = Len(ws)
           /\ \A i \in 1..Len(ws) : Encodings(ws)[i] = Encode(ws[i])
           /\ \A p \in Seq(Nat) : Encodings(Append(ws, p)) = Append(Encodings(ws), Encode(p))
  <1>1. PICK n \in Nat : n = Len(ws)
    OBVIOUS
  <1>2. \A p \in Seq(Nat) : Encode(p) \in Seq(Nat)
    BY EncodeIs DEF IsEncoded
  <1>3. PICK es : es = Encodings(ws)
    OBVIOUS
  <1>4. es \in Seq(Seq(Nat)) /\ Len(es) = n /\ \A i \in 1..n : es[i] = Encode(ws[i])
    <2>1. es = [i \in 1..n |-> Encode(ws[i])]
      BY <1>1, <1>3 DEF Encodings
    <2>2. \A i \in 1..n : Encode(ws[i]) \in Seq(Nat)
      BY <1>1, <1>2
    <2>. QED
      BY <2>1, <2>2
  <1>5. ASSUME NEW p \in Seq(Nat) PROVE Encodings(Append(ws, p)) = Append(es, Encode(p))
    <2>1. PICK aa \in Seq(Seq(Nat)) : aa = Append(ws, p)
      BY AppendProperties
    <2>2. Len(aa) = n + 1 /\ aa[n + 1] = p /\ \A i \in 1..n : aa[i] = ws[i]
      BY <1>1, <2>1, AppendProperties
    <2>3. PICK e \in Seq(Nat) : e = Encode(p)
      BY <1>2
    <2>4. PICK bb \in Seq(Seq(Nat)) : bb = Append(es, e)
      BY <1>4, AppendProperties
    <2>5. Len(bb) = n + 1 /\ bb[n + 1] = e /\ \A i \in 1..n : bb[i] = es[i]
      BY <1>4, <2>4, AppendProperties
    <2>6. PICK cc : cc = [i \in 1..n + 1 |-> Encode(aa[i])]
      OBVIOUS
    <2>7. ASSUME NEW i \in 1..n + 1 PROVE cc[i] = bb[i]
      <3>1. CASE i = n + 1
        BY <2>2, <2>3, <2>5, <2>6, <3>1
      <3>2. CASE i # n + 1
        <4>1. i \in 1..n
          BY <3>2
        <4>. QED
          BY <1>4, <2>2, <2>5, <2>6, <4>1
      <3>. QED
        BY <3>1, <3>2
    <2>8. cc \in Seq(Seq(Nat)) /\ Len(cc) = n + 1
      <3>1. ASSUME NEW i \in 1..n + 1 PROVE cc[i] \in Seq(Nat)
        <4>1. i \in 1..Len(bb)
          BY <2>5
        <4>2. bb[i] \in Seq(Nat)
          BY <2>4, <4>1
        <4>. QED
          BY <2>7, <4>2
      <3>. QED
        BY <2>6, <3>1
    <2>9. cc = bb
      BY <2>4, <2>5, <2>7, <2>8, SeqEqual
    <2>. QED
      BY <2>1, <2>2, <2>3, <2>4, <2>6, <2>9 DEF Encodings
  <1>. QED
    BY <1>1, <1>3, <1>4, <1>5


\* A sequence is cut in two.
LEMMA CutInTwo ==
    ASSUME NEW s \in Seq(Nat), NEW n \in 0..Len(s)
    PROVE  /\ Prefix(s, n) \in Seq(Nat) /\ Len(Prefix(s, n)) = n /\ \A i \in 1..n : Prefix(s, n)[i] = s[i]
           /\ Drop(s, n) \in Seq(Nat) /\ Len(Drop(s, n)) = Len(s) - n
           /\ \A i \in 1..Len(s) - n : Drop(s, n)[i] = s[n + i]
           /\ Prefix(s, n) \o Drop(s, n) = s
  <1>1. PICK l \in Nat : l = Len(s) /\ n \in Nat /\ n <= l
    OBVIOUS
  <1>2. PICK a : a = SubSeq(s, 1, n)
    OBVIOUS
  <1>3. a \in Seq(Nat) /\ Len(a) = n /\ \A i \in 1..n : a[i] = s[i]
    <2>1. 1 \in Int /\ n \in Int /\ \A i \in 1..n : s[i] \in Nat
      BY <1>1
    <2>2. /\ a \in Seq(Nat) /\ Len(a) = IF 1 <= n THEN n - 1 + 1 ELSE 0
          /\ \A i \in 1..n - 1 + 1 : a[i] = s[1 + i - 1]
      BY <1>2, <2>1, SubSeqProperties
    <2>3. ASSUME NEW i \in 1..n PROVE i \in 1..n - 1 + 1 /\ 1 + i - 1 = i
      BY <1>1
    <2>. QED
      BY <1>1, <2>2, <2>3
  <1>4. PICK b : b = SubSeq(s, n + 1, l)
    OBVIOUS
  <1>5. b \in Seq(Nat) /\ Len(b) = l - n /\ \A i \in 1..l - n : b[i] = s[n + i]
    <2>1. n + 1 \in Int /\ l \in Int /\ \A i \in n + 1..l : s[i] \in Nat
      BY <1>1
    <2>2. /\ b \in Seq(Nat) /\ Len(b) = IF n + 1 <= l THEN l - (n + 1) + 1 ELSE 0
          /\ \A i \in 1..l - (n + 1) + 1 : b[i] = s[(n + 1) + i - 1]
      BY <1>4, <2>1, SubSeqProperties
    <2>3. ASSUME NEW i \in 1..l - n PROVE i \in 1..l - (n + 1) + 1 /\ (n + 1) + i - 1 = n + i
      BY <1>1
    <2>. QED
      BY <1>1, <2>2, <2>3
  <1>6. a \o b = s
    <2>1. SubSeq(s, 1, l) = s
      BY <1>1, SubSeqFull
    <2>2. 1 \in 1..Len(s) + 1 /\ n \in 1 - 1..Len(s) /\ l \in n..Len(s)
      BY <1>1
    <2>3. SubSeq(s, 1, n) \o SubSeq(s, n + 1, l) = SubSeq(s, 1, l)
      BY <2>2, ConcatAdjacentSubSeq
    <2>. QED
      BY <1>2, <1>4, <2>1, <2>3
  <1>7. a = Prefix(s, n) /\ b = Drop(s, n)
    BY <1>1, <1>2, <1>4 DEF Prefix, Drop
  <1>. QED
    BY <1>1, <1>3, <1>5, <1>6, <1>7

\* What one datagram leaves of another in the buffer.
LEMMA DropTyped ==
    ASSUME NEW s \in Seq(Nat), NEW n \in Nat
    PROVE  Drop(s, n) \in Seq(Nat)
  <1>1. PICK l \in Nat : l = Len(s)
    OBVIOUS
  <1>2. n + 1 \in Int /\ l \in Int /\ \A i \in n + 1..l : s[i] \in Nat
    BY <1>1
  <1>. QED
    BY <1>1, <1>2, SubSeqProperties DEF Drop

\* The bytes of a datagram at the start of the buffer give its payload, as
\* much of it as was read, or nothing.
LEMMA DatagramRead ==
    ASSUME NEW p \in Seq(Nat), NEW old \in Seq(Nat), NEW rn \in Nat, rn <= Len(Encode(p)),
           rn >= 5 \/ rn = Len(Encode(p))
    PROVE  /\ Prefix(Encode(p), rn) \o Drop(old, rn) \in Seq(Nat)
           /\ Drop(Prefix(Encode(p), rn), Len(Encode(p)) - Len(p)) \in Seq(Nat)
           /\ FrameOf(Prefix(Encode(p), rn) \o Drop(old, rn), rn)
                 \in {<<>>, Drop(Prefix(Encode(p), rn), Len(Encode(p)) - Len(p))}
  <1>1. PICK x \in 0..Word - 1, h \in Seq(Nat), n \in 1..5 : IsEncoded(p, x, h, n)
    BY EncodeIs
  <1>2. PICK e \in Seq(Nat) : e = Encode(p)
    BY <1>1 DEF IsEncoded
  <1>3. /\ x \in 0..Word - 1 /\ n \in 1..5 /\ h \in Seq(Nat) /\ Len(h) = n /\ IsUvarint(Base, x, h, n)
        /\ e = h \o p /\ Len(e) = n + Len(p)
    BY <1>1, <1>2 DEF IsEncoded
  <1>4. PICK l \in Nat, m \in Nat : l = Len(e) /\ m = Len(p) /\ l = n + m /\ rn \in 0..l /\ rn \in Nat /\ rn >= n
    BY <1>2, <1>3
  <1>5. PICK a \in Seq(Nat) : a = Prefix(e, rn) /\ Len(a) = rn /\ \A i \in 1..rn : a[i] = e[i]
    BY <1>4, CutInTwo
  <1>6. PICK b \in Seq(Nat) : b = Drop(old, rn)
    BY <1>4, DropTyped
  <1>7. PICK s \in Seq(Nat) : s = a \o b
    BY ConcatProperties
  <1>8. Len(s) = rn + Len(b) /\ Len(b) \in Nat /\ \A i \in 1..rn : s[i] = a[i]
    <2>0. /\ Len(s) = Len(a) + Len(b)
          /\ \A i \in 1..Len(a) + Len(b) : s[i] = IF i <= Len(a) THEN a[i] ELSE b[i - Len(a)]
      BY <1>7, ConcatProperties
    <2>1. Len(s) = rn + Len(b) /\ \A i \in 1..rn + Len(b) : s[i] = IF i <= rn THEN a[i] ELSE b[i - rn]
      BY <1>5, <2>0
    <2>2. Len(b) \in Nat
      OBVIOUS
    <2>3. \A i \in 1..rn : i \in 1..rn + Len(b) /\ i <= rn
      BY <1>4, <2>2
    <2>. QED
      BY <2>1, <2>2, <2>3
  <1>9. Starts(s, h)
    <2>1. ASSUME NEW i \in 1..Len(s), i <= n PROVE s[i] = h[i]
      <3>0. i \in Nat /\ i >= 1 /\ i <= n /\ n <= rn /\ m \in Nat
        <4>1. PICK ls \in Nat : ls = Len(s)
          OBVIOUS
        <4>2. i \in 1..ls
          BY <4>1
        <4>. QED
          BY <1>4, <2>1, <4>2
      <3>1. i \in 1..n /\ i \in 1..rn /\ i \in 1..n + m
        BY <3>0
      <3>2. e[i] = h[i]
        <4>1. \A j \in 1..Len(h) + Len(p) : (h \o p)[j] = IF j <= Len(h) THEN h[j] ELSE p[j - Len(h)]
          BY <1>3, ConcatProperties
        <4>2. i \in 1..Len(h) + Len(p) /\ i <= Len(h)
          BY <1>3, <1>4, <3>1
        <4>. QED
          BY <1>3, <4>1, <4>2
      <3>. QED
        BY <1>5, <1>8, <3>1, <3>2
    <2>. QED
      BY <1>3, <2>1 DEF Starts
  <1>10. Uvarint32(s) = [x |-> x, n |-> n]
    <2>1. Len(s) >= n
      BY <1>3, <1>4, <1>8
    <2>. QED
      BY <1>3, <1>9, <2>1, Uvarint32Of
  <1>11. Len(e) - Len(p) = n
    BY <1>3, <1>4
  <1>12. PICK t \in Seq(Nat) : t = Drop(a, n)
    BY <1>3, DropTyped
  <1>13. SubSeq(s, n + 1, rn) = t
    <2>1. n \in 0..Len(a)
      BY <1>3, <1>4, <1>5
    <2>a. Len(Drop(a, n)) = Len(a) - n /\ \A i \in 1..Len(a) - n : Drop(a, n)[i] = a[n + i]
      BY <2>1, CutInTwo
    <2>2. Len(t) = rn - n /\ \A i \in 1..rn - n : t[i] = a[n + i]
      BY <1>5, <1>12, <2>a
    <2>3. PICK u : u = SubSeq(s, n + 1, rn)
      OBVIOUS
    <2>b. ASSUME NEW i \in n + 1..rn PROVE s[i] \in Nat
      <3>0. PICK ls \in Nat, lb \in Nat : ls = Len(s) /\ lb = Len(b)
        OBVIOUS
      <3>1. ls = rn + lb
        BY <1>8, <3>0
      <3>2. i \in 1..ls
        BY <3>1
      <3>. QED
        BY <3>0, <3>2
    <2>4. n + 1 \in Int /\ rn \in Int /\ \A i \in n + 1..rn : s[i] \in Nat
      BY <2>b
    <2>5. /\ u \in Seq(Nat) /\ Len(u) = IF n + 1 <= rn THEN rn - (n + 1) + 1 ELSE 0
          /\ \A i \in 1..rn - (n + 1) + 1 : u[i] = s[(n + 1) + i - 1]
      BY <2>3, <2>4, SubSeqProperties
    <2>6. Len(u) = rn - n
      BY <1>3, <1>4, <2>5
    <2>7. ASSUME NEW i \in 1..rn - n PROVE u[i] = t[i]
      <3>1. i \in 1..rn - (n + 1) + 1 /\ (n + 1) + i - 1 = n + i /\ n + i \in 1..rn
        BY <1>3, <1>4
      <3>. QED
        BY <1>8, <2>2, <2>5, <3>1
    <2>. QED
      BY <2>2, <2>3, <2>5, <2>6, <2>7, SeqEqual
  <1>14. FrameOf(s, rn) \in {<<>>, t}
    BY <1>10, <1>13 DEF FrameOf
  <1>. QED
    BY <1>2, <1>5, <1>6, <1>7, <1>11, <1>12, <1>14

\* What FrameOf returns for a datagram, cut to the length of a read.
LEMMA DatagramFrame ==
    ASSUME NEW p \in Seq(Nat), NEW old \in Seq(Nat), NEW rn,
           rn = IF Len(Encode(p)) < PackLength THEN Len(Encode(p)) ELSE PackLength
    PROVE  /\ Prefix(Encode(p), rn) \o Drop(old, rn) \in Seq(Nat) /\ Held(p) \in Seq(Nat)
           /\ FrameOf(Prefix(Encode(p), rn) \o Drop(old, rn), rn) \in {<<>>, Held(p)}
  <1>1. Encode(p) \in Seq(Nat)
    BY EncodeIs DEF IsEncoded
  <1>2. Len(Encode(p)) \in Nat
    BY <1>1
  <1>3. rn \in Nat /\ rn <= Len(Encode(p)) /\ (rn >= 5 \/ rn = Len(Encode(p)))
    BY <1>2, CodConstants
  <1>4. Held(p) = Drop(Prefix(Encode(p), rn), Len(Encode(p)) - Len(p))
    BY DEF Held
  <1>. QED
    BY <1>3, <1>4, DatagramRead


\* Frames with the data D, and the datagrams and the parts of them that may
\* be handed up when ws has been written.
FramesOf(D) == [type : {"data", "server"}, data : D]
Datagrams(ws) == {Encode(ws[k]) : k \in 1..Len(ws)}
HeldOf(ws) == {Held(ws[k]) : k \in 1..Len(ws)}

\* The first k frames of hd are those that were written.
Told(hd, ws, k) == \A i \in 1..k : hd[i] = FrameFor(ws[i])

\* Every frame before the first one that spoils reassembly has been handed up.
Spoiled(hd, ws) ==
    \E j \in 1..Len(ws) : /\ Spoils(ws[j]) /\ \A i \in 1..j - 1 : ~Spoils(ws[i])
                          /\ Len(hd) >= j - 1 /\ Told(hd, ws, j - 1)

\* The frames handed up are those written, and the next one does not spoil.
Even(hd, ws) ==
    /\ Len(hd) <= Len(ws) /\ Told(hd, ws, Len(hd))
    /\ \A i \in 1..Len(ws) : i <= Len(hd) + 1 => ~Spoils(ws[i])

\* The bytes b and those that follow are the rest of the stream behind k
\* frames; or the header of frame k + 1 has been taken off it.
AtHeader(b, rem, ws, k) == b \o rem = Rest(Encodings(ws), k)
InFrame(b, len, rem, ws, k) ==
    k < Len(ws) /\ len = Len(ws[k + 1]) /\ b \o rem = ws[k + 1] \o Rest(Encodings(ws), k + 1)

\* Between two reads either the next header or the next payload is not complete.
Waits(b, len, rem, ws, k) ==
    \/ /\ len = 0 /\ AtHeader(b, rem, ws, k)
       /\ k < Len(ws) => Len(b) < Len(PutUvarint32(Len(ws[k + 1]) % Word))
    \/ len > 0 /\ InFrame(b, len, rem, ws, k) /\ Len(b) < len

InStep(hd, b, len, rem, ws, more) ==
    \/ Spoiled(hd, ws)
    \/ /\ Even(hd, ws)
       /\ IF more THEN InFrame(b, len, rem, ws, Len(hd)) ELSE Waits(b, len, rem, ws, Len(hd))

CodInv ==
    /\ scheme \in {"tcp", "udp"} /\ written \in Seq(Seq(Nat)) /\ buffer \in Seq(Nat) /\ frameLength \in Nat
    /\ scheme = "tcp" => /\ underWay \in Seq(Nat) /\ handled \in Seq(FramesOf(Seq(Nat)))
                         /\ InStep(handled, buffer, frameLength, underWay, written, FALSE)
    /\ scheme = "udp" => /\ underWay \in Seq(Datagrams(written))
                         /\ handled \in Seq(FramesOf(HeldOf(written)))

\* The states of readAndDeal.
Deals == [buf : Seq(Nat), len : Nat, out : Seq(FramesOf(Seq(Nat))), more : BOOLEAN]

\* Whatever bytes there are, the header is within them.
LEMMA Uvarint32Typed ==
    ASSUME NEW s \in Seq(Nat)
    PROVE  \E x \in Nat, n \in Int : Uvarint32(s) = [x |-> x, n |-> n] /\ n <= Len(s)
  <1>1. PICK l \in Nat : l = Len(s)
    OBVIOUS
  <1>2. PICK n : n = UvarintLen(Base, s)
    OBVIOUS
  <1>3. n \in 0..l
    <2>. DEFINE ends == {i \in 1..l : s[i] < Base}
    <2>1. n = IF ends = {} THEN 0 ELSE CHOOSE i \in ends : \A j \in ends : i <= j
      BY <1>1, <1>2 DEF UvarintLen
    <2>2. CASE ends = {}
      BY <2>1, <2>2
    <2>3. CASE ends # {}
      <3>1. ends \subseteq Nat
        OBVIOUS
      <3>2. \E i \in ends : \A j \in ends : i <= j
        BY <2>3, <3>1, LeastNumber
      <3>3. n \in ends
        BY <2>1, <2>3, <3>2
      <3>. QED
        BY <3>3
    <2>. QED
      BY <2>2, <2>3
  <1>4. CASE n = 0 \/ n > 6 \/ (n = 6 /\ s[n] > 1)
    <2>1. Uvarint32(s) = [x |-> 0, n |-> -n] \/ Uvarint32(s) = [x |-> 0, n |-> 0]
      BY <1>2, <1>4 DEF Uvarint32
    <2>2. -n \in Int /\ -n <= l /\ 0 \in Int /\ 0 \in Nat /\ 0 <= l
      BY <1>3
    <2>. QED
      BY <1>1, <2>1, <2>2
  <1>5. CASE ~(n = 0 \/ n > 6 \/ (n = 6 /\ s[n] > 1))
    <2>1. Uvarint32(s) = [x |-> Uvarint(Base, s) % Word, n |-> n]
      BY <1>2, <1>5 DEF Uvarint32
    <2>2. Uvarint(Base, s) \in Nat
      <3>1. PICK ds : ds = [i \in 1..n |-> s[n + 1 - i] % Base]
        OBVIOUS
      <3>2. ASSUME NEW i \in 1..n PROVE s[n + 1 - i] % Base \in Nat
        <4>1. n + 1 - i \in 1..l
          BY <1>3
        <4>2. s[n + 1 - i] \in Nat
          BY <1>1, <4>1
        <4>. QED
          BY <4>2, CodConstants
      <3>3. ds \in Seq(Nat)
        BY <1>3, <3>1, <3>2
      <3>4. Uvarint(Base, s) = Number(Base, ds)
        BY <1>2, <3>1 DEF Uvarint
      <3>. QED
        BY <3>3, <3>4, CodConstants, NumberTyped
    <2>3. Uvarint(Base, s) % Word \in Nat
      BY <2>2, CodConstants
    <2>4. n \in Int /\ n <= l
      BY <1>3
    <2>. QED
      BY <1>1, <2>1, <2>3, <2>4
  <1>. QED
    BY <1>4, <1>5

\* A header is taken off the buffer, which gets no longer.
LEMMA HeaderStays ==
    ASSUME NEW d \in Deals
    PROVE  /\ Header(d) \in Deals /\ Header(d).out = d.out
           /\ Header(d).more => d.more /\ Len(Header(d).buf) <= Len(d.buf)
  <1>1. PICK b \in Seq(Nat), len \in Nat, out \in Seq(FramesOf(Seq(Nat))), more \in BOOLEAN :
           d = [buf |-> b, len |-> len, out |-> out, more |-> more]
    BY DEF Deals
  <1>2. PICK x \in Nat, n \in Int : Uvarint32(b) = [x |-> x, n |-> n] /\ n <= Len(b)
    BY Uvarint32Typed
  <1>3. d.buf = b /\ d.len = len /\ d.out = out /\ d.more = more
    BY <1>1
  <1>4. Uvarint32(d.buf).x = x /\ Uvarint32(d.buf).n = n
    BY <1>2, <1>3
  <1>5. CASE (n = 0 /\ Len(b) < 5) \/ x > FrameLimit
    <2>1. Header(d) = [d EXCEPT !.len = 0, !.more = FALSE]
      BY <1>3, <1>4, <1>5 DEF Header
    <2>2. Header(d) = [buf |-> b, len |-> 0, out |-> out, more |-> FALSE]
      BY <1>1, <2>1
    <2>. QED
      BY <1>3, <2>2 DEF Deals
  <1>6. CASE ~((n = 0 /\ Len(b) < 5) \/ x > FrameLimit) /\ n < 0
    <2>1. Header(d) = [Recovered(d) EXCEPT !.more = FALSE]
      BY <1>3, <1>4, <1>6 DEF Header
    <2>2. Header(d) = [buf |-> <<>>, len |-> 0, out |-> out, more |-> FALSE]
      BY <1>1, <2>1 DEF Recovered
    <2>. QED
      BY <1>3, <2>2 DEF Deals
  <1>7. CASE ~((n = 0 /\ Len(b) < 5) \/ x > FrameLimit) /\ ~(n < 0)
    <2>1. n \in 0..Len(b)
      BY <1>2, <1>7
    <2>2. PICK c \in Seq(Nat) : c = Drop(b, n) /\ Len(c) <= Len(b)
      <3>1. Drop(b, n) \in Seq(Nat) /\ Len(Drop(b, n)) = Len(b) - n
        BY <2>1, CutInTwo
      <3>2. Len(b) - n <= Len(b)
        BY <2>1
      <3>. QED
        BY <3>1, <3>2
    <2>a. Header(d) = [d EXCEPT !.len = x, !.buf = Drop(@, n)]
      BY <1>3, <1>4, <1>7 DEF Header
    <2>3. Header(d) = [buf |-> c, len |-> x, out |-> out, more |-> more]
      BY <1>1, <2>2, <2>a
    <2>. QED
      BY <1>3, <2>2, <2>3 DEF Deals
  <1>. QED
    BY <1>5, <1>6, <1>7

\* A payload makes a frame.
LEMMA FrameTyped ==
    ASSUME NEW p \in Seq(Nat)
    PROVE  FrameFor(p) \in FramesOf(Seq(Nat))
  <1>1. TypeOf(p) \in {"data", "server"}
    BY DEF TypeOf
  <1>. QED
    BY <1>1 DEF FramesOf, FrameFor

\* A frame is handed up and taken off the buffer.
LEMMA Delivered ==
    ASSUME NEW d \in Deals, NEW a \in Seq(Nat), d.len <= Len(d.buf)
    PROVE  LET e == Deliver([d EXCEPT !.buf = Drop(@, d.len), !.len = 0], a)
           IN  /\ e \in Deals /\ e.buf = Drop(d.buf, d.len) /\ e.len = 0
               /\ e.out = Append(d.out, FrameFor(a)) /\ e.more = d.more
  <1>1. d.buf \in Seq(Nat) /\ d.len \in Nat /\ d.out \in Seq(FramesOf(Seq(Nat)))
    BY DEF Deals
  <1>2. PICK c \in Seq(Nat) : c = Drop(d.buf, d.len)
    BY <1>1, DropTyped
  <1>3. PICK f \in FramesOf(Seq(Nat)) : f = FrameFor(a)
    BY FrameTyped
  <1>4. PICK o \in Seq(FramesOf(Seq(Nat))) : o = Append(d.out, f)
    BY <1>1, AppendProperties
  <1>5. PICK g : g = [d EXCEPT !.buf = Drop(@, d.len), !.len = 0]
    OBVIOUS
  <1>6. g \in Deals /\ g.buf = c /\ g.len = 0 /\ g.out = d.out /\ g.more = d.more
    BY <1>2, <1>5 DEF Deals
  <1>7. Deliver(g, a) = [g EXCEPT !.out = Append(@, f)]
    BY <1>3 DEF Deliver, FrameFor
  <1>8. PICK e : e = [g EXCEPT !.out = Append(@, f)]
    OBVIOUS
  <1>9. e \in Deals /\ e.buf = g.buf /\ e.len = g.len /\ e.out = o /\ e.more = g.more
    BY <1>4, <1>6, <1>8 DEF Deals
  <1>. QED
    BY <1>2, <1>3, <1>4, <1>5, <1>6, <1>7, <1>8, <1>9

\* A turn stays in the states, and takes a byte unless it is the last one.
LEMMA DealFrameStays ==
    ASSUME NEW d \in Deals
    PROVE  /\ DealFrame(d) \in Deals
           /\ DealFrame(d).more => d.more /\ Len(DealFrame(d).buf) < Len(d.buf)
           /\ DealFrame(d).out = d.out \/ \E f \in FramesOf(Seq(Nat)) : DealFrame(d).out = Append(d.out, f)
  <1>1. PICK b \in Seq(Nat), len \in Nat, out \in Seq(FramesOf(Seq(Nat))), more \in BOOLEAN :
           d = [buf |-> b, len |-> len, out |-> out, more |-> more]
    BY DEF Deals
  <1>2. d.buf = b /\ d.len = len /\ d.out = out /\ d.more = more
    BY <1>1
  <1>3. CASE ~more
    BY <1>2, <1>3 DEF DealFrame
  <1>4. CASE more /\ Len(b) < len
    <2>1. DealFrame(d) = [buf |-> b, len |-> len, out |-> out, more |-> FALSE]
      BY <1>1, <1>2, <1>4 DEF DealFrame
    <2>. QED
      BY <1>2, <2>1 DEF Deals
  <1>5. CASE more /\ ~(Len(b) < len)
    <2>1. len \in 0..Len(b)
      BY <1>5
    <2>2. PICK a \in Seq(Nat), c \in Seq(Nat) : a = Prefix(b, len) /\ c = Drop(b, len) /\ Len(a) = len /\ Len(c) = Len(b) - len
      BY <2>1, CutInTwo
    <2>3. PICK f \in FramesOf(Seq(Nat)) : f = FrameFor(a)
      BY FrameTyped
    <2>4. Append(out, f) \in Seq(FramesOf(Seq(Nat)))
      BY AppendProperties
    <2>5. CASE Panics(a)
      <3>1. \/ DealFrame(d) = [buf |-> <<>>, len |-> 0, out |-> Append(out, f), more |-> FALSE]
            \/ DealFrame(d) = [buf |-> <<>>, len |-> 0, out |-> out, more |-> FALSE]
        BY <1>1, <1>2, <1>5, <2>2, <2>3, <2>5 DEF DealFrame, Recovered, Deliver, FrameFor
      <3>2. CASE DealFrame(d) = [buf |-> <<>>, len |-> 0, out |-> Append(out, f), more |-> FALSE]
        BY <1>2, <2>4, <3>2 DEF Deals
      <3>3. CASE DealFrame(d) = [buf |-> <<>>, len |-> 0, out |-> out, more |-> FALSE]
        BY <1>2, <3>3 DEF Deals
      <3>. QED
        BY <3>1, <3>2, <3>3
    <2>6. CASE ~Panics(a) /\ Len(b) = len
      <3>1. DealFrame(d) = [buf |-> c, len |-> 0, out |-> Append(out, f), more |-> FALSE]
        BY <1>1, <1>2, <1>5, <2>2, <2>3, <2>6 DEF DealFrame, Deliver, FrameFor
      <3>. QED
        BY <1>2, <2>4, <3>1 DEF Deals
    <2>7. CASE ~Panics(a) /\ Len(b) # len
      <3>1. PICK e : e = Deliver([d EXCEPT !.buf = Drop(@, d.len), !.len = 0], a)
        OBVIOUS
      <3>2. e \in Deals /\ e.buf = c /\ e.out = Append(out, f)
        <4>1. d.len <= Len(d.buf)
          BY <1>2, <2>1
        <4>. QED
          BY <1>2, <2>2, <2>3, <3>1, <4>1, Delivered
      <3>3. DealFrame(d) = Header(e)
        BY <1>2, <1>5, <2>2, <2>7, <3>1 DEF DealFrame
      <3>4. Len(c) < Len(b)
        <4>1. len # 0
          BY <2>2, <2>7 DEF Panics
        <4>. QED
          BY <2>1, <2>2, <4>1
      <3>5. /\ Header(e) \in Deals /\ Header(e).out = e.out
            /\ Header(e).more => Len(Header(e).buf) <= Len(e.buf)
        BY <3>2, HeaderStays
      <3>6. Header(e).more => Len(Header(e).buf) < Len(b)
        <4>1. Header(e).buf \in Seq(Nat)
          BY <3>5 DEF Deals
        <4>2. Len(Header(e).buf) \in Nat
          BY <4>1
        <4>. QED
          BY <3>2, <3>4, <3>5, <4>2
      <3>. QED
        BY <1>2, <1>5, <3>2, <3>3, <3>5, <3>6
    <2>. QED
      BY <2>5, <2>6, <2>7
  <1>. QED
    BY <1>3, <1>4, <1>5


\* The turns of readAndDeal, and a set of states they do not leave.
Turns(w, d, n) == w[0] = d /\ \A i \in 1..n : w[i] = DealFrame(w[i - 1])
Kept(I) == \A d \in I : DealFrame(d) \in I

\* Deal is the last of its turns.
LEMMA DealRun ==
    ASSUME NEW d, NEW n \in Nat, n = Len(d.buf) + 1, NEW w, Turns(w, d, n)
    PROVE  Deal(d) = w[n]
  <1>. DEFINE F(g) == [j \in 0..n |-> IF j = 0 THEN d ELSE DealFrame(g[j - 1])]
              q == CHOOSE g : g = F(g)
              v == [j \in 0..n |-> w[j]]
  <1>1. v = F(v)
    BY DEF Turns
  <1>2. q = F(q)
    BY <1>1
  <1>3. Deal(d) = q[n]
    BY DEF Deal
  <1>. HIDE DEF q
  <1>4. Alike(q, w, n)
    BY <1>2 DEF Alike, Turns
  <1>5. \A i \in 0..n : q[i] = w[i]
    BY <1>4, LoopUnique
  <1>. QED
    BY <1>3, <1>5

\* While there is more to do, a byte has been taken in each turn.
LEMMA TurnsTake ==
    ASSUME NEW d, NEW n \in Nat, NEW l \in Nat, l = Len(d.buf), NEW w \in [0..n -> Deals], Turns(w, d, n)
    PROVE  \A i \in 0..n : w[i].more => Len(w[i].buf) + i <= l
  <1>. DEFINE T == {i \in Nat : i <= n => (w[i].more => Len(w[i].buf) + i <= l)}
  <1>1. 0 \in T
    <2>1. w[0] = d
      BY DEF Turns
    <2>2. Len(w[0].buf) + 0 <= l
      BY <2>1
    <2>. QED
      BY <2>2
  <1>2. ASSUME NEW i \in T PROVE i + 1 \in T
    <2>. SUFFICES ASSUME i + 1 <= n, w[i + 1].more PROVE Len(w[i + 1].buf) + (i + 1) <= l
      OBVIOUS
    <2>1. i + 1 \in 1..n /\ i + 1 \in 0..n /\ (i + 1) - 1 = i /\ i <= n /\ i \in 0..n
      OBVIOUS
    <2>2. w[i + 1] = DealFrame(w[i])
      BY <2>1 DEF Turns
    <2>3. PICK a \in Deals, b \in Deals : a = w[i] /\ b = w[i + 1]
      BY <2>1
    <2>4. a.more /\ Len(b.buf) < Len(a.buf)
      BY <2>2, <2>3, DealFrameStays
    <2>5. Len(a.buf) + i <= l
      BY <2>1, <2>3, <2>4
    <2>6. Len(a.buf) \in Nat /\ Len(b.buf) \in Nat
      <3>1. a.buf \in Seq(Nat) /\ b.buf \in Seq(Nat)
        BY DEF Deals
      <3>. QED
        BY <3>1
    <2>7. Len(b.buf) + (i + 1) <= l
      <3>1. PICK la \in Nat, lb \in Nat, k \in Nat : la = Len(a.buf) /\ lb = Len(b.buf) /\ k = i
        BY <2>6
      <3>2. lb < la /\ la + k <= l
        BY <2>4, <2>5, <3>1
      <3>3. lb + (k + 1) <= l
        BY <3>2
      <3>. QED
        BY <3>1, <3>3
    <2>. QED
      BY <2>3, <2>7
  <1>3. T \subseteq Nat
    OBVIOUS
  <1>4. T = Nat
    <2>. HIDE DEF T
    <2>. QED
      BY <1>1, <1>2, <1>3, InductiveSet
  <1>. QED
    BY <1>4

\* readAndDeal ends, with what each of its turns keeps.
LEMMA DealEnds ==
    ASSUME NEW I \in SUBSET Deals, Kept(I), NEW d \in I
    PROVE  Deal(d) \in I /\ ~Deal(d).more
  <1>1. d \in Deals
    OBVIOUS
  <1>2. PICK l \in Nat : l = Len(d.buf)
    <2>1. d.buf \in Seq(Nat)
      BY <1>1 DEF Deals
    <2>. QED
      BY <2>1
  <1>3. PICK n \in Nat : n = l + 1
    OBVIOUS
  <1>. DEFINE g == [i \in 1..n |-> [s \in I |-> DealFrame(s)]]
  <1>4. ASSUME NEW i \in 1..n, NEW s \in I PROVE g[i][s] = DealFrame(s) /\ g[i][s] \in I
    BY DEF Kept
  <1>. HIDE DEF g
  <1>5. StaysIn(I, n, g)
    BY <1>4 DEF StaysIn
  <1>6. PICK w \in [0..n -> I] : IsRun(w, n, d, g)
    BY <1>5, LoopRuns
  <1>7. w[0] = d /\ \A i \in 1..n : w[i] = g[i][w[i - 1]]
    BY <1>6 DEF IsRun
  <1>8. ASSUME NEW i \in 1..n PROVE w[i] = DealFrame(w[i - 1])
    <2>1. i - 1 \in 0..n
      OBVIOUS
    <2>2. w[i - 1] \in I
      BY <2>1
    <2>. QED
      BY <1>4, <1>7, <2>2
  <1>9. Turns(w, d, n)
    BY <1>7, <1>8 DEF Turns
  <1>10. Deal(d) = w[n]
    BY <1>2, <1>3, <1>9, DealRun
  <1>11. w \in [0..n -> Deals]
    OBVIOUS
  <1>12. n \in 0..n
    OBVIOUS
  <1>13. w[n].more => Len(w[n].buf) + n <= l
    BY <1>2, <1>9, <1>11, <1>12, TurnsTake
  <1>14. Len(w[n].buf) \in Nat
    <2>1. w[n] \in Deals
      BY <1>11, <1>12
    <2>2. w[n].buf \in Seq(Nat)
      BY <2>1 DEF Deals
    <2>. QED
      BY <2>2
  <1>15. ~w[n].more
    BY <1>3, <1>13, <1>14
  <1>. QED
    BY <1>10, <1>12, <1>15


\* Two ways to cut the same bytes.
SameBytes(b, rem, p, rest) == b \o rem = p \o rest

\* Behind the same front the same bytes follow.
LEMMA SameBehind ==
    ASSUME NEW p \in Seq(Nat), NEW c \in Seq(Nat), NEW rem \in Seq(Nat), NEW rest \in Seq(Nat),
           SameBytes(p \o c, rem, p, rest)
    PROVE  SameBytes(c, rem, rest, <<>>)
  <1>0. (p \o c) \o rem = p \o rest
    BY DEF SameBytes
  <1>1. (p \o c) \o rem = p \o (c \o rem)
    <2>1. Joined(p, c, rem)
      BY JoinBytes
    <2>. QED
      BY <2>1 DEF Joined
  <1>2. c \o rem \in Seq(Nat)
    BY ConcatProperties
  <1>3. SubSeq(p \o (c \o rem), Len(p) + 1, Len(p \o (c \o rem))) = c \o rem
    BY <1>2, BackIs
  <1>4. SubSeq(p \o rest, Len(p) + 1, Len(p \o rest)) = rest
    BY BackIs
  <1>5. c \o rem = rest
    BY <1>0, <1>1, <1>3, <1>4
  <1>6. rest \o <<>> = rest
    BY ConcatEmptySeq
  <1>. QED
    BY <1>5, <1>6 DEF SameBytes

\* In two ways to cut the same bytes what is in front of both is the same, and
\* what is behind p if p is complete.
LEMMA SplitFront ==
    ASSUME NEW b \in Seq(Nat), NEW rem \in Seq(Nat), NEW p \in Seq(Nat), NEW rest \in Seq(Nat),
           SameBytes(b, rem, p, rest)
    PROVE  /\ Starts(b, p)
           /\ Len(b) >= Len(p) => Prefix(b, Len(p)) = p /\ Drop(b, Len(p)) \o rem = rest
  <1>1. PICK lb \in Nat, lp \in Nat, lm \in Nat, lr \in Nat : lb = Len(b) /\ lp = Len(p) /\ lm = Len(rem) /\ lr = Len(rest)
    OBVIOUS
  <1>2. PICK s \in Seq(Nat) : s = b \o rem
    BY ConcatProperties
  <1>3. Len(s) = Len(b) + Len(rem) /\ \A i \in 1..Len(b) + Len(rem) : s[i] = IF i <= Len(b) THEN b[i] ELSE rem[i - Len(b)]
    BY <1>2, ConcatProperties
  <1>4. Len(s) = Len(p) + Len(rest) /\ \A i \in 1..Len(p) + Len(rest) : s[i] = IF i <= Len(p) THEN p[i] ELSE rest[i - Len(p)]
    <2>1. s = p \o rest
      BY <1>2 DEF SameBytes
    <2>. QED
      BY <2>1, ConcatProperties
  <1>5. ASSUME NEW i \in 1..lb, i <= lp PROVE b[i] = p[i]
    <2>1. i \in 1..lb + lm /\ i <= lb /\ i \in 1..lp + lr
      BY <1>5
    <2>2. s[i] = b[i]
      BY <1>1, <1>3, <2>1
    <2>3. s[i] = p[i]
      BY <1>1, <1>4, <1>5, <2>1
    <2>. QED
      BY <2>2, <2>3
  <1>6. Starts(b, p)
    BY <1>1, <1>5 DEF Starts
  <1>7. ASSUME lb >= lp PROVE Prefix(b, lp) = p /\ Drop(b, lp) \o rem = rest
    <2>1. lp \in 0..Len(b)
      BY <1>1, <1>7
    <2>2. PICK a \in Seq(Nat), c \in Seq(Nat) : a = Prefix(b, lp) /\ c = Drop(b, lp)
      BY <2>1, CutInTwo
    <2>3. Len(a) = lp /\ (\A i \in 1..lp : a[i] = b[i]) /\ a \o c = b
      BY <2>1, <2>2, CutInTwo
    <2>4. ASSUME NEW i \in 1..lp PROVE a[i] = p[i]
      <3>1. i \in 1..lb /\ i <= lp
        BY <1>7
      <3>. QED
        BY <1>5, <2>3, <3>1
    <2>5. a = p
      BY <1>1, <2>3, <2>4, SeqEqual
    <2>6. c \o rem = rest
      <3>1. SameBytes(p \o c, rem, p, rest)
        BY <2>3, <2>5
      <3>2. SameBytes(c, rem, rest, <<>>)
        BY <3>1, SameBehind
      <3>3. rest \o <<>> = rest
        BY ConcatEmptySeq
      <3>. QED
        BY <3>2, <3>3 DEF SameBytes
    <2>. QED
      BY <2>2, <2>5, <2>6
  <1>. QED
    BY <1>1, <1>6, <1>7

\* The fields that a header leaves.
LEMMA HeaderFields ==
    ASSUME NEW d \in Deals, NEW x \in Nat, NEW n \in Int, Uvarint32(d.buf) = [x |-> x, n |-> n]
    PROVE  /\ (n = 0 /\ Len(d.buf) < 5) \/ x > FrameLimit =>
                 Header(d).buf = d.buf /\ Header(d).len = 0 /\ ~Header(d).more
           /\ n > 0 /\ x <= FrameLimit =>
                 Header(d).buf = Drop(d.buf, n) /\ Header(d).len = x /\ Header(d).more = d.more
  <1>1. Uvarint32(d.buf).x = x /\ Uvarint32(d.buf).n = n
    OBVIOUS
  <1>2. CASE (n = 0 /\ Len(d.buf) < 5) \/ x > FrameLimit
    <2>1. Header(d) = [d EXCEPT !.len = 0, !.more = FALSE]
      BY <1>1, <1>2 DEF Header
    <2>2. ~(n > 0 /\ x <= FrameLimit)
      BY <1>2, CodConstants
    <2>. QED
      BY <2>1, <2>2 DEF Deals
  <1>3. CASE ~((n = 0 /\ Len(d.buf) < 5) \/ x > FrameLimit)
    <2>. SUFFICES ASSUME n > 0, x <= FrameLimit
                  PROVE  Header(d).buf = Drop(d.buf, n) /\ Header(d).len = x /\ Header(d).more = d.more
      BY <1>3
    <2>1. ~(n < 0)
      OBVIOUS
    <2>2. Header(d) = [d EXCEPT !.len = x, !.buf = Drop(@, n)]
      BY <1>1, <1>3, <2>1 DEF Header
    <2>. QED
      BY <2>2 DEF Deals
  <1>. QED
    BY <1>2, <1>3


\* The stream behind k frames begins with the header and the payload of the
\* next one.
LEMMA NextEncoded ==
    ASSUME NEW ws \in Seq(Seq(Nat)), NEW k \in Nat, k < Len(ws)
    PROVE  /\ ws[k + 1] \in Seq(Nat) /\ Rest(Encodings(ws), k + 1) \in Seq(Nat)
           /\ Rest(Encodings(ws), k) = Encode(ws[k + 1]) \o Rest(Encodings(ws), k + 1)
  <1>1. PICK es \in Seq(Seq(Nat)) : es = Encodings(ws)
    BY EncodingsAre
  <1>2. Len(es) = Len(ws) /\ k + 1 \in 1..Len(ws) /\ k + 1 \in 0..Len(es) /\ k \in 0..Len(es) - 1
    BY <1>1, EncodingsAre
  <1>3. es[k + 1] = Encode(ws[k + 1])
    BY <1>1, <1>2, EncodingsAre
  <1>4. Rest(es, k) = es[k + 1] \o Rest(es, k + 1)
    BY <1>2, RestNext
  <1>5. Rest(es, k + 1) \in Seq(Nat)
    <2>1. <<>> \in Seq(Nat)
      OBVIOUS
    <2>. QED
      BY <1>2, <2>1, RestAppend
  <1>. QED
    BY <1>1, <1>2, <1>3, <1>4, <1>5

\* Behind the last frame nothing is left.
LEMMA NothingEncoded ==
    ASSUME NEW ws \in Seq(Seq(Nat))
    PROVE  Rest(Encodings(ws), Len(ws)) = <<>>
  <1>1. PICK es \in Seq(Seq(Nat)) : es = Encodings(ws) /\ Len(es) = Len(ws)
    BY EncodingsAre
  <1>. QED
    BY <1>1, RestEmpty

\* No header in front of nothing.
LEMMA NoHeader == Uvarint32(<<>>) = [x |-> 0, n |-> 0]
  <1>1. <<>> \in Seq(Nat) /\ Len(<<>>) = 0
    OBVIOUS
  <1>2. PICK x \in 0..Word - 1, h \in Seq(Nat), n \in 1..5 : IsEncoded(<<>>, x, h, n)
    BY <1>1, EncodeIs
  <1>3. IsUvarint(Base, x, h, n)
    BY <1>2 DEF IsEncoded
  <1>4. Starts(<<>>, h)
    BY <1>1 DEF Starts
  <1>5. Len(<<>>) < n
    BY <1>1
  <1>. QED
    BY <1>1, <1>3, <1>4, <1>5, Uvarint32Of

\* In front of a header: the header is taken off as soon as it is complete.
LEMMA HeaderInStep ==
    ASSUME NEW d \in Deals, d.more, NEW rem \in Seq(Nat), NEW ws \in Seq(Seq(Nat)), NEW k \in Nat, k <= Len(ws),
           k < Len(ws) => ~Spoils(ws[k + 1]), AtHeader(d.buf, rem, ws, k)
    PROVE  /\ Header(d).more => InFrame(Header(d).buf, Header(d).len, rem, ws, k)
           /\ ~Header(d).more => Waits(Header(d).buf, Header(d).len, rem, ws, k)
  <1>1. PICK b \in Seq(Nat) : b = d.buf
    BY DEF Deals
  <1>2. b \o rem = Rest(Encodings(ws), k)
    BY <1>1 DEF AtHeader
  <1>3. CASE k = Len(ws)
    <2>1. b \o rem = <<>>
      BY <1>2, <1>3, NothingEncoded
    <2>2. b = <<>>
      BY <2>1, ConcatEqualIffEmpty
    <2>3. Uvarint32(d.buf) = [x |-> 0, n |-> 0] /\ Len(d.buf) < 5
      BY <1>1, <2>2, NoHeader
    <2>4. Header(d).buf = d.buf /\ Header(d).len = 0 /\ ~Header(d).more
      BY <2>3, HeaderFields
    <2>5. Waits(Header(d).buf, Header(d).len, rem, ws, k)
      BY <1>3, <2>4 DEF Waits
    <2>. QED
      BY <2>4, <2>5
  <1>4. CASE k < Len(ws)
    <2>1. PICK p \in Seq(Nat), rest \in Seq(Nat) : p = ws[k + 1] /\ rest = Rest(Encodings(ws), k + 1)
      BY <1>4, NextEncoded
    <2>2. b \o rem = Encode(p) \o rest
      BY <1>2, <1>4, <2>1, NextEncoded
    <2>3. PICK x \in 0..Word - 1, h \in Seq(Nat), n \in 1..5 : IsEncoded(p, x, h, n)
      BY EncodeIs
    <2>4. /\ IsUvarint(Base, x, h, n) /\ Len(h) = n /\ h = PutUvarint32(Len(p) % Word) /\ Encode(p) = h \o p
          /\ Len(p) <= FrameLimit => x = Len(p)
      BY <2>3 DEF IsEncoded
    <2>5. x = Len(p) /\ x <= FrameLimit /\ x \in Nat
      <3>1. ~Spoils(p)
        BY <1>4, <2>1
      <3>2. Len(p) <= FrameLimit
        BY <3>1, CodConstants DEF Spoils
      <3>. QED
        BY <2>4, <3>2
    <2>6. PICK tail \in Seq(Nat) : tail = p \o rest
      BY ConcatProperties
    <2>7. SameBytes(b, rem, h, tail)
      <3>1. (h \o p) \o rest = h \o (p \o rest)
        <4>1. Joined(h, p, rest)
          BY JoinBytes
        <4>. QED
          BY <4>1 DEF Joined
      <3>. QED
        BY <2>2, <2>4, <2>6, <3>1 DEF SameBytes
    <2>8. Starts(b, h)
      BY <2>7, SplitFront
    <2>9. CASE Len(b) < n
      <3>1. Uvarint32(b) = [x |-> 0, n |-> 0]
        BY <2>4, <2>8, <2>9, Uvarint32Of
      <3>2. Len(b) < 5
        BY <2>9
      <3>3. Header(d).buf = d.buf /\ Header(d).len = 0 /\ ~Header(d).more
        BY <1>1, <3>1, <3>2, HeaderFields
      <3>4. Waits(Header(d).buf, Header(d).len, rem, ws, k)
        BY <1>1, <2>1, <2>4, <2>9, <3>3 DEF Waits
      <3>. QED
        BY <3>3, <3>4
    <2>10. CASE Len(b) >= n
      <3>1. Uvarint32(b) = [x |-> x, n |-> n]
        BY <2>4, <2>8, <2>10, Uvarint32Of
      <3>2. n \in Int /\ n > 0
        OBVIOUS
      <3>3. Header(d).buf = Drop(d.buf, n) /\ Header(d).len = x /\ Header(d).more = d.more
        BY <1>1, <2>5, <3>1, <3>2, HeaderFields
      <3>4. Drop(b, n) \o rem = tail
        BY <2>4, <2>7, <2>10, SplitFront
      <3>5. InFrame(Header(d).buf, Header(d).len, rem, ws, k)
        BY <1>1, <1>4, <2>1, <2>5, <2>6, <3>3, <3>4 DEF InFrame
      <3>. QED
        BY <3>3, <3>5
    <2>11. Len(b) < n \/ Len(b) >= n
      <3>1. Len(b) \in Nat
        OBVIOUS
      <3>. QED
        BY <3>1
    <2>. QED
      BY <2>9, <2>10, <2>11
  <1>5. k = Len(ws) \/ k < Len(ws)
    OBVIOUS
  <1>. QED
    BY <1>3, <1>4, <1>5


\* One frame more.
LEMMA SpoiledGrows ==
    ASSUME NEW F, NEW hd \in Seq(F), NEW f \in F, NEW ws \in Seq(Seq(Nat)), Spoiled(hd, ws)
    PROVE  Spoiled(Append(hd, f), ws)
  <1>1. PICK j \in 1..Len(ws) : /\ Spoils(ws[j]) /\ \A i \in 1..j - 1 : ~Spoils(ws[i])
                                /\ Len(hd) >= j - 1 /\ Told(hd, ws, j - 1)
    BY DEF Spoiled
  <1>2. PICK n \in Nat : n = Len(hd)
    OBVIOUS
  <1>3. PICK aa \in Seq(F) : aa = Append(hd, f)
    BY AppendProperties
  <1>4. Len(aa) = n + 1 /\ \A i \in 1..n : aa[i] = hd[i]
    BY <1>2, <1>3, AppendProperties
  <1>5. Len(aa) >= j - 1
    BY <1>1, <1>2, <1>4
  <1>6. ASSUME NEW i \in 1..j - 1 PROVE aa[i] = FrameFor(ws[i])
    <2>1. i \in 1..n
      BY <1>1, <1>2
    <2>. QED
      BY <1>1, <1>4, <2>1 DEF Told
  <1>7. Told(aa, ws, j - 1)
    BY <1>6 DEF Told
  <1>. QED
    BY <1>1, <1>3, <1>5, <1>7 DEF Spoiled

\* In step, the next frame leads to one that spoils or keeps in step.
LEMMA EvenGoesOn ==
    ASSUME NEW F, NEW hd \in Seq(F), NEW ws \in Seq(Seq(Nat)), Even(hd, ws), NEW k \in Nat, k = Len(hd), k < Len(ws),
           FrameFor(ws[k + 1]) \in F
    PROVE  /\ Len(Append(hd, FrameFor(ws[k + 1]))) = k + 1
           /\ Spoiled(Append(hd, FrameFor(ws[k + 1])), ws) \/ Even(Append(hd, FrameFor(ws[k + 1])), ws)
  <1>0. PICK n \in Nat : n = Len(ws)
    OBVIOUS
  <1>1. (\A i \in 1..k : hd[i] = FrameFor(ws[i])) /\ \A i \in 1..n : i <= k + 1 => ~Spoils(ws[i])
    BY <1>0 DEF Even, Told
  <1>2. PICK f \in F : f = FrameFor(ws[k + 1])
    OBVIOUS
  <1>3. PICK aa \in Seq(F) : aa = Append(hd, f)
    BY AppendProperties
  <1>4. Len(aa) = k + 1 /\ aa[k + 1] = f /\ \A i \in 1..k : aa[i] = hd[i]
    BY <1>3, AppendProperties
  <1>5. ASSUME NEW i \in 1..k + 1 PROVE aa[i] = FrameFor(ws[i])
    <2>1. CASE i = k + 1
      BY <1>2, <1>4, <2>1
    <2>2. CASE i # k + 1
      <3>1. i \in 1..k
        BY <2>2
      <3>. QED
        BY <1>1, <1>4, <3>1
    <2>. QED
      BY <2>1, <2>2
  <1>6. Told(aa, ws, k + 1)
    BY <1>5 DEF Told
  <1>7. CASE k + 1 < n /\ Spoils(ws[k + 2])
    <2>1. k + 2 \in 1..Len(ws) /\ (k + 2) - 1 = k + 1
      BY <1>0, <1>7
    <2>2. \A i \in 1..k + 1 : ~Spoils(ws[i])
      BY <1>0, <1>1
    <2>3. Len(aa) >= k + 1
      BY <1>4
    <2>4. Spoiled(aa, ws)
      BY <1>6, <1>7, <2>1, <2>2, <2>3 DEF Spoiled
    <2>. QED
      BY <1>2, <1>3, <1>4, <2>4
  <1>8. CASE ~(k + 1 < n /\ Spoils(ws[k + 2]))
    <2>1. ASSUME NEW i \in 1..n, i <= Len(aa) + 1 PROVE ~Spoils(ws[i])
      <3>1. CASE i = k + 2
        <4>1. k + 1 < n
          BY <3>1
        <4>. QED
          BY <1>8, <3>1, <4>1
      <3>2. CASE i # k + 2
        <4>1. i <= k + 1
          BY <1>4, <2>1, <3>2
        <4>. QED
          BY <1>1, <4>1
      <3>. QED
        BY <3>1, <3>2
    <2>2. Len(aa) <= Len(ws)
      BY <1>0, <1>4
    <2>3. Even(aa, ws)
      BY <1>0, <1>4, <1>6, <2>1, <2>2 DEF Even
    <2>. QED
      BY <1>2, <1>3, <1>4, <2>3
  <1>. QED
    BY <1>7, <1>8

\* What a turn leaves: of a frame that is not complete, of the last frame in
\* the buffer, and of one that another one follows.
LEMMA DealShort ==
    ASSUME NEW d \in Deals, d.more, Len(d.buf) < d.len
    PROVE  /\ DealFrame(d).buf = d.buf /\ DealFrame(d).len = d.len
           /\ DealFrame(d).out = d.out /\ ~DealFrame(d).more
  <1>1. DealFrame(d) = [d EXCEPT !.more = FALSE]
    BY DEF DealFrame
  <1>. QED
    BY <1>1 DEF Deals

\* The last frame in the buffer is handed up and leaves nothing.
LEMMA DealLast ==
    ASSUME NEW d \in Deals, d.more, NEW p \in Seq(Nat), p = Prefix(d.buf, d.len), Len(d.buf) = d.len, ~Panics(p)
    PROVE  /\ DealFrame(d).buf = Drop(d.buf, d.len) /\ DealFrame(d).len = 0
           /\ DealFrame(d).out = Append(d.out, FrameFor(p)) /\ ~DealFrame(d).more
  <1>0. d.len \in Nat /\ d.buf \in Seq(Nat)
    BY DEF Deals
  <1>1. PICK e : e = Deliver([d EXCEPT !.buf = Drop(@, d.len), !.len = 0], p)
    OBVIOUS
  <1>2. ~(Len(d.buf) < d.len) /\ d.len <= Len(d.buf)
    BY <1>0
  <1>3. e \in Deals /\ e.buf = Drop(d.buf, d.len) /\ e.len = 0 /\ e.out = Append(d.out, FrameFor(p))
    BY <1>1, <1>2, Delivered
  <1>4. DealFrame(d) = [e EXCEPT !.more = FALSE]
    BY <1>1, <1>2 DEF DealFrame
  <1>. QED
    BY <1>3, <1>4 DEF Deals

\* A frame that others follow is handed up, and the next header is parsed.
LEMMA DealOn ==
    ASSUME NEW d \in Deals, d.more, NEW p \in Seq(Nat), p = Prefix(d.buf, d.len), Len(d.buf) > d.len, ~Panics(p)
    PROVE  \E e \in Deals : /\ DealFrame(d) = Header(e) /\ e.buf = Drop(d.buf, d.len) /\ e.more
                            /\ e.out = Append(d.out, FrameFor(p))
  <1>0. d.len \in Nat /\ d.buf \in Seq(Nat)
    BY DEF Deals
  <1>1. PICK e : e = Deliver([d EXCEPT !.buf = Drop(@, d.len), !.len = 0], p)
    OBVIOUS
  <1>2. ~(Len(d.buf) < d.len) /\ d.len <= Len(d.buf) /\ Len(d.buf) # d.len
    BY <1>0
  <1>3. e \in Deals /\ e.buf = Drop(d.buf, d.len) /\ e.out = Append(d.out, FrameFor(p)) /\ e.more = d.more
    BY <1>1, <1>2, Delivered
  <1>4. DealFrame(d) = Header(e)
    BY <1>1, <1>2 DEF DealFrame
  <1>. QED
    BY <1>3, <1>4


\* A payload that does not panic is not empty and not longer than the limit.
LEMMA NotSpoiled ==
    ASSUME NEW p, ~Spoils(p)
    PROVE  ~Panics(p)
  BY DEF Spoils

\* The states of readAndDeal that are in step with what was written.
StepStates(hd, rem, ws) == {d \in Deals : InStep(hd \o d.out, d.buf, d.len, rem, ws, d.more)}

\* A frame at the end of those a read returns is one at the end of all.
LEMMA OutGrows ==
    ASSUME NEW F, NEW hd \in Seq(F), NEW out \in Seq(F), NEW f \in F
    PROVE  hd \o out \in Seq(F) /\ hd \o Append(out, f) = Append(hd \o out, f)
  <1>1. PICK a \in Seq(F) : a = hd \o out
    BY ConcatProperties
  <1>0. <<f>> \in Seq(F)
    OBVIOUS
  <1>2. PICK b : b = <<f>> /\ b \in Seq(F)
    BY <1>0
  <1>3. Append(out, f) = out \o b /\ Append(a, f) = a \o b
    BY <1>1, <1>2, AppendIsConcat
  <1>4. (hd \o out) \o b = hd \o (out \o b)
    BY ConcatAssociative
  <1>. QED
    BY <1>1, <1>3, <1>4

\* Every turn of readAndDeal keeps in step.
LEMMA DealInStep ==
    ASSUME NEW hd \in Seq(FramesOf(Seq(Nat))), NEW rem \in Seq(Nat), NEW ws \in Seq(Seq(Nat))
    PROVE  Kept(StepStates(hd, rem, ws))
  <1>. SUFFICES ASSUME NEW d \in StepStates(hd, rem, ws) PROVE DealFrame(d) \in StepStates(hd, rem, ws)
    BY DEF Kept
  <1>1. d \in Deals /\ InStep(hd \o d.out, d.buf, d.len, rem, ws, d.more)
    BY DEF StepStates
  <1>2. PICK g \in Deals : g = DealFrame(d)
    BY <1>1, DealFrameStays
  <1>. SUFFICES InStep(hd \o g.out, g.buf, g.len, rem, ws, g.more)
    BY <1>2 DEF StepStates
  <1>3. /\ d.buf \in Seq(Nat) /\ d.len \in Nat /\ d.out \in Seq(FramesOf(Seq(Nat)))
        /\ g.buf \in Seq(Nat) /\ g.len \in Nat /\ g.out \in Seq(FramesOf(Seq(Nat)))
    BY <1>1, <1>2 DEF Deals
  <1>4. PICK h2 \in Seq(FramesOf(Seq(Nat))) : h2 = hd \o d.out
    BY <1>3, ConcatProperties
  <1>o. ASSUME NEW f \in FramesOf(Seq(Nat)), g.out = Append(d.out, f) PROVE hd \o g.out = Append(h2, f)
    <2>1. PICK o \in Seq(FramesOf(Seq(Nat))) : o = d.out
      BY <1>3
    <2>2. hd \o Append(o, f) = Append(hd \o o, f)
      BY OutGrows
    <2>. QED
      BY <1>4, <1>o, <2>1, <2>2
  <1>5. CASE ~d.more
    <2>1. g = d
      BY <1>2, <1>5 DEF DealFrame
    <2>. QED
      BY <1>1, <2>1
  <1>6. CASE Spoiled(h2, ws)
    <2>1. Spoiled(hd \o g.out, ws)
      <3>1. CASE g.out = d.out
        BY <1>4, <1>6, <3>1
      <3>2. ASSUME NEW f \in FramesOf(Seq(Nat)), g.out = Append(d.out, f) PROVE Spoiled(hd \o g.out, ws)
        <4>1. hd \o g.out = Append(h2, f)
          BY <1>o, <3>2
        <4>2. Spoiled(Append(h2, f), ws)
          BY <1>6, SpoiledGrows
        <4>. QED
          BY <4>1, <4>2
      <3>. QED
        BY <1>1, <1>2, <3>1, <3>2, DealFrameStays
    <2>. QED
      BY <2>1 DEF InStep
  <1>7. CASE d.more /\ ~Spoiled(h2, ws)
    <2>1. Even(h2, ws) /\ InFrame(d.buf, d.len, rem, ws, Len(h2))
      BY <1>1, <1>4, <1>7 DEF InStep
    <2>2. PICK k \in Nat : k = Len(h2)
      OBVIOUS
    <2>3. k < Len(ws) /\ d.len = Len(ws[k + 1]) /\ d.buf \o rem = ws[k + 1] \o Rest(Encodings(ws), k + 1)
      BY <2>1, <2>2 DEF InFrame
    <2>4. PICK p \in Seq(Nat), rest \in Seq(Nat) : p = ws[k + 1] /\ rest = Rest(Encodings(ws), k + 1)
      BY <2>3, NextEncoded
    <2>5. ~Panics(p)
      <3>1. k + 1 \in 1..Len(ws) /\ k + 1 <= Len(h2) + 1
        BY <2>2, <2>3
      <3>2. ~Spoils(p)
        BY <2>1, <2>4, <3>1 DEF Even
      <3>. QED
        BY <3>2, NotSpoiled
    <2>6. PICK b \in Seq(Nat), l \in Nat : b = d.buf /\ l = d.len /\ l = Len(p)
      BY <1>3, <2>3, <2>4
    <2>7. SameBytes(b, rem, p, rest)
      BY <2>3, <2>4, <2>6 DEF SameBytes
    <2>8. PICK f \in FramesOf(Seq(Nat)) : f = FrameFor(p)
      BY FrameTyped
    <2>9. /\ Len(Append(h2, f)) = k + 1
          /\ Spoiled(Append(h2, f), ws) \/ Even(Append(h2, f), ws)
      BY <2>1, <2>2, <2>3, <2>4, <2>8, EvenGoesOn
    <2>10. CASE Len(b) < l
      <3>1. g.buf = d.buf /\ g.len = d.len /\ g.out = d.out /\ ~g.more
        BY <1>1, <1>2, <1>7, <2>6, <2>10, DealShort
      <3>2. d.len > 0 /\ Len(d.buf) < d.len
        BY <2>6, <2>10
      <3>3. Waits(d.buf, d.len, rem, ws, Len(h2))
        BY <2>1, <3>2 DEF Waits
      <3>. QED
        BY <1>4, <2>1, <3>1, <3>3 DEF InStep
    <2>11. CASE Len(b) >= l
      <3>1. Prefix(b, l) = p /\ Drop(b, l) \o rem = rest
        BY <2>6, <2>7, <2>11, SplitFront
      <3>2. CASE Len(b) = l
        <4>1. g.buf = Drop(d.buf, d.len) /\ g.len = 0 /\ g.out = Append(d.out, f) /\ ~g.more
          BY <1>1, <1>2, <1>7, <2>5, <2>6, <2>8, <3>1, <3>2, DealLast
        <4>2. hd \o g.out = Append(h2, f)
          BY <1>o, <4>1
        <4>3. AtHeader(g.buf, rem, ws, k + 1)
          BY <2>4, <2>6, <3>1, <4>1 DEF AtHeader
        <4>4. k + 1 < Len(ws) => Len(g.buf) < Len(PutUvarint32(Len(ws[(k + 1) + 1]) % Word))
          <5>. SUFFICES ASSUME k + 1 < Len(ws) PROVE Len(g.buf) < Len(PutUvarint32(Len(ws[(k + 1) + 1]) % Word))
            OBVIOUS
          <5>1. Len(g.buf) = 0
            <6>1. l \in 0..Len(b) /\ Len(b) - l = 0
              BY <3>2
            <6>2. Len(Drop(b, l)) = Len(b) - l
              BY <6>1, CutInTwo
            <6>. QED
              BY <2>6, <4>1, <6>1, <6>2
          <5>2. PICK r \in Seq(Nat) : r = ws[(k + 1) + 1]
            BY NextEncoded
          <5>3. PICK x \in 0..Word - 1, h \in Seq(Nat), n \in 1..5 : IsEncoded(r, x, h, n)
            BY EncodeIs
          <5>4. Len(PutUvarint32(Len(r) % Word)) = n
            BY <5>3 DEF IsEncoded
          <5>. QED
            BY <5>1, <5>2, <5>4
        <4>5. Waits(g.buf, g.len, rem, ws, k + 1)
          BY <4>1, <4>3, <4>4 DEF Waits
        <4>. QED
          BY <2>9, <4>1, <4>2, <4>5 DEF InStep
      <3>3. CASE Len(b) # l
        <4>1. Len(d.buf) > d.len
          BY <2>6, <2>11, <3>3
        <4>2. PICK e \in Deals : /\ g = Header(e) /\ e.buf = Drop(d.buf, d.len) /\ e.more /\ e.out = Append(d.out, f)
          BY <1>1, <1>2, <1>7, <2>5, <2>6, <2>8, <3>1, <4>1, DealOn
        <4>3. g.out = e.out
          BY <4>2, HeaderStays
        <4>4. hd \o g.out = Append(h2, f)
          BY <1>o, <4>2, <4>3
        <4>5. CASE Spoiled(Append(h2, f), ws)
          BY <4>4, <4>5 DEF InStep
        <4>6. CASE Even(Append(h2, f), ws)
          <5>1. AtHeader(e.buf, rem, ws, k + 1)
            BY <2>4, <2>6, <3>1, <4>2 DEF AtHeader
          <5>2. k + 1 <= Len(ws)
            BY <2>3
          <5>3. k + 1 < Len(ws) => ~Spoils(ws[(k + 1) + 1])
            <6>. SUFFICES ASSUME k + 1 < Len(ws) PROVE ~Spoils(ws[(k + 1) + 1])
              OBVIOUS
            <6>1. (k + 1) + 1 \in 1..Len(ws) /\ (k + 1) + 1 <= Len(Append(h2, f)) + 1
              BY <2>9
            <6>. QED
              BY <4>6, <6>1 DEF Even
          <5>4. /\ g.more => InFrame(g.buf, g.len, rem, ws, k + 1)
                /\ ~g.more => Waits(g.buf, g.len, rem, ws, k + 1)
            BY <4>2, <5>1, <5>2, <5>3, HeaderInStep
          <5>. QED
            BY <2>9, <4>4, <4>6, <5>4 DEF InStep
        <4>. QED
          BY <2>9, <4>5, <4>6
      <3>. QED
        BY <3>2, <3>3
    <2>12. Len(b) < l \/ Len(b) >= l
      <3>1. Len(b) \in Nat
        OBVIOUS
      <3>. QED
        BY <3>1
    <2>. QED
      BY <2>10, <2>11, <2>12
  <1>. QED
    BY <1>5, <1>6, <1>7


\* readAndDeal on the bytes of the buffer and of a read keeps in step.
LEMMA ReadInStep ==
    ASSUME NEW hd \in Seq(FramesOf(Seq(Nat))), NEW ws \in Seq(Seq(Nat)), NEW b \in Seq(Nat), NEW len \in Nat,
           NEW more \in Seq(Nat), NEW rem \in Seq(Nat), InStep(hd, b, len, more \o rem, ws, FALSE)
    PROVE  /\ readAndDeal(b \o more, len) \in Deals
           /\ LET g == readAndDeal(b \o more, len)
              IN  InStep(hd \o g.out, g.buf, g.len, rem, ws, FALSE)
  <1>1. PICK c \in Seq(Nat) : c = b \o more
    BY ConcatProperties
  <1>2. c \o rem = b \o (more \o rem)
    <2>1. (b \o more) \o rem = b \o (more \o rem)
      <3>1. Joined(b, more, rem)
        BY JoinBytes
      <3>. QED
        BY <3>1 DEF Joined
    <2>. QED
      BY <1>1, <2>1
  <1>a. <<>> \in Seq(FramesOf(Seq(Nat)))
    OBVIOUS
  <1>3. PICK none : none = <<>> /\ none \in Seq(FramesOf(Seq(Nat)))
    BY <1>a
  <1>4. PICK d : d = [buf |-> c, len |-> len, out |-> none, more |-> TRUE]
    OBVIOUS
  <1>5. d \in Deals /\ d.buf = c /\ d.len = len /\ d.out = none /\ d.more
    BY <1>3, <1>4 DEF Deals
  <1>6. hd \o none = hd
    BY <1>3, ConcatEmptySeq
  <1>7. PICK e : e = IF len = 0 THEN Header(d) ELSE d
    OBVIOUS
  <1>8. e \in Deals /\ e.out = none
    BY <1>5, <1>7, HeaderStays
  <1>9. readAndDeal(b \o more, len) = Deal(e)
    BY <1>1, <1>3, <1>4, <1>7 DEF readAndDeal
  <1>10. InStep(hd, e.buf, e.len, rem, ws, e.more)
    <2>1. CASE Spoiled(hd, ws)
      BY <2>1 DEF InStep
    <2>2. CASE ~Spoiled(hd, ws)
      <3>1. Even(hd, ws) /\ Waits(b, len, more \o rem, ws, Len(hd))
        BY <2>2 DEF InStep
      <3>2. PICK k \in Nat : k = Len(hd)
        OBVIOUS
      <3>3. CASE len = 0
        <4>1. AtHeader(b, more \o rem, ws, k)
          BY <3>1, <3>2, <3>3 DEF Waits
        <4>2. AtHeader(d.buf, rem, ws, k)
          BY <1>2, <1>5, <4>1 DEF AtHeader
        <4>3. k <= Len(ws)
          BY <3>1, <3>2 DEF Even
        <4>4. k < Len(ws) => ~Spoils(ws[k + 1])
          <5>. SUFFICES ASSUME k < Len(ws) PROVE ~Spoils(ws[k + 1])
            OBVIOUS
          <5>1. k + 1 \in 1..Len(ws) /\ k + 1 <= Len(hd) + 1
            BY <3>2
          <5>. QED
            BY <3>1, <5>1 DEF Even
        <4>5. /\ e.more => InFrame(e.buf, e.len, rem, ws, k)
              /\ ~e.more => Waits(e.buf, e.len, rem, ws, k)
          BY <1>5, <1>7, <3>3, <4>2, <4>3, <4>4, HeaderInStep
        <4>. QED
          BY <3>1, <3>2, <4>5 DEF InStep
      <3>4. CASE len # 0
        <4>1. InFrame(b, len, more \o rem, ws, k)
          BY <3>1, <3>2, <3>4 DEF Waits
        <4>2. InFrame(c, len, rem, ws, k)
          BY <1>2, <4>1 DEF InFrame
        <4>3. e.buf = c /\ e.len = len /\ e.more
          BY <1>5, <1>7, <3>4
        <4>. QED
          BY <3>1, <3>2, <4>2, <4>3 DEF InStep
      <3>. QED
        BY <3>3, <3>4
    <2>. QED
      BY <2>1, <2>2
  <1>11. e \in StepStates(hd, rem, ws)
    BY <1>6, <1>8, <1>10 DEF StepStates
  <1>12. StepStates(hd, rem, ws) \in SUBSET Deals /\ Kept(StepStates(hd, rem, ws))
    <2>1. StepStates(hd, rem, ws) \in SUBSET Deals
      BY DEF StepStates
    <2>. QED
      BY <2>1, DealInStep
  <1>13. PICK g : g = Deal(e)
    OBVIOUS
  <1>14. g \in StepStates(hd, rem, ws) /\ ~g.more
    BY <1>11, <1>12, <1>13, DealEnds
  <1>15. g \in Deals /\ InStep(hd \o g.out, g.buf, g.len, rem, ws, g.more)
    BY <1>14 DEF StepStates
  <1>16. InStep(hd \o g.out, g.buf, g.len, rem, ws, FALSE)
    BY <1>14, <1>15 DEF InStep
  <1>. QED
    BY <1>9, <1>13, <1>15, <1>16

\* A payload is written behind the others.
LEMMA WriteInStep ==
    ASSUME NEW hd \in Seq(FramesOf(Seq(Nat))), NEW ws \in Seq(Seq(Nat)), NEW b \in Seq(Nat), NEW len \in Nat,
           NEW rem \in Seq(Nat), InStep(hd, b, len, rem, ws, FALSE), NEW p \in Seq(Nat)
    PROVE  InStep(hd, b, len, rem \o Encode(p), Append(ws, p), FALSE)
  <1>1. PICK n \in Nat, k \in Nat : n = Len(ws) /\ k = Len(hd)
    OBVIOUS
  <1>2. PICK aa \in Seq(Seq(Nat)) : aa = Append(ws, p)
    BY AppendProperties
  <1>3. Len(aa) = n + 1 /\ aa[n + 1] = p /\ \A i \in 1..n : aa[i] = ws[i]
    BY <1>1, <1>2, AppendProperties
  <1>4. PICK e \in Seq(Nat) : e = Encode(p)
    BY EncodeIs DEF IsEncoded
  <1>5. CASE Spoiled(hd, ws)
    <2>1. PICK j \in 1..n : /\ Spoils(ws[j]) /\ \A i \in 1..j - 1 : ~Spoils(ws[i])
                            /\ Len(hd) >= j - 1 /\ Told(hd, ws, j - 1)
      BY <1>1, <1>5 DEF Spoiled
    <2>2. j \in 1..n + 1 /\ \A i \in 1..j - 1 : i \in 1..n
      OBVIOUS
    <2>3. Spoils(aa[j]) /\ (\A i \in 1..j - 1 : ~Spoils(aa[i])) /\ Told(hd, aa, j - 1)
      BY <1>3, <2>1, <2>2 DEF Told
    <2>4. Spoiled(hd, aa)
      BY <1>3, <2>1, <2>2, <2>3 DEF Spoiled
    <2>. QED
      BY <1>2, <2>4 DEF InStep
  <1>6. CASE ~Spoiled(hd, ws)
    <2>1. Even(hd, ws) /\ Waits(b, len, rem, ws, k)
      BY <1>1, <1>6 DEF InStep
    <2>2. k <= n /\ (\A i \in 1..k : hd[i] = FrameFor(ws[i])) /\ \A i \in 1..n : i <= k + 1 => ~Spoils(ws[i])
      BY <1>1, <2>1 DEF Even, Told
    <2>3. Told(hd, aa, k)
      <3>1. \A i \in 1..k : i \in 1..n
        BY <2>2
      <3>. QED
        BY <1>3, <2>2, <3>1 DEF Told
    <2>4. CASE k = n
      <3>1. len = 0 /\ b \o rem = <<>>
        <4>1. ~(k < Len(ws))
          BY <1>1, <2>4
        <4>2. len = 0 /\ AtHeader(b, rem, ws, k)
          BY <2>1, <4>1 DEF Waits, InFrame
        <4>. QED
          BY <1>1, <2>4, <4>2, NothingEncoded DEF AtHeader
      <3>2. b = <<>> /\ rem = <<>>
        BY <3>1, ConcatEqualIffEmpty
      <3>3. CASE Spoils(p)
        <4>1. n + 1 \in 1..Len(aa) /\ (n + 1) - 1 = k /\ Len(hd) >= k
          BY <1>1, <1>3, <2>4
        <4>2. \A i \in 1..k : ~Spoils(aa[i])
          <5>1. \A i \in 1..k : i \in 1..n /\ i <= k + 1
            BY <2>4
          <5>. QED
            BY <1>3, <2>2, <5>1
        <4>3. Spoiled(hd, aa)
          BY <1>3, <2>3, <3>3, <4>1, <4>2 DEF Spoiled
        <4>. QED
          BY <1>2, <4>3 DEF InStep
      <3>4. CASE ~Spoils(p)
        <4>1. \A i \in 1..n + 1 : ~Spoils(aa[i])
          <5>1. ASSUME NEW i \in 1..n + 1 PROVE ~Spoils(aa[i])
            <6>1. CASE i = n + 1
              BY <1>3, <3>4, <6>1
            <6>2. CASE i # n + 1
              <7>1. i \in 1..n /\ i <= k + 1
                BY <2>4, <6>2
              <7>. QED
                BY <1>3, <2>2, <7>1
            <6>. QED
              BY <6>1, <6>2
          <5>. QED
            BY <5>1
        <4>2. k <= n + 1
          BY <2>2
        <4>3. Even(hd, aa)
          BY <1>1, <1>3, <2>3, <4>1, <4>2 DEF Even
        <4>4. AtHeader(b, rem \o e, aa, k)
          <5>1. Rest(Encodings(aa), n + 1) = <<>>
            BY <1>3, NothingEncoded
          <5>2. n < Len(aa)
            BY <1>3
          <5>3. Rest(Encodings(aa), n) = e \o <<>>
            BY <1>3, <1>4, <5>1, <5>2, NextEncoded
          <5>4. e \o <<>> = e /\ <<>> \o e = e
            BY ConcatEmptySeq
          <5>. QED
            BY <2>4, <3>2, <5>3, <5>4 DEF AtHeader
        <4>5. Len(b) < Len(PutUvarint32(Len(aa[k + 1]) % Word))
          <5>1. PICK x \in 0..Word - 1, h \in Seq(Nat), m \in 1..5 : IsEncoded(p, x, h, m)
            BY EncodeIs
          <5>2. Len(PutUvarint32(Len(p) % Word)) = m
            BY <5>1 DEF IsEncoded
          <5>3. Len(b) = 0
            BY <3>2
          <5>. QED
            BY <1>3, <2>4, <5>2, <5>3
        <4>6. Waits(b, len, rem \o e, aa, k)
          BY <3>1, <4>4, <4>5 DEF Waits
        <4>. QED
          BY <1>1, <1>2, <1>4, <4>3, <4>6 DEF InStep
      <3>. QED
        BY <3>3, <3>4
    <2>5. CASE k # n
      <3>1. k < n /\ k + 1 \in 1..n /\ aa[k + 1] = ws[k + 1]
        BY <1>3, <2>2, <2>5
      <3>2. Even(hd, aa)
        <4>1. ASSUME NEW i \in 1..n + 1, i <= k + 1 PROVE ~Spoils(aa[i])
          <5>1. i \in 1..n
            BY <3>1, <4>1
          <5>. QED
            BY <1>3, <2>2, <4>1, <5>1
        <4>2. k <= n + 1
          BY <2>2
        <4>. QED
          BY <1>1, <1>3, <2>3, <4>1, <4>2 DEF Even
      <3>3. PICK es \in Seq(Seq(Nat)) : es = Encodings(ws) /\ Len(es) = n
        BY <1>1, EncodingsAre
      <3>4. Encodings(aa) = Append(es, e)
        BY <1>2, <1>4, <3>3, EncodingsAre
      <3>5. k \in 0..Len(es) /\ k + 1 \in 0..Len(es)
        BY <3>1, <3>3
      <3>6. PICK r0 \in Seq(Nat), r1 \in Seq(Nat) : r0 = Rest(es, k) /\ r1 = Rest(es, k + 1)
        BY <3>5, RestAppend
      <3>7. Rest(Encodings(aa), k) = r0 \o e /\ Rest(Encodings(aa), k + 1) = r1 \o e
        BY <3>4, <3>5, <3>6, RestAppend
      <3>8. b \o (rem \o e) = (b \o rem) \o e
        <4>1. (b \o rem) \o e = b \o (rem \o e)
          <5>1. Joined(b, rem, e)
            BY JoinBytes
          <5>. QED
            BY <5>1 DEF Joined
        <4>. QED
          BY <4>1
      <3>9. CASE len = 0 /\ AtHeader(b, rem, ws, k) /\ Len(b) < Len(PutUvarint32(Len(ws[k + 1]) % Word))
        <4>1. b \o rem = r0
          BY <3>3, <3>6, <3>9 DEF AtHeader
        <4>2. AtHeader(b, rem \o e, aa, k)
          BY <3>7, <3>8, <4>1 DEF AtHeader
        <4>3. Waits(b, len, rem \o e, aa, k)
          BY <3>1, <3>9, <4>2 DEF Waits
        <4>. QED
          BY <1>1, <1>2, <1>4, <3>2, <4>3 DEF InStep
      <3>10. CASE len > 0 /\ InFrame(b, len, rem, ws, k) /\ Len(b) < len
        <4>0. PICK q \in Seq(Nat) : q = ws[k + 1]
          BY <1>1, <3>1
        <4>1. len = Len(q) /\ b \o rem = q \o r1
          BY <3>3, <3>6, <3>10, <4>0 DEF InFrame
        <4>2. (q \o r1) \o e = q \o (r1 \o e)
          <5>1. Joined(q, r1, e)
            BY JoinBytes
          <5>. QED
            BY <5>1 DEF Joined
        <4>3. b \o (rem \o e) = q \o (r1 \o e)
          BY <3>8, <4>1, <4>2
        <4>4. k < Len(aa)
          BY <1>3, <3>1
        <4>5. InFrame(b, len, rem \o e, aa, k)
          BY <3>1, <3>7, <4>0, <4>1, <4>3, <4>4 DEF InFrame
        <4>6. Waits(b, len, rem \o e, aa, k)
          BY <3>10, <4>5 DEF Waits
        <4>. QED
          BY <1>1, <1>2, <1>4, <3>2, <4>6 DEF InStep
      <3>. QED
        BY <1>1, <2>1, <3>1, <3>9, <3>10 DEF Waits
    <2>. QED
      BY <2>4, <2>5
  <1>. QED
    BY <1>5, <1>6


\* The first frame that spoils, if there is one.
LEMMA FirstBadIs ==
    ASSUME written \in Seq(Seq(Nat))
    PROVE  /\ FirstBad \in 1..Len(written) + 1
           /\ FirstBad = Len(written) + 1 \/ Spoils(written[FirstBad])
           /\ \A j \in 1..FirstBad - 1 : ~Spoils(written[j])
  <1>1. PICK n \in Nat : n = Len(written)
    OBVIOUS
  <1>. DEFINE C(k) == (k = n + 1 \/ Spoils(written[k])) /\ \A j \in 1..k - 1 : ~Spoils(written[j])
              S == {k \in 1..n + 1 : k = n + 1 \/ Spoils(written[k])}
  <1>2. \E k \in 1..n + 1 : C(k)
    <2>1. S \subseteq Nat /\ n + 1 \in S
      OBVIOUS
    <2>2. PICK k \in S : \A j \in S : k <= j
      BY <2>1, LeastNumber
    <2>3. ASSUME NEW j \in 1..k - 1 PROVE ~Spoils(written[j])
      <3>1. j \in 1..n + 1 /\ ~(k <= j)
        OBVIOUS
      <3>. QED
        BY <2>2, <3>1
    <2>. QED
      BY <2>3
  <1>3. FirstBad = CHOOSE k \in 1..n + 1 : C(k)
    BY <1>1 DEF FirstBad
  <1>4. FirstBad \in 1..n + 1 /\ C(FirstBad)
    <2>. HIDE DEF C
    <2>. QED
      BY <1>2, <1>3
  <1>. QED
    BY <1>1, <1>4

\* In step, the frames are in order.
LEMMA InStepInOrder == CodInv => FramesInOrder
  <1>. SUFFICES ASSUME CodInv, scheme = "tcp"
                PROVE  /\ \A i \in 1..Len(handled) : i < FirstBad =>
                             i <= Len(written) /\ handled[i] = [type |-> TypeOf(written[i]), data |-> written[i]]
                       /\ underWay = <<>> => Len(handled) >= FirstBad - 1
                       /\ underWay = <<>> /\ FirstBad > Len(written) => buffer = <<>> /\ frameLength = 0
    BY DEF FramesInOrder
  <1>1. /\ written \in Seq(Seq(Nat)) /\ buffer \in Seq(Nat) /\ frameLength \in Nat /\ underWay \in Seq(Nat)
        /\ handled \in Seq(FramesOf(Seq(Nat))) /\ InStep(handled, buffer, frameLength, underWay, written, FALSE)
    BY DEF CodInv
  <1>2. PICK n \in Nat, k \in Nat : n = Len(written) /\ k = Len(handled)
    BY <1>1
  <1>3. PICK fb \in 1..n + 1 : fb = FirstBad
    BY <1>1, <1>2, FirstBadIs
  <1>4. (fb = n + 1 \/ Spoils(written[fb])) /\ \A j \in 1..fb - 1 : ~Spoils(written[j])
    BY <1>1, <1>2, <1>3, FirstBadIs
  <1>5. CASE Spoiled(handled, written)
    <2>1. PICK j \in 1..n : /\ Spoils(written[j]) /\ \A i \in 1..j - 1 : ~Spoils(written[i])
                            /\ k >= j - 1 /\ \A i \in 1..j - 1 : handled[i] = FrameFor(written[i])
      BY <1>2, <1>5 DEF Spoiled, Told
    <2>2. fb = j
      <3>1. ~(j < fb)
        <4>. SUFFICES ASSUME j < fb PROVE FALSE
          OBVIOUS
        <4>1. j \in 1..fb - 1
          OBVIOUS
        <4>. QED
          BY <1>4, <2>1, <4>1
      <3>2. ~(fb < j)
        <4>. SUFFICES ASSUME fb < j PROVE FALSE
          OBVIOUS
        <4>1. fb \in 1..j - 1 /\ fb # n + 1
          OBVIOUS
        <4>. QED
          BY <1>4, <2>1, <4>1
      <3>. QED
        BY <3>1, <3>2
    <2>3. ASSUME NEW i \in 1..k, i < fb PROVE i <= n /\ handled[i] = FrameFor(written[i])
      <3>1. i \in 1..j - 1 /\ i <= n
        BY <2>2, <2>3
      <3>. QED
        BY <2>1, <3>1
    <2>4. k >= fb - 1 /\ ~(fb > n)
      BY <2>1, <2>2
    <2>. QED
      BY <1>2, <1>3, <2>3, <2>4 DEF FrameFor
  <1>6. CASE ~Spoiled(handled, written)
    <2>1. Even(handled, written) /\ Waits(buffer, frameLength, underWay, written, k)
      BY <1>1, <1>2, <1>6 DEF InStep
    <2>2. k <= n /\ \A i \in 1..k : handled[i] = FrameFor(written[i])
      BY <1>2, <2>1 DEF Even, Told
    <2>3. ASSUME underWay = <<>> PROVE k = n /\ buffer = <<>> /\ frameLength = 0
      <3>0. buffer \o underWay = buffer
        BY <1>1, <2>3, ConcatEmptySeq
      <3>1. ~(k < n)
        <4>. SUFFICES ASSUME k < n PROVE FALSE
          OBVIOUS
        <4>1. PICK p \in Seq(Nat), rest \in Seq(Nat) : p = written[k + 1] /\ rest = Rest(Encodings(written), k + 1)
          BY <1>1, <1>2, NextEncoded
        <4>2. PICK x \in 0..Word - 1, h \in Seq(Nat), m \in 1..5 : IsEncoded(p, x, h, m)
          BY EncodeIs
        <4>3. PICK e \in Seq(Nat) : e = Encode(p) /\ Len(e) = m + Len(p) /\ Len(PutUvarint32(Len(p) % Word)) = m
          BY <4>2 DEF IsEncoded
        <4>4. Len(e \o rest) = Len(e) + Len(rest) /\ Len(p \o rest) = Len(p) + Len(rest)
          BY ConcatProperties
        <4>5. Len(p) \in Nat /\ Len(rest) \in Nat /\ Len(e) \in Nat
          OBVIOUS
        <4>6. CASE frameLength = 0
          <5>1. AtHeader(buffer, underWay, written, k) /\ Len(buffer) < m
            BY <1>2, <2>1, <4>1, <4>3, <4>6 DEF Waits
          <5>2. buffer = e \o rest
            BY <1>1, <1>2, <3>0, <4>1, <4>3, <5>1, NextEncoded DEF AtHeader
          <5>. QED
            BY <4>3, <4>4, <4>5, <5>1, <5>2
        <4>7. CASE frameLength # 0
          <5>1. InFrame(buffer, frameLength, underWay, written, k) /\ Len(buffer) < frameLength
            BY <2>1, <4>7 DEF Waits
          <5>2. frameLength = Len(p) /\ buffer = p \o rest
            BY <3>0, <4>1, <5>1 DEF InFrame
          <5>. QED
            BY <4>4, <4>5, <5>1, <5>2
        <4>. QED
          BY <4>6, <4>7
      <3>2. k = n
        BY <2>2, <3>1
      <3>3. frameLength = 0 /\ AtHeader(buffer, underWay, written, k)
        BY <1>2, <2>1, <3>1 DEF Waits, InFrame
      <3>4. buffer = <<>>
        BY <1>1, <1>2, <3>0, <3>2, <3>3, NothingEncoded DEF AtHeader
      <3>. QED
        BY <3>2, <3>3, <3>4
    <2>4. ASSUME NEW i \in 1..k PROVE i <= n /\ handled[i] = FrameFor(written[i])
      BY <2>2
    <2>5. fb - 1 <= n
      OBVIOUS
    <2>. QED
      BY <1>2, <1>3, <2>3, <2>4, <2>5 DEF FrameFor
  <1>. QED
    BY <1>5, <1>6

\* Datagrams are removed without a trace.
LEMMA RemovedFrom ==
    ASSUME NEW D, NEW s \in Seq(D), NEW k \in 1..Len(s)
    PROVE  RemoveAt(s, k) \in Seq(D)
  <1>1. PICK n \in Nat : n = Len(s) /\ k \in 1..n
    OBVIOUS
  <1>2. SubSeq(s, 1, k - 1) \in Seq(D)
    <2>1. 1 \in Int /\ k - 1 \in Int /\ \A i \in 1..k - 1 : s[i] \in D
      BY <1>1
    <2>. QED
      BY <2>1, SubSeqProperties
  <1>3. SubSeq(s, k + 1, n) \in Seq(D)
    <2>1. k + 1 \in Int /\ n \in Int /\ \A i \in k + 1..n : s[i] \in D
      BY <1>1
    <2>. QED
      BY <2>1, SubSeqProperties
  <1>. QED
    BY <1>1, <1>2, <1>3, ConcatProperties DEF RemoveAt


\* Frames of a larger set, and what may be under way or handed up when one
\* payload more has been written.
LEMMA MoreWritten ==
    ASSUME NEW ws \in Seq(Seq(Nat)), NEW p \in Seq(Nat)
    PROVE  /\ Datagrams(ws) \subseteq Datagrams(Append(ws, p)) /\ Encode(p) \in Datagrams(Append(ws, p))
           /\ Seq(Datagrams(ws)) \subseteq Seq(Datagrams(Append(ws, p)))
           /\ Seq(FramesOf(HeldOf(ws))) \subseteq Seq(FramesOf(HeldOf(Append(ws, p))))
  <1>1. PICK n \in Nat : n = Len(ws)
    OBVIOUS
  <1>2. PICK aa : aa = Append(ws, p)
    OBVIOUS
  <1>3. /\ Len(aa) = n + 1 /\ aa[n + 1] = p /\ \A i \in 1..n : aa[i] = ws[i]
        /\ n + 1 \in 1..n + 1 /\ \A i \in 1..n : i \in 1..n + 1
    BY <1>1, <1>2, AppendProperties
  <1>4. Datagrams(ws) \subseteq Datagrams(aa) /\ Encode(p) \in Datagrams(aa)
    BY <1>1, <1>3 DEF Datagrams
  <1>5. HeldOf(ws) \subseteq HeldOf(aa)
    BY <1>1, <1>3 DEF HeldOf
  <1>6. FramesOf(HeldOf(ws)) \subseteq FramesOf(HeldOf(aa))
    BY <1>5 DEF FramesOf
  <1>7. Seq(Datagrams(ws)) \subseteq Seq(Datagrams(aa))
    BY <1>4, SeqMonotonic
  <1>8. Seq(FramesOf(HeldOf(ws))) \subseteq Seq(FramesOf(HeldOf(aa)))
    BY <1>6, SeqMonotonic
  <1>. QED
    BY <1>2, <1>4, <1>7, <1>8

\* At first nothing is written, under way or handed up.
LEMMA CodInvInit == CodInit => CodInv
  <1>. SUFFICES ASSUME CodInit PROVE CodInv
    OBVIOUS
  <1>1. /\ scheme \in {"tcp", "udp"} /\ written = <<>> /\ underWay = <<>> /\ buffer = <<>>
        /\ frameLength = 0 /\ handled = <<>>
    BY DEF CodInit
  <1>2. /\ <<>> \in Seq(Nat) /\ <<>> \in Seq(Seq(Nat)) /\ <<>> \in Seq(FramesOf(Seq(Nat)))
        /\ <<>> \in Seq(Datagrams(written)) /\ <<>> \in Seq(FramesOf(HeldOf(written))) /\ Len(<<>>) = 0
    OBVIOUS
  <1>3. Even(<<>>, <<>>)
    BY <1>2 DEF Even, Told
  <1>4. Waits(<<>>, 0, <<>>, <<>>, 0)
    <2>1. Rest(Encodings(<<>>), 0) = <<>>
      BY <1>2, NothingEncoded
    <2>2. <<>> \o <<>> = <<>>
      BY <1>2, ConcatEmptySeq
    <2>3. ~(0 < Len(<<>>))
      BY <1>2
    <2>. QED
      BY <2>1, <2>2, <2>3 DEF Waits, AtHeader
  <1>5. InStep(<<>>, <<>>, 0, <<>>, <<>>, FALSE)
    BY <1>2, <1>3, <1>4 DEF InStep
  <1>. QED
    BY <1>1, <1>2, <1>5 DEF CodInv

\* A payload is written.
LEMMA CodInvWrite ==
    ASSUME CodInv, NEW payload \in Payloads, HandleWrite(payload)
    PROVE  CodInv'
  <1>1. PICK p \in Seq(Nat) : p = payload
    BY CodConstants
  <1>2. /\ scheme' = scheme /\ buffer' = buffer /\ frameLength' = frameLength /\ handled' = handled
        /\ written' = Append(written, p)
        /\ underWay' = IF scheme = "tcp" THEN underWay \o Encode(p) ELSE Append(underWay, Encode(p))
    BY <1>1 DEF HandleWrite
  <1>3. scheme \in {"tcp", "udp"} /\ written \in Seq(Seq(Nat)) /\ buffer \in Seq(Nat) /\ frameLength \in Nat
    BY DEF CodInv
  <1>4. PICK ws \in Seq(Seq(Nat)) : ws = written
    BY <1>3
  <1>5. written' \in Seq(Seq(Nat))
    BY <1>2, <1>3, AppendProperties
  <1>6. CASE scheme = "tcp"
    <2>1. /\ underWay \in Seq(Nat) /\ handled \in Seq(FramesOf(Seq(Nat)))
          /\ InStep(handled, buffer, frameLength, underWay, written, FALSE)
      BY <1>6 DEF CodInv
    <2>2. Encode(p) \in Seq(Nat)
      BY EncodeIs DEF IsEncoded
    <2>3. underWay' = underWay \o Encode(p) /\ underWay' \in Seq(Nat)
      BY <1>2, <1>6, <2>1, <2>2, ConcatProperties
    <2>4. InStep(handled, buffer, frameLength, underWay \o Encode(p), Append(written, p), FALSE)
      BY <1>3, <2>1, WriteInStep
    <2>5. InStep(handled, buffer, frameLength, underWay, written, FALSE)'
      BY <1>2, <2>3, <2>4
    <2>. QED
      BY <1>2, <1>3, <1>5, <1>6, <2>1, <2>3, <2>5 DEF CodInv
  <1>7. CASE scheme = "udp"
    <2>1. underWay \in Seq(Datagrams(ws)) /\ handled \in Seq(FramesOf(HeldOf(ws)))
      BY <1>4, <1>7 DEF CodInv
    <2>2. PICK aa : aa = Append(ws, p)
      OBVIOUS
    <2>3. underWay \in Seq(Datagrams(aa)) /\ handled \in Seq(FramesOf(HeldOf(aa))) /\ Encode(p) \in Datagrams(aa)
      BY <2>1, <2>2, MoreWritten
    <2>4. Append(underWay, Encode(p)) \in Seq(Datagrams(aa))
      BY <2>3, AppendProperties
    <2>5. written' = aa /\ underWay' = Append(underWay, Encode(p))
      BY <1>2, <1>4, <1>7, <2>2
    <2>. QED
      BY <1>2, <1>3, <1>5, <1>7, <2>3, <2>4, <2>5 DEF CodInv
  <1>. QED
    BY <1>3, <1>6, <1>7

\* A read from the stream.
LEMMA CodInvStream ==
    ASSUME CodInv, NEW n \in 1..PackLength, ReadStream(n)
    PROVE  CodInv'
  <1>1. /\ scheme = "tcp" /\ n <= Len(underWay) /\ underWay' = Drop(underWay, n)
        /\ scheme' = scheme /\ written' = written
    BY DEF ReadStream
  <1>2. /\ written \in Seq(Seq(Nat)) /\ buffer \in Seq(Nat) /\ frameLength \in Nat
        /\ underWay \in Seq(Nat) /\ handled \in Seq(FramesOf(Seq(Nat)))
        /\ InStep(handled, buffer, frameLength, underWay, written, FALSE)
    BY <1>1 DEF CodInv
  <1>3. PICK g : g = readAndDeal(buffer \o Prefix(underWay, n), frameLength)
    OBVIOUS
  <1>4. buffer' = g.buf /\ frameLength' = g.len /\ handled' = handled \o g.out
    BY <1>3 DEF ReadStream
  <1>5. n \in 0..Len(underWay)
    BY <1>1, <1>2, CodConstants
  <1>6. PICK a \in Seq(Nat), c \in Seq(Nat) : a = Prefix(underWay, n) /\ c = Drop(underWay, n) /\ a \o c = underWay
    BY <1>2, <1>5, CutInTwo
  <1>7. InStep(handled, buffer, frameLength, a \o c, written, FALSE)
    BY <1>2, <1>6
  <1>8. g \in Deals /\ InStep(handled \o g.out, g.buf, g.len, c, written, FALSE)
    <2>1. g = readAndDeal(buffer \o a, frameLength)
      BY <1>3, <1>6
    <2>. QED
      BY <1>2, <1>7, <2>1, ReadInStep
  <1>9. g.buf \in Seq(Nat) /\ g.len \in Nat /\ g.out \in Seq(FramesOf(Seq(Nat)))
    BY <1>8 DEF Deals
  <1>10. handled \o g.out \in Seq(FramesOf(Seq(Nat)))
    BY <1>2, <1>9, ConcatProperties
  <1>11. underWay' = c
    BY <1>1, <1>6
  <1>12. InStep(handled, buffer, frameLength, underWay, written, FALSE)'
    BY <1>1, <1>4, <1>8, <1>11
  <1>. QED
    BY <1>1, <1>2, <1>4, <1>9, <1>10, <1>11, <1>12 DEF CodInv

\* A datagram is read or lost.
LEMMA CodInvDatagram ==
    ASSUME CodInv, NEW k \in 1..Len(underWay), ReadDatagram(k) \/ LoseDatagram(k)
    PROVE  CodInv'
  <1>1. /\ scheme = "udp" /\ scheme' = scheme /\ written' = written /\ frameLength' = frameLength
        /\ underWay' = RemoveAt(underWay, k)
    BY DEF ReadDatagram, LoseDatagram
  <1>2. /\ written \in Seq(Seq(Nat)) /\ buffer \in Seq(Nat) /\ frameLength \in Nat
        /\ underWay \in Seq(Datagrams(written)) /\ handled \in Seq(FramesOf(HeldOf(written)))
    BY <1>1 DEF CodInv
  <1>3. underWay' \in Seq(Datagrams(written))
    BY <1>1, <1>2, RemovedFrom
  <1>4. buffer' \in Seq(Nat) /\ handled' \in Seq(FramesOf(HeldOf(written)))
    <2>1. CASE LoseDatagram(k)
      BY <1>2, <2>1 DEF LoseDatagram
    <2>2. CASE ReadDatagram(k)
      <3>1. PICK i \in 1..Len(written) : underWay[k] = Encode(written[i])
        <4>1. underWay[k] \in Datagrams(written)
          BY <1>2
        <4>. QED
          BY <4>1 DEF Datagrams
      <3>2. PICK p \in Seq(Nat) : p = written[i]
        BY <1>2
      <3>3. PICK rn : rn = IF Len(Encode(p)) < PackLength THEN Len(Encode(p)) ELSE PackLength
        OBVIOUS
      <3>4. PICK rx : rx = Prefix(Encode(p), rn) \o Drop(buffer, rn)
        OBVIOUS
      <3>5. rx \in Seq(Nat) /\ Held(p) \in Seq(Nat) /\ FrameOf(rx, rn) \in {<<>>, Held(p)}
        BY <1>2, <3>3, <3>4, DatagramFrame
      <3>6. /\ buffer' = rx
            /\ FrameOf(rx, rn) = <<>> => handled' = handled
            /\ FrameOf(rx, rn) # <<>> => handled' = Append(handled, FrameFor(FrameOf(rx, rn)))
        BY <2>2, <3>1, <3>2, <3>3, <3>4 DEF ReadDatagram, FrameFor
      <3>7. CASE FrameOf(rx, rn) = <<>>
        BY <1>2, <3>5, <3>6, <3>7
      <3>8. CASE FrameOf(rx, rn) # <<>>
        <4>1. FrameOf(rx, rn) = Held(p) /\ Held(p) \in HeldOf(written)
          BY <3>2, <3>5, <3>8 DEF HeldOf
        <4>2. PICK f : f = FrameFor(Held(p))
          OBVIOUS
        <4>3. f \in FramesOf(HeldOf(written))
          <5>1. TypeOf(Held(p)) \in {"data", "server"}
            BY DEF TypeOf
          <5>. QED
            BY <4>1, <4>2, <5>1 DEF FrameFor, FramesOf
        <4>4. Append(handled, f) \in Seq(FramesOf(HeldOf(written)))
          BY <1>2, <4>3, AppendProperties
        <4>. QED
          BY <3>5, <3>6, <3>8, <4>1, <4>2, <4>4
      <3>. QED
        BY <3>7, <3>8
    <2>. QED
      BY <2>1, <2>2
  <1>. QED
    BY <1>1, <1>2, <1>3, <1>4 DEF CodInv

\* What is handed up from a datagram is the payload of one that was written.
LEMMA CodInvDatagrams == CodInv => DatagramsIntact
  <1>. SUFFICES ASSUME CodInv, scheme = "udp", NEW i \in 1..Len(handled)
                PROVE  \E k \in 1..Len(written) : handled[i].data = Held(written[k])
    BY DEF DatagramsIntact
  <1>1. handled \in Seq(FramesOf(HeldOf(written)))
    BY DEF CodInv
  <1>2. handled[i] \in FramesOf(HeldOf(written))
    BY <1>1
  <1>3. handled[i].data \in HeldOf(written)
    BY <1>2 DEF FramesOf
  <1>. QED
    BY <1>3 DEF HeldOf

\* Frames leave the protobuf codecs as they were written (FramesIntact):
\* however the stream of readAndDeal is cut into reads, and from whatever an
\* earlier datagram left in the buffer.
THEOREM CodFramesIntact == CodSpec => []FramesIntact
  <1>1. CodInv /\ [CodNext]_codVars => CodInv'
    <2>. SUFFICES ASSUME CodInv, [CodNext]_codVars PROVE CodInv'
      OBVIOUS
    <2>1. ASSUME NEW payload \in Payloads, HandleWrite(payload) PROVE CodInv'
      BY <2>1, CodInvWrite
    <2>2. ASSUME NEW n \in 1..PackLength, ReadStream(n) PROVE CodInv'
      BY <2>2, CodInvStream
    <2>3. ASSUME NEW k \in 1..Len(underWay), ReadDatagram(k) \/ LoseDatagram(k) PROVE CodInv'
      BY <2>3, CodInvDatagram
    <2>4. CASE UNCHANGED codVars
      BY <2>4 DEF codVars, CodInv
    <2>. QED
      BY <2>1, <2>2, <2>3, <2>4 DEF CodNext
  <1>2. CodInv => FramesIntact
    BY InStepInOrder, CodInvDatagrams DEF FramesIntact
  <1>. QED
    BY <1>1, <1>2, CodInvInit, PTL DEF CodSpec

=============================================================================

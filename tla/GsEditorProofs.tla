--------------------------- MODULE GsEditorProofs ---------------------------
(***************************************************************************)
(* The editor is right: proofs about GsEditor, GsTrack and GsHistory.      *)
(*                                                                         *)
(*   - a checkpoint is a gate the stride divides, the next one is a stride *)
(*     on, and turned round a leg is the same leg (NextTurned);            *)
(*   - the editor's operators are folds over sequences (a road piece laid  *)
(*     square by square, a transaction taken back entry by entry), and the *)
(*     provers know nothing of a fold: it is a function that FoldLeft's    *)
(*     CHOOSE finds (LeftThere), and the last of a chain of results        *)
(*     (LeftChain, RightChain);                                            *)
(*   - a track turned round has the same legs (TurnedBack), and what is    *)
(*     packed to bytes comes back (ComesBack);                             *)
(*   - each operation of gs_edit.c enters one change that, taken back,     *)
(*     gives the track that was (Links), or leaves all as it is (After);   *)
(*   - so there is a chain of tracks the log goes through (Goes), and undo *)
(*     and redo move along it by whole transactions (Undid, Redid);        *)
(*   - the tracks where transactions begin are the past and the future of  *)
(*     GsHistory (Past, Future), and a step of the editor is one of its;   *)
(*   - every action of the editor keeps EditorInv.                         *)
(***************************************************************************)
EXTENDS GsEditor, FiniteSetTheorems, NaturalsInduction, TLAPS

-----------------------------------------------------------------------------
(* Numbers and what is counted *)

\* Less than, as a relation whose every chain downward ends.
LEMMA NatLess ==
  \E R : IsWellFoundedOn(R, Nat) /\ \A x, y \in Nat : y < x => <<y, x>> \in R
<1> DEFINE R == OpToRel(<, Nat)
<1>1. IsWellFoundedOn(R, Nat)
  BY NatLessThanWellFounded, Zenon
<1>2. \A x, y \in Nat : y < x => <<y, x>> \in R
  BY Zenon DEF OpToRel
<1> HIDE DEF R
<1>3. QED
  BY <1>1, <1>2

\* A set of naturals that is not empty has a least element.
LEMMA LeastNat ==
  ASSUME NEW T, T \subseteq Nat, T # {}
  PROVE  \E x \in T : \A y \in T : x <= y
<1>1. PICK R : IsWellFoundedOn(R, Nat) /\ \A x, y \in Nat : y < x => <<y, x>> \in R
  BY NatLess
<1>2. \E x \in T : \A y \in T : ~(<<y, x>> \in R)
  BY <1>1, WFMin
<1>3. PICK x \in T : \A y \in T : ~(<<y, x>> \in R)
  BY <1>2
<1>4. ASSUME NEW y \in T PROVE x <= y
  <2>1. x \in Nat /\ y \in Nat /\ ~(<<y, x>> \in R)
    BY <1>3
  <2>2. ~(y < x)
    BY <1>1, <2>1
  <2> QED
    BY <2>1, <2>2
<1>5. QED
  BY <1>4

\* What holds of nothing and goes on from each number to the next holds of all of them.
LEMMA StepByStep ==
  ASSUME NEW P, NEW n \in Nat, 0 \in P, \A k \in 1 .. n : k - 1 \in P => k \in P
  PROVE  \A k \in 0 .. n : k \in P
<1> DEFINE bad == {k \in 0 .. n : k \notin P}
<1>1. SUFFICES ASSUME bad # {} PROVE FALSE
  OBVIOUS
<1>2. PICK k \in bad : \A j \in bad : k <= j
  <2>1. bad \subseteq Nat
    OBVIOUS
  <2> HIDE DEF bad
  <2> QED
    BY <1>1, <2>1, LeastNat
<1>3. k # 0
  BY <1>2
<1>4. k - 1 \in 0 .. n /\ k - 1 \notin bad
  BY <1>2, <1>3
<1> QED
  BY <1>2, <1>3, <1>4

\* What is numbered from one and has nothing twice has as many as the last number.
LEMMA CountedOnce ==
  ASSUME NEW n \in Nat, NEW S, NEW f \in [1 .. n -> S], \A x \in S : \E i \in 1 .. n : f[i] = x
  PROVE  /\ IsFiniteSet(S) /\ Cardinality(S) <= n
         /\ (\A i, j \in 1 .. n : f[i] = f[j] => i = j) => Cardinality(S) = n
<1>1. IsFiniteSet(1 .. n) /\ Cardinality(1 .. n) = n
  BY FS_Interval
<1>2. f \in Surjection(1 .. n, S)
  BY Zenon DEF Surjection
<1>3. /\ IsFiniteSet(S) /\ Cardinality(S) <= Cardinality(1 .. n)
      /\ Cardinality(S) = Cardinality(1 .. n) <=> f \in Injection(1 .. n, S)
  BY <1>1, <1>2, FS_Surjection
<1>4. (\A i, j \in 1 .. n : f[i] = f[j] => i = j) => f \in Injection(1 .. n, S)
  BY DEF Injection, IsInjective
<1> QED
  BY <1>1, <1>3, <1>4

-----------------------------------------------------------------------------
(* Strides *)

\* A number that a stride divides is some strides.
LEMMA Strides ==
  ASSUME NEW k \in Nat \ {0}, NEW x \in Nat
  PROVE  x % k = 0 <=> \E q \in Nat : x = k * q
<1>1. /\ x = k * (x \div k) + (x % k) /\ x % k \in 0 .. k - 1 /\ x \div k \in Int
  OBVIOUS
<1>2. ASSUME x % k = 0 PROVE \E q \in Nat : x = k * q
  <2>1. PICK q \in Int : q = x \div k
    BY <1>1
  <2>2. x = k * q
    BY <1>1, <1>2, <2>1
  <2>3. q < 0 => k * q < 0
    OBVIOUS
  <2> QED
    BY <2>2, <2>3
<1>3. ASSUME NEW q \in Nat, x = k * q PROVE x % k = 0
  <2>1. PICK d \in Int : d = x \div k
    BY <1>1
  <2>2. k * q = k * d + (x % k)
    BY <1>1, <1>3, <2>1
  <2>3. k * (q - d) = k * q - k * d /\ q - d \in Int /\ k * q \in Int /\ k * d \in Int
    OBVIOUS
  <2> DEFINE a == k * q
             b == k * d
             c == k * (q - d)
  <2>9. a = b + (x % k) /\ c = a - b /\ a \in Int /\ b \in Int /\ x % k \in Int
    BY <2>2, <2>3, <1>1
  <2> HIDE DEF a, b, c
  <2>10. c = x % k
    BY <2>9
  <2>4. k * (q - d) = x % k
    BY <2>10 DEF c
  <2>5. PICK e \in Int : e = q - d
    BY <2>3
  <2>6. k * e \in 0 .. k - 1
    BY <2>4, <2>5, <1>1
  <2>7. (e < 0 => k * e < 0) /\ (e > 0 => k * e >= k)
    OBVIOUS
  <2>8. e = 0
    BY <2>6, <2>7
  <2> QED
    BY <2>4, <2>5, <2>8
<1> QED
  BY <1>2, <1>3

\* y more than a multiple of k is a multiple of k exactly when y is.
LEMMA StrideSum ==
  ASSUME NEW k \in Nat \ {0}, NEW x \in Nat, NEW y \in Nat, x % k = 0
  PROVE  y % k = 0 <=> (x + y) % k = 0
<1>1. PICK q \in Nat : x = k * q
  BY Strides
<1>2. ASSUME y % k = 0 PROVE (x + y) % k = 0
  <2>1. PICK r \in Nat : y = k * r
    BY <1>2, Strides
  <2>2. x + y = k * (q + r) /\ q + r \in Nat
    BY <1>1, <2>1
  <2>3. PICK z : z = x + y
    OBVIOUS
  <2>4. z \in Nat /\ \E w \in Nat : z = k * w
    BY <2>2, <2>3
  <2> QED
    BY <2>3, <2>4, Strides
<1>3. ASSUME (x + y) % k = 0 PROVE y % k = 0
  <2>1. PICK z \in Nat : z = x + y
    OBVIOUS
  <2>2. PICK r \in Nat : z = k * r
    BY <1>3, <2>1, Strides
  <2>3. y = k * (r - q) /\ r - q \in Int
    BY <1>1, <2>1, <2>2
  <2>4. PICK w \in Int : w = r - q
    BY <2>3
  <2>5. y = k * w /\ (w < 0 => k * w < 0)
    BY <2>3, <2>4
  <2>6. w \in Nat
    BY <2>5
  <2> QED
    BY <2>5, <2>6, Strides
<1> QED
  BY <1>2, <1>3

\* From a number the stride divides, the next one it divides is a stride on.
LEMMA StrideOn ==
  ASSUME NEW k \in Nat \ {0}, NEW x \in Nat, x % k = 0
  PROVE  (x + k) % k = 0 /\ \A s \in 1 .. k - 1 : (x + s) % k # 0
<1>1. k % k = 0
  <2>1. k = k * 1
    OBVIOUS
  <2> QED
    BY <2>1, Strides
<1>2. ASSUME NEW s \in 1 .. k - 1 PROVE s % k # 0
  <2>1. SUFFICES ASSUME NEW q \in Nat, s = k * q PROVE FALSE
    BY Strides
  <2>2. (q = 0 => k * q = 0) /\ (q > 0 => k * q >= k)
    OBVIOUS
  <2> QED
    BY <2>1, <2>2
<1>3. (x + k) % k = 0
  BY <1>1, StrideSum
<1>4. ASSUME NEW s \in 1 .. k - 1 PROVE (x + s) % k # 0
  <2>1. s \in Nat /\ s % k # 0
    BY <1>2
  <2>2. s % k = 0 <=> (x + s) % k = 0
    BY <2>1, StrideSum
  <2> QED
    BY <2>1, <2>2
<1> QED
  BY <1>3, <1>4

\* Round a loop, no further than back to where one was.
LEMMA RoundALoop ==
  ASSUME NEW n \in Nat \ {0}, NEW x \in 0 .. n + n - 1
  PROVE  x % n = IF x < n THEN x ELSE x - n
<1>1. CASE x < n
  BY <1>1
<1>2. CASE x >= n
  <2>1. /\ x = n * (x \div n) + (x % n) /\ x % n \in 0 .. n - 1 /\ x \div n \in Int
    OBVIOUS
  <2>2. PICK q \in Int : q = x \div n
    BY <2>1
  <2>3. (q <= 0 => n * q <= 0) /\ (q >= 2 => n * q >= n + n)
    BY <2>2
  <2>4. q = 1
    BY <1>2, <2>1, <2>2, <2>3
  <2> QED
    BY <1>2, <2>1, <2>2, <2>4
<1> QED
  BY <1>1, <1>2

-----------------------------------------------------------------------------
(* A track the other way round *)

\* Two gates or more, and the stride comes out even.
Even(t) ==
    /\ t.every \in Nat \ {0} /\ Gates(t) \in Nat /\ Gates(t) >= 2
    /\ IF IsCircuit(t) THEN Gates(t) % t.every = 0 ELSE (Gates(t) - 1) % t.every = 0

\* Its checkpoints are what the stride divides.
LEMMA CheckpointIs ==
  ASSUME NEW t, Even(t), NEW i \in 0 .. Gates(t) - 1
  PROVE  IsCheckpoint(t, i) <=> i % t.every = 0
<1> DEFINE k == t.every
           n == Gates(t)
<1>1. k \in Nat \ {0} /\ n \in Nat /\ n >= 2
  BY DEF Even
<1>2. k <= 1 => i % k = 0
  <2>1. i = 1 * i
    OBVIOUS
  <2> QED
    BY <1>1, <2>1, Strides
<1>3. 0 % k = 0
  <2>1. 0 = k * 0
    BY <1>1
  <2> QED
    BY <1>1, <2>1, Strides
<1>4. FinishGate(t) % k = 0
  <2>1. ~IsCircuit(t) => FinishGate(t) = n - 1 /\ (n - 1) % k = 0
    BY <1>1 DEF FinishGate, Even
  <2>2. IsCircuit(t) => FinishGate(t) = 0
    BY DEF FinishGate
  <2> QED
    BY <2>1, <2>2, <1>3
<1> QED
  BY <1>1, <1>2, <1>3, <1>4 DEF IsCheckpoint

\* The next one is a stride on: back at the line on a loop, nowhere at a path's end.
LEMMA NextIs ==
  ASSUME NEW t, Even(t), NEW i \in 0 .. Gates(t) - 1, i % t.every = 0
  PROVE  /\ IsCircuit(t) => i + t.every <= Gates(t)
         /\ NextCheckpoint(t, i) = IF i + t.every < Gates(t) THEN i + t.every
                                   ELSE IF IsCircuit(t) THEN 0 ELSE i
<1>1. PICK k, n : k = t.every /\ n = Gates(t)
  OBVIOUS
<1>2. k \in Nat \ {0} /\ n \in Nat \ {0} /\ n >= 2 /\ i \in 0 .. n - 1 /\ i % k = 0
  BY <1>1 DEF Even
<1>3. IsCircuit(t) => n % k = 0
  BY <1>1 DEF Even
<1>4. (i + k) % k = 0 /\ \A s \in 1 .. k - 1 : (i + s) % k # 0
  <2>1. i \in Nat
    BY <1>2
  <2> QED
    BY <1>2, <2>1, StrideOn
<1>5. IsCircuit(t) => i + k <= n
  <2>1. SUFFICES ASSUME IsCircuit(t), i + k > n PROVE FALSE
    BY <1>2
  <2>2. n - i \in 1 .. k - 1 /\ i + (n - i) = n
    BY <1>2, <2>1
  <2> QED
    BY <1>3, <1>4, <2>1, <2>2
<1> DEFINE steps == {s \in 1 .. n : /\ IsCheckpoint(t, (i + s) % n)
                                    /\ IsCircuit(t) \/ i + s < n}
<1>6. NextCheckpoint(t, i) = IF steps = {} THEN i
                             ELSE (i + (CHOOSE s \in steps : \A r \in steps : s <= r)) % n
  BY <1>1 DEF NextCheckpoint
<1>7. \A s \in 1 .. n : (i + s) % n = IF i + s < n THEN i + s ELSE i + s - n
  <2>1. ASSUME NEW s \in 1 .. n
        PROVE  (i + s) % n = IF i + s < n THEN i + s ELSE i + s - n
    <3>1. PICK x \in 0 .. n + n - 1 : x = i + s
      BY <1>2
    <3>2. x % n = IF x < n THEN x ELSE x - n
      BY <1>2, RoundALoop
    <3> QED
      BY <1>2, <3>1, <3>2
  <2> QED
    BY <2>1
<1>8. ASSUME NEW s \in 1 .. n PROVE s \in steps <=> (i + s) % k = 0 /\ (IsCircuit(t) \/ i + s < n)
  <2>1. CASE i + s < n
    <3>1. (i + s) % n = i + s /\ i + s \in 0 .. n - 1
      BY <1>7, <1>2, <2>1
    <3>2. IsCheckpoint(t, i + s) <=> (i + s) % k = 0
      BY <1>1, <3>1, CheckpointIs
    <3> QED
      BY <2>1, <3>1, <3>2
  <2>2. CASE ~(i + s < n) /\ IsCircuit(t)
    <3>1. PICK y \in Nat : y = i + s - n
      BY <1>2, <2>2
    <3>2. (i + s) % n = y /\ y \in 0 .. n - 1 /\ n + y = i + s
      BY <1>7, <1>2, <2>2, <3>1
    <3>3. IsCheckpoint(t, y) <=> y % k = 0
      BY <1>1, <3>2, CheckpointIs
    <3>4. y % k = 0 <=> (n + y) % k = 0
      BY <1>2, <1>3, <2>2, <3>1, StrideSum
    <3> QED
      BY <2>2, <3>2, <3>3, <3>4
  <2>3. CASE ~(i + s < n) /\ ~IsCircuit(t)
    BY <2>3
  <2> QED
    BY <2>1, <2>2, <2>3
<1>9. steps \subseteq 1 .. n /\ \A s \in steps : s >= k
  <2>1. ASSUME NEW s \in steps, s < k PROVE FALSE
    <3>1. s \in 1 .. n /\ (i + s) % k = 0
      BY <1>8
    <3>2. s \in 1 .. k - 1
      BY <2>1, <3>1, <1>2
    <3> QED
      BY <3>1, <3>2, <1>4
  <2> QED
    BY <2>1, <1>2
<1> HIDE DEF steps
<1>10. CASE i + k < n \/ IsCircuit(t)
  <2>1. k \in steps
    <3>1. k \in 1 .. n
      BY <1>2, <1>5, <1>10
    <3> QED
      BY <3>1, <1>4, <1>8, <1>10
  <2>2. (CHOOSE s \in steps : \A r \in steps : s <= r) = k
    <3>1. k \in steps /\ \A r \in steps : k <= r
      BY <1>9, <2>1, <1>2
    <3>2. \A s \in steps : (\A r \in steps : s <= r) => s = k
      BY <1>9, <2>1, <1>2
    <3> QED
      BY <3>1, <3>2
  <2>3. NextCheckpoint(t, i) = (i + k) % n
    BY <1>6, <2>1, <2>2
  <2>4. (i + k) % n = IF i + k < n THEN i + k ELSE i + k - n
    BY <1>7, <1>9, <2>1
  <2> QED
    BY <1>1, <1>2, <1>5, <1>10, <2>3, <2>4
<1>11. CASE ~(i + k < n) /\ ~IsCircuit(t)
  <2>1. steps = {}
    <3>1. ASSUME NEW s \in steps PROVE FALSE
      <4>1. s \in 1 .. n /\ i + s < n /\ s >= k
        BY <1>8, <1>9, <1>11
      <4> QED
        BY <4>1, <1>2, <1>11
    <3> QED
      BY <3>1
  <2> QED
    BY <1>1, <1>6, <1>11, <2>1
<1> QED
  BY <1>1, <1>5, <1>10, <1>11

\* The gate that comes to be gate i, counted without going round.
LEMMA FromIs ==
  ASSUME NEW t, Gates(t) \in Nat, Gates(t) >= 2, NEW i \in 0 .. Gates(t) - 1
  PROVE  From(t, i) = IF ~IsCircuit(t) THEN Gates(t) - 1 - i
                      ELSE IF i = 0 THEN 0 ELSE Gates(t) - i
<1>1. PICK n : n = Gates(t)
  OBVIOUS
<1>2. n \in Nat \ {0} /\ n >= 2 /\ i \in 0 .. n - 1
  BY <1>1
<1>3. From(t, i) = IF ~IsCircuit(t) THEN n - 1 - i ELSE (n - i) % n
  BY <1>1 DEF From
<1>4. CASE i = 0
  <2>1. n \in 0 .. n + n - 1
    BY <1>2
  <2>2. n % n = IF n < n THEN n ELSE n - n
    BY <1>2, <2>1, RoundALoop, Zenon
  <2>3. n - i = n
    BY <1>2, <1>4
  <2>4. (n - i) % n = n % n
    BY <2>3
  <2>5. n % n = 0
    BY <1>2, <2>2
  <2> QED
    BY <1>1, <1>3, <1>4, <2>4, <2>5
<1>5. CASE i # 0
  <2>1. (n - i) % n = n - i
    BY <1>2, <1>5
  <2> QED
    BY <1>1, <1>3, <1>5, <2>1
<1> QED
  BY <1>4, <1>5

\* Where a gate goes when the route is turned: to where it came from, turned again; and a
\* checkpoint's next one, turned, has the checkpoint for its own next.
LEMMA FromBack ==
  ASSUME NEW t, Even(t), NEW i \in 0 .. Gates(t) - 1
  PROVE  From(t, i) \in 0 .. Gates(t) - 1 /\ From(t, From(t, i)) = i
<1>1. PICK n : n = Gates(t)
  OBVIOUS
<1>2. n \in Nat /\ n >= 2 /\ i \in 0 .. n - 1
  BY <1>1 DEF Even
<1>3. \A j \in 0 .. n - 1 : From(t, j) = IF ~IsCircuit(t) THEN n - 1 - j
                                         ELSE IF j = 0 THEN 0 ELSE n - j
  BY <1>1, <1>2, FromIs
<1>4. From(t, i) \in 0 .. n - 1
  BY <1>2, <1>3
<1>5. From(t, From(t, i)) = i
  BY <1>2, <1>3, <1>4
<1> QED
  BY <1>1, <1>4, <1>5

\* On a track turned round, what follows the image of a checkpoint's next is the checkpoint's
\* own image: legs are the same legs, driven backwards.
LEMMA NextTurned ==
  ASSUME NEW t, Even(t), NEW r, Even(r), Gates(r) = Gates(t), r.every = t.every,
         IsCircuit(r) <=> IsCircuit(t),
         NEW a \in 0 .. Gates(t) - 1, IsCheckpoint(t, a), NextCheckpoint(t, a) # a
  PROVE  /\ NextCheckpoint(t, a) \in 0 .. Gates(t) - 1
         /\ IsCheckpoint(r, From(t, NextCheckpoint(t, a)))
         /\ NextCheckpoint(r, From(t, NextCheckpoint(t, a))) = From(t, a)
<1>1. PICK n, k : n = Gates(t) /\ k = t.every
  OBVIOUS
<1>2. n \in Nat \ {0} /\ n >= 2 /\ k \in Nat \ {0}
  BY <1>1 DEF Even
<1>3. a \in 0 .. n - 1 /\ a % k = 0
  BY <1>1, CheckpointIs
<1>4. \A j \in 0 .. n - 1 : From(t, j) = IF ~IsCircuit(t) THEN n - 1 - j
                                         ELSE IF j = 0 THEN 0 ELSE n - j
  BY <1>1, <1>2, FromIs
<1>5. /\ IsCircuit(t) => a + k <= n
      /\ NextCheckpoint(t, a) = IF a + k < n THEN a + k ELSE IF IsCircuit(t) THEN 0 ELSE a
  BY <1>1, <1>3, NextIs
<1>6. 0 % k = 0
  <2>1. 0 = k * 0
    BY <1>2
  <2> QED
    BY <1>2, <2>1, Strides
<1>7. ASSUME NEW i \in 0 .. n - 1, i % k = 0
      PROVE  /\ IsCheckpoint(r, i)
             /\ NextCheckpoint(r, i) = IF i + k < n THEN i + k ELSE IF IsCircuit(t) THEN 0 ELSE i
  <2>1. i \in 0 .. Gates(r) - 1 /\ i % r.every = 0
    BY <1>1, <1>7
  <2> QED
    BY <1>1, <2>1, CheckpointIs, NextIs
<1>8. (a + k) % k = 0
  <2>1. a \in Nat
    BY <1>3
  <2> QED
    BY <1>2, <1>3, <2>1, StrideOn
<1>9. CASE a + k < n /\ IsCircuit(t)
  <2> DEFINE i == n - (a + k)
  <2>1. NextCheckpoint(t, a) = a + k /\ From(t, a + k) = i /\ i \in 0 .. n - 1 /\ a + k \in Nat
    BY <1>1, <1>2, <1>3, <1>4, <1>5, <1>9
  <2>2. i % k = 0
    <3>1. (a + k) + i = n /\ n % k = 0 /\ i \in Nat
      BY <1>1, <1>2, <1>3, <1>9, <2>1 DEF Even
    <3>2. i % k = 0 <=> ((a + k) + i) % k = 0
      BY <1>2, <1>8, <2>1, <3>1, StrideSum
    <3> QED
      BY <3>1, <3>2
  <2>3. From(t, a) = IF a = 0 THEN 0 ELSE n - a
    BY <1>1, <1>2, <1>3, <1>4, <1>9
  <2>4. i + k = n - a
    BY <1>2, <1>3
  <2> QED
    BY <1>1, <1>2, <1>3, <1>7, <1>9, <2>1, <2>2, <2>3, <2>4
<1>10. CASE ~(a + k < n) /\ IsCircuit(t)
  <2>1. NextCheckpoint(t, a) = 0 /\ From(t, 0) = 0 /\ a # 0
    BY <1>1, <1>2, <1>4, <1>5, <1>10
  <2>2. From(t, a) = n - a /\ n - a = k
    BY <1>1, <1>2, <1>3, <1>4, <1>5, <1>10, <2>1
  <2>3. IsCheckpoint(r, 0) /\ NextCheckpoint(r, 0) = k
    BY <1>2, <1>3, <1>6, <1>7, <1>10, <2>1, <2>2
  <2> QED
    BY <1>1, <1>2, <2>1, <2>2, <2>3
<1>11. CASE ~IsCircuit(t)
  <2> DEFINE i == n - 1 - (a + k)
  <2>1. a + k < n /\ NextCheckpoint(t, a) = a + k
    BY <1>5, <1>11
  <2>2. From(t, a + k) = i /\ i \in 0 .. n - 1 /\ From(t, a) = n - 1 - a
    <3>1. PICK y \in 0 .. n - 1 : y = a + k
      BY <1>2, <1>3, <2>1
    <3>2. From(t, y) = n - 1 - y
      BY <1>4, <1>11
    <3> QED
      BY <1>2, <1>3, <1>4, <1>11, <3>1, <3>2
  <2>3. i % k = 0
    <3>1. (a + k) + i = n - 1 /\ (n - 1) % k = 0 /\ i \in Nat /\ a + k \in Nat
      BY <1>1, <1>2, <1>3, <1>11, <2>1 DEF Even
    <3>2. i % k = 0 <=> ((a + k) + i) % k = 0
      BY <1>2, <1>8, <3>1, StrideSum
    <3> QED
      BY <3>1, <3>2
  <2>4. i + k = n - 1 - a /\ i + k < n
    BY <1>2, <1>3
  <2> QED
    BY <1>1, <1>2, <1>3, <1>7, <1>11, <2>1, <2>2, <2>3, <2>4
<1> QED
  BY <1>9, <1>10, <1>11

-----------------------------------------------------------------------------
(* Folds *)

\* c says which of some elements is next; F[x] is the step of x, from D into D.
Picks(c, S) == \A s \in SUBSET S : s # {} => c[s] \in s
StepsIn(F, S, D) == \A x \in S : F[x] \in [D -> D]
FoldOf(it, S, base, c, F) ==
  it[{}] = base /\ \A s \in SUBSET S : s # {} => it[s] = F[c[s]][it[s \ {c[s]}]]

\* The same from the first to the last of n, from the last to the first, as long as
\* it stays in D; and what it comes to on the way.
FromLeft(it, n, D, base, F) ==
  it[{}] = base /\ \A s \in SUBSET (1 .. n) : s # {} /\ it[s \ {Max(s)}] \in D
                                            => it[s] = F[Max(s)][it[s \ {Max(s)}]]
FromRight(it, n, D, base, F) ==
  it[{}] = base /\ \A s \in SUBSET (1 .. n) : s # {} /\ it[s \ {Min(s)}] \in D
                                            => it[s] = F[Min(s)][it[s \ {Min(s)}]]
UpChain(g, n, base, F) == g[0] = base /\ \A k \in 1 .. n : g[k] = F[k][g[k - 1]]
DownChain(g, n, base, F) == g[n] = base /\ \A k \in 1 .. n : g[k - 1] = F[k][g[k]]

\* A step for each element of a finite set, taken in whatever order c says, can be gone
\* through from a start: D is where it stays, F[x] the step of x.
LEMMA FoldThere ==
  ASSUME NEW S, IsFiniteSet(S), NEW D, NEW base \in D, NEW c, NEW F,
         Picks(c, S), StepsIn(F, S, D)
  PROVE  \E it \in [SUBSET S -> D] : FoldOf(it, S, base, c, F)
<1> DEFINE Goes(it, s) == it[s] = IF s = {} THEN base ELSE F[c[s]][it[s \ {c[s]}]]
           upTo == {n \in Nat : \E it \in [SUBSET S -> D] :
                       \A s \in SUBSET S : Cardinality(s) <= n => Goes(it, s)}
<1>1. \A s \in SUBSET S : IsFiniteSet(s) /\ Cardinality(s) \in Nat /\ Cardinality(s) <= Cardinality(S)
  BY FS_Subset, FS_CardinalityType
<1>2. Cardinality(S) \in Nat
  BY FS_CardinalityType
<1>3. \A s \in SUBSET S : s # {} => /\ s \ {c[s]} \in SUBSET S
                                   /\ Cardinality(s \ {c[s]}) = Cardinality(s) - 1
                                   /\ c[s] \in S
  BY <1>1, FS_RemoveElement DEF Picks
<1>4. 0 \in upTo
  <2>1. [s \in SUBSET S |-> base] \in [SUBSET S -> D]
    OBVIOUS
  <2>2. \A s \in SUBSET S : Cardinality(s) <= 0 => s = {}
    BY <1>1, FS_EmptySet
  <2>3. \A s \in SUBSET S : Cardinality(s) <= 0 => Goes([r \in SUBSET S |-> base], s)
    BY <2>2
  <2> QED
    BY <2>1, <2>3
<1>5. ASSUME NEW k \in 1 .. Cardinality(S), k - 1 \in upTo PROVE k \in upTo
  <2>1. PICK it \in [SUBSET S -> D] : \A s \in SUBSET S : Cardinality(s) <= k - 1 => Goes(it, s)
    BY <1>5
  <2> DEFINE nx == [s \in SUBSET S |-> IF Cardinality(s) <= k - 1 THEN it[s]
                                       ELSE F[c[s]][it[s \ {c[s]}]]]
  <2>2. nx \in [SUBSET S -> D]
    <3>1. ASSUME NEW s \in SUBSET S, ~(Cardinality(s) <= k - 1) PROVE F[c[s]][it[s \ {c[s]}]] \in D
      <4>1. s # {}
        <5>1. Cardinality({}) = 0
          BY FS_EmptySet
        <5>2. Cardinality({}) <= k - 1
          BY <5>1, <1>2
        <5> QED
          BY <3>1, <5>2
      <4>2. it[s \ {c[s]}] \in D /\ c[s] \in S
        BY <1>3, <2>1, <4>1
      <4>3. F[c[s]] \in [D -> D]
        BY <4>2 DEF StepsIn
      <4> QED
        BY <4>2, <4>3
    <3> QED
      BY <2>1, <3>1
  <2>3. ASSUME NEW s \in SUBSET S, Cardinality(s) <= k PROVE Goes(nx, s)
    <3>1. CASE s = {}
      <4>1. Cardinality(s) <= k - 1
        BY <3>1, <1>2, FS_EmptySet
      <4>2. nx[s] = it[s] /\ Goes(it, s)
        BY <4>1, <2>1
      <4>3. it[s] = base
        BY <4>2, <3>1
      <4> QED
        BY <4>2, <4>3, <3>1
    <3>2. CASE s # {}
      <4> DEFINE r == s \ {c[s]}
      <4>1. r \in SUBSET S /\ Cardinality(r) <= k - 1
        BY <3>2, <1>1, <1>3, <2>3, <1>2
      <4>2. nx[r] = it[r]
        BY <4>1
      <4>3. nx[s] = F[c[s]][it[r]]
        <5>1. CASE Cardinality(s) <= k - 1
          <6>1. nx[s] = it[s]
            BY <5>1
          <6>2. Goes(it, s)
            BY <2>1, <5>1
          <6> QED
            BY <6>1, <6>2, <3>2
        <5>2. CASE ~(Cardinality(s) <= k - 1)
          BY <5>2
        <5> QED
          BY <5>1, <5>2
      <4> HIDE DEF nx, r
      <4>4. nx[s] = F[c[s]][nx[r]]
        BY <4>2, <4>3
      <4> QED
        BY <4>4, <3>2 DEF r
    <3> QED
      BY <3>1, <3>2
  <2> HIDE DEF nx
  <2>4. k \in Nat
    BY <1>2
  <2> QED
    BY <2>2, <2>3, <2>4
<1>6. Cardinality(S) \in upTo
  <2> HIDE DEF upTo
  <2> QED
    BY <1>2, <1>4, <1>5, StepByStep
<1>7. PICK it \in [SUBSET S -> D] : \A s \in SUBSET S : Cardinality(s) <= Cardinality(S) => Goes(it, s)
  BY <1>6
<1>8. \A s \in SUBSET S : Goes(it, s)
  BY <1>1, <1>7
<1>9. FoldOf(it, S, base, c, F)
  BY <1>8 DEF FoldOf
<1> QED
  BY <1>9

\* Whoever takes those steps never leaves the set they stay in.
LEMMA FoldStays ==
  ASSUME NEW S, IsFiniteSet(S), NEW D, NEW c, NEW it,
         Picks(c, S), it[{}] \in D,
         \A s \in SUBSET S : s # {} /\ it[s \ {c[s]}] \in D => it[s] \in D
  PROVE  it[S] \in D
<1> DEFINE upTo == {n \in Nat : \A s \in SUBSET S : Cardinality(s) = n => it[s] \in D}
<1>1. \A s \in SUBSET S : IsFiniteSet(s) /\ Cardinality(s) \in Nat
  BY FS_Subset, FS_CardinalityType
<1>2. 0 \in upTo
  BY <1>1, FS_EmptySet
<1>3. ASSUME NEW k \in 1 .. Cardinality(S), k - 1 \in upTo PROVE k \in upTo
  <2>1. ASSUME NEW s \in SUBSET S, Cardinality(s) = k PROVE it[s] \in D
    <3>1. s # {}
      BY <2>1, <1>1, FS_EmptySet
    <3>2. s \ {c[s]} \in SUBSET S /\ Cardinality(s \ {c[s]}) = k - 1
      BY <3>1, <2>1, <1>1, FS_RemoveElement DEF Picks
    <3> QED
      BY <3>1, <3>2, <1>3
  <2> QED
    BY <2>1
<1>4. Cardinality(S) \in Nat
  BY <1>1
<1>5. Cardinality(S) \in upTo
  <2> HIDE DEF upTo
  <2> QED
    BY <1>2, <1>3, <1>4, StepByStep
<1> QED
  BY <1>5

\* The greatest and the least of some numbers up to n.
LEMMA GreatestUpTo ==
  ASSUME NEW n \in Nat
  PROVE  /\ \A s \in SUBSET (1 .. n) : s # {} => Max(s) \in s
         /\ \A k \in 1 .. n : Max(1 .. k) = k /\ (1 .. k) \ {k} = 1 .. k - 1
<1>1. ASSUME NEW s \in SUBSET (1 .. n), s # {} PROVE Max(s) \in s
  <2> DEFINE down == {n - x : x \in s}
  <2>1. down \subseteq Nat /\ down # {}
    <3>1. PICK x \in s : TRUE
      BY <1>1
    <3>2. n - x \in down
      BY <3>1
    <3> QED
      BY <3>2
  <2> HIDE DEF down
  <2>2. PICK y \in down : \A z \in down : y <= z
    BY <2>1, LeastNat
  <2>3. PICK x \in s : y = n - x
    BY <2>2 DEF down
  <2>4. \A z \in s : n - z \in down
    BY DEF down
  <2>5. ASSUME NEW z \in s PROVE x >= z
    <3>1. y <= n - z
      BY <2>2, <2>4
    <3> QED
      BY <2>3, <3>1
  <2> QED
    BY <2>5 DEF Max
<1>2. ASSUME NEW k \in 1 .. n PROVE Max(1 .. k) = k /\ (1 .. k) \ {k} = 1 .. k - 1
  <2>1. Max(1 .. k) \in 1 .. k /\ \A y \in 1 .. k : Max(1 .. k) >= y
    <3>1. k \in 1 .. k /\ \A y \in 1 .. k : k >= y
      OBVIOUS
    <3> QED
      BY <3>1 DEF Max
  <2> QED
    BY <2>1
<1> QED
  BY <1>1, <1>2

\* The least of some numbers up to n is one of them, and the least of k .. n is k.
LEMMA LeastUpTo ==
  ASSUME NEW n \in Nat
  PROVE  /\ \A s \in SUBSET (1 .. n) : s # {} => Min(s) \in s
         /\ \A k \in 1 .. n : Min(k .. n) = k /\ (k .. n) \ {k} = k + 1 .. n
<1>1. ASSUME NEW s \in SUBSET (1 .. n), s # {} PROVE Min(s) \in s
  <2>1. s \subseteq Nat
    OBVIOUS
  <2>2. PICK x \in s : \A y \in s : x <= y
    BY <1>1, <2>1, LeastNat
  <2> QED
    BY <2>2 DEF Min
<1>2. ASSUME NEW k \in 1 .. n PROVE Min(k .. n) = k /\ (k .. n) \ {k} = k + 1 .. n
  <2>1. Min(k .. n) \in k .. n /\ \A y \in k .. n : Min(k .. n) <= y
    <3>1. k \in k .. n /\ \A y \in k .. n : k <= y
      OBVIOUS
    <3> QED
      BY <3>1 DEF Min
  <2> QED
    BY <2>1
<1> QED
  BY <1>1, <1>2

\* A fold from the left, from the right: that there is one.
LEMMA LeftThere ==
  ASSUME NEW n \in Nat, NEW D, NEW base \in D, NEW F, StepsIn(F, 1 .. n, D)
  PROVE  \E it \in [SUBSET (1 .. n) -> D] : FromLeft(it, n, D, base, F)
<1> DEFINE S == 1 .. n
           c == [s \in SUBSET S |-> Max(s)]
<1>1. IsFiniteSet(S)
  BY FS_Interval
<1>2. \A s \in SUBSET S : c[s] = Max(s)
  OBVIOUS
<1>3. Picks(c, S)
  BY <1>2, GreatestUpTo DEF Picks
<1> HIDE DEF c, S
<1>4. \E it \in [SUBSET S -> D] : FoldOf(it, S, base, c, F)
  <2>1. StepsIn(F, S, D)
    BY DEF S
  <2> QED
    BY <1>1, <1>3, <2>1, FoldThere
<1>5. PICK it \in [SUBSET S -> D] : FoldOf(it, S, base, c, F)
  BY <1>4
<1>6. it[{}] = base /\ \A s \in SUBSET S : s # {} => it[s] = F[Max(s)][it[s \ {Max(s)}]]
  BY <1>2, <1>5 DEF FoldOf
<1> QED
  BY <1>6 DEF S, FromLeft

\* There is a fold from the right of any n steps that stay in a set: FoldRight's CHOOSE has
\* what to choose.
LEMMA RightThere ==
  ASSUME NEW n \in Nat, NEW D, NEW base \in D, NEW F, StepsIn(F, 1 .. n, D)
  PROVE  \E it \in [SUBSET (1 .. n) -> D] : FromRight(it, n, D, base, F)
<1> DEFINE S == 1 .. n
           c == [s \in SUBSET S |-> Min(s)]
<1>1. IsFiniteSet(S)
  BY FS_Interval
<1>2. \A s \in SUBSET S : c[s] = Min(s)
  OBVIOUS
<1>3. Picks(c, S)
  BY <1>2, LeastUpTo DEF Picks
<1> HIDE DEF c, S
<1>4. \E it \in [SUBSET S -> D] : FoldOf(it, S, base, c, F)
  <2>1. StepsIn(F, S, D)
    BY DEF S
  <2> QED
    BY <1>1, <1>3, <2>1, FoldThere
<1>5. PICK it \in [SUBSET S -> D] : FoldOf(it, S, base, c, F)
  BY <1>4
<1>6. it[{}] = base /\ \A s \in SUBSET S : s # {} => it[s] = F[Min(s)][it[s \ {Min(s)}]]
  BY <1>2, <1>5 DEF FoldOf
<1> QED
  BY <1>6 DEF S, FromRight

\* And that it goes from one to the next: g[k] is how far it has come after k of them.
LEMMA LeftChain ==
  ASSUME NEW n \in Nat, NEW D, NEW base \in D, NEW F, StepsIn(F, 1 .. n, D),
         NEW it, FromLeft(it, n, D, base, F)
  PROVE  \E g \in [0 .. n -> D] : UpChain(g, n, base, F) /\ it[1 .. n] = g[n]
<1> DEFINE in == {k \in 0 .. n : it[1 .. k] \in D}
<1>1. it[1 .. 0] = base
  <2>1. 1 .. 0 = {}
    OBVIOUS
  <2> QED
    BY <2>1 DEF FromLeft
<1>2. ASSUME NEW k \in 1 .. n, it[1 .. k - 1] \in D
      PROVE  it[1 .. k] = F[k][it[1 .. k - 1]] /\ it[1 .. k] \in D
  <2>1. Max(1 .. k) = k /\ (1 .. k) \ {k} = 1 .. k - 1
    BY GreatestUpTo
  <2>2. 1 .. k \in SUBSET (1 .. n) /\ 1 .. k # {}
    <3>1. k \in 1 .. k /\ \A x \in 1 .. k : x \in 1 .. n
      OBVIOUS
    <3> QED
      BY <3>1
  <2> DEFINE all == 1 .. k
             m == Max(all)
             but == all \ {m}
             rest == 1 .. k - 1
  <2>3. m = k /\ but = rest /\ all \in SUBSET (1 .. n) /\ all # {}
    BY <2>1, <2>2
  <2> HIDE DEF all, but, rest, m
  <2>4. it[but] \in D
    BY <1>2, <2>3 DEF rest
  <2>5. it[all] = F[m][it[but]]
    BY <2>3, <2>4 DEF FromLeft, m, but
  <2>6. it[all] = F[k][it[rest]]
    BY <2>3, <2>5
  <2>7. it[rest] \in D /\ F[k] \in [D -> D]
    BY <1>2 DEF StepsIn, rest
  <2> QED
    BY <2>6, <2>7 DEF all, rest
<1>3. \A k \in 0 .. n : k \in in
  <2>1. 0 \in in
    BY <1>1
  <2>2. \A k \in 1 .. n : k - 1 \in in => k \in in
    BY <1>2
  <2> HIDE DEF in
  <2> QED
    BY <2>1, <2>2, StepByStep
<1> DEFINE g == [k \in 0 .. n |-> it[1 .. k]]
<1>4. g \in [0 .. n -> D]
  BY <1>3
<1>5. g[0] = base /\ it[1 .. n] = g[n]
  BY <1>1
<1>6. \A k \in 1 .. n : g[k] = F[k][g[k - 1]]
  BY <1>2, <1>3
<1> HIDE DEF g
<1> QED
  BY <1>4, <1>5, <1>6 DEF UpChain

\* From the right: g[k] before k of them are left.
LEMMA RightChain ==
  ASSUME NEW n \in Nat, NEW D, NEW base \in D, NEW F, StepsIn(F, 1 .. n, D),
         NEW it, FromRight(it, n, D, base, F)
  PROVE  \E g \in [0 .. n -> D] : DownChain(g, n, base, F) /\ it[1 .. n] = g[0]
<1> DEFINE in == {k \in 0 .. n : it[n - k + 1 .. n] \in D}
<1>1. it[n + 1 .. n] = base
  <2>1. n + 1 .. n = {}
    OBVIOUS
  <2> QED
    BY <2>1 DEF FromRight
<1>2. ASSUME NEW k \in 1 .. n, it[k + 1 .. n] \in D
      PROVE  it[k .. n] = F[k][it[k + 1 .. n]] /\ it[k .. n] \in D
  <2>1. Min(k .. n) = k /\ (k .. n) \ {k} = k + 1 .. n
    BY LeastUpTo
  <2>2. k .. n \in SUBSET (1 .. n) /\ k .. n # {}
    <3>1. k \in k .. n /\ \A x \in k .. n : x \in 1 .. n
      OBVIOUS
    <3> QED
      BY <3>1
  <2> DEFINE all == k .. n
             m == Min(all)
             but == all \ {m}
             rest == k + 1 .. n
  <2>3. m = k /\ but = rest /\ all \in SUBSET (1 .. n) /\ all # {}
    BY <2>1, <2>2
  <2> HIDE DEF all, but, rest, m
  <2>4. it[but] \in D
    BY <1>2, <2>3 DEF rest
  <2>5. it[all] = F[m][it[but]]
    BY <2>3, <2>4 DEF FromRight, m, but
  <2>6. it[all] = F[k][it[rest]]
    BY <2>3, <2>5
  <2>7. it[rest] \in D /\ F[k] \in [D -> D]
    BY <1>2 DEF StepsIn, rest
  <2> QED
    BY <2>6, <2>7 DEF all, rest
<1>3. \A k \in 0 .. n : k \in in
  <2>1. 0 \in in
    BY <1>1
  <2>2. ASSUME NEW k \in 1 .. n, k - 1 \in in PROVE k \in in
    <3>1. n - (k - 1) + 1 = (n - k + 1) + 1 /\ n - k + 1 \in 1 .. n
      OBVIOUS
    <3> QED
      BY <1>2, <2>2, <3>1
  <2> HIDE DEF in
  <2> QED
    BY <2>1, <2>2, StepByStep
<1>4. \A k \in 0 .. n : it[k + 1 .. n] \in D
  <2>1. ASSUME NEW k \in 0 .. n PROVE it[k + 1 .. n] \in D
    <3>1. n - k \in 0 .. n /\ n - (n - k) + 1 = k + 1
      OBVIOUS
    <3> QED
      BY <1>3, <3>1
  <2> QED
    BY <2>1
<1> DEFINE g == [k \in 0 .. n |-> it[k + 1 .. n]]
<1>5. g \in [0 .. n -> D]
  BY <1>4
<1>6. g[n] = base /\ it[1 .. n] = g[0]
  BY <1>1
<1>7. \A k \in 1 .. n : g[k - 1] = F[k][g[k]]
  <2>1. ASSUME NEW k \in 1 .. n PROVE g[k - 1] = F[k][g[k]]
    <3>1. (k - 1) + 1 = k /\ k - 1 \in 0 .. n /\ k \in 0 .. n
      OBVIOUS
    <3>2. g[k - 1] = it[k .. n] /\ g[k] = it[k + 1 .. n]
      BY <3>1
    <3> QED
      BY <1>2, <1>4, <3>1, <3>2
  <2> QED
    BY <2>1
<1> HIDE DEF g
<1> QED
  BY <1>5, <1>6, <1>7 DEF DownChain


-----------------------------------------------------------------------------
(* What comes back of a track *)

\* What a track is turned into is a track of as many gates.
LEMMA TurnedIs ==
  ASSUME NEW t \in Track
  PROVE  /\ TurnRound(t) \in Track /\ Gates(t) \in Nat /\ Gates(TurnRound(t)) = Gates(t)
         /\ TurnRound(t).every = t.every /\ TurnRound(t).route = t.route
         /\ TurnRound(t).ground = t.ground
         /\ Gates(t) < 2 => TurnRound(t).cut = t.cut
         /\ \A j \in 1 .. Gates(t) :
               TurnRound(t).gate[j] = Turned(t.gate[IF Gates(t) < 2 THEN j ELSE From(t, j - 1) + 1])
<1> DEFINE n == Gates(t)
<1>1. n \in Nat /\ n <= MaxGates /\ DOMAIN t.gate = 1 .. n /\ t.gate \in [1 .. n -> Post]
  BY EditAssumption DEF Track, Gates
<1>2. \A g \in Post : Turned(g) \in Post
  BY DEF Post, Turned
<1>3. \A j \in 0 .. n - 1 : n >= 2 => From(t, j) \in 0 .. n - 1
  BY <1>1, FromIs
<1> DEFINE at(j) == IF n < 2 THEN j ELSE From(t, j - 1) + 1
           s == [j \in 1 .. n |-> Turned(t.gate[at(j)])]
<1>4. \A j \in 1 .. n : at(j) \in 1 .. n
  <2>1. ASSUME NEW j \in 1 .. n, n >= 2 PROVE From(t, j - 1) + 1 \in 1 .. n
    <3>1. j - 1 \in 0 .. n - 1
      BY <1>1, <2>1
    <3>2. PICK k \in 0 .. n - 1 : k = From(t, j - 1)
      BY <1>3, <2>1, <3>1
    <3> QED
      BY <1>1, <3>2
  <2>2. ASSUME NEW j \in 1 .. n, ~(n >= 2) PROVE n < 2
    BY <1>1, <2>2
  <2> QED
    BY <1>1, <2>1, <2>2
<1>5. s \in [1 .. n -> Post]
  BY <1>1, <1>2, <1>4
<1>6. s \in Seq(Post) /\ Len(s) = n
  BY <1>1, <1>5
<1>7. TurnRound(t).gate = s
  BY <1>1 DEF TurnRound, Track
<1>8. n >= 2 => \A a \in 0 .. n - 1 : NextCheckpoint(t, a) \in 0 .. n - 1
  <2> SUFFICES ASSUME n >= 2, NEW a \in 0 .. n - 1 PROVE NextCheckpoint(t, a) \in 0 .. n - 1
    OBVIOUS
  <2> DEFINE steps == {z \in 1 .. n : /\ IsCheckpoint(t, (a + z) % n)
                                      /\ IsCircuit(t) \/ a + z < n}
             first == CHOOSE z \in steps : \A r \in steps : z <= r
  <2>1. NextCheckpoint(t, a) = IF steps = {} THEN a ELSE (a + first) % n
    BY DEF NextCheckpoint
  <2>2. steps # {} => first \in 1 .. n
    <3>1. SUFFICES ASSUME steps # {} PROVE first \in steps
      OBVIOUS
    <3>2. steps \subseteq Nat
      BY <1>1
    <3> HIDE DEF steps
    <3>3. \E z \in steps : \A r \in steps : z <= r
      BY <3>1, <3>2, LeastNat
    <3> QED
      BY <3>3
  <2> HIDE DEF steps, first
  <2>3. steps # {} => (a + first) % n \in 0 .. n - 1
    BY <1>1, <2>2
  <2> QED
    BY <2>1, <2>3
<1>9. TurnRound(t).cut \in SUBSET (0 .. MaxGates - 1)
  <2>1. CASE n < 2
    BY <2>1 DEF TurnRound, Track
  <2>2. CASE ~(n < 2)
    <3>1. TurnRound(t).cut = {From(t, NextCheckpoint(t, a)) : a \in {c \in 0 .. n - 1 : c \in t.cut}}
      BY <2>2 DEF TurnRound, Track
    <3>2. 0 .. n - 1 \subseteq 0 .. MaxGates - 1
      BY <1>1, EditAssumption
    <3> QED
      BY <1>1, <1>3, <1>8, <2>2, <3>1, <3>2
  <2> QED
    BY <2>1, <2>2
<1>10. TurnRound(t) = [ground |-> t.ground, gate |-> s, route |-> t.route, every |-> t.every,
                       cut |-> TurnRound(t).cut]
  BY <1>7 DEF TurnRound, Track
<1>11. TurnRound(t) \in Track
  <2>1. s \in {z \in Seq(Post) : Len(z) <= MaxGates}
    BY <1>1, <1>6
  <2>2. PICK u, c : u = s /\ c = TurnRound(t).cut
    OBVIOUS
  <2>3. [ground |-> t.ground, gate |-> u, route |-> t.route, every |-> t.every, cut |-> c] \in Track
    BY <1>9, <2>1, <2>2 DEF Track
  <2> QED
    BY <1>10, <2>2, <2>3
<1>12. Gates(TurnRound(t)) = n
  BY <1>6, <1>7 DEF Gates
<1>13. n < 2 => TurnRound(t).cut = t.cut
  BY DEF TurnRound, Track
<1>14. \A j \in 1 .. n : TurnRound(t).gate[j] = Turned(t.gate[at(j)])
  BY <1>7
<1> QED
  BY <1>1, <1>10, <1>11, <1>12, <1>13, <1>14

\* Two tracks are one when all that is kept of them is the same.
LEMMA SameTrack ==
  ASSUME NEW t \in Track, NEW u \in Track, t.ground = u.ground, t.gate = u.gate,
         t.route = u.route, t.every = u.every, t.cut = u.cut
  PROVE  t = u
BY DEF Track

\* The rest of TurnsBack: of any track whose stride divides its route.
LEMMA TurnedBack ==
  ASSUME NEW t \in Track, Divided(t)
  PROVE  ShortLegs(TurnRound(t)) = ShortLegs(t) /\ TurnRound(TurnRound(t)) = t
<1> DEFINE r == TurnRound(t)
           b == TurnRound(r)
<1>1. PICK n : n = Gates(t)
  OBVIOUS
<1>2. /\ r \in Track /\ n \in Nat /\ Gates(r) = n /\ r.every = t.every /\ r.route = t.route
      /\ r.ground = t.ground
      /\ n < 2 => r.cut = t.cut
  BY <1>1, TurnedIs
<1>3. \A j \in 1 .. n : r.gate[j] = Turned(t.gate[IF n < 2 THEN j ELSE From(t, j - 1) + 1])
  BY <1>1, TurnedIs
<1>4. /\ b \in Track /\ Gates(b) = n /\ b.every = t.every /\ b.route = t.route
      /\ b.ground = t.ground
      /\ n < 2 => b.cut = t.cut
  BY <1>2, TurnedIs
<1>5. \A j \in 1 .. n : b.gate[j] = Turned(r.gate[IF n < 2 THEN j ELSE From(r, j - 1) + 1])
  BY <1>2, TurnedIs
<1>6. \A j : From(r, j) = From(t, j)
  BY <1>1, <1>2 DEF From, IsCircuit
<1>7. \A g \in Post : Turned(Turned(g)) = g /\ Turned(g)[1] = g[1]
  <2>1. \A x \in BOOLEAN : (~(~x)) = x
    OBVIOUS
  <2> SUFFICES ASSUME NEW g \in Post PROVE Turned(Turned(g)) = g /\ Turned(g)[1] = g[1]
    OBVIOUS
  <2>2. PICK w \in Where, x \in BOOLEAN : g = <<w, x>>
    BY DEF Post
  <2>3. Turned(g) = <<w, ~x>>
    BY <2>2 DEF Turned
  <2>4. Turned(Turned(g)) = <<w, ~(~x)>>
    BY <2>3 DEF Turned
  <2> QED
    BY <2>1, <2>2, <2>3, <2>4
<1>8. t.gate \in [1 .. n -> Post] /\ b.gate \in [1 .. n -> Post] /\ r.gate \in [1 .. n -> Post]
  BY <1>1, <1>2, <1>4 DEF Track, Gates
<1> HIDE DEF r, b
<1>9. CASE n < 2
  <2>1. \A j \in 1 .. n : b.gate[j] = t.gate[j]
    BY <1>3, <1>5, <1>7, <1>8, <1>9
  <2>2. b.gate = t.gate
    <3>1. PICK f, g : f = b.gate /\ g = t.gate
      OBVIOUS
    <3>2. f \in [1 .. n -> Post] /\ g \in [1 .. n -> Post] /\ \A j \in 1 .. n : f[j] = g[j]
      BY <1>8, <2>1, <3>1
    <3>3. f = g
      <4>1. PICK S : S = 1 .. n
        OBVIOUS
      <4>2. f \in [S -> Post] /\ g \in [S -> Post] /\ \A j \in S : f[j] = g[j]
        BY <3>2, <4>1
      <4> QED
        BY <4>2
    <3> QED
      BY <3>1, <3>3
  <2>3. b = t
    BY <1>4, <1>9, <2>2, SameTrack
  <2>4. t.cut = {}
    <3>1. SUFFICES ASSUME NEW i \in t.cut PROVE FALSE
      OBVIOUS
    <3>2. IsCheckpoint(t, i) /\ NextCheckpoint(t, i) # i /\ i \in Nat
      BY EditAssumption DEF Divided, Track
    <3>3. n = 1 /\ i = 0
      BY <1>1, <1>2, <1>9, <3>2 DEF IsCheckpoint
    <3> DEFINE steps == {s \in 1 .. n : /\ IsCheckpoint(t, (i + s) % n)
                                        /\ IsCircuit(t) \/ i + s < n}
    <3>4. steps = {} \/ steps = {1}
      BY <3>3
    <3>5. (CHOOSE s \in {1} : \A u \in {1} : s <= u) = 1
      OBVIOUS
    <3>6. NextCheckpoint(t, i) = IF steps = {} THEN i
                                 ELSE (i + (CHOOSE s \in steps : \A u \in steps : s <= u)) % n
      BY <1>1 DEF NextCheckpoint
    <3> HIDE DEF steps
    <3>7. NextCheckpoint(t, i) = i \/ NextCheckpoint(t, i) = (i + 1) % n
      BY <3>4, <3>5, <3>6
    <3> QED
      BY <3>2, <3>3, <3>7
  <2>5. r.cut = {} /\ ShortLegs(r) = {} /\ ShortLegs(t) = {}
    BY <1>2, <1>9, <2>4 DEF ShortLegs, ShortcutFrom
  <2> QED
    BY <2>3, <2>5 DEF b, r
<1>10. CASE ~(n < 2)
  <2>1. Even(t) /\ Even(r)
    <3>1. t.every \in Nat \ {0} /\ n >= 2 /\ n # 0
      BY <1>2, <1>10 DEF Track
    <3>2. Even(t)
      BY <1>1, <1>2, <3>1 DEF Even, Divided
    <3> QED
      BY <1>1, <1>2, <3>2 DEF Even, IsCircuit
  <2>2. \A i \in 0 .. n - 1 : From(t, i) \in 0 .. n - 1 /\ From(t, From(t, i)) = i
    BY <1>1, <2>1, FromBack
  <2>3. IsCircuit(r) <=> IsCircuit(t)
    BY <1>2 DEF IsCircuit
  <2>4. b.gate = t.gate
    <3>1. ASSUME NEW j \in 1 .. n PROVE b.gate[j] = t.gate[j]
      <4>1. PICK i \in 0 .. n - 1 : i = j - 1
        BY <1>2
      <4>2. PICK f \in 0 .. n - 1 : f = From(t, i)
        BY <2>2
      <4>3. b.gate[j] = Turned(r.gate[f + 1]) /\ f + 1 \in 1 .. n
        BY <1>2, <1>5, <1>6, <1>10, <4>1, <4>2
      <4>4. r.gate[f + 1] = Turned(t.gate[From(t, f) + 1])
        <5>1. PICK h \in 1 .. n : h = f + 1 /\ h - 1 = f
          BY <1>2, <4>3
        <5>2. r.gate[h] = Turned(t.gate[From(t, h - 1) + 1])
          BY <1>3, <1>10
        <5> QED
          BY <5>1, <5>2
      <4>5. From(t, f) = i /\ i + 1 = j
        BY <2>2, <4>1, <4>2
      <4> QED
        BY <1>7, <1>8, <4>3, <4>4, <4>5
    <3>2. PICK f, g : f = b.gate /\ g = t.gate
      OBVIOUS
    <3>3. f \in [1 .. n -> Post] /\ g \in [1 .. n -> Post] /\ \A j \in 1 .. n : f[j] = g[j]
      BY <1>8, <3>1, <3>2
    <3>4. f = g
      <4>1. PICK S : S = 1 .. n
        OBVIOUS
      <4>2. f \in [S -> Post] /\ g \in [S -> Post] /\ \A j \in S : f[j] = g[j]
        BY <3>3, <4>1
      <4> QED
        BY <4>2
    <3> QED
      BY <3>2, <3>4
  <2>5. \A a \in t.cut : /\ a \in 0 .. n - 1 /\ IsCheckpoint(t, a) /\ NextCheckpoint(t, a) # a
                         /\ ShortcutFrom(t, a)
    BY <1>1, <1>2, EditAssumption DEF Divided, IsCheckpoint, Track, ShortcutFrom
  <2>6. \A a \in t.cut : /\ NextCheckpoint(t, a) \in 0 .. n - 1
                         /\ IsCheckpoint(r, From(t, NextCheckpoint(t, a)))
                         /\ NextCheckpoint(r, From(t, NextCheckpoint(t, a))) = From(t, a)
    BY <1>1, <1>2, <2>1, <2>3, <2>5, NextTurned
  <2>7. r.cut = {From(t, NextCheckpoint(t, a)) : a \in t.cut}
    <3>1. r.cut = {From(t, NextCheckpoint(t, a)) : a \in {c \in 0 .. Gates(t) - 1 : c \in t.cut}}
      BY <1>1, <1>10 DEF TurnRound, Track, r
    <3>2. {c \in 0 .. Gates(t) - 1 : c \in t.cut} = t.cut
      BY <1>1, <2>5
    <3> QED
      BY <3>1, <3>2
  <2>8. b.cut = {From(t, NextCheckpoint(r, c)) : c \in r.cut}
    <3>1. b.cut = {From(r, NextCheckpoint(r, a)) : a \in {c \in 0 .. n - 1 : c \in r.cut}}
      BY <1>2, <1>10 DEF TurnRound, Track, b
    <3>2. {c \in 0 .. n - 1 : c \in r.cut} = r.cut
      BY <2>2, <2>6, <2>7
    <3> QED
      BY <1>6, <3>1, <3>2
  <2>9. b.cut = t.cut
    <3>1. \A a \in t.cut : From(t, NextCheckpoint(r, From(t, NextCheckpoint(t, a)))) = a
      BY <2>2, <2>5, <2>6
    <3> QED
      BY <2>7, <2>8, <3>1
  <2>10. b = t
    BY <1>4, <2>4, <2>9, SameTrack
  <2>11. \A i \in 0 .. n - 1 : /\ GateAt(r, i)[1] = GateAt(t, From(t, i))[1]
                               /\ GateAt(r, From(t, i))[1] = GateAt(t, i)[1]
    <3>1. ASSUME NEW i \in 0 .. n - 1 PROVE GateAt(r, i)[1] = GateAt(t, From(t, i))[1]
      <4>1. PICK j \in 1 .. n : j = i + 1 /\ j - 1 = i
        BY <1>2
      <4>2. PICK h \in 1 .. n : h = From(t, i) + 1
        BY <1>2, <2>2
      <4>3. r.gate[j] = Turned(t.gate[h])
        BY <1>3, <1>10, <4>1, <4>2
      <4>4. t.gate[h] \in Post
        BY <1>8
      <4>5. GateAt(r, i) = r.gate[j] /\ GateAt(t, From(t, i)) = t.gate[h]
        BY <4>1, <4>2 DEF GateAt
      <4> QED
        BY <1>7, <4>3, <4>4, <4>5
    <3> QED
      BY <2>2, <3>1
  <2>12. ShortLegs(t) = {{GateAt(t, a)[1], GateAt(t, NextCheckpoint(t, a))[1]} : a \in t.cut}
    BY <2>5 DEF ShortLegs
  <2>13. ShortLegs(r) = {{GateAt(r, c)[1], GateAt(r, NextCheckpoint(r, c))[1]} : c \in r.cut}
    <3>1. \A c \in r.cut : ShortcutFrom(r, c)
      BY <1>2, <2>2, <2>6, <2>7 DEF ShortcutFrom
    <3> QED
      BY <3>1 DEF ShortLegs
  <2>14. ASSUME NEW a \in t.cut
         PROVE  {GateAt(r, From(t, NextCheckpoint(t, a)))[1],
                 GateAt(r, NextCheckpoint(r, From(t, NextCheckpoint(t, a))))[1]}
                  = {GateAt(t, a)[1], GateAt(t, NextCheckpoint(t, a))[1]}
    <3>1. PICK x \in 0 .. n - 1 : x = NextCheckpoint(t, a)
      BY <2>6
    <3>2. /\ GateAt(r, From(t, x))[1] = GateAt(t, x)[1]
          /\ GateAt(r, From(t, a))[1] = GateAt(t, a)[1]
      BY <2>5, <2>11
    <3>3. NextCheckpoint(r, From(t, x)) = From(t, a)
      BY <2>6, <3>1
    <3> QED
      BY <3>1, <3>2, <3>3
  <2>15. ShortLegs(r) = ShortLegs(t)
    <3> DEFINE there(a) == {GateAt(t, a)[1], GateAt(t, NextCheckpoint(t, a))[1]}
               back(c) == {GateAt(r, c)[1], GateAt(r, NextCheckpoint(r, c))[1]}
               turned(a) == From(t, NextCheckpoint(t, a))
    <3>1. \A a \in t.cut : back(turned(a)) = there(a)
      BY <2>14
    <3>2. ShortLegs(t) = {there(a) : a \in t.cut} /\ ShortLegs(r) = {back(c) : c \in r.cut}
      BY <2>12, <2>13
    <3>3. r.cut = {turned(a) : a \in t.cut}
      BY <2>7
    <3> HIDE DEF there, back, turned
    <3> QED
      BY <3>1, <3>2, <3>3
  <2> QED
    BY <2>10, <2>15 DEF b, r
<1> QED
  BY <1>2, <1>9, <1>10

\* Any track is read back as it was written, and opens from its code.
LEMMA ComesBack ==
  ASSUME NEW t \in Track
  PROVE  Read(Written(t)) = t /\ Readable(Written(t)) /\ Decodes(Code(t))
<1> DEFINE f == Written(t)
<1>1. Version(t) \in 3 .. 5
  BY DEF Version
<1>2. /\ f.version = Version(t) /\ f.ground = t.ground /\ f.gate = t.gate /\ f.route = t.route
      /\ f.every = IF Version(t) >= 4 THEN t.every ELSE 0
      /\ f.cut = IF Version(t) >= 5 THEN t.cut ELSE {}
  BY DEF Written
<1> HIDE DEF f
<1>3. Readable(f)
  BY <1>1, <1>2 DEF Readable, Track
<1>4. (IF f.version >= 4 /\ f.every > 0 THEN f.every ELSE 1) = t.every
  BY <1>1, <1>2 DEF Version, Track
<1>5. (IF f.version >= 5 THEN f.cut ELSE {}) = t.cut
  BY <1>1, <1>2 DEF Version
<1>6. Read(f) = [ground |-> t.ground, gate |-> t.gate, route |-> t.route, every |-> t.every,
                 cut |-> t.cut]
  BY <1>1, <1>2, <1>4, <1>5 DEF Read
<1>7. Read(f) = t
  BY <1>6 DEF Track
<1> QED
  BY <1>3, <1>7 DEF f, Decodes, Code

-----------------------------------------------------------------------------
(* What is entered in the editor's log *)

Entry(kind, index, before, after, gate) ==
    [group : Nat, kind : {kind}, index : index, before : before, after : after, gate : gate]

GroundEntry == Entry("ground", Square, Stored, Stored, {<<>>})
AddEntry == Entry("add", 0 .. MaxGates - 1, {0}, {0}, Post)
RemoveEntry == Entry("remove", 0 .. MaxGates - 1, {0}, {0}, Post)
MoveEntry == Entry("move", 0 .. MaxGates - 1, 0 .. MaxGates - 1, {0}, Post)
RouteEntry == Entry("route", {0}, {"sprint", "circuit"}, {"sprint", "circuit"}, {<<>>})
EveryEntry == Entry("every", {0}, Nat \ {0}, Nat \ {0}, {<<>>})
CutEntry == Entry("cut", 0 .. MaxGates - 1, BOOLEAN, BOOLEAN, {<<>>})
LogEntry == GroundEntry \cup AddEntry \cup RemoveEntry \cup MoveEntry \cup RouteEntry
        \cup EveryEntry \cup CutEntry

\* Putting in and taking out, place by place.
PutIn(u, s, i, g) ==
    /\ Len(u) = Len(s) + 1
    /\ \A j \in 1 .. Len(s) + 1 : u[j] = IF j < i THEN s[j] ELSE IF j = i THEN g ELSE s[j - 1]
TakenOut(u, s, i) ==
    /\ Len(u) = Len(s) - 1
    /\ \A j \in 1 .. Len(s) - 1 : u[j] = IF j < i THEN s[j] ELSE s[j + 1]

\* What SequencesExt's InsertAt gives: the same before i, g at i, the rest one further on.
LEMMA InsertIs ==
  ASSUME NEW P, NEW s \in Seq(P), NEW i \in 1 .. Len(s) + 1, NEW g \in P
  PROVE  InsertAt(s, i, g) \in Seq(P) /\ PutIn(InsertAt(s, i, g), s, i, g)
<1>1. Len(s) \in Nat
  OBVIOUS
<1> DEFINE a == SubSeq(s, 1, i - 1)
           b == SubSeq(s, i, Len(s))
<1>2. a \in Seq(P) /\ Len(a) = i - 1 /\ \A j \in 1 .. i - 1 : a[j] = s[j]
  OBVIOUS
<1>3. b \in Seq(P) /\ Len(b) = Len(s) - i + 1 /\ \A j \in 1 .. Len(s) - i + 1 : b[j] = s[i + j - 1]
  OBVIOUS
<1>4. <<g>> \in Seq(P) /\ Len(<<g>>) = 1 /\ <<g>>[1] = g
  OBVIOUS
<1>5. InsertAt(s, i, g) = (a \o <<g>>) \o b
  BY DEF InsertAt
<1> HIDE DEF a, b
<1>6. /\ a \o <<g>> \in Seq(P) /\ Len(a \o <<g>>) = i
      /\ \A j \in 1 .. i : (a \o <<g>>)[j] = IF j < i THEN a[j] ELSE g
  BY <1>1, <1>2, <1>4
<1>7. PICK c : c = a \o <<g>>
  OBVIOUS
<1>8. c \in Seq(P) /\ Len(c) = i /\ \A j \in 1 .. i : c[j] = IF j < i THEN a[j] ELSE g
  BY <1>6, <1>7
<1>9. /\ c \o b \in Seq(P) /\ Len(c \o b) = Len(s) + 1
      /\ \A j \in 1 .. Len(s) + 1 : (c \o b)[j] = IF j <= i THEN c[j] ELSE b[j - i]
  <2>1. c \o b \in Seq(P) /\ Len(c \o b) = Len(s) + 1
    <3>0. c \in Seq(P) /\ b \in Seq(P)
      BY <1>3, <1>8
    <3>1. c \o b \in Seq(P) /\ Len(c \o b) = Len(c) + Len(b)
      BY <3>0
    <3>2. Len(c) + Len(b) = Len(s) + 1
      BY <1>1, <1>3, <1>8
    <3> QED
      BY <3>1, <3>2
  <2>2. ASSUME NEW j \in 1 .. Len(s) + 1 PROVE (c \o b)[j] = IF j <= i THEN c[j] ELSE b[j - i]
    BY <1>1, <1>3, <1>8
  <2> QED
    BY <2>1, <2>2
<1>10. ASSUME NEW j \in 1 .. Len(s) + 1
       PROVE  (c \o b)[j] = IF j < i THEN s[j] ELSE IF j = i THEN g ELSE s[j - 1]
  <2>1. CASE j <= i
    BY <1>1, <1>2, <1>8, <1>9, <2>1
  <2>2. CASE ~(j <= i)
    <3>1. PICK d \in 1 .. Len(s) - i + 1 : d = j - i
      BY <1>1, <2>2
    <3>2. b[d] = s[i + d - 1] /\ i + d - 1 = j - 1
      BY <1>1, <1>3, <3>1
    <3>3. (c \o b)[j] = b[d]
      BY <1>1, <1>9, <2>2, <3>1
    <3> QED
      BY <1>1, <2>2, <3>2, <3>3
  <2> QED
    BY <2>1, <2>2
<1> QED
  BY <1>5, <1>7, <1>9, <1>10 DEF PutIn

\* What SequencesExt's RemoveAt gives: the same before i, the rest one nearer.
LEMMA RemoveIs ==
  ASSUME NEW P, NEW s \in Seq(P), NEW i \in 1 .. Len(s)
  PROVE  RemoveAt(s, i) \in Seq(P) /\ TakenOut(RemoveAt(s, i), s, i)
<1>1. Len(s) \in Nat
  OBVIOUS
<1> DEFINE a == SubSeq(s, 1, i - 1)
           b == SubSeq(s, i + 1, Len(s))
<1>2. a \in Seq(P) /\ Len(a) = i - 1 /\ \A j \in 1 .. i - 1 : a[j] = s[j]
  OBVIOUS
<1>3. b \in Seq(P) /\ Len(b) = Len(s) - i /\ \A j \in 1 .. Len(s) - i : b[j] = s[i + j]
  OBVIOUS
<1>4. RemoveAt(s, i) = a \o b
  BY DEF RemoveAt
<1> HIDE DEF a, b
<1>5. /\ a \o b \in Seq(P) /\ Len(a \o b) = Len(s) - 1
      /\ \A j \in 1 .. Len(s) - 1 : (a \o b)[j] = IF j <= i - 1 THEN a[j] ELSE b[j - (i - 1)]
  <2>1. a \o b \in Seq(P) /\ Len(a \o b) = Len(s) - 1
    <3>0. a \in Seq(P) /\ b \in Seq(P)
      BY <1>2, <1>3
    <3>1. a \o b \in Seq(P) /\ Len(a \o b) = Len(a) + Len(b)
      BY <3>0
    <3>2. Len(a) + Len(b) = Len(s) - 1
      BY <1>1, <1>2, <1>3
    <3> QED
      BY <3>1, <3>2
  <2>2. ASSUME NEW j \in 1 .. Len(s) - 1
        PROVE  (a \o b)[j] = IF j <= i - 1 THEN a[j] ELSE b[j - (i - 1)]
    BY <1>1, <1>2, <1>3
  <2> QED
    BY <2>1, <2>2
<1>6. ASSUME NEW j \in 1 .. Len(s) - 1
      PROVE  (a \o b)[j] = IF j < i THEN s[j] ELSE s[j + 1]
  <2>1. CASE j < i
    BY <1>1, <1>2, <1>5, <2>1
  <2>2. CASE ~(j < i)
    <3>1. PICK d \in 1 .. Len(s) - i : d = j - (i - 1)
      BY <1>1, <2>2
    <3>2. b[d] = s[i + d] /\ i + d = j + 1
      BY <1>1, <1>3, <3>1
    <3>3. (a \o b)[j] = b[d]
      BY <1>1, <1>5, <2>2, <3>1
    <3> QED
      BY <2>2, <3>2, <3>3
  <2> QED
    BY <1>1, <2>1, <2>2
<1> QED
  BY <1>4, <1>5, <1>6 DEF TakenOut

\* Two sequences with the same at every place.
LEMMA SameSeq ==
  ASSUME NEW P, NEW s \in Seq(P), NEW u \in Seq(P), Len(s) = Len(u),
         \A j \in 1 .. Len(s) : s[j] = u[j]
  PROVE  s = u
OBVIOUS

\* What is put in is taken out again, and the other way round.
LEMMA InsertDelete ==
  ASSUME NEW P, NEW s \in Seq(P), NEW at \in 0 .. Len(s), NEW g \in P, Len(s) < MaxGates
  PROVE  /\ GateInsert(s, at, g) \in Seq(P) /\ Len(GateInsert(s, at, g)) = Len(s) + 1
         /\ GateDelete(GateInsert(s, at, g), at) = s
<1>1. PICK n, i, u : n = Len(s) /\ i = at + 1 /\ u = InsertAt(s, i, g)
  OBVIOUS
<1>2. n \in Nat /\ i \in 1 .. n + 1 /\ at = i - 1 /\ at \in Nat
  BY <1>1
<1>3. /\ u \in Seq(P) /\ Len(u) = n + 1
      /\ \A j \in 1 .. n + 1 : u[j] = IF j < i THEN s[j] ELSE IF j = i THEN g ELSE s[j - 1]
  <2>1. i \in 1 .. Len(s) + 1
    BY <1>1, <1>2
  <2>2. u \in Seq(P) /\ PutIn(u, s, i, g)
    BY <1>1, <2>1, InsertIs
  <2> QED
    BY <1>1, <2>2 DEF PutIn
<1>4. GateInsert(s, at, g) = u
  <2>1. (IF at > n THEN n ELSE at) + 1 = i /\ MaxGates \in Nat /\ ~(n >= MaxGates)
    BY <1>1, <1>2, EditAssumption
  <2> QED
    BY <1>1, <2>1 DEF GateInsert
<1>5. GateDelete(u, at) = RemoveAt(u, i)
  BY <1>2, <1>3 DEF GateDelete
<1>6. PICK v : v = RemoveAt(u, i)
  OBVIOUS
<1>7. v \in Seq(P) /\ Len(v) = n /\ \A j \in 1 .. n : v[j] = IF j < i THEN u[j] ELSE u[j + 1]
  <2>1. i \in 1 .. Len(u)
    BY <1>2, <1>3
  <2>2. v \in Seq(P) /\ TakenOut(v, u, i)
    BY <1>3, <1>6, <2>1, RemoveIs
  <2> QED
    BY <1>2, <1>3, <2>2 DEF TakenOut
<1>8. ASSUME NEW j \in 1 .. n PROVE v[j] = s[j]
  <2>1. CASE j < i
    BY <1>2, <1>3, <1>7, <2>1
  <2>2. CASE ~(j < i)
    <3>1. PICK d \in 1 .. n + 1 : d = j + 1
      BY <1>2
    <3>2. u[d] = s[d - 1] /\ d - 1 = j
      BY <1>2, <1>3, <2>2, <3>1
    <3> QED
      BY <1>7, <2>2, <3>1, <3>2
  <2> QED
    BY <2>1, <2>2
<1>9. v = s
  BY <1>1, <1>7, <1>8, SameSeq
<1> QED
  BY <1>1, <1>3, <1>4, <1>5, <1>6, <1>9

\* What is taken out and put back where it was is as it was (gs_edit.c's undo of a removal).
LEMMA DeleteInsert ==
  ASSUME NEW P, NEW s \in Seq(P), NEW at \in 0 .. Len(s) - 1, Len(s) <= MaxGates
  PROVE  /\ GateDelete(s, at) \in Seq(P) /\ Len(GateDelete(s, at)) = Len(s) - 1
         /\ s[at + 1] \in P
         /\ GateInsert(GateDelete(s, at), at, s[at + 1]) = s
<1>1. PICK n, i, g, u : n = Len(s) /\ i = at + 1 /\ g = s[i] /\ u = RemoveAt(s, i)
  OBVIOUS
<1>2. n \in Nat \ {0} /\ i \in 1 .. n /\ at = i - 1 /\ at \in Nat /\ g \in P
  BY <1>1
<1>3. u \in Seq(P) /\ Len(u) = n - 1 /\ \A j \in 1 .. n - 1 : u[j] = IF j < i THEN s[j] ELSE s[j + 1]
  <2>1. i \in 1 .. Len(s)
    BY <1>1, <1>2
  <2>2. u \in Seq(P) /\ TakenOut(u, s, i)
    BY <1>1, <2>1, RemoveIs
  <2> QED
    BY <1>1, <2>2 DEF TakenOut
<1>4. GateDelete(s, at) = u
  BY <1>1, <1>2 DEF GateDelete
<1>5. GateInsert(u, at, g) = InsertAt(u, i, g)
  <2>1. (IF at > n - 1 THEN n - 1 ELSE at) + 1 = i /\ MaxGates \in Nat /\ ~(n - 1 >= MaxGates)
    BY <1>1, <1>2, EditAssumption
  <2> QED
    BY <1>3, <2>1 DEF GateInsert
<1>6. PICK v : v = InsertAt(u, i, g)
  OBVIOUS
<1>7. /\ v \in Seq(P) /\ Len(v) = n
      /\ \A j \in 1 .. n : v[j] = IF j < i THEN u[j] ELSE IF j = i THEN g ELSE u[j - 1]
  <2>1. i \in 1 .. Len(u) + 1 /\ Len(u) + 1 = n
    BY <1>2, <1>3
  <2>2. v \in Seq(P) /\ PutIn(v, u, i, g)
    BY <1>2, <1>3, <1>6, <2>1, InsertIs
  <2> QED
    BY <1>2, <2>1, <2>2 DEF PutIn
<1>8. ASSUME NEW j \in 1 .. n PROVE v[j] = s[j]
  <2>1. CASE j < i
    <3>1. j \in 1 .. n - 1
      BY <1>2, <2>1
    <3> QED
      BY <1>3, <1>7, <2>1, <3>1
  <2>2. CASE j = i
    BY <1>1, <1>2, <1>7, <2>2
  <2>3. CASE j > i
    <3>1. PICK d \in 1 .. n - 1 : d = j - 1
      BY <1>2, <2>3
    <3>2. u[d] = s[d + 1] /\ d + 1 = j
      BY <1>2, <1>3, <2>3, <3>1
    <3> QED
      BY <1>2, <1>7, <2>3, <3>1, <3>2
  <2> QED
    BY <1>2, <2>1, <2>2, <2>3
<1>9. v = s
  BY <1>1, <1>7, <1>8, SameSeq
<1> QED
  BY <1>1, <1>2, <1>3, <1>4, <1>5, <1>6, <1>9

Route == {s \in Seq(Post) : Len(s) <= MaxGates}

\* A track with other gates is a track, and so are its gates with one more or one less.
WithGates(t, s) == [t EXCEPT !.gate = s]

\* A track with other gates is a track.
LEMMA OtherGates ==
  ASSUME NEW t \in Track, NEW s \in Route
  PROVE  WithGates(t, s) \in Track /\ WithGates(t, s).gate = s
BY DEF Track, Route, WithGates

\* Given its own gates again, a track is itself.
LEMMA GatesAgain ==
  ASSUME NEW t \in Track, NEW s \in Route
  PROVE  WithGates(WithGates(t, s), t.gate) = t
BY DEF Track, Route, WithGates

\* A row of gates stays one, no longer than MaxGates, when a gate is put in or taken out.
LEMMA GatesStay ==
  ASSUME NEW s \in Route, NEW at \in Nat
  PROVE  /\ GateDelete(s, at) \in Route
         /\ \A g \in Post : GateInsert(s, at, g) \in Route
         /\ \A g \in Post : Len(s) >= MaxGates \/ Len(GateInsert(s, at, g)) <= MaxGates
<1>1. s \in Seq(Post) /\ Len(s) \in Nat /\ Len(s) <= MaxGates /\ MaxGates \in Nat
  BY EditAssumption DEF Route
<1>2. GateDelete(s, at) \in Route
  <2>1. CASE at >= Len(s)
    BY <2>1 DEF GateDelete
  <2>2. CASE ~(at >= Len(s))
    <3>1. at \in 0 .. Len(s) - 1
      BY <1>1, <2>2
    <3>2. GateDelete(s, at) \in Seq(Post) /\ Len(GateDelete(s, at)) = Len(s) - 1
      BY <1>1, <3>1, DeleteInsert
    <3> QED
      BY <1>1, <3>2 DEF Route
  <2> QED
    BY <2>1, <2>2
<1>3. ASSUME NEW g \in Post PROVE GateInsert(s, at, g) \in Route
  <2>1. CASE Len(s) >= MaxGates
    BY <2>1 DEF GateInsert
  <2>2. CASE ~(Len(s) >= MaxGates)
    <3>1. PICK i \in 0 .. Len(s) : i = IF at > Len(s) THEN Len(s) ELSE at
      BY <1>1
    <3>2. GateInsert(s, at, g) = GateInsert(s, i, g)
      BY <1>1, <3>1 DEF GateInsert
    <3>3. GateInsert(s, i, g) \in Seq(Post) /\ Len(GateInsert(s, i, g)) = Len(s) + 1
      BY <1>1, <2>2, InsertDelete
    <3> QED
      BY <1>1, <2>2, <3>2, <3>3 DEF Route
  <2> QED
    BY <2>1, <2>2
<1> QED
  BY <1>1, <1>2, <1>3 DEF Route

\* Every entry is of one of the kinds.
LEMMA EntryKinds ==
  ASSUME NEW e \in LogEntry
  PROVE  /\ e.group \in Nat
         /\ \/ e.kind = "ground" /\ e \in GroundEntry
            \/ e.kind = "add" /\ e \in AddEntry
            \/ e.kind = "remove" /\ e \in RemoveEntry
            \/ e.kind = "move" /\ e \in MoveEntry
            \/ e.kind = "route" /\ e \in RouteEntry
            \/ e.kind = "every" /\ e \in EveryEntry
            \/ e.kind = "cut" /\ e \in CutEntry
<1>1. CASE e \in GroundEntry
  BY <1>1 DEF GroundEntry, Entry
<1>2. CASE e \in AddEntry
  BY <1>2 DEF AddEntry, Entry
<1>3. CASE e \in RemoveEntry
  BY <1>3 DEF RemoveEntry, Entry
<1>4. CASE e \in MoveEntry
  BY <1>4 DEF MoveEntry, Entry
<1>5. CASE e \in RouteEntry
  BY <1>5 DEF RouteEntry, Entry
<1>6. CASE e \in EveryEntry
  BY <1>6 DEF EveryEntry, Entry
<1>7. CASE e \in CutEntry
  BY <1>7 DEF CutEntry, Entry
<1> QED
  BY <1>1, <1>2, <1>3, <1>4, <1>5, <1>6, <1>7 DEF LogEntry

\* Set to what was or what is, a track is a track.
LEMMA SetGround ==
  ASSUME NEW t \in Track, NEW e, NEW v \in Stored, e.kind = "ground", e.index \in Square
  PROVE  Set(t, e, v) = [t EXCEPT !.ground[e.index] = v] /\ Set(t, e, v) \in Track
<1>1. Set(t, e, v) = [t EXCEPT !.ground[e.index] = v]
  BY DEF Set
<1> QED
  BY <1>1 DEF Track

\* Set to something else and back again.
LEMMA RouteAgain ==
  ASSUME NEW t \in Track, NEW v
  PROVE  [[t EXCEPT !.route = v] EXCEPT !.route = t.route] = t
BY DEF Track

LEMMA EveryAgain ==
  ASSUME NEW t \in Track, NEW n
  PROVE  [[t EXCEPT !.every = n] EXCEPT !.every = t.every] = t
BY DEF Track

LEMMA CutAgain ==
  ASSUME NEW t \in Track, NEW i
  PROVE  /\ i \in t.cut => [[t EXCEPT !.cut = @ \ {i}] EXCEPT !.cut = @ \cup {i}] = t
         /\ i \notin t.cut => [[t EXCEPT !.cut = @ \cup {i}] EXCEPT !.cut = @ \ {i}] = t
<1>1. ASSUME NEW a, NEW b, b = t.cut
      PROVE  [[t EXCEPT !.cut = a] EXCEPT !.cut = b] = t
  BY <1>1 DEF Track
<1>2. ASSUME NEW a PROVE [t EXCEPT !.cut = a].cut = a
  BY DEF Track
<1>3. ASSUME i \in t.cut PROVE [[t EXCEPT !.cut = @ \ {i}] EXCEPT !.cut = @ \cup {i}] = t
  <2>1. (t.cut \ {i}) \cup {i} = t.cut
    BY <1>3
  <2> QED
    BY <1>1, <1>2, <2>1
<1>4. ASSUME i \notin t.cut PROVE [[t EXCEPT !.cut = @ \cup {i}] EXCEPT !.cut = @ \ {i}] = t
  <2>1. (t.cut \cup {i}) \ {i} = t.cut
    BY <1>4
  <2> QED
    BY <1>1, <1>2, <2>1
<1> QED
  BY <1>3, <1>4

\* What setting the route does.
LEMMA SetRoute ==
  ASSUME NEW t \in Track, NEW e, NEW v \in {"sprint", "circuit"}, e.kind = "route"
  PROVE  Set(t, e, v) = [t EXCEPT !.route = v] /\ Set(t, e, v) \in Track
<1>1. Set(t, e, v) = [t EXCEPT !.route = v]
  BY DEF Set
<1> QED
  BY <1>1 DEF Track

\* What setting the checkpoints' spacing does.
LEMMA SetEvery ==
  ASSUME NEW t \in Track, NEW e, NEW v \in Nat \ {0}, e.kind = "every"
  PROVE  Set(t, e, v) = [t EXCEPT !.every = v] /\ Set(t, e, v) \in Track
<1>1. Set(t, e, v) = [t EXCEPT !.every = v]
  BY DEF Set
<1> QED
  BY <1>1 DEF Track

\* What marking and unmarking a shortcut does.
LEMMA SetCut ==
  ASSUME NEW t \in Track, NEW e, e.kind = "cut", e.index \in 0 .. MaxGates - 1
  PROVE  /\ Set(t, e, TRUE) = [t EXCEPT !.cut = @ \cup {e.index}] /\ Set(t, e, TRUE) \in Track
         /\ Set(t, e, FALSE) = [t EXCEPT !.cut = @ \ {e.index}] /\ Set(t, e, FALSE) \in Track
<1>1. ~(e.index >= MaxGates)
  BY EditAssumption
<1>2. Set(t, e, TRUE) = [t EXCEPT !.cut = @ \cup {e.index}]
  BY <1>1 DEF Set, SetShortcut
<1>3. Set(t, e, FALSE) = [t EXCEPT !.cut = @ \ {e.index}]
  BY <1>1 DEF Set, SetShortcut
<1>4. [t EXCEPT !.cut = @ \cup {e.index}] \in Track
  BY EditAssumption DEF Track
<1>5. [t EXCEPT !.cut = @ \ {e.index}] \in Track
  BY EditAssumption DEF Track
<1> QED
  BY <1>2, <1>3, <1>4, <1>5

\* An entry of the log, made or taken back, leaves a track a track.
LEMMA EditStays ==
  ASSUME NEW t \in Track, NEW e \in LogEntry
  PROVE  ForwardEdit(t, e) \in Track /\ ReverseEdit(t, e) \in Track
<1>1. t.gate \in Route
  BY DEF Track, Route
<1>2. CASE e.kind = "ground"
  <2>1. e \in GroundEntry
    BY <1>2, EntryKinds
  <2>2. e.index \in Square /\ e.before \in Stored /\ e.after \in Stored
    BY <2>1 DEF GroundEntry, Entry
  <2>3. ForwardEdit(t, e) = Set(t, e, e.after) /\ ReverseEdit(t, e) = Set(t, e, e.before)
    BY <1>2 DEF ForwardEdit, ReverseEdit
  <2> QED
    BY <1>2, <2>2, <2>3, SetGround
<1>3. CASE e.kind = "add"
  <2>1. e \in AddEntry
    BY <1>3, EntryKinds
  <2>2. e.index \in Nat /\ e.gate \in Post
    BY <2>1, EditAssumption DEF AddEntry, Entry
  <2>3. /\ ForwardEdit(t, e) = WithGates(t, GateInsert(t.gate, e.index, e.gate))
        /\ ReverseEdit(t, e) = WithGates(t, GateDelete(t.gate, e.index))
    BY <1>3 DEF ForwardEdit, ReverseEdit, WithGates
  <2>4. GateInsert(t.gate, e.index, e.gate) \in Route /\ GateDelete(t.gate, e.index) \in Route
    BY <1>1, <2>2, GatesStay
  <2> QED
    BY <2>3, <2>4, OtherGates
<1>4. CASE e.kind = "remove"
  <2>1. e \in RemoveEntry
    BY <1>4, EntryKinds
  <2>2. e.index \in Nat /\ e.gate \in Post
    BY <2>1, EditAssumption DEF RemoveEntry, Entry
  <2>3. /\ ReverseEdit(t, e) = WithGates(t, GateInsert(t.gate, e.index, e.gate))
        /\ ForwardEdit(t, e) = WithGates(t, GateDelete(t.gate, e.index))
    BY <1>4 DEF ForwardEdit, ReverseEdit, WithGates
  <2>4. GateInsert(t.gate, e.index, e.gate) \in Route /\ GateDelete(t.gate, e.index) \in Route
    BY <1>1, <2>2, GatesStay
  <2> QED
    BY <2>3, <2>4, OtherGates
<1>5. CASE e.kind = "move"
  <2>1. e \in MoveEntry
    BY <1>5, EntryKinds
  <2>2. e.index \in Nat /\ e.before \in Nat /\ e.gate \in Post
    BY <2>1, EditAssumption DEF MoveEntry, Entry
  <2>3. /\ ReverseEdit(t, e) = WithGates(t, GateInsert(GateDelete(t.gate, e.index), e.before, e.gate))
        /\ ForwardEdit(t, e) = WithGates(t, GateInsert(GateDelete(t.gate, e.before), e.index, e.gate))
    BY <1>5 DEF ForwardEdit, ReverseEdit, WithGates
  <2>4. GateDelete(t.gate, e.before) \in Route /\ GateDelete(t.gate, e.index) \in Route
    BY <1>1, <2>2, GatesStay
  <2>5. /\ GateInsert(GateDelete(t.gate, e.index), e.before, e.gate) \in Route
        /\ GateInsert(GateDelete(t.gate, e.before), e.index, e.gate) \in Route
    BY <2>2, <2>4, GatesStay
  <2> QED
    BY <2>3, <2>5, OtherGates
<1>6. CASE e.kind = "route"
  <2>1. e \in RouteEntry
    BY <1>6, EntryKinds
  <2>2. e.before \in {"sprint", "circuit"} /\ e.after \in {"sprint", "circuit"}
    BY <2>1 DEF RouteEntry, Entry
  <2>3. ForwardEdit(t, e) = Set(t, e, e.after) /\ ReverseEdit(t, e) = Set(t, e, e.before)
    BY <1>6 DEF ForwardEdit, ReverseEdit
  <2> QED
    BY <1>6, <2>2, <2>3, SetRoute
<1>7. CASE e.kind = "every"
  <2>1. e \in EveryEntry
    BY <1>7, EntryKinds
  <2>2. e.before \in Nat \ {0} /\ e.after \in Nat \ {0}
    BY <2>1 DEF EveryEntry, Entry
  <2>3. ForwardEdit(t, e) = Set(t, e, e.after) /\ ReverseEdit(t, e) = Set(t, e, e.before)
    BY <1>7 DEF ForwardEdit, ReverseEdit
  <2> QED
    BY <1>7, <2>2, <2>3, SetEvery
<1>8. CASE e.kind = "cut"
  <2>1. e \in CutEntry
    BY <1>8, EntryKinds
  <2>2. e.index \in 0 .. MaxGates - 1 /\ e.before \in {TRUE, FALSE} /\ e.after \in {TRUE, FALSE}
    BY <2>1 DEF CutEntry, Entry
  <2>3. ForwardEdit(t, e) = Set(t, e, e.after) /\ ReverseEdit(t, e) = Set(t, e, e.before)
    BY <1>8 DEF ForwardEdit, ReverseEdit
  <2>4. Set(t, e, TRUE) \in Track /\ Set(t, e, FALSE) \in Track
    BY <1>8, <2>2, SetCut
  <2> QED
    BY <2>2, <2>3, <2>4
<1> QED
  BY <1>2, <1>3, <1>4, <1>5, <1>6, <1>7, <1>8, EntryKinds

\* An entry that was made of the track there is: what it says there was is there.
Fits(t, e) ==
    /\ e.kind = "ground" => e.before = t.ground[e.index]
    /\ e.kind = "add" => Gates(t) < MaxGates /\ e.index = Gates(t)
    /\ e.kind = "remove" => e.index < Gates(t) /\ e.gate = GateAt(t, e.index)
    /\ e.kind = "move" => /\ e.index < Gates(t) /\ e.before < Gates(t)
                          /\ e.gate = GateAt(t, e.before)
    /\ e.kind = "route" => e.before = t.route
    /\ e.kind = "every" => e.before = t.every
    /\ e.kind = "cut" => e.before = (e.index \in t.cut) /\ e.after # e.before

\* Done and taken back it leaves the track as it was.
LEMMA ThereAndBack ==
  ASSUME NEW t \in Track, NEW e \in LogEntry, Fits(t, e)
  PROVE  ReverseEdit(ForwardEdit(t, e), e) = t
<1> DEFINE u == ForwardEdit(t, e)
<1>1. t.gate \in Route /\ t.gate \in Seq(Post) /\ Gates(t) \in Nat /\ Gates(t) <= MaxGates
  BY DEF Track, Route, Gates
<1>0. u \in Track
  BY EditStays
<1>2. CASE e.kind = "ground"
  <2>1. e \in GroundEntry
    BY <1>2, EntryKinds
  <2>2. e.index \in Square /\ e.before \in Stored /\ e.after \in Stored
    BY <2>1 DEF GroundEntry, Entry
  <2>3. u = [t EXCEPT !.ground[e.index] = e.after]
    BY <1>2, <2>2, SetGround DEF ForwardEdit
  <2>4. ReverseEdit(u, e) = [u EXCEPT !.ground[e.index] = e.before]
    BY <1>0, <1>2, <2>2, SetGround DEF ReverseEdit
  <2>5. e.before = t.ground[e.index]
    BY <1>2 DEF Fits
  <2>6. t.ground \in [Square -> Stored] /\ u.ground = [t.ground EXCEPT ![e.index] = e.after]
    BY <2>3 DEF Track
  <2>7. [u.ground EXCEPT ![e.index] = e.before] = t.ground
    BY <2>2, <2>5, <2>6
  <2>8. PICK w : w = ReverseEdit(u, e)
    OBVIOUS
  <2>9. w = [u EXCEPT !.ground = t.ground]
    BY <2>4, <2>7, <2>8
  <2>10. /\ w.ground = t.ground /\ w.gate = t.gate /\ w.route = t.route
         /\ w.every = t.every /\ w.cut = t.cut
    BY <2>3, <2>9 DEF Track
  <2>11. w \in Track
    BY <1>0, <2>8, EditStays
  <2> QED
    BY <2>8, <2>10, <2>11, SameTrack
<1>3. CASE e.kind = "add"
  <2>1. e \in AddEntry
    BY <1>3, EntryKinds
  <2>2. e.index \in Nat /\ e.gate \in Post
    BY <2>1, EditAssumption DEF AddEntry, Entry
  <2>3. PICK s : s = GateInsert(t.gate, e.index, e.gate)
    OBVIOUS
  <2>4. u = WithGates(t, s)
    BY <1>3, <2>3 DEF ForwardEdit, WithGates
  <2>5. ReverseEdit(u, e) = WithGates(u, GateDelete(u.gate, e.index))
    BY <1>3 DEF ReverseEdit, WithGates
  <2>6. s \in Route
    BY <1>1, <2>2, <2>3, GatesStay
  <2>7. GateDelete(s, e.index) = t.gate
    <3>1. e.index \in 0 .. Len(t.gate) /\ Len(t.gate) < MaxGates
      BY <1>1, <1>3 DEF Fits, Gates
    <3> QED
      BY <1>1, <2>2, <2>3, <3>1, InsertDelete
  <2>8. u.gate = s /\ WithGates(u, t.gate) = t
    BY <1>1, <2>4, <2>6, OtherGates, GatesAgain
  <2> QED
    BY <2>5, <2>7, <2>8
<1>4. CASE e.kind = "remove"
  <2>1. e \in RemoveEntry
    BY <1>4, EntryKinds
  <2>2. e.index \in Nat /\ e.gate \in Post
    BY <2>1, EditAssumption DEF RemoveEntry, Entry
  <2>3. PICK s : s = GateDelete(t.gate, e.index)
    OBVIOUS
  <2>4. u = WithGates(t, s)
    BY <1>4, <2>3 DEF ForwardEdit, WithGates
  <2>5. ReverseEdit(u, e) = WithGates(u, GateInsert(u.gate, e.index, e.gate))
    BY <1>4 DEF ReverseEdit, WithGates
  <2>6. s \in Route
    BY <1>1, <2>2, <2>3, GatesStay
  <2>7. GateInsert(s, e.index, e.gate) = t.gate
    <3>1. e.index \in 0 .. Len(t.gate) - 1 /\ e.gate = t.gate[e.index + 1]
      BY <1>1, <1>4, <2>2 DEF Fits, Gates, GateAt
    <3> QED
      BY <1>1, <2>3, <3>1, DeleteInsert DEF Gates
  <2>8. u.gate = s /\ WithGates(u, t.gate) = t
    BY <1>1, <2>4, <2>6, OtherGates, GatesAgain
  <2> QED
    BY <2>5, <2>7, <2>8
<1>5. CASE e.kind = "move"
  <2>1. e \in MoveEntry
    BY <1>5, EntryKinds
  <2>2. e.index \in Nat /\ e.before \in Nat /\ e.gate \in Post
    BY <2>1, EditAssumption DEF MoveEntry, Entry
  <2>3. PICK r, s : r = GateDelete(t.gate, e.before) /\ s = GateInsert(r, e.index, e.gate)
    OBVIOUS
  <2>4. u = WithGates(t, s)
    BY <1>5, <2>3 DEF ForwardEdit, WithGates
  <2>5. ReverseEdit(u, e) =
          WithGates(u, GateInsert(GateDelete(u.gate, e.index), e.before, e.gate))
    BY <1>5 DEF ReverseEdit, WithGates
  <2>6. r \in Route /\ s \in Route
    BY <1>1, <2>2, <2>3, GatesStay
  <2>7. e.before \in 0 .. Len(t.gate) - 1 /\ e.gate = t.gate[e.before + 1] /\ e.index < Gates(t)
    BY <1>1, <1>5, <2>2 DEF Fits, Gates, GateAt
  <2>8. /\ r \in Seq(Post) /\ Len(r) = Len(t.gate) - 1
        /\ GateInsert(r, e.before, e.gate) = t.gate
    BY <1>1, <2>3, <2>7, DeleteInsert DEF Gates
  <2>9. GateDelete(s, e.index) = r
    <3>1. e.index \in 0 .. Len(r) /\ Len(r) < MaxGates
      BY <1>1, <2>2, <2>7, <2>8, EditAssumption DEF Gates
    <3> QED
      BY <2>2, <2>3, <2>8, <3>1, InsertDelete
  <2>10. u.gate = s /\ WithGates(u, t.gate) = t
    BY <1>1, <2>4, <2>6, OtherGates, GatesAgain
  <2> QED
    BY <2>5, <2>8, <2>9, <2>10
<1>6. CASE e.kind = "route"
  <2>1. e \in RouteEntry
    BY <1>6, EntryKinds
  <2>2. e.before \in {"sprint", "circuit"} /\ e.after \in {"sprint", "circuit"}
    BY <2>1 DEF RouteEntry, Entry
  <2>3. u = [t EXCEPT !.route = e.after]
    BY <1>6, <2>2, SetRoute DEF ForwardEdit
  <2>4. ReverseEdit(u, e) = [u EXCEPT !.route = e.before]
    BY <1>0, <1>6, <2>2, SetRoute DEF ReverseEdit
  <2>5. e.before = t.route
    BY <1>6 DEF Fits
  <2>6. ReverseEdit(u, e) = [[t EXCEPT !.route = e.after] EXCEPT !.route = t.route]
    BY <2>3, <2>4, <2>5
  <2>7. [[t EXCEPT !.route = e.after] EXCEPT !.route = t.route] = t
    BY RouteAgain
  <2> QED
    BY <2>6, <2>7, Zenon
<1>7. CASE e.kind = "every"
  <2>1. e \in EveryEntry
    BY <1>7, EntryKinds
  <2>2. e.before \in Nat \ {0} /\ e.after \in Nat \ {0}
    BY <2>1 DEF EveryEntry, Entry
  <2>3. u = [t EXCEPT !.every = e.after]
    BY <1>7, <2>2, SetEvery DEF ForwardEdit
  <2>4. ReverseEdit(u, e) = [u EXCEPT !.every = e.before]
    BY <1>0, <1>7, <2>2, SetEvery DEF ReverseEdit
  <2>5. e.before = t.every
    BY <1>7 DEF Fits
  <2>6. ReverseEdit(u, e) = [[t EXCEPT !.every = e.after] EXCEPT !.every = t.every]
    BY <2>3, <2>4, <2>5
  <2>7. [[t EXCEPT !.every = e.after] EXCEPT !.every = t.every] = t
    BY EveryAgain
  <2> QED
    BY <2>6, <2>7, Zenon
<1>8. CASE e.kind = "cut"
  <2>1. e \in CutEntry
    BY <1>8, EntryKinds
  <2>2. e.index \in 0 .. MaxGates - 1 /\ e.before \in BOOLEAN /\ e.after \in BOOLEAN
    BY <2>1 DEF CutEntry, Entry
  <2>3. u = Set(t, e, e.after) /\ ReverseEdit(u, e) = Set(u, e, e.before)
    BY <1>8 DEF ForwardEdit, ReverseEdit
  <2>5. e.before = (e.index \in t.cut) /\ e.after # e.before
    BY <1>8 DEF Fits
  <2>6. CASE e.index \in t.cut
    <3>1. e.before = TRUE /\ e.after = FALSE
      BY <2>2, <2>5, <2>6
    <3>2. u = [t EXCEPT !.cut = @ \ {e.index}] /\ ReverseEdit(u, e) = [u EXCEPT !.cut = @ \cup {e.index}]
      <4>1. Set(t, e, FALSE) = [t EXCEPT !.cut = @ \ {e.index}]
        BY <1>8, <2>2, SetCut
      <4>2. Set(u, e, TRUE) = [u EXCEPT !.cut = @ \cup {e.index}]
        BY <1>0, <1>8, <2>2, SetCut
      <4>3. u = Set(t, e, FALSE) /\ ReverseEdit(u, e) = Set(u, e, TRUE)
        BY <2>3, <3>1
      <4> HIDE DEF u
      <4> QED
        BY <4>1, <4>2, <4>3
    <3>3. [[t EXCEPT !.cut = @ \ {e.index}] EXCEPT !.cut = @ \cup {e.index}] = t
      BY <2>6, CutAgain
    <3> QED
      BY <3>2, <3>3
  <2>7. CASE e.index \notin t.cut
    <3>1. e.before = FALSE /\ e.after = TRUE
      BY <2>2, <2>5, <2>7
    <3>2. u = [t EXCEPT !.cut = @ \cup {e.index}] /\ ReverseEdit(u, e) = [u EXCEPT !.cut = @ \ {e.index}]
      BY <1>0, <1>8, <2>2, <2>3, <3>1, SetCut
    <3>3. [[t EXCEPT !.cut = @ \cup {e.index}] EXCEPT !.cut = @ \ {e.index}] = t
      BY <2>7, CutAgain
    <3> QED
      BY <3>2, <3>3
  <2> QED
    BY <2>6, <2>7
<1> QED
  BY <1>2, <1>3, <1>4, <1>5, <1>6, <1>7, <1>8, EntryKinds

-----------------------------------------------------------------------------
(* The log, and the tracks it goes through *)

\* What is entered is in transactions that come one after another, and the cursor is
\* where one ends.
Logs == {l \in [op : Seq(LogEntry), cursor : Nat, group : Nat, open : BOOLEAN] :
            /\ Len(l.op) <= Capacity
            /\ l.cursor \in Starts(l) \cup {Len(l.op)}
            /\ \A i, j \in DOMAIN l.op : i <= j => l.op[i].group <= l.op[j].group
            /\ \A i \in DOMAIN l.op : l.op[i].group <= l.group}
Desks == [board : Track, log : Logs, ok : BOOLEAN]

\* An entry goes from one track to the other, and back.
Links(e, t, u) == u = ForwardEdit(t, e) /\ t = ReverseEdit(u, e)

\* From board b and log l, entries were added that lead to b2; all of them in one
\* transaction, which is a new one or the one that was open.
Leads(op, c, k, b, b2) ==
    \E g \in [c .. k -> Track] : /\ g[c] = b /\ g[k] = b2
                                 /\ \A i \in c + 1 .. k : Links(op[i], g[i - 1], g[i])
Grown(b, l, b2, l2) ==
    /\ l2.cursor = Len(l2.op) /\ l.cursor < l2.cursor
    /\ \A i \in 1 .. l.cursor : l2.op[i] = l.op[i]
    /\ \A i \in l.cursor + 1 .. l2.cursor : l2.op[i].group = l2.group
    /\ l2.group > l.group \/ (l.open /\ l2.group = l.group)
    /\ Leads(l2.op, l.cursor, l2.cursor, b, b2)
Unmoved(b, l, b2, l2) == b2 = b /\ l2.op = l.op /\ l2.cursor = l.cursor

\* The desks that d may come to be by what is put in through the log.
After(d) == {x \in Desks : /\ x.log.open = d.log.open
                           /\ d.log.open => x.log.group = d.log.group
                           /\ \/ x.board = d.board /\ x.log = d.log
                              \/ Grown(d.board, d.log, x.board, x.log)}

\* What there is to know of a log, entry by entry.
LEMMA LogsIs ==
  ASSUME NEW l \in Logs
  PROVE  /\ l.op \in Seq(LogEntry) /\ Len(l.op) \in Nat /\ DOMAIN l.op = 1 .. Len(l.op)
         /\ l.cursor \in 0 .. Len(l.op) /\ l.group \in Nat /\ l.open \in BOOLEAN
         /\ Len(l.op) <= Capacity
         /\ \A i \in 1 .. Len(l.op) : l.op[i] \in LogEntry /\ l.op[i].group \in Nat
<1>1. l.op \in Seq(LogEntry) /\ l.cursor \in Nat /\ l.group \in Nat /\ l.open \in BOOLEAN
  BY DEF Logs
<1>2. Len(l.op) \in Nat /\ DOMAIN l.op = 1 .. Len(l.op)
  BY <1>1
<1>3. l.cursor \in 0 .. Len(l.op)
  BY <1>2 DEF Logs, Starts
<1>4. \A i \in 1 .. Len(l.op) : l.op[i] \in LogEntry
  BY <1>1
<1>5. Len(l.op) <= Capacity
  BY DEF Logs
<1> QED
  BY <1>1, <1>2, <1>3, <1>4, <1>5, EntryKinds

\* The number of its transaction is nothing to an entry.
LEMMA Grouped ==
  ASSUME NEW e \in LogEntry, NEW n \in Nat
  PROVE  /\ [e EXCEPT !.group = n] \in LogEntry /\ [e EXCEPT !.group = n].group = n
         /\ \A t : /\ ForwardEdit(t, [e EXCEPT !.group = n]) = ForwardEdit(t, e)
                   /\ ReverseEdit(t, [e EXCEPT !.group = n]) = ReverseEdit(t, e)
<1> DEFINE x == [e EXCEPT !.group = n]
<1>1. /\ x.kind = e.kind /\ x.index = e.index /\ x.before = e.before
      /\ x.after = e.after /\ x.gate = e.gate /\ x.group = n
  BY DEF LogEntry, GroundEntry, AddEntry, RemoveEntry, MoveEntry, RouteEntry, EveryEntry, CutEntry,
         Entry
<1>2. x \in LogEntry
  <2>1. CASE e \in GroundEntry
    BY <2>1 DEF GroundEntry, Entry, LogEntry
  <2>2. CASE e \in AddEntry
    BY <2>2 DEF AddEntry, Entry, LogEntry
  <2>3. CASE e \in RemoveEntry
    BY <2>3 DEF RemoveEntry, Entry, LogEntry
  <2>4. CASE e \in MoveEntry
    BY <2>4 DEF MoveEntry, Entry, LogEntry
  <2>5. CASE e \in RouteEntry
    BY <2>5 DEF RouteEntry, Entry, LogEntry
  <2>6. CASE e \in EveryEntry
    BY <2>6 DEF EveryEntry, Entry, LogEntry
  <2>7. CASE e \in CutEntry
    BY <2>7 DEF CutEntry, Entry, LogEntry
  <2> QED
    BY <2>1, <2>2, <2>3, <2>4, <2>5, <2>6, <2>7 DEF LogEntry
<1> HIDE DEF x
<1>3. ASSUME NEW t PROVE ForwardEdit(t, x) = ForwardEdit(t, e) /\ ReverseEdit(t, x) = ReverseEdit(t, e)
  <2>1. \A v : Set(t, x, v) = Set(t, e, v)
    BY <1>1 DEF Set
  <2> QED
    BY <1>1, <2>1 DEF ForwardEdit, ReverseEdit
<1> QED
  BY <1>1, <1>2, <1>3 DEF x

\* What is made leads on, or is refused, or there is nothing to do.
LEMMA MakeAfter ==
  ASSUME NEW d \in Desks, NEW e, NEW same \in BOOLEAN, NEW fits \in BOOLEAN,
         fits /\ ~same => e \in LogEntry /\ Fits(d.board, e)
  PROVE  Make(d, e, same, fits) \in After(d) /\ [d EXCEPT !.ok = FALSE] \in After(d)
<1>1. d.board \in Track /\ d.log \in Logs /\ d.ok \in BOOLEAN
  BY DEF Desks
<1>2. d \in After(d)
  BY DEF After
<1>3. [d EXCEPT !.ok = FALSE] \in After(d)
  BY DEF After, Desks
<1>4. CASE ~d.ok \/ same
  BY <1>2, <1>3, <1>4 DEF Make
<1>5. CASE ~(~d.ok \/ same) /\ (~fits \/ d.log.cursor >= Capacity)
  BY <1>3, <1>5 DEF Make
<1>6. CASE ~(~d.ok \/ same) /\ ~(~fits \/ d.log.cursor >= Capacity)
  <2> DEFINE l == d.log
             c == l.cursor
             n == IF l.open THEN l.group ELSE l.group + 1
             x == [e EXCEPT !.group = n]
             l2 == Entered(l, e)
             b2 == ForwardEdit(d.board, e)
  <2>1. e \in LogEntry /\ Fits(d.board, e)
    BY <1>6
  <2>2. /\ l.op \in Seq(LogEntry) /\ Len(l.op) \in Nat /\ DOMAIN l.op = 1 .. Len(l.op) /\ c \in 0 .. Len(l.op) /\ l.group \in Nat
        /\ l.open \in BOOLEAN /\ \A i \in 1 .. Len(l.op) : l.op[i] \in LogEntry /\ l.op[i].group \in Nat
    BY <1>1, LogsIs
  <2>3. n \in Nat /\ n >= l.group
    BY <2>2
  <2>4. x \in LogEntry /\ x.group = n
    BY <2>1, <2>3, Grouped
  <2>5. PICK a : a = SubSeq(l.op, 1, c)
    OBVIOUS
  <2>6. a \in Seq(LogEntry) /\ Len(a) = c /\ \A i \in 1 .. c : a[i] = l.op[i]
    BY <2>2, <2>5
  <2>7. PICK op2 : op2 = Append(a, x)
    OBVIOUS
  <2>8. /\ op2 \in Seq(LogEntry) /\ Len(op2) = c + 1 /\ op2[c + 1] = x
        /\ \A i \in 1 .. c : op2[i] = l.op[i]
    BY <2>2, <2>4, <2>6, <2>7
  <2>9. l2.op = op2 /\ l2.cursor = c + 1 /\ l2.group = n /\ l2.open = l.open
        /\ l2 \in [op : Seq(LogEntry), cursor : Nat, group : Nat, open : BOOLEAN]
    <3>1. l2 = [l EXCEPT !.group = n, !.cursor = c + 1, !.op = op2]
      BY <2>5, <2>7 DEF Entered
    <3>2. l \in [op : Seq(LogEntry), cursor : Nat, group : Nat, open : BOOLEAN]
      BY <1>1 DEF Logs
    <3> HIDE DEF l2, n, x
    <3>3. l2 = [op |-> op2, cursor |-> c + 1, group |-> n, open |-> l.open]
      BY <3>1, <3>2
    <3>4. op2 \in Seq(LogEntry) /\ c + 1 \in Nat /\ n \in Nat /\ l.open \in BOOLEAN
      BY <2>2, <2>3, <2>8
    <3> QED
      BY <3>3, <3>4
  <2> HIDE DEF l2, x, n
  <2>10. l2 \in Logs
    <3>1. Len(l2.op) <= Capacity
      BY <1>6, <2>2, <2>8, <2>9, EditAssumption
    <3>2. l2.cursor \in Starts(l2) \cup {Len(l2.op)}
      BY <2>8, <2>9
    <3>3. DOMAIN l2.op = 1 .. c + 1
      BY <2>8, <2>9
    <3>4. \A i \in 1 .. c : l2.op[i].group <= l.group /\ l2.op[i].group \in Nat
      <4>1. \A i \in DOMAIN l.op : l.op[i].group <= l.group
        BY <1>1 DEF Logs
      <4>2. ASSUME NEW i \in 1 .. c
            PROVE  l2.op[i].group <= l.group /\ l2.op[i].group \in Nat
        <5>1. i \in 1 .. Len(l.op)
          BY <2>2
        <5>2. l2.op[i] = l.op[i]
          BY <2>8, <2>9
        <5> QED
          BY <2>2, <4>1, <5>1, <5>2
      <4> QED
        BY <4>2
    <3>5. \A i \in 1 .. c + 1 : l2.op[i].group <= l2.group
      <4>1. l2.op[c + 1].group = n
        BY <2>4, <2>8, <2>9
      <4>2. ASSUME NEW i \in 1 .. c + 1 PROVE l2.op[i].group <= l2.group
        <5>1. CASE i = c + 1
          BY <2>3, <2>9, <4>1, <5>1
        <5>2. CASE i # c + 1
          <6>1. i \in 1 .. c
            BY <2>2, <5>2
          <6> QED
            BY <2>2, <2>3, <2>9, <3>4, <6>1
        <5> QED
          BY <5>1, <5>2
      <4> QED
        BY <4>2
    <3>6. ASSUME NEW i \in 1 .. c + 1, NEW j \in 1 .. c + 1, i <= j
          PROVE  l2.op[i].group <= l2.op[j].group
      <4>1. CASE j = c + 1
        BY <2>4, <2>8, <2>9, <3>5, <4>1
      <4>2. CASE j # c + 1
        <5>0. c \in Nat /\ c <= Len(l.op) /\ Len(l.op) \in Nat /\ DOMAIN l.op = 1 .. Len(l.op)
          BY <2>2
        <5>1. i \in DOMAIN l.op /\ j \in DOMAIN l.op /\ i \in 1 .. c /\ j \in 1 .. c
          BY <3>6, <4>2, <5>0
        <5>2. l.op[i].group <= l.op[j].group
          BY <1>1, <3>6, <5>1 DEF Logs
        <5> QED
          BY <2>8, <2>9, <5>1, <5>2
      <4> QED
        BY <4>1, <4>2
    <3> QED
      BY <2>9, <3>1, <3>2, <3>3, <3>5, <3>6 DEF Logs
  <2>11. b2 \in Track /\ ReverseEdit(b2, e) = d.board
    BY <1>1, <2>1, EditStays, ThereAndBack
  <2>12. Links(x, d.board, b2)
    <3>1. ForwardEdit(d.board, x) = b2 /\ ReverseEdit(b2, x) = ReverseEdit(b2, e)
      BY <2>1, <2>3, Grouped DEF x
    <3> QED
      BY <2>11, <3>1 DEF Links
  <2> HIDE DEF b2
  <2>13. Leads(l2.op, c, c + 1, d.board, b2)
    <3> DEFINE g == [i \in c .. c + 1 |-> IF i = c THEN d.board ELSE b2]
    <3>1. g \in [c .. c + 1 -> Track] /\ g[c] = d.board /\ g[c + 1] = b2
      BY <1>1, <2>2, <2>11
    <3>2. \A i \in c + 1 .. c + 1 : Links(l2.op[i], g[i - 1], g[i])
      <4>1. ASSUME NEW i \in c + 1 .. c + 1 PROVE Links(l2.op[i], g[i - 1], g[i])
        <5>1. i = c + 1 /\ i - 1 = c
          BY <2>2
        <5>2. l2.op[i] = x
          BY <2>8, <2>9, <5>1
        <5> QED
          BY <2>12, <3>1, <5>1, <5>2
      <4> QED
        BY <4>1
    <3> HIDE DEF g
    <3> QED
      BY <3>1, <3>2 DEF Leads
  <2>14. Grown(d.board, l, b2, l2)
    <3>1. l2.cursor = Len(l2.op) /\ l.cursor < l2.cursor
      BY <2>2, <2>8, <2>9
    <3>2. \A i \in 1 .. l.cursor : l2.op[i] = l.op[i]
      BY <2>8, <2>9
    <3>3. \A i \in l.cursor + 1 .. l2.cursor : l2.op[i].group = l2.group
      <4>1. \A i \in c + 1 .. c + 1 : i = c + 1
        BY <2>2
      <4> QED
        BY <2>4, <2>8, <2>9, <4>1
    <3>4. l2.group > l.group \/ (l.open /\ l2.group = l.group)
      BY <2>2, <2>9 DEF n
    <3> QED
      BY <2>9, <2>13, <3>1, <3>2, <3>3, <3>4 DEF Grown
  <2>15. Make(d, e, same, fits) = [board |-> b2, log |-> l2, ok |-> TRUE]
    BY <1>6 DEF Make, b2, l2
  <2>16. l.open => l2.group = l.group
    BY <2>9 DEF n
  <2> QED
    BY <1>3, <2>9, <2>10, <2>11, <2>14, <2>15, <2>16 DEF After, Desks
<1> QED
  BY <1>4, <1>5, <1>6

Agree(s, u, i, j) == \A x \in i .. j : u[x] = s[x]

\* What leads on from where something led leads on from where that began.
LEMMA LeadsOn ==
  ASSUME NEW op, NEW op2, NEW c \in Nat, NEW k \in Nat, NEW m \in Nat, c <= k, k <= m,
         NEW b, NEW b2, NEW b3, Agree(op, op2, c + 1, k),
         Leads(op, c, k, b, b2), Leads(op2, k, m, b2, b3)
  PROVE  Leads(op2, c, m, b, b3)
<1>1. PICK g \in [c .. k -> Track] : /\ g[c] = b /\ g[k] = b2
                                     /\ \A i \in c + 1 .. k : Links(op[i], g[i - 1], g[i])
  BY DEF Leads
<1>2. PICK h \in [k .. m -> Track] : /\ h[k] = b2 /\ h[m] = b3
                                     /\ \A i \in k + 1 .. m : Links(op2[i], h[i - 1], h[i])
  BY DEF Leads
<1> DEFINE f == [i \in c .. m |-> IF i <= k THEN g[i] ELSE h[i]]
<1>3. f \in [c .. m -> Track]
  <2>1. ASSUME NEW i \in c .. m PROVE (IF i <= k THEN g[i] ELSE h[i]) \in Track
    <3>1. CASE i <= k
      <4>1. i \in c .. k
        BY <3>1
      <4> QED
        BY <1>1, <3>1, <4>1
    <3>2. CASE ~(i <= k)
      <4>1. i \in k .. m
        BY <3>2
      <4> QED
        BY <1>2, <3>2, <4>1
    <3> QED
      BY <3>1, <3>2
  <2> QED
    BY <2>1
<1>4. f[c] = b /\ f[m] = b3
  <2>1. f[c] = g[c] /\ f[m] = IF m <= k THEN g[m] ELSE h[m]
    OBVIOUS
  <2>2. m <= k => m = k
    OBVIOUS
  <2> QED
    BY <1>1, <1>2, <2>1, <2>2
<1>5. ASSUME NEW i \in c + 1 .. m PROVE Links(op2[i], f[i - 1], f[i])
  <2>1. CASE i <= k
    <3>1. i \in c + 1 .. k /\ i - 1 <= k /\ i - 1 \in c .. m /\ i \in c .. m
      BY <2>1
    <3>2. f[i] = g[i] /\ f[i - 1] = g[i - 1]
      BY <2>1, <3>1
    <3> QED
      BY <1>1, <3>1, <3>2 DEF Agree
  <2>2. CASE ~(i <= k)
    <3>1. i \in k + 1 .. m /\ i - 1 \in c .. m /\ i \in c .. m
      BY <2>2
    <3>2. f[i] = h[i]
      BY <2>2, <3>1
    <3>3. f[i - 1] = h[i - 1]
      <4>1. CASE i - 1 = k
        BY <1>1, <1>2, <3>1, <4>1
      <4>2. CASE i - 1 # k
        BY <2>2, <3>1, <4>2
      <4> QED
        BY <4>1, <4>2
    <3> QED
      BY <1>2, <3>1, <3>2, <3>3
  <2> QED
    BY <2>1, <2>2
<1> HIDE DEF f
<1> QED
  BY <1>3, <1>4, <1>5 DEF Leads

\* While a transaction is open, what is put in after what was put in is part of it.
LEMMA AfterAfter ==
  ASSUME NEW d \in Desks, d.log.open, NEW x \in After(d), NEW y \in After(x)
  PROVE  y \in After(d)
<1>1. x \in Desks /\ y \in Desks /\ x.log.open = d.log.open /\ y.log.open = x.log.open
  BY DEF After
<1>2. x.log.group = d.log.group /\ y.log.group = x.log.group
  BY <1>1 DEF After
<1>3. CASE x.board = d.board /\ x.log = d.log
  BY <1>1, <1>2, <1>3 DEF After
<1>4. CASE y.board = x.board /\ y.log = x.log
  BY <1>1, <1>2, <1>4 DEF After
<1>5. CASE Grown(d.board, d.log, x.board, x.log) /\ Grown(x.board, x.log, y.board, y.log)
  <2> DEFINE k == d.log
             l == x.log
             m == y.log
  <2>1. k \in Logs /\ l \in Logs /\ m \in Logs
    BY <1>1 DEF Desks
  <2>2. /\ k.cursor \in Nat /\ l.cursor \in Nat /\ m.cursor \in Nat
        /\ k.group \in Nat /\ l.group \in Nat /\ m.group \in Nat
    BY <2>1, LogsIs
  <2> HIDE DEF k, l, m
  <2>3. Grown(d.board, k, x.board, l) /\ Grown(x.board, l, y.board, m)
    BY <1>5 DEF k, l, m
  <2>4. k.cursor < l.cursor /\ l.cursor < m.cursor /\ m.cursor = Len(m.op)
    BY <2>3 DEF Grown
  <2>5. \A i \in 1 .. l.cursor : m.op[i] = l.op[i]
    BY <2>3 DEF Grown
  <2>6. \A i \in 1 .. k.cursor : l.op[i] = k.op[i]
    BY <2>3 DEF Grown
  <2>7. \A i \in 1 .. k.cursor : m.op[i] = k.op[i]
    BY <2>2, <2>4, <2>5, <2>6
  <2>8. m.group = l.group /\ l.group = k.group /\ k.open
    BY <1>1, <1>2 DEF k, l, m
  <2>9. ASSUME NEW i \in k.cursor + 1 .. m.cursor PROVE m.op[i].group = m.group
    <3>1. CASE i <= l.cursor
      <4>1. i \in k.cursor + 1 .. l.cursor /\ i \in 1 .. l.cursor
        BY <2>2, <3>1
      <4>2. l.op[i].group = l.group
        BY <2>3, <4>1 DEF Grown
      <4> QED
        BY <2>5, <2>8, <4>1, <4>2
    <3>2. CASE ~(i <= l.cursor)
      <4>1. i \in l.cursor + 1 .. m.cursor
        BY <2>2, <3>2
      <4> QED
        BY <2>3, <4>1 DEF Grown
    <3> QED
      BY <3>1, <3>2
  <2>10. Leads(m.op, k.cursor, m.cursor, d.board, y.board)
    <3>1. Leads(l.op, k.cursor, l.cursor, d.board, x.board) /\ Leads(m.op, l.cursor, m.cursor, x.board, y.board)
      BY <2>3 DEF Grown
    <3>2. Agree(l.op, m.op, k.cursor + 1, l.cursor)
      BY <2>2, <2>5 DEF Agree
    <3>3. k.cursor <= l.cursor /\ l.cursor <= m.cursor
      BY <2>2, <2>4
    <3> QED
      BY <2>2, <3>1, <3>2, <3>3, LeadsOn
  <2>11. Grown(d.board, k, y.board, m)
    BY <2>2, <2>4, <2>7, <2>8, <2>9, <2>10 DEF Grown
  <2> QED
    BY <1>1, <1>2, <2>11 DEF After, k, m
<1> QED
  BY <1>3, <1>4, <1>5 DEF After

\* A desk reached by one operation is a desk, its transaction as open as before.
LEMMA AfterIs ==
  ASSUME NEW d \in Desks, NEW x \in After(d)
  PROVE  x \in Desks /\ x.log.open = d.log.open /\ x.ok \in BOOLEAN /\ d \in After(d)
BY DEF After, Desks

\* Whatever the editor makes is put in through the log.
LEMMA GroundAfter ==
  ASSUME NEW d \in Desks, NEW s \in Square, NEW v \in Stored
  PROVE  EditGround(d, s, v) \in After(d)
<1> DEFINE e == Change("ground", s, d.board.ground[s], v, <<>>)
<1>1. d.board.ground[s] \in Stored
  BY DEF Desks, Track
<1>2. e \in LogEntry
  BY <1>1 DEF Change, GroundEntry, Entry, LogEntry
<1>3. Fits(d.board, e)
  BY DEF Fits, Change
<1>4. (d.board.ground[s] = v) \in BOOLEAN
  OBVIOUS
<1> HIDE DEF e
<1>5. Make(d, e, d.board.ground[s] = v, TRUE) \in After(d)
  BY <1>2, <1>3, <1>4, MakeAfter
<1> QED
  BY <1>5 DEF EditGround, e

\* gs_edit_add_gate leaves the desk as it was or one entry further on.
LEMMA AddAfter ==
  ASSUME NEW d \in Desks, NEW g \in Gate
  PROVE  EditAddGate(d, g) \in After(d)
<1> DEFINE e == Change("add", Gates(d.board), 0, 0, g)
           fits == Gates(d.board) < MaxGates
<1>1. g \in Post /\ Gates(d.board) \in Nat
  <2>1. {FALSE} \subseteq BOOLEAN
    OBVIOUS
  <2>2. PICK faces, ways : faces = {FALSE} /\ ways = BOOLEAN
    OBVIOUS
  <2>3. g \in Where \X faces /\ faces \subseteq ways
    BY <2>1, <2>2, EditAssumption
  <2>4. g \in Where \X ways
    BY <2>3
  <2>5. g \in Post
    BY <2>2, <2>4 DEF Post
  <2> QED
    BY <2>5 DEF Desks, Track, Gates
<1>2. fits => e \in LogEntry
  <2>1. fits => Gates(d.board) \in 0 .. MaxGates - 1
    BY <1>1, EditAssumption
  <2> QED
    BY <1>1, <2>1 DEF Change, AddEntry, Entry, LogEntry
<1>3. fits => Fits(d.board, e)
  BY DEF Fits, Change
<1>4. fits \in BOOLEAN
  OBVIOUS
<1> HIDE DEF e, fits
<1>5. Make(d, e, FALSE, fits) \in After(d)
  BY <1>2, <1>3, <1>4, MakeAfter
<1> QED
  BY <1>5 DEF EditAddGate, e, fits

\* gs_edit_remove_gate leaves the desk as it was or one entry further on.
LEMMA RemoveAfter ==
  ASSUME NEW d \in Desks, NEW i \in Nat
  PROVE  EditRemoveGate(d, i) \in After(d)
<1> DEFINE e == Change("remove", i, 0, 0, GateAt(d.board, i))
<1>1. [d EXCEPT !.ok = FALSE] \in After(d)
  BY DEF After, Desks
<1>2. ASSUME ~(i >= Gates(d.board)) PROVE e \in LogEntry /\ Fits(d.board, e)
  <2>1. Gates(d.board) \in Nat /\ Gates(d.board) <= MaxGates /\ MaxGates \in Nat
    BY EditAssumption DEF Desks, Track, Gates
  <2>2. i \in 0 .. MaxGates - 1 /\ i + 1 \in 1 .. Gates(d.board)
    BY <1>2, <2>1
  <2>3. GateAt(d.board, i) \in Post
    BY <2>2 DEF GateAt, Gates, Desks, Track
  <2>4. e \in LogEntry
    BY <2>2, <2>3 DEF Change, RemoveEntry, Entry, LogEntry
  <2> QED
    BY <1>2, <2>1, <2>4 DEF Fits, Change
<1> HIDE DEF e
<1>3. ~(i >= Gates(d.board)) => Make(d, e, FALSE, TRUE) \in After(d)
  BY <1>2, MakeAfter
<1> QED
  BY <1>1, <1>3 DEF EditRemoveGate, e

\* gs_edit_move_gate leaves the desk as it was or one entry further on.
LEMMA MoveAfter ==
  ASSUME NEW d \in Desks, NEW from \in Nat, NEW to \in Nat
  PROVE  EditMoveGate(d, from, to) \in After(d)
<1> DEFINE e == Change("move", to, from, 0, GateAt(d.board, from))
           out == from >= Gates(d.board) \/ to >= Gates(d.board)
<1>1. [d EXCEPT !.ok = FALSE] \in After(d)
  BY DEF After, Desks
<1>2. ASSUME ~out PROVE e \in LogEntry /\ Fits(d.board, e)
  <2>1. Gates(d.board) \in Nat /\ Gates(d.board) <= MaxGates /\ MaxGates \in Nat
    BY EditAssumption DEF Desks, Track, Gates
  <2>2. from \in 0 .. MaxGates - 1 /\ to \in 0 .. MaxGates - 1 /\ from + 1 \in 1 .. Gates(d.board)
    BY <1>2, <2>1
  <2>3. GateAt(d.board, from) \in Post
    BY <2>2 DEF GateAt, Gates, Desks, Track
  <2>4. e \in LogEntry
    BY <2>2, <2>3 DEF Change, MoveEntry, Entry, LogEntry
  <2> QED
    BY <1>2, <2>1, <2>4 DEF Fits, Change
<1>3. (from = to) \in BOOLEAN
  OBVIOUS
<1> HIDE DEF e, out
<1>4. ~out => Make(d, e, from = to, TRUE) \in After(d)
  BY <1>2, <1>3, MakeAfter
<1> QED
  BY <1>1, <1>4 DEF EditMoveGate, e, out

\* gs_edit_route leaves the desk as it was or one entry further on.
LEMMA RouteAfter ==
  ASSUME NEW d \in Desks, NEW kind \in {"sprint", "circuit"}
  PROVE  EditRoute(d, kind) \in After(d)
<1> DEFINE e == Change("route", 0, d.board.route, kind, <<>>)
<1>1. d.board.route \in {"sprint", "circuit"}
  BY DEF Desks, Track
<1>2. e \in LogEntry
  BY <1>1 DEF Change, RouteEntry, Entry, LogEntry
<1>3. Fits(d.board, e)
  BY DEF Fits, Change
<1>4. (d.board.route = kind) \in BOOLEAN
  OBVIOUS
<1> HIDE DEF e
<1>5. Make(d, e, d.board.route = kind, TRUE) \in After(d)
  BY <1>2, <1>3, <1>4, MakeAfter
<1> QED
  BY <1>5 DEF EditRoute, e

\* gs_edit_every leaves the desk as it was or one entry further on.
LEMMA EveryAfter ==
  ASSUME NEW d \in Desks, NEW n \in Nat
  PROVE  EditEvery(d, n) \in After(d)
<1> DEFINE v == IF n = 0 THEN 1 ELSE n
           e == Change("every", 0, d.board.every, v, <<>>)
<1>1. d.board.every \in Nat \ {0} /\ v \in Nat \ {0}
  BY DEF Desks, Track
<1> HIDE DEF v
<1>2. e \in LogEntry
  BY <1>1 DEF Change, EveryEntry, Entry, LogEntry
<1>3. Fits(d.board, e)
  BY DEF Fits, Change
<1>4. (d.board.every = v) \in BOOLEAN
  OBVIOUS
<1> HIDE DEF e
<1>5. Make(d, e, d.board.every = v, TRUE) \in After(d)
  BY <1>2, <1>3, <1>4, MakeAfter
<1> QED
  BY <1>5 DEF EditEvery, e, v

\* gs_edit_shortcut leaves the desk as it was or one entry further on.
LEMMA ShortcutAfter ==
  ASSUME NEW d \in Desks, NEW i \in Nat, NEW now \in BOOLEAN
  PROVE  EditShortcut(d, i, now) \in After(d)
<1> DEFINE e == Change("cut", i, ~now, now, <<>>)
           same == ShortcutFrom(d.board, i) = now
<1>1. [d EXCEPT !.ok = FALSE] \in After(d)
  BY DEF After, Desks
<1>2. ASSUME ~(i >= Gates(d.board)), ~same PROVE e \in LogEntry /\ Fits(d.board, e)
  <2>1. Gates(d.board) \in Nat /\ Gates(d.board) <= MaxGates /\ MaxGates \in Nat
    BY EditAssumption DEF Desks, Track, Gates
  <2>2. i \in 0 .. MaxGates - 1 /\ i < Gates(d.board)
    BY <1>2, <2>1
  <2>3. e \in LogEntry
    BY <2>2 DEF Change, CutEntry, Entry, LogEntry
  <2>4. (~now) = (i \in d.board.cut) /\ now # ~now
    BY <1>2, <2>2 DEF ShortcutFrom
  <2>5. e.kind = "cut" /\ e.before = ~now /\ e.after = now /\ e.index = i
    BY DEF Change
  <2> HIDE DEF e
  <2>6. Fits(d.board, e)
    BY <2>4, <2>5 DEF Fits
  <2> QED
    BY <2>3, <2>6
<1>3. same \in BOOLEAN
  OBVIOUS
<1> HIDE DEF e, same
<1>4. ~(i >= Gates(d.board)) => Make(d, e, same, TRUE) \in After(d)
  BY <1>2, <1>3, MakeAfter
<1> QED
  BY <1>1, <1>4 DEF EditShortcut, e, same

-----------------------------------------------------------------------------
(* Entries taken back and made again, one after another *)

BackOver(t, s) == FoldRight(LAMBDA e, u : ReverseEdit(u, e), s, t)
OnOver(t, s) == FoldLeft(ForwardEdit, t, s)

\* What tracks are gone through.
BackBy(g, t, s) == /\ g[Len(s)] = t
                   /\ \A j \in 1 .. Len(s) : g[j - 1] = ReverseEdit(g[j], s[j])
OnBy(g, t, s) == /\ g[0] = t
                 /\ \A j \in 1 .. Len(s) : g[j] = ForwardEdit(g[j - 1], s[j])

\* Taking entries back from the last to the first goes through one track per entry.
LEMMA GoesBack ==
  ASSUME NEW s \in Seq(LogEntry), NEW t \in Track
  PROVE  \E g \in [0 .. Len(s) -> Track] : BackBy(g, t, s) /\ BackOver(t, s) = g[0]
<1> DEFINE n == Len(s)
           S == DOMAIN s
           F == [k \in 1 .. n |-> [u \in Track |-> ReverseEdit(u, s[k])]]
           Folds(f) == f = [r \in SUBSET S |-> IF r = {} THEN t
                                               ELSE ReverseEdit(f[r \ {Min(r)}], s[Min(r)])]
           it == CHOOSE f : Folds(f)
<1>1. BackOver(t, s) = it[S]
  BY DEF BackOver, FoldRight, MapThenFoldSet
<1>2. S = 1 .. n /\ n \in Nat /\ \A k \in 1 .. n : s[k] \in LogEntry
  OBVIOUS
<1>3. StepsIn(F, 1 .. n, Track)
  <2>1. \A k \in 1 .. n : \A u \in Track : ReverseEdit(u, s[k]) \in Track
    BY <1>2, EditStays
  <2> QED
    BY <2>1 DEF StepsIn
<1>4. \A k \in 1 .. n : \A u \in Track : F[k][u] = ReverseEdit(u, s[k])
  OBVIOUS
<1>5. \A r \in SUBSET (1 .. n) : r # {} => Min(r) \in 1 .. n
  BY <1>2, LeastUpTo
<1> HIDE DEF F, S, n
<1>6. \E f : Folds(f)
  <2>1. PICK f \in [SUBSET (1 .. n) -> Track] : FromRight(f, n, Track, t, F)
    BY <1>2, <1>3, RightThere
  <2>2. ASSUME NEW r \in SUBSET (1 .. n)
        PROVE  f[r] = IF r = {} THEN t ELSE ReverseEdit(f[r \ {Min(r)}], s[Min(r)])
    <3>1. CASE r = {}
      BY <2>1, <3>1 DEF FromRight
    <3>2. CASE r # {}
      <4>1. f[r \ {Min(r)}] \in Track
        BY <2>1
      <4>2. f[r] = F[Min(r)][f[r \ {Min(r)}]]
        BY <2>1, <3>2, <4>1 DEF FromRight
      <4> QED
        BY <1>4, <1>5, <3>2, <4>1, <4>2
    <3> QED
      BY <3>1, <3>2
  <2>3. f = [r \in SUBSET (1 .. n) |-> IF r = {} THEN t
                                       ELSE ReverseEdit(f[r \ {Min(r)}], s[Min(r)])]
    BY <2>1, <2>2
  <2> QED
    BY <1>2, <2>3
<1>7. Folds(it)
  BY <1>6
<1> HIDE DEF it
<1>8. FromRight(it, n, Track, t, F)
  <2>1. it[{}] = t
    BY <1>7
  <2>2. ASSUME NEW r \in SUBSET (1 .. n), r # {}, it[r \ {Min(r)}] \in Track
        PROVE  it[r] = F[Min(r)][it[r \ {Min(r)}]]
    <3>1. it[r] = ReverseEdit(it[r \ {Min(r)}], s[Min(r)])
      BY <1>2, <1>7, <2>2
    <3> QED
      BY <1>4, <1>5, <2>2, <3>1
  <2> QED
    BY <2>1, <2>2 DEF FromRight
<1>9. PICK g \in [0 .. n -> Track] : DownChain(g, n, t, F) /\ it[1 .. n] = g[0]
  BY <1>2, <1>3, <1>8, RightChain
<1>10. BackBy(g, t, s)
  <2>1. g[n] = t /\ \A k \in 1 .. n : g[k - 1] = F[k][g[k]]
    BY <1>9 DEF DownChain
  <2>2. \A k \in 1 .. n : g[k] \in Track
    BY <1>2, <1>9
  <2> QED
    BY <1>4, <2>1, <2>2 DEF BackBy, n
<1> QED
  BY <1>1, <1>2, <1>9, <1>10 DEF n

\* Making entries from the first to the last goes through one track per entry.
LEMMA GoesOn ==
  ASSUME NEW s \in Seq(LogEntry), NEW t \in Track
  PROVE  \E g \in [0 .. Len(s) -> Track] : OnBy(g, t, s) /\ OnOver(t, s) = g[Len(s)]
<1> DEFINE n == Len(s)
           S == DOMAIN s
           F == [k \in 1 .. n |-> [u \in Track |-> ForwardEdit(u, s[k])]]
           Folds(f) == f = [r \in SUBSET S |-> IF r = {} THEN t
                                               ELSE ForwardEdit(f[r \ {Max(r)}], s[Max(r)])]
           it == CHOOSE f : Folds(f)
<1>1. OnOver(t, s) = it[S]
  BY DEF OnOver, FoldLeft, MapThenFoldSet
<1>2. S = 1 .. n /\ n \in Nat /\ \A k \in 1 .. n : s[k] \in LogEntry
  OBVIOUS
<1>3. StepsIn(F, 1 .. n, Track)
  <2>1. \A k \in 1 .. n : \A u \in Track : ForwardEdit(u, s[k]) \in Track
    BY <1>2, EditStays
  <2> QED
    BY <2>1 DEF StepsIn
<1>4. \A k \in 1 .. n : \A u \in Track : F[k][u] = ForwardEdit(u, s[k])
  OBVIOUS
<1>5. \A r \in SUBSET (1 .. n) : r # {} => Max(r) \in 1 .. n
  BY <1>2, GreatestUpTo
<1> HIDE DEF F, S, n
<1>6. \E f : Folds(f)
  <2>1. PICK f \in [SUBSET (1 .. n) -> Track] : FromLeft(f, n, Track, t, F)
    BY <1>2, <1>3, LeftThere
  <2>2. ASSUME NEW r \in SUBSET (1 .. n)
        PROVE  f[r] = IF r = {} THEN t ELSE ForwardEdit(f[r \ {Max(r)}], s[Max(r)])
    <3>1. CASE r = {}
      BY <2>1, <3>1 DEF FromLeft
    <3>2. CASE r # {}
      <4>1. f[r \ {Max(r)}] \in Track
        BY <2>1
      <4>2. f[r] = F[Max(r)][f[r \ {Max(r)}]]
        BY <2>1, <3>2, <4>1 DEF FromLeft
      <4> QED
        BY <1>4, <1>5, <3>2, <4>1, <4>2
    <3> QED
      BY <3>1, <3>2
  <2>3. f = [r \in SUBSET (1 .. n) |-> IF r = {} THEN t
                                       ELSE ForwardEdit(f[r \ {Max(r)}], s[Max(r)])]
    BY <2>1, <2>2
  <2> QED
    BY <1>2, <2>3
<1>7. Folds(it)
  BY <1>6
<1> HIDE DEF it
<1>8. FromLeft(it, n, Track, t, F)
  <2>1. it[{}] = t
    BY <1>7
  <2>2. ASSUME NEW r \in SUBSET (1 .. n), r # {}, it[r \ {Max(r)}] \in Track
        PROVE  it[r] = F[Max(r)][it[r \ {Max(r)}]]
    <3>1. it[r] = ForwardEdit(it[r \ {Max(r)}], s[Max(r)])
      BY <1>2, <1>7, <2>2
    <3> QED
      BY <1>4, <1>5, <2>2, <3>1
  <2> QED
    BY <2>1, <2>2 DEF FromLeft
<1>9. PICK g \in [0 .. n -> Track] : UpChain(g, n, t, F) /\ it[1 .. n] = g[n]
  BY <1>2, <1>3, <1>8, LeftChain
<1>10. OnBy(g, t, s)
  <2>1. g[0] = t /\ \A k \in 1 .. n : g[k] = F[k][g[k - 1]]
    BY <1>9 DEF UpChain
  <2>2. \A k \in 1 .. n : g[k - 1] \in Track
    BY <1>2, <1>9
  <2> QED
    BY <1>4, <2>1, <2>2 DEF OnBy, n
<1> QED
  BY <1>1, <1>2, <1>9, <1>10 DEF n

\* A road is put in through the log, whatever part of it fits there.
LEMMA LayAfter ==
  ASSUME NEW d \in Desks, d.log.open
  PROVE  Lay(d) \in After(d)
<1> DEFINE n == Len(Road)
           S == DOMAIN Road
           D == After(d)
           F == [k \in 1 .. n |-> [e \in D |-> EditGround(e, Road[k][1], Road[k][2])]]
           Folds(f) == f = [r \in SUBSET S |-> IF r = {} THEN d
                              ELSE EditGround(f[r \ {Max(r)}], Road[Max(r)][1], Road[Max(r)][2])]
           it == CHOOSE f : Folds(f)
<1>1. Lay(d) = it[S]
  BY DEF Lay, FoldLeft, MapThenFoldSet
<1>2. Road \in Seq(Square \X Stored)
  BY EditAssumption
<1>3. S = 1 .. n /\ n \in Nat /\ \A k \in 1 .. n : Road[k][1] \in Square /\ Road[k][2] \in Stored
  BY <1>2
<1>4. StepsIn(F, 1 .. n, D)
  <2>1. ASSUME NEW k \in 1 .. n, NEW e \in D PROVE EditGround(e, Road[k][1], Road[k][2]) \in D
    <3>1. e \in Desks
      BY AfterIs
    <3>2. EditGround(e, Road[k][1], Road[k][2]) \in After(e)
      BY <1>3, <3>1, GroundAfter
    <3> QED
      BY <3>2, AfterAfter
  <2> HIDE DEF D
  <2> QED
    BY <2>1 DEF StepsIn
<1>5. \A k \in 1 .. n : \A e \in D : F[k][e] = EditGround(e, Road[k][1], Road[k][2])
  OBVIOUS
<1>6. d \in D
  BY DEF After
<1>7. \A r \in SUBSET (1 .. n) : r # {} => Max(r) \in 1 .. n
  BY <1>3, GreatestUpTo
<1> HIDE DEF F, S, n, D
<1>8. \E f : Folds(f)
  <2>1. PICK f \in [SUBSET (1 .. n) -> D] : FromLeft(f, n, D, d, F)
    BY <1>3, <1>4, <1>6, LeftThere
  <2>2. ASSUME NEW r \in SUBSET (1 .. n)
        PROVE  f[r] = IF r = {} THEN d
                      ELSE EditGround(f[r \ {Max(r)}], Road[Max(r)][1], Road[Max(r)][2])
    <3>1. CASE r = {}
      BY <2>1, <3>1 DEF FromLeft
    <3>2. CASE r # {}
      <4>1. f[r \ {Max(r)}] \in D
        BY <2>1
      <4>2. f[r] = F[Max(r)][f[r \ {Max(r)}]]
        BY <2>1, <3>2, <4>1 DEF FromLeft
      <4> QED
        BY <1>5, <1>7, <3>2, <4>1, <4>2
    <3> QED
      BY <3>1, <3>2
  <2>3. f = [r \in SUBSET (1 .. n) |-> IF r = {} THEN d
               ELSE EditGround(f[r \ {Max(r)}], Road[Max(r)][1], Road[Max(r)][2])]
    BY <2>1, <2>2
  <2> QED
    BY <1>3, <2>3
<1>9. Folds(it)
  BY <1>8
<1> HIDE DEF it
<1>10. FromLeft(it, n, D, d, F)
  <2>1. it[{}] = d
    BY <1>9
  <2>2. ASSUME NEW r \in SUBSET (1 .. n), r # {}, it[r \ {Max(r)}] \in D
        PROVE  it[r] = F[Max(r)][it[r \ {Max(r)}]]
    <3>1. it[r] = EditGround(it[r \ {Max(r)}], Road[Max(r)][1], Road[Max(r)][2])
      BY <1>3, <1>9, <2>2
    <3> QED
      BY <1>5, <1>7, <2>2, <3>1
  <2> QED
    BY <2>1, <2>2 DEF FromLeft
<1>11. PICK g \in [0 .. n -> D] : UpChain(g, n, d, F) /\ it[1 .. n] = g[n]
  BY <1>3, <1>4, <1>6, <1>10, LeftChain
<1> QED
  BY <1>1, <1>3, <1>11 DEF D

\* h is what the track was after each of the entries.
Goes(op, h) == /\ h \in [0 .. Len(op) -> Track]
               /\ \A i \in 1 .. Len(op) : Links(op[i], h[i - 1], h[i])
Chained(b, l) == \E h : Goes(l.op, h) /\ h[l.cursor] = b

\* Taking entries i to c back, or making c + 1 to k again, is going along it.
LEMMA BackAlong ==
  ASSUME NEW op \in Seq(LogEntry), NEW h, Goes(op, h), NEW c \in 0 .. Len(op), NEW i \in 1 .. c + 1
  PROVE  BackOver(h[c], SubSeq(op, i, c)) = h[i - 1]
<1> DEFINE s == SubSeq(op, i, c)
           n == c - i + 1
<1>1. Len(op) \in Nat /\ n \in Nat
  OBVIOUS
<1>2. s \in Seq(LogEntry) /\ Len(s) = n /\ \A j \in 1 .. n : s[j] = op[i + j - 1]
  <2>1. \A x \in i .. c : op[x] \in LogEntry
    OBVIOUS
  <2>2. s \in Seq(LogEntry)
    BY <2>1
  <2> QED
    BY <1>1, <2>2
<1>3. h \in [0 .. Len(op) -> Track]
  BY DEF Goes
<1>4. h[c] \in Track
  BY <1>3
<1> HIDE DEF s
<1>5. PICK g \in [0 .. n -> Track] : BackBy(g, h[c], s) /\ BackOver(h[c], s) = g[0]
  BY <1>2, <1>4, GoesBack
<1>6. g[n] = h[c] /\ \A j \in 1 .. n : g[j - 1] = ReverseEdit(g[j], s[j])
  BY <1>2, <1>5 DEF BackBy
<1> DEFINE same == {x \in 0 .. n : g[n - x] = h[c - x]}
<1>7. 0 \in same
  BY <1>1, <1>6
<1>8. ASSUME NEW x \in 1 .. n, x - 1 \in same PROVE x \in same
  <2>1. PICK j \in 1 .. n : j = n - (x - 1)
    BY <1>1
  <2>2. PICK m \in 1 .. Len(op) : m = c - (x - 1)
    BY <1>1
  <2>3. g[j] = h[m] /\ n - x = j - 1 /\ c - x = m - 1 /\ i + j - 1 = m
    BY <1>1, <1>8, <2>1, <2>2
  <2>4. s[j] = op[m]
    BY <1>2, <2>3
  <2>5. h[m - 1] = ReverseEdit(h[m], op[m])
    BY DEF Goes, Links
  <2>6. g[j - 1] = h[m - 1]
    BY <1>6, <2>3, <2>4, <2>5
  <2> QED
    BY <2>3, <2>6
<1>9. n \in same
  <2>1. \A x \in 1 .. n : x - 1 \in same => x \in same
    BY <1>8
  <2> HIDE DEF same, n
  <2>2. \A x \in 0 .. n : x \in same
    BY <1>1, <1>7, <2>1, StepByStep
  <2> QED
    BY <1>1, <2>2
<1>10. g[0] = h[i - 1]
  <2>1. n - n = 0 /\ c - n = i - 1
    OBVIOUS
  <2> QED
    BY <1>9, <2>1
<1> QED
  BY <1>5, <1>10 DEF s

\* Making the entries after c, up to k, goes from the track at c to the track at k.
LEMMA OnAlong ==
  ASSUME NEW op \in Seq(LogEntry), NEW h, Goes(op, h), NEW k \in 0 .. Len(op), NEW c \in 0 .. k
  PROVE  OnOver(h[c], SubSeq(op, c + 1, k)) = h[k]
<1> DEFINE s == SubSeq(op, c + 1, k)
           n == k - c
<1>1. Len(op) \in Nat /\ n \in Nat
  OBVIOUS
<1>2. s \in Seq(LogEntry) /\ Len(s) = n /\ \A j \in 1 .. n : s[j] = op[c + j]
  <2>1. \A x \in c + 1 .. k : op[x] \in LogEntry
    OBVIOUS
  <2>2. s \in Seq(LogEntry)
    BY <2>1
  <2> QED
    BY <1>1, <2>2
<1>3. h \in [0 .. Len(op) -> Track]
  BY DEF Goes
<1>4. h[c] \in Track
  BY <1>3
<1> HIDE DEF s
<1>5. PICK g \in [0 .. n -> Track] : OnBy(g, h[c], s) /\ OnOver(h[c], s) = g[n]
  BY <1>2, <1>4, GoesOn
<1>6. g[0] = h[c] /\ \A j \in 1 .. n : g[j] = ForwardEdit(g[j - 1], s[j])
  BY <1>2, <1>5 DEF OnBy
<1> DEFINE same == {x \in 0 .. n : g[x] = h[c + x]}
<1>7. 0 \in same
  BY <1>1, <1>6
<1>8. ASSUME NEW x \in 1 .. n, x - 1 \in same PROVE x \in same
  <2>1. PICK m \in 1 .. Len(op) : m = c + x
    BY <1>1
  <2>2. g[x - 1] = h[m - 1] /\ c + (x - 1) = m - 1
    BY <1>1, <1>8, <2>1
  <2>3. s[x] = op[m]
    BY <1>2, <2>1
  <2>4. h[m] = ForwardEdit(h[m - 1], op[m])
    BY DEF Goes, Links
  <2>5. g[x] = h[m]
    BY <1>6, <2>2, <2>3, <2>4
  <2> QED
    BY <2>1, <2>5
<1>9. n \in same
  <2>1. \A x \in 1 .. n : x - 1 \in same => x \in same
    BY <1>8
  <2> HIDE DEF same, n
  <2>2. \A x \in 0 .. n : x \in same
    BY <1>1, <1>7, <2>1, StepByStep
  <2> QED
    BY <1>1, <2>2
<1>10. g[n] = h[k]
  <2>1. c + n = k
    OBVIOUS
  <2> QED
    BY <1>9, <2>1
<1> QED
  BY <1>5, <1>10 DEF s

\* The transaction an entry ends, and the one it begins.
LEMMA FirstIs ==
  ASSUME NEW l \in Logs, NEW k \in 1 .. Len(l.op)
  PROVE  /\ FirstOf(l, k) \in 1 .. k
         /\ \A j \in FirstOf(l, k) .. k : l.op[j].group = l.op[k].group
         /\ FirstOf(l, k) = 1 \/ l.op[FirstOf(l, k) - 1].group # l.op[k].group
<1> DEFINE ok(i) == /\ \A j \in i .. k : l.op[j].group = l.op[k].group
                    /\ i = 1 \/ l.op[i - 1].group # l.op[k].group
           alike == {i \in 1 .. k : \A j \in i .. k : l.op[j].group = l.op[k].group}
<1>1. Len(l.op) \in Nat
  BY LogsIs
<1>2. k \in alike
  BY <1>1
<1>3. PICK i \in alike : \A x \in alike : i <= x
  <2>1. alike \subseteq Nat /\ alike # {}
    BY <1>1, <1>2
  <2> HIDE DEF alike
  <2> QED
    BY <2>1, LeastNat
<1>4. ok(i)
  <2>1. SUFFICES ASSUME i # 1, l.op[i - 1].group = l.op[k].group PROVE FALSE
    BY <1>3
  <2>2. i - 1 \in 1 .. k
    BY <1>1, <1>3, <2>1
  <2>3. ASSUME NEW j \in i - 1 .. k PROVE l.op[j].group = l.op[k].group
    <3>1. CASE j = i - 1
      BY <2>1, <3>1
    <3>2. CASE j # i - 1
      <4>1. j \in i .. k
        BY <1>1, <1>3, <3>2
      <4> QED
        BY <1>3, <4>1
    <3> QED
      BY <3>1, <3>2
  <2>4. i - 1 \in alike
    BY <2>2, <2>3
  <2> QED
    BY <1>1, <1>3, <2>4
<1>5. FirstOf(l, k) = CHOOSE x \in 1 .. k : ok(x)
  BY DEF FirstOf
<1>6. \E x \in 1 .. k : ok(x)
  BY <1>3, <1>4
<1> HIDE DEF ok
<1>7. FirstOf(l, k) \in 1 .. k /\ ok(FirstOf(l, k))
  BY <1>5, <1>6
<1> QED
  BY <1>7 DEF ok

\* LastOf finds the end of a transaction: all up to it are of the group, the next is not.
LEMMA LastIs ==
  ASSUME NEW l \in Logs, NEW k \in 1 .. Len(l.op)
  PROVE  /\ LastOf(l, k) \in k .. Len(l.op)
         /\ \A j \in k .. LastOf(l, k) : l.op[j].group = l.op[k].group
         /\ LastOf(l, k) = Len(l.op) \/ l.op[LastOf(l, k) + 1].group # l.op[k].group
<1> DEFINE ok(i) == /\ \A j \in k .. i : l.op[j].group = l.op[k].group
                    /\ i = Len(l.op) \/ l.op[i + 1].group # l.op[k].group
           alike == {i \in k .. Len(l.op) : \A j \in k .. i : l.op[j].group = l.op[k].group}
           less == {Len(l.op) - i : i \in alike}
<1>1. Len(l.op) \in Nat
  BY LogsIs
<1>2. k \in alike
  BY <1>1
<1>3. PICK i \in alike : \A x \in alike : i >= x
  <2>1. less \subseteq Nat /\ Len(l.op) - k \in less
    BY <1>1, <1>2
  <2> HIDE DEF less
  <2>2. PICK y \in less : \A z \in less : y <= z
    BY <2>1, LeastNat
  <2>3. PICK i \in alike : y = Len(l.op) - i
    BY <2>2 DEF less
  <2>4. ASSUME NEW x \in alike PROVE i >= x
    <3>1. Len(l.op) - x \in less
      BY DEF less
    <3>2. Len(l.op) - i <= Len(l.op) - x
      BY <2>2, <2>3, <3>1
    <3> QED
      BY <1>1, <3>2
  <2> QED
    BY <2>4
<1>4. ok(i)
  <2>1. SUFFICES ASSUME i # Len(l.op), l.op[i + 1].group = l.op[k].group PROVE FALSE
    BY <1>3
  <2>2. i + 1 \in k .. Len(l.op)
    BY <1>1, <1>3, <2>1
  <2>3. ASSUME NEW j \in k .. i + 1 PROVE l.op[j].group = l.op[k].group
    <3>1. CASE j = i + 1
      BY <2>1, <3>1
    <3>2. CASE j # i + 1
      <4>1. j \in k .. i
        BY <1>1, <1>3, <3>2
      <4> QED
        BY <1>3, <4>1
    <3> QED
      BY <3>1, <3>2
  <2>4. i + 1 \in alike
    BY <2>2, <2>3
  <2> QED
    BY <1>1, <1>3, <2>4
<1>5. LastOf(l, k) = CHOOSE x \in k .. Len(l.op) : ok(x)
  BY DEF LastOf
<1>6. \E x \in k .. Len(l.op) : ok(x)
  BY <1>3, <1>4
<1> HIDE DEF ok
<1>7. LastOf(l, k) \in k .. Len(l.op) /\ ok(LastOf(l, k))
  BY <1>5, <1>6
<1> QED
  BY <1>7 DEF ok

\* A log moved to where a transaction begins or ends is one.
LEMMA MovedLog ==
  ASSUME NEW l \in Logs, NEW c \in Starts(l) \cup {Len(l.op)}
  PROVE  /\ [l EXCEPT !.cursor = c] \in Logs /\ c \in 0 .. Len(l.op)
         /\ [l EXCEPT !.cursor = c].op = l.op /\ [l EXCEPT !.cursor = c].cursor = c
         /\ [l EXCEPT !.cursor = c].open = l.open /\ [l EXCEPT !.cursor = c].group = l.group
<1> DEFINE m == [l EXCEPT !.cursor = c]
<1>1. l \in [op : Seq(LogEntry), cursor : Nat, group : Nat, open : BOOLEAN]
  BY DEF Logs
<1>2. m.op = l.op /\ m.cursor = c /\ m.open = l.open /\ m.group = l.group
  BY <1>1
<1>3. c \in 0 .. Len(l.op) /\ Len(l.op) \in Nat
  BY LogsIs DEF Starts
<1>4. m \in [op : Seq(LogEntry), cursor : Nat, group : Nat, open : BOOLEAN]
  BY <1>1, <1>3
<1>5. Starts(m) = Starts(l)
  BY <1>2 DEF Starts
<1> HIDE DEF m
<1>6. Len(m.op) <= Capacity /\ m.cursor \in Starts(m) \cup {Len(m.op)}
  BY <1>2, <1>5 DEF Logs
<1>7. /\ \A i, j \in DOMAIN m.op : i <= j => m.op[i].group <= m.op[j].group
      /\ \A i \in DOMAIN m.op : m.op[i].group <= m.group
  BY <1>2 DEF Logs
<1>8. m \in Logs
  BY <1>4, <1>6, <1>7 DEF Logs
<1> QED
  BY <1>2, <1>3, <1>8 DEF m

\* Begun or ended, too.
LEMMA OpenedLog ==
  ASSUME NEW l \in Logs
  PROVE  /\ Begin(l) \in Logs /\ End(l) \in Logs
         /\ Begin(l).op = l.op /\ Begin(l).cursor = l.cursor
         /\ End(l).op = l.op /\ End(l).cursor = l.cursor
         /\ Begin(l).open = TRUE /\ End(l).open = FALSE
         /\ End(l).group = l.group /\ Begin(l).group \in Nat
         /\ IF l.open THEN Begin(l) = l ELSE Begin(l).group = l.group + 1
<1>1. l \in [op : Seq(LogEntry), cursor : Nat, group : Nat, open : BOOLEAN]
  BY DEF Logs
<1>2. /\ End(l).op = l.op /\ End(l).cursor = l.cursor /\ End(l).open = FALSE
      /\ End(l).group = l.group
      /\ End(l) \in [op : Seq(LogEntry), cursor : Nat, group : Nat, open : BOOLEAN]
  BY <1>1 DEF End
<1>3. /\ Begin(l).op = l.op /\ Begin(l).cursor = l.cursor /\ Begin(l).open = TRUE
      /\ Begin(l).group \in Nat /\ Begin(l).group >= l.group
      /\ IF l.open THEN Begin(l) = l ELSE Begin(l).group = l.group + 1
      /\ Begin(l) \in [op : Seq(LogEntry), cursor : Nat, group : Nat, open : BOOLEAN]
  <2>1. CASE l.open
    BY <1>1, <2>1 DEF Begin
  <2>2. CASE ~l.open
    <3>1. Begin(l) = [op |-> l.op, cursor |-> l.cursor, group |-> l.group + 1, open |-> TRUE]
      BY <1>1, <2>2 DEF Begin
    <3> QED
      BY <1>1, <2>2, <3>1
  <2> QED
    BY <2>1, <2>2
<1>4. ASSUME NEW m \in [op : Seq(LogEntry), cursor : Nat, group : Nat, open : BOOLEAN],
             m.op = l.op, m.cursor = l.cursor, m.group >= l.group
      PROVE  m \in Logs
  <2>1. Starts(m) = Starts(l)
    BY <1>4 DEF Starts
  <2>2. Len(m.op) <= Capacity /\ m.cursor \in Starts(m) \cup {Len(m.op)}
    BY <1>4, <2>1 DEF Logs
  <2>3. \A i, j \in DOMAIN m.op : i <= j => m.op[i].group <= m.op[j].group
    BY <1>4 DEF Logs
  <2>4. ASSUME NEW i \in DOMAIN m.op PROVE m.op[i].group <= m.group
    <3>1. l.op[i].group <= l.group /\ l.op[i].group \in Nat /\ l.group \in Nat /\ m.group \in Nat
      <4>1. \A x \in DOMAIN l.op : l.op[x].group <= l.group
        BY DEF Logs
      <4> QED
        BY <1>1, <1>4, <4>1, LogsIs
    <3> QED
      BY <1>4, <3>1
  <2> QED
    BY <2>2, <2>3, <2>4 DEF Logs
<1>5. End(l) \in Logs
  BY <1>1, <1>2, <1>4
<1>6. Begin(l) \in Logs
  BY <1>3, <1>4
<1> QED
  BY <1>2, <1>3, <1>5, <1>6

\* A transaction taken back, or made again.
Undid(b, l, b2, l2) ==
    /\ l.cursor > 0 /\ l2.op = l.op /\ l2.cursor = FirstOf(l, l.cursor) - 1
    /\ b2 = BackOver(b, SubSeq(l.op, FirstOf(l, l.cursor), l.cursor))
Redid(b, l, b2, l2) ==
    /\ l.cursor < Len(l.op) /\ l2.op = l.op /\ l2.cursor = LastOf(l, l.cursor + 1)
    /\ b2 = OnOver(b, SubSeq(l.op, l.cursor + 1, LastOf(l, l.cursor + 1)))

\* Any part of what is entered is entries.
LEMMA PartOfIt ==
  ASSUME NEW op \in Seq(LogEntry), NEW i \in Nat \ {0}, NEW k \in 0 .. Len(op)
  PROVE  SubSeq(op, i, k) \in Seq(LogEntry)
<1>1. \A x \in i .. k : op[x] \in LogEntry
  OBVIOUS
<1> QED
  BY <1>1

\* What gs_edit_undo does: nothing with nothing to undo, and else one whole transaction is
\* taken back.
LEMMA UndoIs ==
  ASSUME NEW d \in Desks
  PROVE  /\ Undo(d) \in Desks /\ Undo(d).ok = d.ok /\ Undo(d).log.open = d.log.open
         /\ Undo(d).log.group = d.log.group
         /\ IF d.log.cursor = 0 THEN Undo(d) = d
            ELSE Undid(d.board, d.log, Undo(d).board, Undo(d).log)
<1> DEFINE l == d.log
           c == l.cursor
           i == FirstOf(l, c)
           m == [l EXCEPT !.cursor = i - 1]
           b2 == BackOver(d.board, SubSeq(l.op, i, c))
<1>1. d.board \in Track /\ l \in Logs /\ d.ok \in BOOLEAN
  BY DEF Desks
<1>2. l.op \in Seq(LogEntry) /\ Len(l.op) \in Nat /\ c \in 0 .. Len(l.op)
  BY <1>1, LogsIs
<1>3. CASE c = 0
  BY <1>1, <1>3 DEF Undo
<1>4. CASE c # 0
  <2>1. c \in 1 .. Len(l.op)
    BY <1>2, <1>4
  <2>2. /\ i \in 1 .. c /\ \A j \in i .. c : l.op[j].group = l.op[c].group
        /\ i = 1 \/ l.op[i - 1].group # l.op[c].group
    BY <1>1, <2>1, FirstIs
  <2>3. i - 1 \in Starts(l)
    <3>1. i - 1 \in 0 .. Len(l.op) - 1 /\ (i - 1) + 1 = i
      BY <1>2, <2>1, <2>2
    <3>2. l.op[i].group = l.op[c].group
      BY <1>2, <2>2
    <3>3. PICK x : x = i - 1
      OBVIOUS
    <3>4. x = 0 \/ l.op[x].group # l.op[x + 1].group
      BY <2>2, <3>1, <3>2, <3>3
    <3> QED
      BY <3>1, <3>3, <3>4 DEF Starts
  <2> HIDE DEF i, l
  <2>4. /\ m \in Logs /\ m.op = l.op /\ m.cursor = i - 1 /\ m.open = l.open
        /\ m.group = l.group
    BY <1>1, <2>3, MovedLog
  <2>5. SubSeq(l.op, i, c) \in Seq(LogEntry)
    <3>1. i \in Nat \ {0}
      BY <1>2, <2>2
    <3> QED
      BY <1>2, <3>1, PartOfIt
  <2>6. b2 \in Track
    <3>1. PICK s : s = SubSeq(l.op, i, c)
      OBVIOUS
    <3>2. PICK g \in [0 .. Len(s) -> Track] : BackOver(d.board, s) = g[0]
      BY <1>1, <2>5, <3>1, GoesBack
    <3>3. 0 \in 0 .. Len(s)
      BY <2>5, <3>1
    <3> QED
      BY <3>1, <3>2, <3>3
  <2>7. Undo(d) = [d EXCEPT !.board = b2, !.log.cursor = i - 1]
    BY <1>4 DEF Undo, TakenBack, BackOver, l, i
  <2>8. Undo(d) = [board |-> b2, log |-> m, ok |-> d.ok]
    <3>1. d = [board |-> d.board, log |-> l, ok |-> d.ok]
      BY DEF Desks, l
    <3> QED
      BY <2>7, <3>1 DEF l
  <2> HIDE DEF m, b2
  <2>9. Undo(d).board = b2 /\ Undo(d).log = m /\ Undo(d).ok = d.ok
    BY <2>8
  <2>10. Undo(d) \in Desks
    BY <1>1, <2>4, <2>6, <2>8 DEF Desks
  <2>11. Undid(d.board, l, b2, m)
    BY <1>2, <1>4, <2>4 DEF Undid, i, b2
  <2> QED
    BY <1>4, <2>4, <2>9, <2>10, <2>11 DEF l
<1> QED
  BY <1>3, <1>4

\* What gs_edit_redo does: nothing with nothing to redo, and else one whole transaction is
\* made again.
LEMMA RedoIs ==
  ASSUME NEW d \in Desks
  PROVE  /\ Redo(d) \in Desks /\ Redo(d).ok = d.ok /\ Redo(d).log.open = d.log.open
         /\ Redo(d).log.group = d.log.group
         /\ IF d.log.cursor >= Len(d.log.op) THEN Redo(d) = d
            ELSE Redid(d.board, d.log, Redo(d).board, Redo(d).log)
<1> DEFINE l == d.log
           c == l.cursor
           k == LastOf(l, c + 1)
           m == [l EXCEPT !.cursor = k]
           b2 == OnOver(d.board, SubSeq(l.op, c + 1, k))
<1>1. d.board \in Track /\ l \in Logs /\ d.ok \in BOOLEAN
  BY DEF Desks
<1>2. l.op \in Seq(LogEntry) /\ Len(l.op) \in Nat /\ c \in 0 .. Len(l.op)
  BY <1>1, LogsIs
<1>3. CASE c >= Len(l.op)
  BY <1>1, <1>3 DEF Redo
<1>4. CASE ~(c >= Len(l.op))
  <2>1. c + 1 \in 1 .. Len(l.op)
    BY <1>2, <1>4
  <2>2. /\ k \in c + 1 .. Len(l.op) /\ \A j \in c + 1 .. k : l.op[j].group = l.op[c + 1].group
        /\ k = Len(l.op) \/ l.op[k + 1].group # l.op[c + 1].group
    BY <1>1, <2>1, LastIs
  <2>3. k \in Starts(l) \cup {Len(l.op)}
    <3>1. SUFFICES ASSUME k # Len(l.op) PROVE k \in Starts(l)
      OBVIOUS
    <3>2. k \in 0 .. Len(l.op) - 1 /\ k \in c + 1 .. k
      BY <1>2, <2>2, <3>1
    <3>3. l.op[k].group = l.op[c + 1].group
      BY <2>2, <3>2
    <3>4. l.op[k].group # l.op[k + 1].group
      BY <2>2, <3>1, <3>3
    <3> QED
      BY <3>2, <3>4 DEF Starts
  <2> HIDE DEF k, l
  <2>4. /\ m \in Logs /\ m.op = l.op /\ m.cursor = k /\ m.open = l.open
        /\ m.group = l.group
    BY <1>1, <2>3, MovedLog
  <2>5. SubSeq(l.op, c + 1, k) \in Seq(LogEntry)
    <3>1. c + 1 \in Nat \ {0} /\ k \in 0 .. Len(l.op)
      BY <1>2, <2>2
    <3> QED
      BY <1>2, <3>1, PartOfIt
  <2>6. b2 \in Track
    <3>1. PICK s : s = SubSeq(l.op, c + 1, k)
      OBVIOUS
    <3>2. PICK g \in [0 .. Len(s) -> Track] : OnOver(d.board, s) = g[Len(s)]
      BY <1>1, <2>5, <3>1, GoesOn
    <3>3. Len(s) \in 0 .. Len(s)
      BY <2>5, <3>1
    <3> QED
      BY <3>1, <3>2, <3>3
  <2>7. Redo(d) = [d EXCEPT !.board = b2, !.log.cursor = k]
    BY <1>4 DEF Redo, MadeAgain, OnOver, l, k
  <2>8. Redo(d) = [board |-> b2, log |-> m, ok |-> d.ok]
    <3>1. d = [board |-> d.board, log |-> l, ok |-> d.ok]
      BY DEF Desks, l
    <3> QED
      BY <2>7, <3>1 DEF l
  <2> HIDE DEF m, b2
  <2>9. Redo(d).board = b2 /\ Redo(d).log = m /\ Redo(d).ok = d.ok
    BY <2>8
  <2>10. Redo(d) \in Desks
    BY <1>1, <2>4, <2>6, <2>8 DEF Desks
  <2>11. Redid(d.board, l, b2, m)
    BY <1>2, <1>4, <2>4 DEF Redid, k, b2
  <2> QED
    BY <1>4, <2>4, <2>9, <2>10, <2>11 DEF l
<1> QED
  BY <1>3, <1>4

\* What there was after each entry is known after every one of these steps, and what was
\* known is still so.
LEMMA ChainGrown ==
  ASSUME NEW l \in Logs, NEW l2 \in Logs, NEW b, NEW b2, NEW h, Goes(l.op, h), h[l.cursor] = b,
         Grown(b, l, b2, l2)
  PROVE  \E h2 : Goes(l2.op, h2) /\ h2[l2.cursor] = b2 /\ Agree(h, h2, 0, l.cursor)
<1>1. PICK c, k : c = l.cursor /\ k = l2.cursor
  OBVIOUS
<1>2. c \in 0 .. Len(l.op) /\ Len(l.op) \in Nat /\ c \in Nat /\ k \in Nat
  BY <1>1, LogsIs
<1>3. /\ k = Len(l2.op) /\ c < k /\ \A i \in 1 .. c : l2.op[i] = l.op[i]
      /\ Leads(l2.op, c, k, b, b2)
  BY <1>1 DEF Grown
<1>4. PICK g \in [c .. k -> Track] : /\ g[c] = b /\ g[k] = b2
                                     /\ \A i \in c + 1 .. k : Links(l2.op[i], g[i - 1], g[i])
  BY <1>3 DEF Leads
<1>5. h \in [0 .. Len(l.op) -> Track] /\ \A i \in 1 .. Len(l.op) : Links(l.op[i], h[i - 1], h[i])
  BY DEF Goes
<1> DEFINE h2 == [i \in 0 .. k |-> IF i <= c THEN h[i] ELSE g[i]]
<1>6. h2 \in [0 .. k -> Track]
  <2>1. ASSUME NEW i \in 0 .. k PROVE (IF i <= c THEN h[i] ELSE g[i]) \in Track
    <3>1. CASE i <= c
      <4>1. i \in 0 .. Len(l.op)
        BY <1>2, <3>1
      <4> QED
        BY <1>5, <3>1, <4>1
    <3>2. CASE ~(i <= c)
      <4>1. i \in c .. k
        BY <1>2, <3>2
      <4> QED
        BY <1>4, <3>2, <4>1
    <3> QED
      BY <3>1, <3>2
  <2> QED
    BY <2>1
<1>7. \A i \in 0 .. c : h2[i] = h[i]
  BY <1>2, <1>3
<1>8. h2[k] = b2
  BY <1>2, <1>3, <1>4
<1>9. ASSUME NEW i \in 1 .. k PROVE Links(l2.op[i], h2[i - 1], h2[i])
  <2>1. CASE i <= c
    <3>1. i \in 1 .. c /\ i \in 1 .. Len(l.op) /\ i - 1 \in 0 .. c /\ i \in 0 .. c
      BY <1>2, <2>1
    <3>2. h2[i - 1] = h[i - 1] /\ h2[i] = h[i] /\ l2.op[i] = l.op[i]
      BY <1>3, <1>7, <3>1
    <3> QED
      BY <1>5, <3>1, <3>2
  <2>2. CASE ~(i <= c)
    <3>1. i \in c + 1 .. k /\ i - 1 \in 0 .. k /\ i \in 0 .. k
      BY <1>2, <2>2
    <3>2. h2[i] = g[i]
      BY <2>2, <3>1
    <3>3. h2[i - 1] = g[i - 1]
      <4>1. CASE i - 1 = c
        <5>1. h2[c] = h[c]
          BY <1>2, <1>7
        <5> QED
          BY <1>1, <1>4, <4>1, <5>1
      <4>2. CASE i - 1 # c
        BY <1>2, <2>2, <3>1, <4>2
      <4> QED
        BY <4>1, <4>2
    <3> QED
      BY <1>4, <3>1, <3>2, <3>3
  <2> QED
    BY <2>1, <2>2
<1> HIDE DEF h2
<1>10. Goes(l2.op, h2) /\ Agree(h, h2, 0, c)
  BY <1>3, <1>6, <1>7, <1>9 DEF Goes, Agree
<1> QED
  BY <1>1, <1>8, <1>10

\* The tracks a log goes through are the same tracks after an undo.
LEMMA ChainUndid ==
  ASSUME NEW l \in Logs, NEW l2, NEW b, NEW b2, NEW h, Goes(l.op, h), h[l.cursor] = b,
         Undid(b, l, b2, l2)
  PROVE  Goes(l2.op, h) /\ h[l2.cursor] = b2
<1>1. PICK c, i : c = l.cursor /\ i = FirstOf(l, c)
  OBVIOUS
<1>2. l.op \in Seq(LogEntry) /\ Len(l.op) \in Nat /\ c \in 0 .. Len(l.op)
  BY <1>1, LogsIs
<1>3. /\ c > 0 /\ l2.op = l.op /\ l2.cursor = i - 1
      /\ b2 = BackOver(b, SubSeq(l.op, i, c))
  BY <1>1 DEF Undid
<1>4. c \in 1 .. Len(l.op)
  BY <1>2, <1>3
<1>5. i \in 1 .. c + 1
  <2>1. i \in 1 .. c
    BY <1>1, <1>4, FirstIs
  <2> QED
    BY <1>2, <2>1
<1>6. BackOver(h[c], SubSeq(l.op, i, c)) = h[i - 1]
  BY <1>2, <1>5, BackAlong
<1> QED
  BY <1>1, <1>3, <1>6

\* The tracks a log goes through are the same tracks after a redo.
LEMMA ChainRedid ==
  ASSUME NEW l \in Logs, NEW l2, NEW b, NEW b2, NEW h, Goes(l.op, h), h[l.cursor] = b,
         Redid(b, l, b2, l2)
  PROVE  Goes(l2.op, h) /\ h[l2.cursor] = b2
<1>1. PICK c, k : c = l.cursor /\ k = LastOf(l, c + 1)
  OBVIOUS
<1>2. l.op \in Seq(LogEntry) /\ Len(l.op) \in Nat /\ c \in 0 .. Len(l.op)
  BY <1>1, LogsIs
<1>3. /\ c < Len(l.op) /\ l2.op = l.op /\ l2.cursor = k
      /\ b2 = OnOver(b, SubSeq(l.op, c + 1, k))
  BY <1>1 DEF Redid
<1>4. c + 1 \in 1 .. Len(l.op)
  BY <1>2, <1>3
<1>5. k \in 0 .. Len(l.op) /\ c \in 0 .. k
  <2>1. k \in c + 1 .. Len(l.op)
    BY <1>1, <1>4, LastIs
  <2> QED
    BY <1>2, <2>1
<1>6. OnOver(h[c], SubSeq(l.op, c + 1, k)) = h[k]
  BY <1>2, <1>5, OnAlong
<1> QED
  BY <1>1, <1>3, <1>6

-----------------------------------------------------------------------------
(* Some numbers, in order *)

Below(ps, p) == {q \in ps : q < p}

\* Below the least there is nothing.
LEMMA BelowNone ==
  ASSUME NEW ps, NEW p, \A q \in ps : q \in Nat, p \in Nat, \A q \in ps : ~(q < p)
  PROVE  Below(ps, p) = {}
BY DEF Below

\* Below what is greater than all of them there are all of them.
LEMMA BelowAll ==
  ASSUME NEW ps, NEW p, \A q \in ps : q < p
  PROVE  Below(ps, p) = ps
BY DEF Below

\* What is below p when one more is there.
LEMMA BelowUnion ==
  ASSUME NEW ps, NEW c, NEW p
  PROVE  /\ c < p => Below(ps \cup {c}, p) = Below(ps, p) \cup {c}
         /\ ~(c < p) => Below(ps \cup {c}, p) = Below(ps, p)
BY DEF Below

\* One further on, below is the same past a number that is not there ...
LEMMA BelowSkip ==
  ASSUME NEW ps \in SUBSET Nat, NEW k \in Nat, NEW m, m = k + 1, k \notin ps
  PROVE  Below(ps, m) = Below(ps, k)
<1>1. \A q \in ps : q < m <=> q < k
  OBVIOUS
<1> QED
  BY <1>1 DEF Below

\* ... and one more past a number that is.
LEMMA BelowNext ==
  ASSUME NEW ps \in SUBSET Nat, NEW k \in Nat, NEW m, m = k + 1, k \in ps
  PROVE  Below(ps, m) = Below(ps, k) \cup {k} /\ k \notin Below(ps, k)
<1>1. \A q \in ps : q < m <=> (q < k \/ q = k)
  OBVIOUS
<1>2. Below(ps, m) = {q \in ps : q < k \/ q = k}
  BY <1>1 DEF Below
<1>3. {q \in ps : q < k \/ q = k} = {q \in ps : q < k} \cup {k}
  OBVIOUS
<1>4. k \notin {q \in ps : q < k}
  OBVIOUS
<1> QED
  BY <1>2, <1>3, <1>4 DEF Below

\* Below a greater one there is more.
LEMMA BelowUp ==
  ASSUME NEW ps, NEW x \in ps, NEW y \in ps, x < y, \A q \in ps : q \in Nat
  PROVE  x \notin Below(ps, x) /\ Below(ps, x) \cup {x} \subseteq Below(ps, y)
BY DEF Below

\* What is below is finite, and can be counted.
LEMMA BelowFinite ==
  ASSUME NEW n \in Nat, NEW ps \in SUBSET (0 .. n), NEW p
  PROVE  /\ IsFiniteSet(ps) /\ Cardinality(ps) \in Nat
         /\ IsFiniteSet(Below(ps, p)) /\ Cardinality(Below(ps, p)) \in Nat
<1>1. IsFiniteSet(0 .. n)
  BY FS_Interval
<1>2. IsFiniteSet(ps)
  BY <1>1, FS_Subset
<1>3. Below(ps, p) \subseteq ps
  BY DEF Below
<1> QED
  BY <1>2, <1>3, FS_Subset, FS_CardinalityType

\* Two with as many below them are the same.
LEMMA NthOnly ==
  ASSUME NEW n \in Nat, NEW ps \in SUBSET (0 .. n), NEW p \in ps, NEW r \in ps,
         Cardinality(Below(ps, p)) = Cardinality(Below(ps, r))
  PROVE  p = r
<1>0. \A q \in ps : q \in Nat /\ q <= n
  OBVIOUS
<1>1. ASSUME NEW x \in ps, NEW y \in ps, x < y
      PROVE  Cardinality(Below(ps, x)) < Cardinality(Below(ps, y))
  <2>1. x \notin Below(ps, x) /\ Below(ps, x) \cup {x} \subseteq Below(ps, y)
    BY <1>0, <1>1, BelowUp
  <2>2. IsFiniteSet(Below(ps, x)) /\ IsFiniteSet(Below(ps, y))
    BY BelowFinite
  <2>3. Cardinality(Below(ps, x) \cup {x}) = Cardinality(Below(ps, x)) + 1
    BY <2>1, <2>2, FS_AddElement
  <2>4. Cardinality(Below(ps, x) \cup {x}) <= Cardinality(Below(ps, y))
    BY <2>1, <2>2, FS_Subset
  <2>5. Cardinality(Below(ps, x)) \in Nat /\ Cardinality(Below(ps, y)) \in Nat
    BY BelowFinite
  <2> QED
    BY <2>3, <2>4, <2>5
<1>2. p \in Nat /\ r \in Nat
  OBVIOUS
<1>3. Cardinality(Below(ps, p)) \in Nat /\ Cardinality(Below(ps, r)) \in Nat
  BY BelowFinite
<1>4. ~(p < r) /\ ~(r < p)
  BY <1>1, <1>3
<1> QED
  BY <1>2, <1>4

\* The k-th of some numbers is one of them, with k - 1 below it.
LEMMA NthIs ==
  ASSUME NEW n \in Nat, NEW ps \in SUBSET (0 .. n), NEW k \in 1 .. Cardinality(ps)
  PROVE  Nth(ps, k) \in ps /\ Cardinality(Below(ps, Nth(ps, k))) = k - 1
<1>0. \A q \in ps : q \in Nat /\ q <= n
  OBVIOUS
<1> DEFINE ranked(m) == \A j \in 1 .. Cardinality(Below(ps, m)) :
                           \E p \in ps : Cardinality(Below(ps, p)) = j - 1
           P == {m \in 0 .. n + 1 : ranked(m)}
<1>1. 0 \in P
  <2>1. Below(ps, 0) = {}
    <3>1. \A q \in ps : q \in Nat /\ ~(q < 0)
      BY <1>0
    <3> QED
      BY <3>1, BelowNone
  <2>2. Cardinality(Below(ps, 0)) = 0
    BY <2>1, FS_EmptySet
  <2> QED
    BY <2>2
<1>2. ASSUME NEW m \in 1 .. n + 1, m - 1 \in P PROVE m \in P
  <2>0. PICK k1 \in Nat : k1 = m - 1 /\ m = k1 + 1 /\ m \in Nat
    <3>1. m - 1 \in Nat /\ m = (m - 1) + 1 /\ m \in Nat
      OBVIOUS
    <3> QED
      BY <3>1
  <2>1. CASE m - 1 \notin ps
    <3>1. Below(ps, m) = Below(ps, m - 1)
      <4>1. Below(ps, m) = Below(ps, k1)
        <5>1. k1 \notin ps /\ ps \in SUBSET Nat
          BY <1>0, <2>0, <2>1
        <5> HIDE DEF P
        <5> QED
          BY <2>0, <5>1, BelowSkip
      <4> QED
        BY <2>0, <4>1
    <3> QED
      BY <1>2, <3>1
  <2>2. CASE m - 1 \in ps
    <3>1. Below(ps, m) = Below(ps, m - 1) \cup {m - 1} /\ m - 1 \notin Below(ps, m - 1)
      <4>1. Below(ps, m) = Below(ps, k1) \cup {k1} /\ k1 \notin Below(ps, k1)
        <5>1. k1 \in ps /\ ps \in SUBSET Nat
          BY <1>0, <2>0, <2>2
        <5> HIDE DEF P
        <5> QED
          BY <2>0, <5>1, BelowNext
      <4> QED
        BY <2>0, <4>1
    <3>2. IsFiniteSet(Below(ps, m - 1)) /\ Cardinality(Below(ps, m - 1)) \in Nat
      BY BelowFinite
    <3>3. Cardinality(Below(ps, m)) = Cardinality(Below(ps, m - 1)) + 1
      BY <3>1, <3>2, FS_AddElement
    <3>4. ASSUME NEW j \in 1 .. Cardinality(Below(ps, m))
          PROVE  \E p \in ps : Cardinality(Below(ps, p)) = j - 1
      <4>1. CASE j \in 1 .. Cardinality(Below(ps, m - 1))
        BY <1>2, <4>1
      <4>2. CASE j \notin 1 .. Cardinality(Below(ps, m - 1))
        <5>1. j = Cardinality(Below(ps, m - 1)) + 1
          BY <3>2, <3>3, <4>2
        <5> QED
          BY <2>2, <3>2, <5>1
      <4> QED
        BY <4>1, <4>2
    <3> QED
      BY <3>4
  <2> QED
    BY <2>1, <2>2
<1>3. n + 1 \in P
  <2>1. \A m \in 1 .. n + 1 : m - 1 \in P => m \in P
    BY <1>2
  <2> HIDE DEF P
  <2>2. \A m \in 0 .. n + 1 : m \in P
    BY <1>1, <2>1, StepByStep
  <2> QED
    BY <2>2
<1>4. Below(ps, n + 1) = ps
  <2>1. \A q \in ps : q < n + 1
    BY <1>0
  <2> QED
    BY <2>1, BelowAll
<1>5. \E p \in ps : Cardinality(Below(ps, p)) = k - 1
  BY <1>3, <1>4
<1> QED
  BY <1>5 DEF Nth, Below

\* What h has at each of them, in order.
Listed(h, ps) == [k \in 1 .. Cardinality(ps) |-> h[Nth(ps, k)]]

\* The tracks at some places, in order, are a sequence, one for each place.
LEMMA ListedIs ==
  ASSUME NEW n \in Nat, NEW ps \in SUBSET (0 .. n), NEW h \in [0 .. n -> Track]
  PROVE  Listed(h, ps) \in Seq(Track) /\ Len(Listed(h, ps)) = Cardinality(ps)
<1>1. Cardinality(ps) \in Nat
  BY BelowFinite
<1>2. \A k \in 1 .. Cardinality(ps) : h[Nth(ps, k)] \in Track
  BY NthIs
<1> QED
  BY <1>1, <1>2 DEF Listed

\* A place after all the others is listed last.
LEMMA ListedGreater ==
  ASSUME NEW n \in Nat, NEW ps \in SUBSET (0 .. n), NEW h \in [0 .. n -> Track],
         NEW c \in 0 .. n, \A p \in ps : p < c
  PROVE  /\ Listed(h, ps \cup {c}) = Append(Listed(h, ps), h[c])
         /\ Cardinality(ps \cup {c}) = Cardinality(ps) + 1
<1>0. \A q \in ps : q \in Nat /\ q <= n
  OBVIOUS
<1> DEFINE qs == ps \cup {c}
           m == Cardinality(ps)
<1>1. m \in Nat /\ IsFiniteSet(ps)
  BY BelowFinite
<1>2. c \notin ps /\ qs \in SUBSET (0 .. n)
  OBVIOUS
<1>3. Cardinality(qs) = m + 1
  BY <1>1, <1>2, FS_AddElement
<1>4. ASSUME NEW k \in 1 .. m PROVE Nth(qs, k) = Nth(ps, k)
  <2>1. PICK p \in ps : p = Nth(ps, k) /\ Cardinality(Below(ps, p)) = k - 1
    BY NthIs
  <2>2. Below(qs, p) = Below(ps, p)
    <3>1. ~(c < p)
      BY <1>0
    <3> QED
      BY <3>1, BelowUnion
  <2>3. k \in 1 .. Cardinality(qs)
    BY <1>1, <1>3
  <2>4. Nth(qs, k) \in qs /\ Cardinality(Below(qs, Nth(qs, k))) = k - 1
    BY <1>2, <2>3, NthIs
  <2> QED
    BY <1>2, <2>1, <2>2, <2>4, NthOnly
<1>5. Nth(qs, m + 1) = c
  <2>1. Below(qs, c) = ps
    <3>1. ~(c < c)
      OBVIOUS
    <3>2. Below(ps, c) = ps
      BY BelowAll
    <3> QED
      BY <3>1, <3>2, BelowUnion
  <2>2. m + 1 \in 1 .. Cardinality(qs) /\ (m + 1) - 1 = m
    BY <1>1, <1>3
  <2>3. Nth(qs, m + 1) \in qs /\ Cardinality(Below(qs, Nth(qs, m + 1))) = m
    BY <1>2, <2>2, NthIs
  <2>4. c \in qs /\ Cardinality(Below(qs, c)) = m
    BY <2>1
  <2> HIDE DEF qs, m
  <2> QED
    BY <1>2, <2>3, <2>4, NthOnly
<1>6. Listed(h, qs) \in Seq(Track) /\ Len(Listed(h, qs)) = m + 1
  BY <1>2, <1>3, ListedIs
<1>7. Listed(h, ps) \in Seq(Track) /\ Len(Listed(h, ps)) = m
  BY ListedIs
<1>8. ASSUME NEW k \in 1 .. m + 1 PROVE Listed(h, qs)[k] = Append(Listed(h, ps), h[c])[k]
  <2>1. Listed(h, qs)[k] = h[Nth(qs, k)]
    BY <1>3 DEF Listed
  <2>2. CASE k = m + 1
    BY <1>1, <1>5, <1>7, <2>1, <2>2
  <2>3. CASE k # m + 1
    <3>1. k \in 1 .. m
      BY <1>1, <2>3
    <3>2. Listed(h, ps)[k] = h[Nth(ps, k)]
      BY <3>1 DEF Listed
    <3>3. Append(Listed(h, ps), h[c])[k] = Listed(h, ps)[k]
      BY <1>7, <3>1
    <3> QED
      BY <1>4, <2>1, <3>1, <3>2, <3>3
  <2> QED
    BY <2>2, <2>3
<1>9. Append(Listed(h, ps), h[c]) \in Seq(Track) /\ Len(Append(Listed(h, ps), h[c])) = m + 1
  BY <1>7
<1> HIDE DEF qs, m
<1>10. PICK s, u : s = Listed(h, qs) /\ u = Append(Listed(h, ps), h[c])
  OBVIOUS
<1>11. s = u
  <2>1. s \in Seq(Track) /\ u \in Seq(Track) /\ Len(s) = m + 1 /\ Len(u) = m + 1
    BY <1>6, <1>9, <1>10
  <2>2. \A k \in 1 .. Len(s) : s[k] = u[k]
    BY <1>8, <1>10, <2>1
  <2> QED
    BY <2>1, <2>2
<1> QED
  BY <1>3, <1>10, <1>11 DEF qs, m

\* A place before all the others is listed first.
LEMMA ListedLess ==
  ASSUME NEW n \in Nat, NEW ps \in SUBSET (0 .. n), NEW h \in [0 .. n -> Track],
         NEW c \in 0 .. n, \A p \in ps : c < p
  PROVE  /\ Listed(h, ps \cup {c}) = <<h[c]>> \o Listed(h, ps)
         /\ Cardinality(ps \cup {c}) = Cardinality(ps) + 1
<1>0. \A q \in ps : q \in Nat /\ q <= n
  OBVIOUS
<1> DEFINE qs == ps \cup {c}
           m == Cardinality(ps)
<1>1. m \in Nat /\ IsFiniteSet(ps)
  BY BelowFinite
<1>2. c \notin ps /\ qs \in SUBSET (0 .. n)
  OBVIOUS
<1>3. Cardinality(qs) = m + 1
  BY <1>1, <1>2, FS_AddElement
<1>4. ASSUME NEW k \in 1 .. m PROVE Nth(qs, k + 1) = Nth(ps, k)
  <2>1. PICK p \in ps : p = Nth(ps, k) /\ Cardinality(Below(ps, p)) = k - 1
    BY NthIs
  <2>2. Below(qs, p) = Below(ps, p) \cup {c} /\ c \notin Below(ps, p)
    <3>1. Below(ps, p) \subseteq ps
      BY DEF Below
    <3>2. c < p
      OBVIOUS
    <3>3. Below(ps \cup {c}, p) = Below(ps, p) \cup {c}
      BY <3>2 DEF Below
    <3> QED
      BY <1>2, <3>1, <3>3
  <2>3. IsFiniteSet(Below(ps, p))
    BY BelowFinite
  <2>4. Cardinality(Below(qs, p)) = k
    <3>1. Cardinality(Below(ps, p) \cup {c}) = Cardinality(Below(ps, p)) + 1
      BY <2>2, <2>3, FS_AddElement
    <3>2. Cardinality(Below(qs, p)) = (k - 1) + 1
      BY <2>1, <2>2, <3>1
    <3>3. (k - 1) + 1 = k
      BY <1>1
    <3> QED
      BY <3>2, <3>3
  <2>5. k + 1 \in 1 .. Cardinality(qs) /\ (k + 1) - 1 = k
    BY <1>1, <1>3
  <2>6. Nth(qs, k + 1) \in qs /\ Cardinality(Below(qs, Nth(qs, k + 1))) = k
    BY <1>2, <2>5, NthIs
  <2>7. p \in qs
    BY <2>1
  <2> HIDE DEF qs, m
  <2> QED
    BY <1>2, <2>1, <2>4, <2>6, <2>7, NthOnly
<1>5. Nth(qs, 1) = c
  <2>1. Below(qs, c) = {}
    <3>1. ~(c < c) /\ \A q \in ps : ~(q < c) /\ q \in Nat
      BY <1>0
    <3>2. Below(ps, c) = {}
      <4>1. c \in Nat
        OBVIOUS
      <4> HIDE DEF qs, m
      <4> QED
        BY <3>1, <4>1, BelowNone
    <3> QED
      BY <3>1, <3>2, BelowUnion
  <2>2. 1 \in 1 .. Cardinality(qs) /\ 1 - 1 = 0
    BY <1>1, <1>3
  <2>3. Nth(qs, 1) \in qs /\ Cardinality(Below(qs, Nth(qs, 1))) = 0
    BY <1>2, <2>2, NthIs
  <2>4. c \in qs /\ Cardinality(Below(qs, c)) = 0
    BY <2>1, FS_EmptySet
  <2> HIDE DEF qs, m
  <2> QED
    BY <1>2, <2>3, <2>4, NthOnly
<1>6. Listed(h, qs) \in Seq(Track) /\ Len(Listed(h, qs)) = m + 1
  BY <1>2, <1>3, ListedIs
<1>7. Listed(h, ps) \in Seq(Track) /\ Len(Listed(h, ps)) = m /\ h[c] \in Track
  BY ListedIs
<1>8. <<h[c]>> \o Listed(h, ps) \in Seq(Track) /\ Len(<<h[c]>> \o Listed(h, ps)) = m + 1
  BY <1>1, <1>7
<1>9. ASSUME NEW k \in 1 .. m + 1 PROVE Listed(h, qs)[k] = (<<h[c]>> \o Listed(h, ps))[k]
  <2>1. Listed(h, qs)[k] = h[Nth(qs, k)]
    BY <1>3 DEF Listed
  <2>2. CASE k = 1
    BY <1>1, <1>5, <1>7, <2>1, <2>2
  <2>3. CASE k # 1
    <3>1. PICK j \in 1 .. m : k = j + 1
      <4>1. k - 1 \in 1 .. m /\ k = (k - 1) + 1
        BY <1>1, <2>3
      <4> QED
        BY <4>1
    <3>2. Listed(h, ps)[j] = h[Nth(ps, j)]
      BY DEF Listed
    <3>3. (<<h[c]>> \o Listed(h, ps))[k] = Listed(h, ps)[j]
      BY <1>1, <1>7, <3>1
    <3> QED
      BY <1>4, <2>1, <3>1, <3>2, <3>3
  <2> QED
    BY <2>2, <2>3
<1> HIDE DEF qs, m
<1>10. PICK s, u : s = Listed(h, qs) /\ u = <<h[c]>> \o Listed(h, ps)
  OBVIOUS
<1>11. s = u
  <2>1. s \in Seq(Track) /\ u \in Seq(Track) /\ Len(s) = m + 1 /\ Len(u) = m + 1
    BY <1>6, <1>8, <1>10
  <2>2. \A k \in 1 .. Len(s) : s[k] = u[k]
    BY <1>9, <1>10, <2>1
  <2> QED
    BY <2>1, <2>2
<1> QED
  BY <1>3, <1>10, <1>11 DEF qs, m

\* Only the tracks at the places listed matter.
LEMMA ListedSame ==
  ASSUME NEW n \in Nat, NEW ps \in SUBSET (0 .. n), NEW h, NEW f,
         \A p \in ps : h[p] = f[p]
  PROVE  Listed(h, ps) = Listed(f, ps)
<1>1. \A k \in 1 .. Cardinality(ps) : h[Nth(ps, k)] = f[Nth(ps, k)]
  BY NthIs
<1> QED
  BY <1>1 DEF Listed

-----------------------------------------------------------------------------
(* The history that is kept *)

\* The track that stood at a place of the log is the chain's track there.
LEMMA StandingIs ==
  ASSUME NEW l \in Logs, NEW b, NEW h, Goes(l.op, h), h[l.cursor] = b, NEW p \in 0 .. Len(l.op)
  PROVE  Standing(b, l, p) = h[p]
<1>1. PICK c : c = l.cursor
  OBVIOUS
<1>2. l.op \in Seq(LogEntry) /\ Len(l.op) \in Nat /\ c \in 0 .. Len(l.op)
  BY <1>1, LogsIs
<1>3. CASE p <= c
  <2>1. PICK i : i = p + 1
    OBVIOUS
  <2>2. i \in 1 .. c + 1 /\ i - 1 = p
    BY <1>2, <1>3, <2>1
  <2>3. BackOver(h[c], SubSeq(l.op, i, c)) = h[i - 1]
    BY <1>2, <2>2, BackAlong
  <2>4. Standing(b, l, p) = BackOver(b, SubSeq(l.op, i, c))
    BY <1>1, <1>3, <2>1 DEF Standing, TakenBack, BackOver
  <2> QED
    BY <1>1, <2>2, <2>3, <2>4
<1>4. CASE ~(p <= c)
  <2>1. c \in 0 .. p
    BY <1>2, <1>4
  <2>2. OnOver(h[c], SubSeq(l.op, c + 1, p)) = h[p]
    BY <1>2, <2>1, OnAlong
  <2>3. Standing(b, l, p) = OnOver(b, SubSeq(l.op, c + 1, p))
    BY <1>1, <1>4 DEF Standing, MadeAgain, OnOver
  <2> QED
    BY <1>1, <2>2, <2>3
<1> QED
  BY <1>3, <1>4

\* The tracks of the history are the chain's, listed.
LEMMA TracksListed ==
  ASSUME NEW l \in Logs, NEW b, NEW h, Goes(l.op, h), h[l.cursor] = b,
         NEW ps \in SUBSET (0 .. Len(l.op))
  PROVE  /\ TracksAt(b, l, ps) = Listed(h, ps) /\ Listed(h, ps) \in Seq(Track)
         /\ Len(Listed(h, ps)) = Cardinality(ps)
<1>1. Len(l.op) \in Nat /\ h \in [0 .. Len(l.op) -> Track]
  BY LogsIs DEF Goes
<1>2. \A k \in 1 .. Cardinality(ps) : Standing(b, l, Nth(ps, k)) = h[Nth(ps, k)]
  <2>1. ASSUME NEW k \in 1 .. Cardinality(ps) PROVE Standing(b, l, Nth(ps, k)) = h[Nth(ps, k)]
    <3>1. Nth(ps, k) \in ps
      BY <1>1, NthIs
    <3> QED
      BY <3>1, StandingIs
  <2> QED
    BY <2>1
<1>3. TracksAt(b, l, ps) = Listed(h, ps)
  BY <1>2 DEF TracksAt, Listed
<1> QED
  BY <1>1, <1>3, ListedIs

Past(b, l) == TracksAt(b, l, Done(l))
Future(b, l) == TracksAt(b, l, Undone(l))

\* Where transactions begin and end is on the log.
LEMMA DoneIs ==
  ASSUME NEW l \in Logs
  PROVE  /\ Starts(l) \in SUBSET (0 .. Len(l.op)) /\ Done(l) \in SUBSET (0 .. Len(l.op))
         /\ Undone(l) \in SUBSET (0 .. Len(l.op))
         /\ l.cursor \in Starts(l) \cup {Len(l.op)}
<1>1. Len(l.op) \in Nat
  BY LogsIs
<1>2. Starts(l) \in SUBSET (0 .. Len(l.op)) /\ Len(l.op) \in 0 .. Len(l.op)
  BY <1>1 DEF Starts
<1>3. l.cursor \in Starts(l) \cup {Len(l.op)}
  BY DEF Logs
<1> QED
  BY <1>2, <1>3 DEF Done, Undone

\* A log whose entries and cursor are the same has the same past and future.
LEMMA SameHistory ==
  ASSUME NEW b, NEW l, NEW b2, NEW l2, Unmoved(b, l, b2, l2)
  PROVE  Past(b2, l2) = Past(b, l) /\ Future(b2, l2) = Future(b, l)
<1>1. b2 = b /\ l2.op = l.op /\ l2.cursor = l.cursor
  BY DEF Unmoved
<1>2. Starts(l2) = Starts(l)
  BY <1>1 DEF Starts
<1>3. Done(l2) = Done(l) /\ Undone(l2) = Undone(l)
  BY <1>1, <1>2 DEF Done, Undone
<1>4. \A t, i, k : TakenBack(t, l, i, k) = BackOver(t, SubSeq(l.op, i, k))
                  /\ TakenBack(t, l2, i, k) = BackOver(t, SubSeq(l2.op, i, k))
                  /\ MadeAgain(t, l, i, k) = OnOver(t, SubSeq(l.op, i, k))
                  /\ MadeAgain(t, l2, i, k) = OnOver(t, SubSeq(l2.op, i, k))
  BY DEF TakenBack, MadeAgain, BackOver, OnOver
<1>5. \A p : Standing(b2, l2, p) = Standing(b, l, p)
  BY <1>1, <1>4 DEF Standing
<1>6. \A ps : TracksAt(b2, l2, ps) = TracksAt(b, l, ps)
  BY <1>5 DEF TracksAt
<1> QED
  BY <1>3, <1>6 DEF Past, Future

\* Where transactions begin, when one was added to or a new one put in.
LEMMA StartsGrown ==
  ASSUME NEW l \in Logs, NEW l2 \in Logs, NEW b, NEW b2, Grown(b, l, b2, l2)
  PROVE  /\ Undone(l2) = {}
         /\ \A p \in Done(l) : p < l.cursor
         /\ IF l.cursor \in Starts(l2) THEN Done(l2) = Done(l) \cup {l.cursor}
            ELSE Done(l2) = Done(l) /\ l.open /\ 0 \in Done(l)
<1>1. PICK c, k : c = l.cursor /\ k = l2.cursor
  OBVIOUS
<1>2. c \in 0 .. Len(l.op) /\ Len(l.op) \in Nat /\ c \in Nat /\ k \in Nat
  BY <1>1, LogsIs
<1>3. /\ k = Len(l2.op) /\ c < k /\ \A i \in 1 .. c : l2.op[i] = l.op[i]
      /\ \A i \in c + 1 .. k : l2.op[i].group = l2.group
      /\ l2.group > l.group \/ (l.open /\ l2.group = l.group)
  BY <1>1 DEF Grown
<1>4. Undone(l2) = {}
  <2>1. ASSUME NEW p \in Undone(l2) PROVE FALSE
    <3>1. p \in 0 .. Len(l2.op) /\ p > l2.cursor
      BY DoneIs DEF Undone
    <3> QED
      BY <1>1, <1>2, <1>3, <3>1
  <2> QED
    BY <2>1
<1>5. ASSUME NEW p \in 0 .. c - 1 PROVE p \in Starts(l2) <=> p \in Starts(l)
  <2>1. PICK m : m = p + 1
    OBVIOUS
  <2>2. m \in 1 .. c /\ p \in 0 .. Len(l.op) - 1 /\ p \in 0 .. Len(l2.op) - 1
    BY <1>2, <1>3, <2>1
  <2>3. l2.op[m] = l.op[m]
    BY <1>3, <2>2
  <2>4. p # 0 => l2.op[p] = l.op[p]
    BY <1>2, <1>3
  <2> QED
    BY <2>1, <2>2, <2>3, <2>4 DEF Starts
<1>6. ASSUME NEW p \in c + 1 .. k - 1 PROVE p \notin Starts(l2)
  <2>1. PICK m : m = p + 1
    OBVIOUS
  <2>2. m \in c + 1 .. k /\ p \in c + 1 .. k /\ p # 0
    BY <1>2, <2>1
  <2>3. l2.op[m].group = l2.op[p].group
    BY <1>3, <2>2
  <2> QED
    BY <2>1, <2>2, <2>3 DEF Starts
<1>7. \A p \in Done(l) : p < l.cursor
  BY DEF Done
<1>8. \A p \in Done(l2) : p \in Done(l) \/ p = c
  <2>1. ASSUME NEW p \in Done(l2), p # c PROVE p \in Done(l)
    <3>1. p \in Starts(l2) /\ p \in Nat /\ p < k
      BY <1>1, DoneIs DEF Done
    <3>2. p \in 0 .. c - 1
      BY <1>2, <1>6, <2>1, <3>1
    <3> QED
      BY <1>1, <1>2, <1>5, <3>1, <3>2 DEF Done
  <2> QED
    BY <2>1
<1>9. \A p \in Done(l) : p \in Done(l2)
  <2>1. ASSUME NEW p \in Done(l) PROVE p \in Done(l2)
    <3>1. p \in Starts(l) /\ p \in Nat /\ p < c
      BY <1>1, DoneIs DEF Done
    <3>2. p \in 0 .. c - 1 /\ p < k
      BY <1>2, <1>3, <3>1
    <3> QED
      BY <1>1, <1>5, <3>1, <3>2 DEF Done
  <2> QED
    BY <2>1
<1>10. CASE c \in Starts(l2)
  <2>1. c \in Done(l2)
    BY <1>1, <1>3, <1>10 DEF Done
  <2> QED
    BY <1>1, <1>4, <1>7, <1>8, <1>9, <1>10, <2>1
<1>11. CASE c \notin Starts(l2)
  <2>1. c \notin Done(l2)
    BY <1>11 DEF Done
  <2>2. c # 0 /\ c \in 0 .. Len(l2.op) - 1
    BY <1>2, <1>3, <1>11 DEF Starts
  <2>3. l2.op[c].group = l2.op[c + 1].group
    BY <1>11, <2>2 DEF Starts
  <2>4. l2.op[c] = l.op[c] /\ l2.op[c + 1].group = l2.group
    <3>1. c \in 1 .. c
      BY <1>2, <2>2
    <3>2. \A m : m = c + 1 => m \in c + 1 .. k
      BY <1>2, <1>3
    <3> QED
      BY <1>3, <3>1, <3>2
  <2>5. l.op[c].group <= l.group /\ l.op[c].group \in Nat /\ l.group \in Nat /\ l2.group \in Nat
    <3>1. \A x \in DOMAIN l.op : l.op[x].group <= l.group
      BY DEF Logs
    <3>2. c \in DOMAIN l.op /\ c \in 1 .. Len(l.op)
      BY <1>2, <2>2, LogsIs
    <3> QED
      BY <3>1, <3>2, LogsIs
  <2>6. l.open
    BY <1>3, <2>3, <2>4, <2>5
  <2>7. 0 \in Done(l)
    BY <1>1, <1>2, <2>2 DEF Done, Starts
  <2> QED
    BY <1>1, <1>4, <1>7, <1>8, <1>9, <1>11, <2>1, <2>6, <2>7
<1> QED
  BY <1>10, <1>11

\* An entry makes the track that was the last of the past, or goes into a transaction already
\* begun; either way nothing is left to redo.
LEMMA StepGrown ==
  ASSUME NEW l \in Logs, NEW l2 \in Logs, NEW b, NEW b2, Chained(b, l), Grown(b, l, b2, l2)
  PROVE  /\ Chained(b2, l2) /\ Future(b2, l2) = <<>>
         /\ \/ Past(b2, l2) = Append(Past(b, l), b)
            \/ l.open /\ Past(b, l) # <<>> /\ Past(b2, l2) = Past(b, l)
<1>1. PICK h : Goes(l.op, h) /\ h[l.cursor] = b
  BY DEF Chained
<1>2. PICK h2 : Goes(l2.op, h2) /\ h2[l2.cursor] = b2 /\ Agree(h, h2, 0, l.cursor)
  BY <1>1, ChainGrown
<1>3. Chained(b2, l2)
  BY <1>2 DEF Chained
<1>4. PICK ps, n, c : ps = Done(l) /\ n = Len(l2.op) /\ c = l.cursor
  OBVIOUS
<1>5. /\ n \in Nat /\ c \in Nat /\ c <= n /\ h2 \in [0 .. n -> Track]
      /\ ps \in SUBSET (0 .. Len(l.op)) /\ \A p \in ps : p < c
      /\ Len(l.op) \in Nat
  <2>1. c < l2.cursor /\ l2.cursor = n
    BY <1>4 DEF Grown
  <2>2. n \in Nat /\ c \in Nat /\ Len(l.op) \in Nat
    BY <1>4, LogsIs
  <2>3. ps \in SUBSET (0 .. Len(l.op)) /\ \A p \in ps : p < c
    BY <1>4, DoneIs, StartsGrown
  <2>4. h2 \in [0 .. n -> Track]
    BY <1>2, <1>4 DEF Goes
  <2> QED
    BY <2>1, <2>2, <2>3, <2>4
<1>6. ps \in SUBSET (0 .. n) /\ c \in 0 .. n
  BY <1>5
<1>7. Past(b, l) = Listed(h, ps) /\ Len(Listed(h, ps)) = Cardinality(ps)
  BY <1>1, <1>4, <1>5, TracksListed DEF Past
<1>8. Listed(h, ps) = Listed(h2, ps) /\ h2[c] = b
  <2>1. \A p \in ps : h2[p] = h[p]
    BY <1>2, <1>4, <1>5 DEF Agree
  <2>2. h2[c] = h[c]
    BY <1>2, <1>4, <1>5 DEF Agree
  <2> QED
    BY <1>1, <1>4, <1>6, <2>1, <2>2, <1>5, ListedSame
<1>9. Past(b2, l2) = Listed(h2, Done(l2))
  BY <1>2, DoneIs, TracksListed DEF Past
<1>10. Future(b2, l2) = <<>>
  <2>1. Undone(l2) = {}
    BY StartsGrown
  <2> QED
    BY <2>1, FS_EmptySet DEF Future, TracksAt
<1>11. CASE c \in Starts(l2)
  <2>1. Done(l2) = ps \cup {c}
    BY <1>4, <1>11, StartsGrown
  <2>2. Listed(h2, ps \cup {c}) = Append(Listed(h2, ps), h2[c])
    BY <1>5, <1>6, ListedGreater
  <2> QED
    BY <1>3, <1>7, <1>8, <1>9, <1>10, <2>1, <2>2
<1>12. CASE c \notin Starts(l2)
  <2>1. Done(l2) = ps /\ l.open /\ 0 \in ps
    BY <1>4, <1>12, StartsGrown
  <2>2. Past(b, l) # <<>>
    <3>1. IsFiniteSet(ps)
      BY <1>5, <1>6, BelowFinite
    <3>2. Cardinality(ps) # 0
      BY <2>1, <3>1, FS_EmptySet
    <3> QED
      BY <1>7, <3>2
  <2> QED
    BY <1>3, <1>7, <1>8, <1>9, <1>10, <2>1, <2>2
<1> QED
  BY <1>11, <1>12

\* An undo moves one beginning of a transaction, the last that was done, to those undone.
LEMMA StartsUndid ==
  ASSUME NEW l \in Logs, NEW l2 \in Logs, NEW b, NEW b2, Undid(b, l, b2, l2)
  PROVE  /\ l2.cursor \in 0 .. Len(l.op) /\ l2.cursor \notin Done(l2)
         /\ \A p \in Done(l2) : p < l2.cursor
         /\ Done(l) = Done(l2) \cup {l2.cursor}
         /\ \A p \in Undone(l) : l.cursor < p
         /\ Undone(l2) = Undone(l) \cup {l.cursor}
<1>1. PICK c, i, j : c = l.cursor /\ i = FirstOf(l, c) /\ j = l2.cursor
  OBVIOUS
<1>2. c \in 0 .. Len(l.op) /\ Len(l.op) \in Nat /\ c \in Nat
  BY <1>1, LogsIs
<1>3. c > 0 /\ l2.op = l.op /\ j = i - 1
  BY <1>1 DEF Undid
<1>4. /\ i \in 1 .. c /\ \A m \in i .. c : l.op[m].group = l.op[c].group
  <2>1. c \in 1 .. Len(l.op)
    BY <1>2, <1>3
  <2> QED
    BY <1>1, <2>1, FirstIs
<1>5. j \in Nat /\ j < c /\ i = j + 1
  BY <1>2, <1>3, <1>4
<1>6. Starts(l2) = Starts(l)
  BY <1>3 DEF Starts
<1>7. c \in Starts(l) \cup {Len(l.op)} /\ j \in Starts(l)
  <2>1. j \in Starts(l2) \cup {Len(l2.op)}
    BY <1>1, DoneIs
  <2>2. j # Len(l2.op)
    BY <1>2, <1>3, <1>5
  <2> QED
    BY <1>1, <1>6, <2>1, <2>2, DoneIs
<1>8. ASSUME NEW p \in i .. c - 1 PROVE p \notin Starts(l) \cup {Len(l.op)}
  <2>1. PICK m : m = p + 1
    OBVIOUS
  <2>2. m \in i .. c /\ p \in i .. c /\ p # 0 /\ p # Len(l.op)
    BY <1>2, <1>4, <2>1
  <2>3. l.op[m].group = l.op[p].group
    BY <1>4, <2>2
  <2> QED
    BY <2>1, <2>2, <2>3 DEF Starts
<1>9. Starts(l) \cup {Len(l.op)} \in SUBSET Nat
  BY <1>2, DoneIs
<1> DEFINE ends == Starts(l) \cup {Len(l.op)}
<1>10. Done(l2) = {p \in Starts(l) : p < j} /\ Done(l) = {p \in Starts(l) : p < c}
  BY <1>1, <1>6 DEF Done
<1>11. Undone(l2) = {p \in ends : p > j} /\ Undone(l) = {p \in ends : p > c}
  BY <1>1, <1>3, <1>6 DEF Undone
<1>12. \A p \in ends : p \in Nat /\ ~(j < p /\ p < c)
  BY <1>2, <1>5, <1>8, <1>9
<1>13. Done(l) = Done(l2) \cup {j}
  <2>1. \A p \in Starts(l) : p < c <=> (p < j \/ p = j)
    BY <1>5, <1>12, <1>2
  <2> QED
    BY <1>7, <1>10, <2>1
<1>14. Undone(l2) = Undone(l) \cup {c}
  <2>1. \A p \in ends : p > j <=> (p > c \/ p = c)
    BY <1>5, <1>12, <1>2
  <2> QED
    BY <1>7, <1>11, <2>1
<1>15. /\ j \in 0 .. Len(l.op) /\ j \notin Done(l2) /\ \A p \in Done(l2) : p < j
       /\ \A p \in Undone(l) : c < p
  BY <1>2, <1>5, <1>10, <1>11, <1>12
<1> QED
  BY <1>1, <1>13, <1>14, <1>15

\* The same transaction between two logs, the one done and the other not.
Between(l, l2, j, c) ==
    /\ l2.op = l.op /\ c = l.cursor /\ j = l2.cursor
    /\ j \in 0 .. Len(l.op) /\ c \in 0 .. Len(l.op)
    /\ \A p \in Done(l2) : p < j
    /\ Done(l) = Done(l2) \cup {j}
    /\ \A p \in Undone(l) : c < p
    /\ Undone(l2) = Undone(l) \cup {c}

\* When one beginning of a transaction passes the cursor, the past is longer by the track it
\* began from and the future shorter by the track it leads to.
LEMMA BothSides ==
  ASSUME NEW l \in Logs, NEW l2 \in Logs, NEW j, NEW c, Between(l, l2, j, c),
         NEW h, Goes(l.op, h)
  PROVE  /\ Past(h[c], l) = Append(Past(h[j], l2), h[j])
         /\ Future(h[j], l2) = <<h[c]>> \o Future(h[c], l)
         /\ Past(h[j], l2) \in Seq(Track) /\ Future(h[c], l) \in Seq(Track)
<1>0. PICK b, b2 : b = h[c] /\ b2 = h[j]
  OBVIOUS
<1>1. PICK n, ds, us : n = Len(l.op) /\ ds = Done(l2) /\ us = Undone(l)
  OBVIOUS
<1>2. /\ n \in Nat /\ ds \in SUBSET (0 .. n) /\ us \in SUBSET (0 .. n)
      /\ Done(l) \in SUBSET (0 .. n) /\ Undone(l2) \in SUBSET (0 .. n)
      /\ h \in [0 .. n -> Track]
  <2>1. l2.op = l.op
    BY DEF Between
  <2> QED
    BY <1>1, <2>1, DoneIs, LogsIs DEF Goes
<1>3. /\ Goes(l2.op, h) /\ Len(l2.op) = n /\ j \in 0 .. n /\ c \in 0 .. n
      /\ Done(l) = ds \cup {j} /\ Undone(l2) = us \cup {c}
      /\ h[l.cursor] = b /\ h[l2.cursor] = b2
  BY <1>0, <1>1 DEF Between
<1>4. Past(b, l) = Listed(h, Done(l)) /\ Future(b, l) = Listed(h, us) /\ Listed(h, us) \in Seq(Track)
  BY <1>1, <1>2, <1>3, TracksListed DEF Past, Future
<1>5. Past(b2, l2) = Listed(h, ds) /\ Future(b2, l2) = Listed(h, Undone(l2))
      /\ Listed(h, ds) \in Seq(Track)
  BY <1>1, <1>2, <1>3, TracksListed DEF Past, Future
<1>6. Listed(h, ds \cup {j}) = Append(Listed(h, ds), h[j])
  <2>1. \A p \in ds : p < j
    BY <1>1 DEF Between
  <2>2. n \in Nat /\ ds \in SUBSET (0 .. n) /\ h \in [0 .. n -> Track] /\ j \in 0 .. n
    BY <1>2, <1>3
  <2> QED
    BY <2>1, <2>2, ListedGreater
<1>7. Listed(h, us \cup {c}) = <<h[c]>> \o Listed(h, us)
  <2>1. \A p \in us : c < p
    BY <1>1 DEF Between
  <2>2. n \in Nat /\ us \in SUBSET (0 .. n) /\ h \in [0 .. n -> Track] /\ c \in 0 .. n
    BY <1>2, <1>3
  <2> QED
    BY <2>1, <2>2, ListedLess
<1> QED
  BY <1>0, <1>3, <1>4, <1>5, <1>6, <1>7

\* An undo goes to the last track of the past, and the track left is the first of the future.
LEMMA StepUndid ==
  ASSUME NEW l \in Logs, NEW l2 \in Logs, NEW b, NEW b2, Chained(b, l), Undid(b, l, b2, l2)
  PROVE  /\ Chained(b2, l2)
         /\ Past(b, l) = Append(Past(b2, l2), b2)
         /\ Future(b2, l2) = <<b>> \o Future(b, l)
         /\ Past(b2, l2) \in Seq(Track) /\ Future(b, l) \in Seq(Track)
<1>1. PICK h : Goes(l.op, h) /\ h[l.cursor] = b
  BY DEF Chained
<1>2. Goes(l2.op, h) /\ h[l2.cursor] = b2
  BY <1>1, ChainUndid
<1>3. Chained(b2, l2)
  BY <1>2 DEF Chained
<1>4. PICK j, c : j = l2.cursor /\ c = l.cursor
  OBVIOUS
<1>5. /\ j \in 0 .. Len(l.op) /\ \A p \in Done(l2) : p < j
      /\ Done(l) = Done(l2) \cup {j} /\ \A p \in Undone(l) : c < p
      /\ Undone(l2) = Undone(l) \cup {c}
  BY <1>4, StartsUndid
<1>6. l2.op = l.op /\ c \in 0 .. Len(l.op)
  BY <1>4, LogsIs DEF Undid
<1>7. Between(l, l2, j, c)
  BY <1>4, <1>5, <1>6 DEF Between
<1>8. h[c] = b /\ h[j] = b2
  BY <1>1, <1>2, <1>4
<1>9. Goes(l.op, h)
  BY <1>1
<1>10. /\ Past(h[c], l) = Append(Past(h[j], l2), h[j])
       /\ Future(h[j], l2) = <<h[c]>> \o Future(h[c], l)
       /\ Past(h[j], l2) \in Seq(Track) /\ Future(h[c], l) \in Seq(Track)
  BY <1>7, <1>9, BothSides
<1> QED
  BY <1>3, <1>8, <1>10

\* A redo moves one beginning of a transaction, the first that was undone, to those done.
LEMMA StartsRedid ==
  ASSUME NEW l \in Logs, NEW l2 \in Logs, NEW b, NEW b2, Redid(b, l, b2, l2)
  PROVE  /\ l2.cursor \in 0 .. Len(l.op)
         /\ \A p \in Done(l) : p < l.cursor
         /\ Done(l2) = Done(l) \cup {l.cursor}
         /\ \A p \in Undone(l2) : l2.cursor < p
         /\ Undone(l) = Undone(l2) \cup {l2.cursor}
<1>1. PICK c, k : c = l.cursor /\ k = l2.cursor
  OBVIOUS
<1>2. c \in 0 .. Len(l.op) /\ Len(l.op) \in Nat /\ c \in Nat
  BY <1>1, LogsIs
<1>3. c < Len(l.op) /\ l2.op = l.op /\ k = LastOf(l, c + 1)
  BY <1>1 DEF Redid
<1>4. k \in c + 1 .. Len(l.op) /\ \A m \in c + 1 .. k : l.op[m].group = l.op[c + 1].group
  <2>1. PICK m : m = c + 1
    OBVIOUS
  <2>2. m \in 1 .. Len(l.op) /\ k = LastOf(l, m)
    BY <1>2, <1>3, <2>1
  <2>3. k \in m .. Len(l.op) /\ \A x \in m .. k : l.op[x].group = l.op[m].group
    BY <2>2, LastIs
  <2> QED
    BY <2>1, <2>3
<1>5. k \in Nat /\ c < k
  BY <1>2, <1>4
<1>6. Starts(l2) = Starts(l)
  BY <1>3 DEF Starts
<1>7. k \in Starts(l) \cup {Len(l.op)} /\ c \in Starts(l)
  <2>1. k \in Starts(l2) \cup {Len(l2.op)}
    BY <1>1, DoneIs
  <2>2. c # Len(l.op)
    BY <1>2, <1>3
  <2> QED
    BY <1>1, <1>3, <1>6, <2>1, <2>2, DoneIs
<1>8. ASSUME NEW p \in c + 1 .. k - 1 PROVE p \notin Starts(l) \cup {Len(l.op)}
  <2>1. PICK m : m = p + 1
    OBVIOUS
  <2>2. m \in c + 1 .. k /\ p \in c + 1 .. k /\ p # 0 /\ p # Len(l.op)
    BY <1>2, <1>4, <2>1
  <2>3. l.op[m].group = l.op[p].group
    BY <1>4, <2>2
  <2> QED
    BY <2>1, <2>2, <2>3 DEF Starts
<1>9. Starts(l) \cup {Len(l.op)} \in SUBSET Nat
  BY <1>2, DoneIs
<1> DEFINE ends == Starts(l) \cup {Len(l.op)}
<1>10. Done(l) = {p \in Starts(l) : p < c} /\ Done(l2) = {p \in Starts(l) : p < k}
  BY <1>1, <1>6 DEF Done
<1>11. Undone(l) = {p \in ends : p > c} /\ Undone(l2) = {p \in ends : p > k}
  BY <1>1, <1>3, <1>6 DEF Undone
<1>12. \A p \in ends : p \in Nat /\ ~(c < p /\ p < k)
  BY <1>2, <1>5, <1>8, <1>9
<1>13. Done(l2) = Done(l) \cup {c}
  <2>1. \A p \in Starts(l) : p < k <=> (p < c \/ p = c)
    BY <1>5, <1>12, <1>2
  <2> QED
    BY <1>7, <1>10, <2>1
<1>14. Undone(l) = Undone(l2) \cup {k}
  <2>1. \A p \in ends : p > c <=> (p > k \/ p = k)
    BY <1>5, <1>12, <1>2
  <2> QED
    BY <1>7, <1>11, <2>1
<1>15. /\ k \in 0 .. Len(l.op) /\ \A p \in Done(l) : p < c
       /\ \A p \in Undone(l2) : k < p
  BY <1>2, <1>4, <1>5, <1>10, <1>11, <1>12
<1> QED
  BY <1>1, <1>13, <1>14, <1>15

\* A redo goes to the first track of the future, and the track left is the last of the past.
LEMMA StepRedid ==
  ASSUME NEW l \in Logs, NEW l2 \in Logs, NEW b, NEW b2, Chained(b, l), Redid(b, l, b2, l2)
  PROVE  /\ Chained(b2, l2)
         /\ Past(b2, l2) = Append(Past(b, l), b)
         /\ Future(b, l) = <<b2>> \o Future(b2, l2)
         /\ Past(b, l) \in Seq(Track) /\ Future(b2, l2) \in Seq(Track)
<1>1. PICK h : Goes(l.op, h) /\ h[l.cursor] = b
  BY DEF Chained
<1>2. Goes(l2.op, h) /\ h[l2.cursor] = b2
  BY <1>1, ChainRedid
<1>3. Chained(b2, l2)
  BY <1>2 DEF Chained
<1>4. PICK j, c : j = l2.cursor /\ c = l.cursor
  OBVIOUS
<1>5. /\ j \in 0 .. Len(l.op) /\ \A p \in Done(l) : p < c
      /\ Done(l2) = Done(l) \cup {c} /\ \A p \in Undone(l2) : j < p
      /\ Undone(l) = Undone(l2) \cup {j}
  BY <1>4, StartsRedid
<1>6. l2.op = l.op /\ c \in 0 .. Len(l.op)
  BY <1>4, LogsIs DEF Redid
<1>7. Between(l2, l, c, j)
  BY <1>4, <1>5, <1>6 DEF Between
<1>8. h[c] = b /\ h[j] = b2
  BY <1>1, <1>2, <1>4
<1>9. Goes(l2.op, h)
  BY <1>2
<1>10. /\ Past(h[j], l2) = Append(Past(h[c], l), h[c])
       /\ Future(h[c], l) = <<h[j]>> \o Future(h[j], l2)
       /\ Past(h[c], l) \in Seq(Track) /\ Future(h[j], l2) \in Seq(Track)
  BY <1>7, <1>9, BothSides
<1> QED
  BY <1>3, <1>8, <1>10

-----------------------------------------------------------------------------
(* Lines, parts and pastes *)

\* A start or finish line put down leaves the desk as it was or one entry further on.
LEMMA LineAfter ==
  ASSUME NEW d \in Desks, d.log.open, NEW kind \in Line, NEW g \in Gate
  PROVE  PutLine(d, kind, g) \in After(d)
<1> DEFINE routed == CASE kind = "start_finish"          -> EditRoute(d, "circuit")
                       [] kind \in {"start", "finish"}   -> EditRoute(d, "sprint")
                       [] OTHER                          -> d
           at == Gates(routed.board)
           added == IF routed.ok THEN EditAddGate(routed, g) ELSE routed
           moved == IF added.ok /\ at > 0 /\ kind \in {"start", "start_finish"}
                    THEN EditMoveGate(added, at, 0) ELSE added
<1>1. d \in After(d)
  BY DEF After
<1>2. routed \in After(d)
  <2>1. EditRoute(d, "circuit") \in After(d) /\ EditRoute(d, "sprint") \in After(d)
    BY RouteAfter
  <2> QED
    BY <1>1, <2>1
<1> HIDE DEF routed
<1>3. routed \in Desks /\ routed.log.open = d.log.open /\ routed \in After(routed)
  BY <1>2, AfterIs DEF After
<1>4. at \in Nat
  BY <1>3 DEF Desks, Track, Gates
<1>5. added \in After(d)
  <2>1. EditAddGate(routed, g) \in After(routed)
    BY <1>3, AddAfter
  <2>2. EditAddGate(routed, g) \in After(d)
    BY <1>2, <2>1, AfterAfter
  <2> QED
    BY <1>2, <2>2
<1> HIDE DEF added, at
<1>6. added \in Desks
  BY <1>5, AfterIs
<1>7. EditMoveGate(added, at, 0) \in After(d)
  <2>1. EditMoveGate(added, at, 0) \in After(added)
    BY <1>4, <1>6, MoveAfter
  <2> QED
    BY <1>5, <2>1, AfterAfter
<1>8. moved \in After(d)
  BY <1>5, <1>7
<1>9. PutLine(d, kind, g) = moved
  BY DEF PutLine, routed, at, added
<1> QED
  BY <1>8, <1>9

\* A step of the log and the track: put in, taken back or made again.
Onward(b, l, b2, l2) ==
    \/ Unmoved(b, l, b2, l2)
    \/ Grown(b, l, b2, l2)
    \/ Undid(b, l, b2, l2)
    \/ Redid(b, l, b2, l2)

\* However the log goes on, it still has tracks to go through.
LEMMA StaysChained ==
  ASSUME NEW l \in Logs, NEW l2 \in Logs, NEW b, NEW b2, Chained(b, l), Onward(b, l, b2, l2)
  PROVE  Chained(b2, l2)
<1>1. CASE Unmoved(b, l, b2, l2)
  BY <1>1 DEF Unmoved, Chained
<1>2. CASE Grown(b, l, b2, l2)
  BY <1>2, StepGrown
<1>3. CASE Undid(b, l, b2, l2)
  BY <1>3, StepUndid
<1>4. CASE Redid(b, l, b2, l2)
  BY <1>4, StepRedid
<1> QED
  BY <1>1, <1>2, <1>3, <1>4 DEF Onward

\* Ending a transaction, or beginning one first, makes no difference to any of them.
LEMMA EndedOn ==
  ASSUME NEW l \in Logs, NEW l2 \in Logs, NEW b, NEW b2, Onward(b, l, b2, l2)
  PROVE  Onward(b, l, b2, End(l2))
<1>1. End(l2).op = l2.op /\ End(l2).cursor = l2.cursor /\ End(l2).group = l2.group
  BY OpenedLog
<1>2. CASE Unmoved(b, l, b2, l2)
  BY <1>1, <1>2 DEF Unmoved, Onward
<1>3. CASE Grown(b, l, b2, l2)
  BY <1>1, <1>3 DEF Grown, Onward
<1>4. CASE Undid(b, l, b2, l2)
  BY <1>1, <1>4 DEF Undid, Onward
<1>5. CASE Redid(b, l, b2, l2)
  BY <1>1, <1>5 DEF Redid, Onward
<1> QED
  BY <1>2, <1>3, <1>4, <1>5 DEF Onward

\* Beginning a transaction first changes nothing of this.
LEMMA BegunOn ==
  ASSUME NEW l \in Logs, NEW l2 \in Logs, NEW b, NEW b2,
         Unmoved(b, Begin(l), b2, l2) \/ Grown(b, Begin(l), b2, l2)
  PROVE  Onward(b, l, b2, l2) /\ (Unmoved(b, l, b2, l2) \/ Grown(b, l, b2, l2))
<1>1. /\ Begin(l).op = l.op /\ Begin(l).cursor = l.cursor /\ Begin(l).open = TRUE
      /\ IF l.open THEN Begin(l) = l ELSE Begin(l).group = l.group + 1
  BY OpenedLog
<1>2. CASE Unmoved(b, Begin(l), b2, l2)
  BY <1>1, <1>2 DEF Unmoved, Onward
<1>3. CASE Grown(b, Begin(l), b2, l2)
  <2>1. CASE l.open
    BY <1>1, <1>3, <2>1 DEF Onward
  <2>2. CASE ~l.open
    <3>1. l.group \in Nat /\ l2.group \in Nat
      BY LogsIs
    <3>2. Begin(l).group = l.group + 1
      BY <1>1, <2>2
    <3>3. l2.group > Begin(l).group \/ l2.group = Begin(l).group
      BY <1>3 DEF Grown
    <3>4. l2.group > l.group
      BY <3>1, <3>2, <3>3
    <3> QED
      BY <1>1, <1>3, <3>4 DEF Grown, Onward
  <2> QED
    BY <2>1, <2>2
<1> QED
  BY <1>2, <1>3

\* A desk whose log is begun, or ended.
LEMMA DeskLog ==
  ASSUME NEW d \in Desks, NEW l \in Logs
  PROVE  /\ [d EXCEPT !.log = l] \in Desks /\ [d EXCEPT !.log = l].board = d.board
         /\ [d EXCEPT !.log = l].log = l /\ [d EXCEPT !.log = l].ok = d.ok
BY DEF Desks

\* A part goes in through the log, or is refused and what was put in of it is taken back.
LEMMA PartAfter ==
  ASSUME NEW d \in Desks, NEW kind \in Part, NEW g \in Gate, NEW fits \in BOOLEAN
  PROVE  /\ PlacePart(d, kind, g, fits) \in Desks
         /\ PlacePart(d, kind, g, fits).ok =>
              \/ ~fits
              \/ Unmoved(d.board, d.log, PlacePart(d, kind, g, fits).board,
                         PlacePart(d, kind, g, fits).log)
              \/ Grown(d.board, d.log, PlacePart(d, kind, g, fits).board,
                       PlacePart(d, kind, g, fits).log)
         /\ ~fits => ~PlacePart(d, kind, g, fits).ok
         /\ Chained(d.board, d.log) => Chained(PlacePart(d, kind, g, fits).board,
                                               PlacePart(d, kind, g, fits).log)
<1> DEFINE begun == [d EXCEPT !.log = Begin(@)]
           laid == IF kind = "road" THEN Lay(begun) ELSE PutLine(begun, kind, g)
           ended == [laid EXCEPT !.log = End(@)]
           e == PlacePart(d, kind, g, fits)
<1>1. d.board \in Track /\ d.log \in Logs /\ d.ok \in BOOLEAN
  BY DEF Desks
<1>2. Begin(d.log) \in Logs /\ Begin(d.log).open = TRUE
  BY <1>1, OpenedLog
<1>3. /\ begun \in Desks /\ begun.board = d.board /\ begun.log = Begin(d.log)
      /\ begun.log.open
  BY <1>2, DeskLog
<1> HIDE DEF begun
<1>4. laid \in After(begun)
  <2>1. CASE kind = "road"
    BY <1>3, <2>1, LayAfter
  <2>2. CASE kind # "road"
    <3>1. kind \in Line
      BY <2>2 DEF Part
    <3> QED
      BY <1>3, <2>2, <3>1, LineAfter
  <2> QED
    BY <2>1, <2>2
<1> HIDE DEF laid
<1>5. laid \in Desks /\ laid.log \in Logs
  BY <1>3, <1>4, AfterIs DEF Desks
<1>6. /\ Onward(d.board, d.log, laid.board, laid.log)
      /\ Unmoved(d.board, d.log, laid.board, laid.log)
         \/ Grown(d.board, d.log, laid.board, laid.log)
  <2>1. Unmoved(d.board, Begin(d.log), laid.board, laid.log)
        \/ Grown(d.board, Begin(d.log), laid.board, laid.log)
    BY <1>3, <1>4 DEF After, Unmoved
  <2> QED
    BY <1>1, <1>5, <2>1, BegunOn
<1>7. /\ End(laid.log) \in Logs /\ End(laid.log).op = laid.log.op
      /\ End(laid.log).cursor = laid.log.cursor /\ End(laid.log).group = laid.log.group
  BY <1>5, OpenedLog
<1>8. /\ ended \in Desks /\ ended.board = laid.board /\ ended.log = End(laid.log)
      /\ ended.ok = laid.ok
  BY <1>5, <1>7, DeskLog
<1> HIDE DEF ended
<1>9. Unmoved(d.board, d.log, ended.board, ended.log)
      \/ Grown(d.board, d.log, ended.board, ended.log)
  BY <1>6, <1>7, <1>8 DEF Unmoved, Grown
<1>10. ended.log \in Logs
  BY <1>7, <1>8
<1>11. Chained(d.board, d.log) => Chained(ended.board, ended.log)
  BY <1>1, <1>9, <1>10, StaysChained DEF Onward
<1>12. CASE ~fits
  <2>1. e = [d EXCEPT !.ok = FALSE]
    BY <1>12 DEF PlacePart
  <2>2. e \in Desks /\ e.board = d.board /\ e.log = d.log /\ e.ok = FALSE
    BY <2>1 DEF Desks
  <2> QED
    BY <1>12, <2>2
<1>13. CASE fits /\ ended.ok
  <2>1. e = ended
    BY <1>13 DEF PlacePart, ended, laid, begun
  <2> QED
    BY <1>8, <1>9, <1>11, <1>13, <2>1
<1>14. CASE fits /\ ~ended.ok
  <2>1. e = Undo(ended)
    BY <1>14 DEF PlacePart, ended, laid, begun
  <2>2. /\ e \in Desks /\ e.ok = ended.ok
        /\ IF ended.log.cursor = 0 THEN e = ended
           ELSE Undid(ended.board, ended.log, e.board, e.log)
    BY <1>8, <2>1, UndoIs
  <2>3. e.log \in Logs
    BY <2>2 DEF Desks
  <2> HIDE DEF e
  <2>4. Chained(ended.board, ended.log) => Chained(e.board, e.log)
    BY <1>10, <2>2, <2>3, StaysChained DEF Onward
  <2> QED
    BY <1>11, <1>14, <2>2, <2>4 DEF e
<1> QED
  BY <1>12, <1>13, <1>14

\* The elements of a finite set, each of them once, in some order.
LEMMA InSomeOrder ==
  ASSUME NEW S, IsFiniteSet(S)
  PROVE  SetToSeq(S) \in Seq(S)
<1> DEFINE n == Cardinality(S)
<1>1. n \in Nat
  BY FS_CardinalityType
<1>2. IsFiniteSet(1 .. n) /\ Cardinality(1 .. n) = n
  BY <1>1, FS_Interval
<1>3. ExistsBijection(1 .. n, S)
  BY <1>2, FS_SameCardinalityBij
<1>4. \E f \in [1 .. n -> S] : IsInjective(f)
  BY <1>3 DEF ExistsBijection, Bijection, Injection
<1>5. SetToSeq(S) \in [1 .. n -> S]
  BY <1>4 DEF SetToSeq
<1> QED
  BY <1>1, <1>5

\* The ground of another track laid over this one's.
Laid(d, w, s) == FoldLeft(LAMBDA e, q : EditGround([e EXCEPT !.ok = TRUE], q, w[q]), d, s)

\* A road piece laid, square after square, leaves a desk.
LEMMA LaidIs ==
  ASSUME NEW d \in Desks, NEW w \in [Square -> Stored], NEW s \in Seq(Square)
  PROVE  Laid(d, w, s) \in Desks
<1> DEFINE n == Len(s)
           S == DOMAIN s
           D == Desks
           One(e, q) == EditGround([e EXCEPT !.ok = TRUE], q, w[q])
           F == [k \in 1 .. n |-> [e \in D |-> One(e, s[k])]]
           Folds(f) == f = [r \in SUBSET S |-> IF r = {} THEN d
                                               ELSE One(f[r \ {Max(r)}], s[Max(r)])]
           it == CHOOSE f : Folds(f)
<1>1. Laid(d, w, s) = it[S]
  BY DEF Laid, FoldLeft, MapThenFoldSet
<1>2. S = 1 .. n /\ n \in Nat /\ \A k \in 1 .. n : s[k] \in Square
  OBVIOUS
<1>3. \A k \in 1 .. n : \A e \in D : One(e, s[k]) \in D
  <2>1. ASSUME NEW k \in 1 .. n, NEW e \in D PROVE One(e, s[k]) \in D
    <3>1. PICK e1 : e1 = [e EXCEPT !.ok = TRUE]
      OBVIOUS
    <3>2. e1 \in Desks
      BY <3>1 DEF Desks
    <3>3. PICK q \in Square : q = s[k]
      BY <1>2
    <3>4. w[q] \in Stored
      OBVIOUS
    <3>5. EditGround(e1, q, w[q]) \in Desks
      BY <3>2, <3>4, GroundAfter, AfterIs
    <3> QED
      BY <3>1, <3>3, <3>5
  <2> QED
    BY <2>1
<1> HIDE DEF One
<1>4. StepsIn(F, 1 .. n, D)
  BY <1>3 DEF StepsIn
<1>5. \A k \in 1 .. n : \A e \in D : F[k][e] = One(e, s[k])
  OBVIOUS
<1>6. d \in D
  OBVIOUS
<1>7. \A r \in SUBSET (1 .. n) : r # {} => Max(r) \in 1 .. n
  BY <1>2, GreatestUpTo
<1> HIDE DEF F, S, n, D
<1>8. \E f : Folds(f)
  <2>1. PICK f \in [SUBSET (1 .. n) -> D] : FromLeft(f, n, D, d, F)
    BY <1>2, <1>4, <1>6, LeftThere
  <2>2. ASSUME NEW r \in SUBSET (1 .. n)
        PROVE  f[r] = IF r = {} THEN d ELSE One(f[r \ {Max(r)}], s[Max(r)])
    <3>1. CASE r = {}
      BY <2>1, <3>1 DEF FromLeft
    <3>2. CASE r # {}
      <4>1. f[r \ {Max(r)}] \in D
        BY <2>1
      <4>2. f[r] = F[Max(r)][f[r \ {Max(r)}]]
        BY <2>1, <3>2, <4>1 DEF FromLeft
      <4> QED
        BY <1>5, <1>7, <3>2, <4>1, <4>2
    <3> QED
      BY <3>1, <3>2
  <2>3. f = [r \in SUBSET (1 .. n) |-> IF r = {} THEN d
                                       ELSE One(f[r \ {Max(r)}], s[Max(r)])]
    BY <2>1, <2>2
  <2> QED
    BY <1>2, <2>3
<1>9. Folds(it)
  BY <1>8
<1> HIDE DEF it
<1>10. FromLeft(it, n, D, d, F)
  <2>1. it[{}] = d
    BY <1>9
  <2>2. ASSUME NEW r \in SUBSET (1 .. n), r # {}, it[r \ {Max(r)}] \in D
        PROVE  it[r] = F[Max(r)][it[r \ {Max(r)}]]
    <3>1. it[r] = One(it[r \ {Max(r)}], s[Max(r)])
      BY <1>2, <1>9, <2>2
    <3> QED
      BY <1>5, <1>7, <2>2, <3>1
  <2> QED
    BY <2>1, <2>2 DEF FromLeft
<1>11. PICK g \in [0 .. n -> D] : UpChain(g, n, d, F) /\ it[1 .. n] = g[n]
  BY <1>2, <1>4, <1>6, <1>10, LeftChain
<1> QED
  BY <1>1, <1>2, <1>11 DEF D

-----------------------------------------------------------------------------
(* The editor *)

EditorInv ==
    /\ board \in Track /\ log \in Logs
    /\ outside \in BOOLEAN /\ stroke \in BOOLEAN /\ held \in BOOLEAN
    /\ mode \in {"editing", "racing", "reversed"}
    /\ mode # "editing" => left \in Track
    /\ mode = "reversed" => board = TurnRound(left)
    /\ log.open => stroke
    /\ ~outside => Chained(IF mode = "editing" THEN board ELSE left, log)

\* What a step in the editor does to the log and the track.
Works ==
    /\ board' \in Track /\ log' \in Logs
    /\ Chained(board, log) => Chained(board', log')
    /\ told' = "will not fit" \/ Onward(board, log, board', log')
Stays ==
    /\ mode = "editing" /\ mode' = "editing"
    /\ board' \in Track /\ log' \in Logs
    /\ outside' \in BOOLEAN /\ stroke' \in BOOLEAN /\ held' \in BOOLEAN
    /\ log'.open => stroke'
    /\ \/ outside'
       \/ log' = EmptyLog
       \/ outside' = outside /\ Works

\* A new log: no past, no future, and the track it begins from.
LEMMA EmptyIs ==
  ASSUME NEW b \in Track
  PROVE  /\ EmptyLog \in Logs /\ Chained(b, EmptyLog) /\ EmptyLog.open = FALSE
         /\ Past(b, EmptyLog) = <<>> /\ Future(b, EmptyLog) = <<>>
<1>1. /\ EmptyLog.op = <<>> /\ EmptyLog.cursor = 0 /\ EmptyLog.group = 0
      /\ EmptyLog.open = FALSE /\ Len(EmptyLog.op) = 0
      /\ EmptyLog \in [op : Seq(LogEntry), cursor : Nat, group : Nat, open : BOOLEAN]
  BY DEF EmptyLog
<1>2. Starts(EmptyLog) = {}
  BY <1>1 DEF Starts
<1>3. EmptyLog \in Logs
  <2>1. DOMAIN EmptyLog.op = {}
    BY <1>1
  <2>2. Len(EmptyLog.op) <= Capacity
    BY <1>1, EditAssumption
  <2> QED
    BY <1>1, <1>2, <2>1, <2>2 DEF Logs
<1>4. Chained(b, EmptyLog)
  <2> DEFINE h == [i \in 0 .. 0 |-> b]
  <2>1. h \in [0 .. Len(EmptyLog.op) -> Track] /\ h[EmptyLog.cursor] = b
    BY <1>1
  <2>2. \A i \in 1 .. Len(EmptyLog.op) : FALSE
    BY <1>1
  <2> HIDE DEF h
  <2>3. Goes(EmptyLog.op, h)
    BY <2>1, <2>2 DEF Goes
  <2> QED
    BY <2>1, <2>3 DEF Chained
<1>5. Done(EmptyLog) = {} /\ Undone(EmptyLog) = {}
  BY <1>1, <1>2 DEF Done, Undone
<1>6. TracksAt(b, EmptyLog, {}) = <<>>
  BY FS_EmptySet DEF TracksAt
<1> QED
  BY <1>1, <1>3, <1>4, <1>5, <1>6 DEF Past, Future

\* What the log stands for goes on as a history.
LEMMA HistoryGoesOn ==
  ASSUME board \in Track, log \in Logs, board' \in Track, log' \in Logs, Chained(board, log),
         log' = EmptyLog \/ Onward(board, log, board', log')
  PROVE  History!HistoryNext
<1>1. log'.open \in BOOLEAN
  BY LogsIs
<1>2. CASE log' = EmptyLog
  <2>1. Past(board', log') = <<>> /\ Future(board', log') = <<>> /\ log'.open = FALSE
    BY <1>2, EmptyIs
  <2> QED
    BY <2>1 DEF History!HistoryNext, History!HistoryBegins, Past, Future
<1>3. CASE Unmoved(board, log, board', log')
  <2>1. Past(board', log') = Past(board, log) /\ Future(board', log') = Future(board, log)
    BY <1>3, SameHistory
  <2>2. board' = board
    BY <1>3 DEF Unmoved
  <2> QED
    BY <1>1, <2>1, <2>2 DEF History!HistoryNext, History!HistoryOpens, Past, Future
<1>4. CASE Grown(board, log, board', log')
  <2>1. /\ Future(board', log') = <<>>
        /\ \/ Past(board', log') = Append(Past(board, log), board)
           \/ log.open /\ Past(board, log) # <<>> /\ Past(board', log') = Past(board, log)
    BY <1>4, StepGrown
  <2> QED
    BY <1>1, <2>1 DEF History!HistoryNext, History!HistoryEdit, Past, Future
<1>5. CASE Undid(board, log, board', log')
  <2>1. PICK p, p2, f, f2 : /\ p = Past(board, log) /\ p2 = Past(board', log')
                            /\ f = Future(board, log) /\ f2 = Future(board', log')
    OBVIOUS
  <2>2. /\ p = Append(p2, board') /\ f2 = <<board>> \o f
        /\ p2 \in Seq(Track)
    BY <1>5, <2>1, StepUndid
  <2>3. p # <<>> /\ p[Len(p)] = board' /\ SubSeq(p, 1, Len(p) - 1) = p2
    BY <2>2
  <2> QED
    BY <1>1, <2>1, <2>2, <2>3 DEF History!HistoryNext, History!HistoryUndo, Past, Future
<1>6. CASE Redid(board, log, board', log')
  <2>1. PICK p, p2, f, f2 : /\ p = Past(board, log) /\ p2 = Past(board', log')
                            /\ f = Future(board, log) /\ f2 = Future(board', log')
    OBVIOUS
  <2>2. /\ p2 = Append(p, board) /\ f = <<board'>> \o f2
        /\ f2 \in Seq(Track)
    BY <1>6, <2>1, StepRedid
  <2>3. f # <<>> /\ Head(f) = board' /\ Tail(f) = f2
    BY <2>2
  <2> QED
    BY <1>1, <2>1, <2>2, <2>3 DEF History!HistoryNext, History!HistoryRedo, Past, Future
<1> QED
  BY <1>2, <1>3, <1>4, <1>5, <1>6 DEF Onward

\* A brush's step, over the log as it is or as a stroke begins it.
LEMMA PaintsWork ==
  ASSUME board \in Track, log \in Logs, NEW begun, begun = log \/ begun = Begin(log),
         Paints(begun)
  PROVE  Works
<1> DEFINE d == [Desk EXCEPT !.log = begun]
<1>1. begun \in Logs /\ begun.op = log.op /\ begun.cursor = log.cursor
  <2>1. Begin(log) \in Logs /\ Begin(log).op = log.op /\ Begin(log).cursor = log.cursor
    BY OpenedLog
  <2> QED
    BY <2>1
<1>2. Desk \in Desks /\ Desk.board = board
  BY DEF Desk, Desks
<1>3. d \in Desks /\ d.board = board /\ d.log = begun
  BY <1>1, <1>2, DeskLog
<1> HIDE DEF d
<1>4. ASSUME NEW e \in Desks, board' = e.board, log' = e.log,
             Unmoved(board, begun, e.board, e.log) \/ Grown(board, begun, e.board, e.log)
      PROVE  Works
  <2>1. e.board \in Track /\ e.log \in Logs
    BY DEF Desks
  <2>2. Unmoved(board, log, e.board, e.log) \/ Grown(board, log, e.board, e.log)
    <3>1. CASE begun = log
      BY <1>4, <3>1
    <3>2. CASE begun = Begin(log)
      BY <1>4, <2>1, <3>2, BegunOn
    <3> QED
      BY <3>1, <3>2
  <2>3. Onward(board, log, e.board, e.log)
    BY <2>2 DEF Onward
  <2>4. Chained(board, log) => Chained(e.board, e.log)
    BY <2>1, <2>3, StaysChained
  <2> QED
    BY <1>4, <2>1, <2>3, <2>4 DEF Works
<1>5. ASSUME NEW e \in After(d), board' = e.board, log' = e.log PROVE Works
  <2>1. e \in Desks
    BY <1>3, AfterIs
  <2>2. Unmoved(board, begun, e.board, e.log) \/ Grown(board, begun, e.board, e.log)
    BY <1>3 DEF After, Unmoved
  <2> QED
    BY <1>4, <1>5, <2>1, <2>2
<1>6. CASE \E at \in Square, v \in Stored : Puts(EditGround(d, at, v)) /\ told' = ""
  <2>1. PICK at \in Square, v \in Stored : Puts(EditGround(d, at, v))
    BY <1>6
  <2>2. EditGround(d, at, v) \in After(d)
    BY <1>3, GroundAfter
  <2> QED
    BY <1>5, <2>1, <2>2 DEF Puts
<1>7. CASE \E g \in Gate : Puts(EditAddGate(d, g)) /\ told' = ""
  <2>1. PICK g \in Gate : Puts(EditAddGate(d, g))
    BY <1>7
  <2>2. EditAddGate(d, g) \in After(d)
    BY <1>3, AddAfter
  <2> QED
    BY <1>5, <2>1, <2>2 DEF Puts
<1>8. ASSUME NEW kind \in Part, NEW g \in Gate, NEW fits \in BOOLEAN,
             Puts(PlacePart(d, kind, g, fits)),
             told' = IF PlacePart(d, kind, g, fits).ok THEN "" ELSE "will not fit"
      PROVE  Works
  <2>1. PICK e : e = PlacePart(d, kind, g, fits)
    OBVIOUS
  <2>2. /\ e \in Desks
        /\ e.ok => \/ ~fits
                   \/ Unmoved(board, begun, e.board, e.log)
                   \/ Grown(board, begun, e.board, e.log)
        /\ ~fits => ~e.ok
        /\ Chained(board, begun) => Chained(e.board, e.log)
    BY <1>3, <2>1, PartAfter
  <2>3. board' = e.board /\ log' = e.log
    BY <1>8, <2>1 DEF Puts
  <2>4. CASE e.ok
    BY <1>4, <2>2, <2>3, <2>4
  <2>5. CASE ~e.ok
    <3>1. told' = "will not fit"
      BY <1>8, <2>1, <2>5
    <3>2. Chained(board, log) => Chained(board, begun)
      BY <1>1 DEF Chained
    <3>3. e.board \in Track /\ e.log \in Logs
      BY <2>2 DEF Desks
    <3> QED
      BY <2>2, <2>3, <3>1, <3>2, <3>3 DEF Works
  <2> QED
    BY <2>4, <2>5
<1>9. \/ \E at \in Square, v \in Stored : Puts(EditGround(d, at, v)) /\ told' = ""
      \/ \E g \in Gate : Puts(EditAddGate(d, g)) /\ told' = ""
      \/ \E kind \in Part, g \in Gate, fits \in BOOLEAN :
            /\ Puts(PlacePart(d, kind, g, fits))
            /\ told' = IF PlacePart(d, kind, g, fits).ok THEN "" ELSE "will not fit"
  BY DEF Paints, d
<1> QED
  BY <1>6, <1>7, <1>8, <1>9

\* The mouse's part of a frame.
LEMMA MouseStays ==
  ASSUME EditorInv, NEW down \in BOOLEAN, MouseFrame(down)
  PROVE  Stays
<1> DEFINE clicked == down /\ ~held
           stroking == stroke \/ clicked
           begun == IF clicked THEN Begin(log) ELSE log
<1>1. /\ mode = "editing" /\ mode' = "editing" /\ held' = down /\ outside' = outside
      /\ board \in Track /\ log \in Logs /\ outside \in BOOLEAN /\ (log.open => stroke)
  BY DEF MouseFrame, EditorInv
<1>2. CASE down /\ stroking /\ Paints(begun) /\ stroke' = TRUE
  <2>1. begun = log \/ begun = Begin(log)
    OBVIOUS
  <2> HIDE DEF begun
  <2>2. Works
    BY <1>1, <1>2, <2>1, PaintsWork
  <2> QED
    BY <1>1, <1>2, <2>2 DEF Stays, Works
<1>3. CASE /\ ~down \/ ~stroking
           /\ log' = IF stroking THEN End(begun) ELSE begun
           /\ stroke' = FALSE /\ UNCHANGED board
  <2>1. begun \in Logs /\ begun.op = log.op /\ begun.cursor = log.cursor
    <3>1. Begin(log) \in Logs /\ Begin(log).op = log.op /\ Begin(log).cursor = log.cursor
      BY <1>1, OpenedLog
    <3> QED
      BY <1>1, <3>1
  <2>2. /\ End(begun) \in Logs /\ End(begun).op = begun.op /\ End(begun).cursor = begun.cursor
        /\ End(begun).open = FALSE
    BY <2>1, OpenedLog
  <2>3. /\ log' \in Logs /\ log'.op = log.op /\ log'.cursor = log.cursor
        /\ ~log'.open
    <3>1. CASE stroking
      BY <1>3, <2>1, <2>2, <3>1
    <3>2. CASE ~stroking
      <4>1. log' = log /\ ~log.open
        BY <1>1, <1>3, <3>2
      <4> QED
        BY <1>1, <4>1
    <3> QED
      BY <3>1, <3>2
  <2>4. Onward(board, log, board', log')
    BY <1>3, <2>3 DEF Onward, Unmoved
  <2>5. Chained(board, log) => Chained(board', log')
    BY <1>3, <2>3 DEF Chained
  <2> QED
    BY <1>1, <1>3, <2>3, <2>4, <2>5 DEF Stays, Works
<1> QED
  BY <1>2, <1>3 DEF MouseFrame

\* The editor's track and log are a desk.
LEMMA DeskIs ==
  ASSUME EditorInv
  PROVE  Desk \in Desks /\ Desk.board = board /\ Desk.log = log /\ Desk.ok = TRUE
BY DEF EditorInv, Desk, Desks

\* What the desk comes to be by undo, redo, or something put in.
LEMMA DeskWorks ==
  ASSUME EditorInv, NEW d \in Desks,
         d \in After(Desk) \/ d = Undo(Desk) \/ d = Redo(Desk)
  PROVE  /\ d.board \in Track /\ d.log \in Logs /\ d.log.open = log.open
         /\ Onward(board, log, d.board, d.log)
<1>1. Desk \in Desks /\ Desk.board = board /\ Desk.log = log
  BY DeskIs
<1>2. d.board \in Track /\ d.log \in Logs
  BY DEF Desks
<1>3. CASE d \in After(Desk)
  BY <1>1, <1>2, <1>3 DEF After, Onward, Unmoved
<1>4. CASE d = Undo(Desk)
  <2>1. /\ Undo(Desk).log.open = Desk.log.open
        /\ IF Desk.log.cursor = 0 THEN Undo(Desk) = Desk
           ELSE Undid(Desk.board, Desk.log, Undo(Desk).board, Undo(Desk).log)
    BY <1>1, UndoIs
  <2> QED
    BY <1>1, <1>2, <1>4, <2>1 DEF Onward, Unmoved
<1>5. CASE d = Redo(Desk)
  <2>1. /\ Redo(Desk).log.open = Desk.log.open
        /\ IF Desk.log.cursor >= Len(Desk.log.op) THEN Redo(Desk) = Desk
           ELSE Redid(Desk.board, Desk.log, Redo(Desk).board, Redo(Desk).log)
    BY <1>1, RedoIs
  <2> QED
    BY <1>1, <1>2, <1>5, <2>1 DEF Onward, Unmoved
<1> QED
  BY <1>3, <1>4, <1>5

\* The pad's part of a frame, and its undo and redo.
LEMMA PadStays ==
  ASSUME EditorInv,
         PadUndo \/ PadRedo \/ \E paint \in BOOLEAN : PadFrame(paint)
  PROVE  Stays
<1>1. /\ board \in Track /\ log \in Logs /\ outside \in BOOLEAN /\ stroke \in BOOLEAN
      /\ held \in BOOLEAN /\ (log.open => stroke)
  BY DEF EditorInv
<1>2. Desk \in Desks
  BY DeskIs
<1>3. ASSUME NEW d \in Desks, d = Undo(Desk) \/ d = Redo(Desk),
             mode = "editing", Puts(d), UNCHANGED <<outside, stroke, held, mode, left>>
      PROVE  Stays
  <2>1. /\ d.board \in Track /\ d.log \in Logs /\ d.log.open = log.open
        /\ Onward(board, log, d.board, d.log)
    BY <1>3, DeskWorks
  <2>2. Chained(board, log) => Chained(d.board, d.log)
    BY <1>1, <2>1, StaysChained
  <2>3. board' = d.board /\ log' = d.log
    BY <1>3 DEF Puts
  <2>4. Works
    BY <2>1, <2>2, <2>3 DEF Works
  <2> QED
    BY <1>1, <1>3, <2>1, <2>3, <2>4 DEF Stays
<1>4. CASE PadUndo
  <2>1. Undo(Desk) \in Desks
    BY <1>2, UndoIs
  <2> QED
    BY <1>3, <1>4, <2>1 DEF PadUndo
<1>5. CASE PadRedo
  <2>1. Redo(Desk) \in Desks
    BY <1>2, RedoIs
  <2> QED
    BY <1>3, <1>5, <2>1 DEF PadRedo
<1>6. ASSUME NEW paint \in BOOLEAN, PadFrame(paint) PROVE Stays
  <2> DEFINE begun == IF paint /\ ~stroke THEN Begin(log) ELSE log
  <2>1. /\ mode = "editing" /\ mode' = "editing" /\ held' = held /\ outside' = outside
        /\ stroke' = paint
    BY <1>6 DEF PadFrame
  <2>2. CASE paint
    <3>1. begun = log \/ begun = Begin(log)
      OBVIOUS
    <3>2. Paints(begun)
      BY <1>6, <2>2 DEF PadFrame
    <3> HIDE DEF begun
    <3>3. Works
      BY <1>1, <3>1, <3>2, PaintsWork
    <3> QED
      BY <1>1, <2>1, <2>2, <3>3 DEF Stays, Works
  <2>3. CASE ~paint
    <3>1. log' = (IF stroke THEN End(log) ELSE log) /\ board' = board
      BY <1>6, <2>3 DEF PadFrame
    <3>2. End(log) \in Logs /\ End(log).op = log.op /\ End(log).cursor = log.cursor
          /\ End(log).open = FALSE
      BY <1>1, OpenedLog
    <3>3. log' \in Logs /\ log'.op = log.op /\ log'.cursor = log.cursor /\ ~log'.open
      BY <1>1, <3>1, <3>2
    <3>4. Onward(board, log, board', log')
      BY <3>1, <3>3 DEF Onward, Unmoved
    <3>5. Chained(board, log) => Chained(board', log')
      BY <3>1, <3>3 DEF Chained
    <3>6. Works
      BY <1>1, <3>1, <3>3, <3>4, <3>5 DEF Works
    <3> QED
      BY <1>1, <2>1, <2>3, <3>1, <3>3, <3>6 DEF Stays
  <2> QED
    BY <2>2, <2>3
<1> QED
  BY <1>4, <1>5, <1>6

\* The palette: what was pressed, and the end of a stroke.
LEMMA PaletteStays ==
  ASSUME EditorInv, NEW d \in Desks, OverPalette(d), outside' = outside,
         d \in After(Desk) \/ d = Undo(Desk) \/ d = Redo(Desk)
  PROVE  Stays
<1> DEFINE l2 == IF stroke THEN End(d.log) ELSE d.log
<1>1. /\ board \in Track /\ log \in Logs /\ outside \in BOOLEAN /\ stroke \in BOOLEAN
      /\ held \in BOOLEAN /\ (log.open => stroke)
  BY DEF EditorInv
<1>2. /\ d.board \in Track /\ d.log \in Logs /\ d.log.open = log.open
      /\ Onward(board, log, d.board, d.log)
  BY DeskWorks
<1>3. End(d.log) \in Logs /\ End(d.log).open = FALSE /\ Onward(board, log, d.board, End(d.log))
  BY <1>1, <1>2, OpenedLog, EndedOn
<1>4. l2 \in Logs /\ ~l2.open /\ Onward(board, log, d.board, l2)
  BY <1>1, <1>2, <1>3
<1>5. [d EXCEPT !.log = IF stroke THEN End(@) ELSE @].board = d.board
      /\ [d EXCEPT !.log = IF stroke THEN End(@) ELSE @].log = l2
  BY DEF Desks
<1> HIDE DEF l2
<1>6. board' = d.board /\ log' = l2 /\ mode = "editing" /\ mode' = "editing"
      /\ stroke' = FALSE /\ held' = FALSE
  BY <1>5 DEF OverPalette, Puts
<1>7. Chained(board, log) => Chained(d.board, l2)
  BY <1>1, <1>2, <1>4, StaysChained
<1>8. Works
  BY <1>2, <1>4, <1>6, <1>7 DEF Works
<1> QED
  BY <1>1, <1>2, <1>4, <1>6, <1>8 DEF Stays

\* The palette's dial, removal, shortcut, undo and redo.
LEMMA PressStays ==
  ASSUME EditorInv,
         \/ \E n \in 0 .. MaxEvery : PressEvery(n)
         \/ \E i \in 0 .. MaxGates - 1 : PressRemove(i) \/ PressShortcut(i)
         \/ PressUndo \/ PressRedo \/ PressOther
  PROVE  Stays
<1>1. Desk \in Desks
  BY DeskIs
<1>2. ASSUME NEW d \in After(Desk), OverPalette(d), outside' = outside PROVE Stays
  <2>1. d \in Desks
    BY <1>1, AfterIs
  <2> QED
    BY <1>2, <2>1, PaletteStays
<1>3. ASSUME NEW n \in 0 .. MaxEvery, PressEvery(n) PROVE Stays
  <2>1. n \in Nat
    BY EditAssumption
  <2> QED
    BY <1>1, <1>2, <1>3, <2>1, EveryAfter DEF PressEvery
<1>4. ASSUME NEW i \in 0 .. MaxGates - 1, PressRemove(i) PROVE Stays
  <2>1. i \in Nat
    BY EditAssumption
  <2> QED
    BY <1>1, <1>2, <1>4, <2>1, RemoveAfter DEF PressRemove
<1>5. ASSUME NEW i \in 0 .. MaxGates - 1, PressShortcut(i) PROVE Stays
  <2>1. i \in Nat
    BY EditAssumption
  <2>2. PICK cut : cut = ~ShortcutFrom(board, i)
    OBVIOUS
  <2>3. cut \in BOOLEAN
    BY <2>2
  <2>4. EditShortcut(Desk, i, cut) \in After(Desk)
    BY <1>1, <2>1, <2>3, ShortcutAfter
  <2>5. OverPalette(EditShortcut(Desk, i, cut)) /\ outside' = outside
    BY <1>5, <2>2 DEF PressShortcut
  <2> QED
    BY <1>2, <2>4, <2>5
<1>6. CASE PressUndo
  <2>1. Undo(Desk) \in Desks
    BY <1>1, UndoIs
  <2> QED
    BY <1>6, <2>1, PaletteStays DEF PressUndo
<1>7. CASE PressRedo
  <2>1. Redo(Desk) \in Desks
    BY <1>1, RedoIs
  <2> QED
    BY <1>7, <2>1, PaletteStays DEF PressRedo
<1>8. CASE PressOther
  <2>1. Desk \in After(Desk)
    BY <1>1, AfterIs DEF After
  <2> QED
    BY <1>2, <1>8, <2>1 DEF PressOther
<1> QED
  BY <1>3, <1>4, <1>5, <1>6, <1>7, <1>8

\* To end a transaction that is not open changes nothing.
LEMMA EndedAlready ==
  ASSUME NEW l \in Logs, l.open = FALSE
  PROVE  End(l) = l
BY DEF End, Logs

\* A track loaded begins a new log.
LEMMA LoadStays ==
  ASSUME EditorInv, NEW t \in Elsewhere, PressLoad(t)
  PROVE  Stays
<1>1. t \in Track
  BY EditAssumption
<1>2. Read(Written(t)) = t
  BY <1>1, ComesBack
<1> DEFINE x == [Desk EXCEPT !.board = Read(Written(t)), !.log = EmptyLog]
<1>3. EmptyLog \in Logs /\ EmptyLog.open = FALSE /\ End(EmptyLog) = EmptyLog
  BY <1>1, EmptyIs, EndedAlready
<1>4. x \in Desks /\ x.board = t /\ x.log = EmptyLog
  BY <1>1, <1>2, <1>3, DeskIs DEF Desks
<1> DEFINE y == [x EXCEPT !.log = IF stroke THEN End(@) ELSE @]
<1>5. OverPalette(x) /\ outside' = FALSE
  BY DEF PressLoad
<1> HIDE DEF x
<1>6. y.board = t /\ y.log = EmptyLog
  <2>1. (IF stroke THEN End(x.log) ELSE x.log) = EmptyLog
    BY <1>3, <1>4
  <2>2. y = [x EXCEPT !.log = EmptyLog]
    BY <2>1
  <2> HIDE DEF y
  <2> QED
    BY <1>3, <1>4, <2>2, DeskLog
<1>7. /\ board' = t /\ log' = EmptyLog /\ mode = "editing" /\ mode' = "editing"
      /\ stroke' = FALSE /\ held' = FALSE
  BY <1>5, <1>6 DEF OverPalette, Puts
<1> QED
  BY <1>1, <1>3, <1>5, <1>7 DEF Stays

\* A track pasted is outside the log.
LEMMA PasteStays ==
  ASSUME EditorInv, NEW t \in Elsewhere, PressPaste(t)
  PROVE  Stays
<1>1. t \in Track /\ t.ground \in [Square -> Stored] /\ t.gate \in {s \in Seq(Post) : Len(s) <= MaxGates}
  BY EditAssumption DEF Track
<1> DEFINE other == {s \in Square : t.ground[s] # board.ground[s]}
           begun == [Desk EXCEPT !.log = Begin(@)]
           d == Laid(begun, t.ground, SetToSeq(other))
           x == [d EXCEPT !.log = End(@), !.board.gate = t.gate]
           y == [x EXCEPT !.log = IF stroke THEN End(@) ELSE @]
<1>2. begun \in Desks
  <2>1. Desk \in Desks /\ Desk.log = log /\ log \in Logs
    BY DeskIs DEF Desks
  <2>2. Begin(log) \in Logs
    BY <2>1, OpenedLog
  <2>3. begun = [Desk EXCEPT !.log = Begin(log)]
    BY <2>1
  <2> QED
    BY <2>1, <2>2, <2>3, DeskLog
<1>3. SetToSeq(other) \in Seq(Square)
  <2>1. other \subseteq Square
    OBVIOUS
  <2>2. IsFiniteSet(other)
    BY <2>1, EditAssumption, FS_Subset
  <2> HIDE DEF other
  <2>3. SetToSeq(other) \in Seq(other)
    BY <2>2, InSomeOrder
  <2> QED
    BY <2>1, <2>3
<1>4. OverPalette(x) /\ outside' = TRUE
  BY DEF PressPaste, Laid
<1> HIDE DEF begun, other
<1>5. d \in Desks
  BY <1>1, <1>2, <1>3, LaidIs
<1> HIDE DEF d
<1>6. d.board \in Track /\ d.log \in Logs
  BY <1>5 DEF Desks
<1> DEFINE b2 == [d.board EXCEPT !.gate = t.gate]
<1>7. b2 \in Track
  BY <1>1, <1>6 DEF Track
<1>8. End(d.log) \in Logs /\ End(d.log).open = FALSE /\ End(End(d.log)) = End(d.log)
  <2>1. End(d.log) \in Logs /\ End(d.log).open = FALSE
    BY <1>6, OpenedLog
  <2> QED
    BY <2>1, EndedAlready
<1>9. x \in Desks /\ x.board = b2 /\ x.log = End(d.log)
  BY <1>5, <1>7, <1>8 DEF Desks
<1> HIDE DEF b2, x
<1>10. y.board = b2 /\ y.log \in Logs /\ ~y.log.open
  <2>1. (IF stroke THEN End(x.log) ELSE x.log) = End(d.log)
    BY <1>8, <1>9
  <2>2. y = [x EXCEPT !.log = End(d.log)]
    BY <2>1
  <2> HIDE DEF y
  <2> QED
    BY <1>8, <1>9, <2>2, DeskLog
<1> HIDE DEF y
<1>11. /\ board' = b2 /\ log' = y.log /\ mode = "editing" /\ mode' = "editing"
       /\ stroke' = FALSE /\ held' = FALSE
  BY <1>4, <1>10 DEF OverPalette, Puts, y
<1> QED
  BY <1>4, <1>7, <1>10, <1>11 DEF Stays

\* Whatever stays in the editor keeps the invariant.
LEMMA StaysKeeps ==
  ASSUME EditorInv, Stays
  PROVE  EditorInv'
<1>1. /\ mode = "editing" /\ mode' = "editing" /\ board' \in Track /\ log' \in Logs
      /\ outside' \in BOOLEAN /\ stroke' \in BOOLEAN /\ held' \in BOOLEAN
      /\ (log'.open => stroke')
  BY DEF Stays
<1>2. ~outside => Chained(board, log)
  BY <1>1 DEF EditorInv
<1>3. ~outside' => Chained(board', log')
  <2>1. CASE outside'
    BY <2>1
  <2>2. CASE log' = EmptyLog
    BY <1>1, <2>2, EmptyIs
  <2>3. CASE outside' = outside /\ Works
    BY <1>2, <2>3 DEF Works
  <2> QED
    BY <2>1, <2>2, <2>3 DEF Stays
<1> QED
  BY <1>1, <1>3 DEF EditorInv

\* The rest of the game.
LEMMA GameKeeps ==
  ASSUME EditorInv,
         \/ \E reversed \in BOOLEAN : Leave(reversed)
         \/ Return
         \/ \E t \in Elsewhere : TakeServed(t) \/ OpenTrack(t)
  PROVE  EditorInv'
<1>1. ASSUME NEW reversed \in BOOLEAN, Leave(reversed) PROVE EditorInv'
  <2>1. TurnRound(board) \in Track
    BY TurnedIs DEF EditorInv
  <2>2. CASE reversed
    BY <1>1, <2>1, <2>2 DEF Leave, EditorInv
  <2>3. CASE ~reversed
    BY <1>1, <2>3 DEF Leave, EditorInv
  <2> QED
    BY <2>2, <2>3
<1>2. CASE Return
  <2>1. board' \in Track
    BY <1>2, TurnedIs DEF Return, EditorInv
  <2>2. ~outside' => ~outside /\ board' = left
    BY <1>2 DEF Return
  <2>3. outside' \in BOOLEAN
    BY <1>2 DEF Return
  <2> QED
    BY <1>2, <2>1, <2>2, <2>3 DEF Return, EditorInv
<1>3. ASSUME NEW t \in Elsewhere, TakeServed(t) PROVE EditorInv'
  <2>1. t \in Track
    BY EditAssumption
  <2> QED
    BY <1>3, <2>1 DEF TakeServed, EditorInv
<1>4. ASSUME NEW t \in Elsewhere, OpenTrack(t) PROVE EditorInv'
  <2>1. t \in Track
    BY EditAssumption
  <2>2. EmptyLog \in Logs /\ Chained(t, EmptyLog) /\ EmptyLog.open = FALSE
    BY <2>1, EmptyIs
  <2> QED
    BY <1>4, <2>1, <2>2 DEF OpenTrack, EditorInv
<1> QED
  BY <1>1, <1>2, <1>3, <1>4

\* The editor starts as EditorInv says ...
LEMMA EditorStarts == EditorInit => EditorInv
<1>1. SUFFICES ASSUME EditorInit PROVE EditorInv
  OBVIOUS
<1>2. board \in Track
  BY <1>1, EditAssumption DEF EditorInit
<1>3. EmptyLog \in Logs /\ Chained(board, EmptyLog) /\ EmptyLog.open = FALSE
  BY <1>2, EmptyIs
<1> QED
  BY <1>1, <1>2, <1>3 DEF EditorInit, EditorInv

\* A step of the editor stays in it, or is one of the rest of the game's.
LEMMA EditorSteps ==
  ASSUME EditorInv, EditorNext
  PROVE  \/ Stays
         \/ \E reversed \in BOOLEAN : Leave(reversed)
         \/ Return
         \/ \E t \in Elsewhere : TakeServed(t) \/ OpenTrack(t)
BY MouseStays, PadStays, PressStays, LoadStays, PasteStays DEF EditorNext

\* ... and every step of it, of the menus and of the race keeps it so.
LEMMA EditorKeeps == EditorInv /\ [EditorNext]_editorVars => EditorInv'
<1>1. SUFFICES ASSUME EditorInv, [EditorNext]_editorVars PROVE EditorInv'
  OBVIOUS
<1>2. CASE EditorNext
  BY <1>1, <1>2, EditorSteps, StaysKeeps, GameKeeps
<1>3. CASE UNCHANGED editorVars
  BY <1>1, <1>3 DEF EditorInv, editorVars
<1> QED
  BY <1>1, <1>2, <1>3

\* The inductive invariant: the track is a track, the log one whose transactions are in order,
\* and (unless the track was changed outside the log) there is a chain of tracks, one before
\* and one after every entry, in which the track stands at the cursor; a race on the track
\* turned round keeps the track it was.
THEOREM EditorIsRight == EditorSpec => []EditorInv
BY EditorStarts, EditorKeeps, PTL DEF EditorSpec

\* The log never holds more than its capacity nor the track more gates than there may be, and
\* transactions are numbered in order (gs_edit.c's fixed arrays).
THEOREM EditorHasTypes == EditorSpec => []EditorTypeOK
<1>1. EditorInv => EditorTypeOK
  <2>1. SUFFICES ASSUME EditorInv PROVE EditorTypeOK
    OBVIOUS
  <2>2. board \in Track /\ log \in Logs
    BY <2>1 DEF EditorInv
  <2>3. log.cursor \in 0 .. Len(log.op) /\ Len(log.op) <= Capacity
    BY <2>2, LogsIs
  <2>4. Gates(board) <= MaxGates
    BY <2>2 DEF Track, Gates
  <2>5. /\ \A i, j \in DOMAIN log.op : i <= j => log.op[i].group <= log.op[j].group
        /\ \A i \in DOMAIN log.op : log.op[i].group <= log.group
    BY <2>2 DEF Logs
  <2> QED
    BY <2>3, <2>4, <2>5 DEF EditorTypeOK
<1> QED
  BY <1>1, EditorIsRight, PTL

\* A transaction is open only while the mouse is held in a stroke: nothing else's changes go
\* into it (gs_editor.c begins and ends them).
THEOREM OpenIsAStrokeHolds == EditorSpec => []OpenIsAStroke
<1>1. EditorInv => OpenIsAStroke
  BY DEF EditorInv, OpenIsAStroke
<1> QED
  BY <1>1, EditorIsRight, PTL

\* Every track the editor holds comes through the trip to bytes and back as it was, and a
\* track turned round for a race has the same legs and, turned again, is the track it was
\* (core/gs_track.c, core/gs_share.c), for every board, number of gates and piece of road.
THEOREM TracksComeThrough == EditorSpec => []TrackComesThrough
<1>1. EditorInv => TrackComesThrough
  <2>1. SUFFICES ASSUME EditorInv PROVE TrackComesThrough
    OBVIOUS
  <2>2. board \in Track
    BY <2>1 DEF EditorInv
  <2>3. RoundTrip
    BY <2>2, ComesBack DEF RoundTrip
  <2>4. TurnsBack
    <3>1. SUFFICES ASSUME mode = "reversed", Divided(left)
                   PROVE  ShortLegs(board) = ShortLegs(left) /\ TurnRound(board) = left
      BY DEF TurnsBack
    <3>2. left \in Track /\ board = TurnRound(left)
      BY <2>1, <3>1 DEF EditorInv
    <3> QED
      BY <3>1, <3>2, TurnedBack
  <2> QED
    BY <2>3, <2>4 DEF TrackComesThrough
<1> QED
  BY <1>1, EditorIsRight, PTL

\* The log refines a history: a step of the editor adds the track that was to the past, or
\* goes back one track of the past, or forward one of the future, for every track, road and
\* capacity of the log (gs_edit.c's arrays, cursor and groups never show).
THEOREM EditsAreHistory == EditorSpec => EditIsHistory
<1> DEFINE A == (/\ ~outside /\ ~outside' /\ told' # "will not fit"
                 /\ mode = "editing" /\ mode' = "editing") => History!HistoryNext
<1>1. EditorInv /\ EditorInv' /\ [EditorNext]_editorVars => [A]_<<board, log>>
  <2>1. SUFFICES ASSUME EditorInv, EditorInv', [EditorNext]_editorVars,
                        ~outside, ~outside', told' # "will not fit",
                        mode = "editing", mode' = "editing", ~UNCHANGED <<board, log>>
                 PROVE  History!HistoryNext
    OBVIOUS
  <2>2. board \in Track /\ log \in Logs /\ board' \in Track /\ log' \in Logs
    BY <2>1 DEF EditorInv
  <2>3. Chained(board, log)
    BY <2>1 DEF EditorInv
  <2>4. EditorNext
    BY <2>1 DEF editorVars
  <2>5. log' = EmptyLog \/ Onward(board, log, board', log')
    <3>1. CASE Stays
      BY <2>1, <3>1 DEF Stays, Works
    <3>2. CASE \E reversed \in BOOLEAN : Leave(reversed)
      BY <2>1, <3>2 DEF Leave
    <3>3. CASE Return
      BY <2>1, <3>3 DEF Return
    <3>4. CASE \E t \in Elsewhere : TakeServed(t) \/ OpenTrack(t)
      BY <2>1, <3>4 DEF TakeServed, OpenTrack
    <3> QED
      BY <2>1, <2>4, <3>1, <3>2, <3>3, <3>4, EditorSteps
  <2> QED
    BY <2>2, <2>3, <2>5, HistoryGoesOn
<1> QED
  BY <1>1, EditorIsRight, PTL DEF EditIsHistory, EditorSpec
=============================================================================

---------------------------- MODULE SlicerProofs ----------------------------
(***************************************************************************)
(* The slicers give every decoder a well-formed buffer, lose no row of a   *)
(* message, and the lengths of the rows of the first message add up, for   *)
(* all devices and all trains (Slicer).                                    *)
(*                                                                         *)
(* What is counted is the key: the lengths of the rows that are closed,    *)
(* and the samples since then, are the samples of the pulses so far        *)
(* (Counting), and rows behind the last one are empty (Zeroed).  Both are  *)
(* shown of each operation on the buffer first, then of each slicer.       *)
(***************************************************************************)
EXTENDS Slicer, TLAPS, WellFoundedInduction

-----------------------------------------------------------------------------
(* Recursions over the numbers up to N.  Induction takes the least number   *)
(* for which a claim is wrong.                                              *)

LEMMA NatLeast ==
  ASSUME NEW T, T \subseteq Nat, T # {}
  PROVE  \E x \in T : \A y \in T : x <= y
<1> DEFINE R == OpToRel(<, Nat)
<1>1. IsWellFoundedOn(R, Nat)
  BY NatLessThanWellFounded
<1>2. R = {p \in Nat \X Nat : p[1] < p[2]}
  BY DEF OpToRel
<1> HIDE DEF R
<1>3. \E x \in T : \A y \in T : ~ (<<y, x>> \in R)
  BY <1>1, WFMin
<1>4. \A x \in T, y \in T : ~ (<<y, x>> \in R) => x <= y
  BY <1>2
<1> QED
  BY <1>3, <1>4

LEMMA UpTo ==
  ASSUME NEW N \in Nat, NEW T, 0 \in T,
         \A k \in Nat : k < N /\ k \in T => k + 1 \in T
  PROVE  \A k \in 0 .. N : k \in T
<1> DEFINE W == {k \in 0 .. N : k \notin T}
<1>1. SUFFICES ASSUME W # {}
               PROVE  FALSE
  OBVIOUS
<1>2. PICK x \in W : \A y \in W : x <= y
  <2>1. W \subseteq Nat
    OBVIOUS
  <2> HIDE DEF W
  <2> QED
    BY <1>1, <2>1, NatLeast
<1>3. x \in 1 .. N /\ x \notin T
  OBVIOUS
<1>4. x - 1 \in Nat /\ x - 1 < N /\ x - 1 \notin W /\ x - 1 \in 0 .. N /\ (x - 1) + 1 = x
  BY <1>2, <1>3
<1>5. x - 1 \in T
  BY <1>4
<1> QED
  BY <1>3, <1>4, <1>5

\* g starts with x, and F[k] makes its k-th value of the one before.
Recurs(g, x, F, N) == g = [k \in 0 .. N |-> IF k = 0 THEN x ELSE F[k][g[k - 1]]]

LEMMA RecursAt ==
  ASSUME NEW g, NEW x, NEW F, NEW N \in Nat, Recurs(g, x, F, N)
  PROVE  g[0] = x /\ \A k \in 1 .. N : g[k] = F[k][g[k - 1]]
<1>1. g = [k \in 0 .. N |-> IF k = 0 THEN x ELSE F[k][g[k - 1]]]
  BY DEF Recurs
<1>2. \A k \in 0 .. N : g[k] = IF k = 0 THEN x ELSE F[k][g[k - 1]]
  BY <1>1
<1>3. 0 \in 0 .. N /\ \A k \in 1 .. N : k \in 0 .. N /\ k # 0
  OBVIOUS
<1> QED
  BY <1>2, <1>3

\* Such a g exists; its values lie where F leads.
LEMMA Iterates ==
  ASSUME NEW N \in Nat, NEW S, NEW F, NEW x, x \in S[0],
         \A k \in 1 .. N : \A t \in S[k - 1] : F[k][t] \in S[k]
  PROVE  \E g : Recurs(g, x, F, N) /\ \A k \in 0 .. N : g[k] \in S[k]
<1> DEFINE P(g, k) == Recurs(g, x, F, k) /\ \A i \in 0 .. k : g[i] \in S[i]
           T == {k \in 0 .. N : \E g : P(g, k)}
<1>1. 0 \in T
  <2> DEFINE g == [k \in 0 .. 0 |-> x]
  <2>1. g = [k \in 0 .. 0 |-> IF k = 0 THEN x ELSE F[k][g[k - 1]]]
    <3>1. \A k \in 0 .. 0 : k = 0
      OBVIOUS
    <3> QED
      BY <3>1, Zenon
  <2>2. Recurs(g, x, F, 0)
    BY <2>1, Zenon DEF Recurs
  <2>3. \A i \in 0 .. 0 : g[i] \in S[i]
    <3>1. \A i \in 0 .. 0 : i = 0
      OBVIOUS
    <3> QED
      BY <3>1
  <2>4. P(g, 0)
    BY <2>2, <2>3
  <2> HIDE DEF g
  <2> QED
    BY <2>4
<1>2. ASSUME NEW k \in Nat, k < N, k \in T
      PROVE  k + 1 \in T
  <2>1. PICK g : P(g, k)
    BY <1>2
  <2> DEFINE h == [i \in 0 .. k + 1 |-> IF i <= k THEN g[i] ELSE F[k + 1][g[k]]]
  <2>2. g[0] = x /\ \A i \in 1 .. k : g[i] = F[i][g[i - 1]]
    BY <2>1, RecursAt
  <2>3. /\ \A i \in 0 .. k : h[i] = g[i]
        /\ h[k + 1] = F[k + 1][g[k]]
    OBVIOUS
  <2>4. h[0] = x
    BY <2>2, <2>3
  <2>5. ASSUME NEW i \in 1 .. k + 1
        PROVE  h[i] = F[i][h[i - 1]]
    <3>1. CASE i <= k
      <4>1. i \in 1 .. k /\ i \in 0 .. k /\ i - 1 \in 0 .. k
        BY <3>1
      <4> QED
        BY <2>2, <2>3, <4>1
    <3>2. CASE ~(i <= k)
      <4>1. i = k + 1 /\ i - 1 = k /\ k \in 0 .. k
        BY <3>2
      <4> QED
        BY <2>3, <4>1
    <3> QED
      BY <3>1, <3>2
  <2>6. h = [i \in 0 .. k + 1 |-> IF i = 0 THEN x ELSE F[i][h[i - 1]]]
    <3>1. \A i \in 0 .. k + 1 : h[i] = IF i = 0 THEN x ELSE F[i][h[i - 1]]
      <4>1. \A i \in 0 .. k + 1 : i # 0 => i \in 1 .. k + 1
        OBVIOUS
      <4> HIDE DEF h
      <4> QED
        BY <2>4, <2>5, <4>1
    <3>2. h = [i \in 0 .. k + 1 |-> h[i]]
      BY Zenon
    <3> HIDE DEF h
    <3> QED
      BY <3>1, <3>2, Zenon
  <2>7. \A i \in 0 .. k + 1 : h[i] \in S[i]
    <3>1. \A i \in 0 .. k + 1 : i \in 0 .. k \/ i = k + 1
      OBVIOUS
    <3>2. k \in 0 .. k /\ k + 1 \in 1 .. N /\ (k + 1) - 1 = k
      BY <1>2
    <3>3. g[k] \in S[k]
      BY <2>1, <3>2
    <3>4. F[k + 1][g[k]] \in S[k + 1]
      BY <3>2, <3>3
    <3>5. \A i \in 0 .. k : g[i] \in S[i]
      BY <2>1
    <3> HIDE DEF h
    <3> QED
      BY <2>3, <3>1, <3>4, <3>5
  <2> HIDE DEF h
  <2>8. P(h, k + 1)
    BY <2>6, <2>7, Zenon DEF Recurs
  <2>9. k + 1 \in 0 .. N
    BY <1>2
  <2> QED
    BY <2>8, <2>9
<1> HIDE DEF T
<1>3. \A k \in 0 .. N : k \in T
  BY <1>1, <1>2, UpTo
<1>4. N \in T
  BY <1>3
<1> QED
  BY <1>4 DEF T

-----------------------------------------------------------------------------
(* Sums.                                                                    *)

IsSum(g, f, k) == g = [j \in 0 .. k |-> IF j = 0 THEN 0 ELSE g[j - 1] + f[j]]

\* The partial sums that SumUpTo chooses.
Sums(f, k) == CHOOSE g : IsSum(g, f, k)

LEMMA SumsAre ==
  ASSUME NEW k \in Nat, NEW f, \A j \in 1 .. k : f[j] \in Nat
  PROVE  /\ SumUpTo(f, k) = Sums(f, k)[k]
         /\ Sums(f, k)[0] = 0
         /\ \A j \in 1 .. k : Sums(f, k)[j] = Sums(f, k)[j - 1] + f[j]
         /\ \A j \in 0 .. k : Sums(f, k)[j] \in Nat
<1> DEFINE S == [j \in 0 .. k |-> Nat]
           F == [j \in 1 .. k |-> [t \in Nat |-> t + f[j]]]
<1>1. \A j \in 1 .. k : \A t \in S[j - 1] : F[j][t] = t + f[j] /\ F[j][t] \in S[j]
  OBVIOUS
<1>2. 0 \in S[0]
  OBVIOUS
<1> DEFINE Some(g) == Recurs(g, 0, F, k) /\ \A j \in 0 .. k : g[j] \in S[j]
<1>3. \E g : Some(g)
  <2> HIDE DEF S, F
  <2> QED
    BY <1>1, <1>2, Iterates
<1>4. PICK g : Some(g)
  BY <1>3
<1>5. IsSum(g, f, k)
  <2>1. \A j \in 0 .. k : g[j] = IF j = 0 THEN 0 ELSE g[j - 1] + f[j]
    <3>1. g[0] = 0 /\ \A j \in 1 .. k : g[j] = F[j][g[j - 1]]
      <4> HIDE DEF F, S
      <4> QED
        BY <1>4, RecursAt
    <3>2. \A j \in 0 .. k : j # 0 => j \in 1 .. k /\ j - 1 \in 0 .. k
      OBVIOUS
    <3>3. \A j \in 0 .. k : g[j] \in S[j]
      BY <1>4
    <3> HIDE DEF F, S
    <3> QED
      BY <1>1, <3>1, <3>2, <3>3
  <2>2. g = [j \in 0 .. k |-> g[j]]
    <3>1. g = [j \in 0 .. k |-> IF j = 0 THEN 0 ELSE F[j][g[j - 1]]]
      BY <1>4 DEF Recurs
    <3> HIDE DEF F
    <3> QED
      BY <3>1
  <2> QED
    BY <2>1, <2>2, Zenon DEF IsSum
<1> DEFINE h == Sums(f, k)
<1>6. IsSum(h, f, k)
  BY <1>5 DEF Sums
<1>7. SumUpTo(f, k) = h[k]
  BY DEF SumUpTo, Sums, IsSum
<1> HIDE DEF h
<1>8. \A j \in 0 .. k : h[j] = IF j = 0 THEN 0 ELSE h[j - 1] + f[j]
  BY <1>6 DEF IsSum
<1>9. h[0] = 0 /\ \A j \in 1 .. k : h[j] = h[j - 1] + f[j]
  <2>1. 0 \in 0 .. k /\ \A j \in 1 .. k : j \in 0 .. k /\ j # 0
    OBVIOUS
  <2> QED
    BY <1>8, <2>1
<1>10. \A j \in 0 .. k : h[j] \in Nat
  <2> DEFINE T == {j \in 0 .. k : h[j] \in Nat}
  <2>1. 0 \in T
    BY <1>9
  <2>2. \A j \in Nat : j < k /\ j \in T => j + 1 \in T
    <3>1. \A j \in Nat : j < k => j + 1 \in 1 .. k /\ (j + 1) - 1 = j /\ j + 1 \in 0 .. k
      OBVIOUS
    <3> QED
      BY <1>9, <3>1
  <2> HIDE DEF T
  <2>3. \A j \in 0 .. k : j \in T
    BY <2>1, <2>2, UpTo
  <2> QED
    BY <2>3 DEF T
<1> QED
  BY <1>7, <1>9, <1>10 DEF h

LEMMA SumType ==
  ASSUME NEW k \in Nat, NEW f, \A j \in 1 .. k : f[j] \in Nat
  PROVE  SumUpTo(f, k) \in Nat
<1>1. k \in 0 .. k
  OBVIOUS
<1> QED
  BY <1>1, SumsAre

\* The partial sums depend on what was added so far.
LEMMA SumPrefix ==
  ASSUME NEW k \in Nat, NEW m \in Nat, k <= m, NEW f, NEW h,
         \A j \in 1 .. m : h[j] \in Nat, \A j \in 1 .. k : f[j] = h[j]
  PROVE  SumUpTo(f, k) = Sums(h, m)[k]
<1> DEFINE T == {j \in 0 .. k : Sums(f, k)[j] = Sums(h, m)[j]}
<1>1. \A j \in 1 .. k : j \in 1 .. m
  OBVIOUS
<1>2. \A j \in 1 .. k : f[j] \in Nat
  BY <1>1
<1>3. /\ SumUpTo(f, k) = Sums(f, k)[k]
      /\ Sums(f, k)[0] = 0
      /\ \A j \in 1 .. k : Sums(f, k)[j] = Sums(f, k)[j - 1] + f[j]
  BY <1>2, SumsAre
<1>4. /\ Sums(h, m)[0] = 0
      /\ \A j \in 1 .. m : Sums(h, m)[j] = Sums(h, m)[j - 1] + h[j]
  BY SumsAre
<1>5. 0 \in T
  BY <1>3, <1>4
<1>6. ASSUME NEW j \in Nat, j < k, j \in T
      PROVE  j + 1 \in T
  <2>1. j + 1 \in 1 .. k /\ j + 1 \in 1 .. m /\ (j + 1) - 1 = j /\ j + 1 \in 0 .. k
    BY <1>6
  <2>2. Sums(f, k)[j + 1] = Sums(f, k)[j] + f[j + 1]
    BY <1>3, <2>1
  <2>3. Sums(h, m)[j + 1] = Sums(h, m)[j] + h[j + 1]
    BY <1>4, <2>1
  <2>4. Sums(f, k)[j] = Sums(h, m)[j] /\ f[j + 1] = h[j + 1]
    BY <1>6, <2>1
  <2> QED
    BY <2>1, <2>2, <2>3, <2>4
<1> HIDE DEF T
<1>7. k \in T
  <2>1. \A j \in 0 .. k : j \in T
    BY <1>5, <1>6, UpTo
  <2> QED
    BY <2>1
<1> QED
  BY <1>3, <1>7 DEF T

LEMMA SumNext ==
  ASSUME NEW k \in Nat, NEW f, NEW h,
         \A j \in 1 .. k + 1 : h[j] \in Nat, \A j \in 1 .. k : f[j] = h[j]
  PROVE  SumUpTo(h, k + 1) = SumUpTo(f, k) + h[k + 1]
<1>1. k + 1 \in Nat /\ k <= k + 1 /\ k + 1 \in 1 .. k + 1 /\ (k + 1) - 1 = k
  OBVIOUS
<1>2. SumUpTo(f, k) = Sums(h, k + 1)[k]
  BY <1>1, SumPrefix
<1>3. /\ SumUpTo(h, k + 1) = Sums(h, k + 1)[k + 1]
      /\ \A j \in 1 .. k + 1 : Sums(h, k + 1)[j] = Sums(h, k + 1)[j - 1] + h[j]
  BY <1>1, SumsAre
<1>4. Sums(h, k + 1)[k + 1] = Sums(h, k + 1)[(k + 1) - 1] + h[k + 1]
  BY <1>1, <1>3
<1> QED
  BY <1>1, <1>2, <1>3, <1>4

\* Zeros at the end add nothing.
LEMMA SumZeros ==
  ASSUME NEW k \in Nat, NEW m \in Nat, k <= m, NEW f, NEW h,
         \A j \in 1 .. m : h[j] \in Nat, \A j \in 1 .. k : f[j] = h[j],
         \A j \in k + 1 .. m : h[j] = 0
  PROVE  SumUpTo(f, k) = SumUpTo(h, m)
<1> DEFINE T == {j \in 0 .. m : j >= k => Sums(h, m)[j] = Sums(h, m)[k]}
<1>1. SumUpTo(f, k) = Sums(h, m)[k]
  BY SumPrefix
<1>2. /\ SumUpTo(h, m) = Sums(h, m)[m]
      /\ \A j \in 1 .. m : Sums(h, m)[j] = Sums(h, m)[j - 1] + h[j]
      /\ \A j \in 0 .. m : Sums(h, m)[j] \in Nat
  BY SumsAre
<1>3. 0 \in T
  BY k = 0 \/ ~(0 >= k)
<1>4. ASSUME NEW j \in Nat, j < m, j \in T
      PROVE  j + 1 \in T
  <2>1. j + 1 \in 0 .. m /\ j + 1 \in 1 .. m /\ (j + 1) - 1 = j /\ j \in 0 .. m
    BY <1>4
  <2>2. CASE j >= k
    <3>1. j + 1 \in k + 1 .. m
      BY <2>1, <2>2
    <3>2. h[j + 1] = 0 /\ Sums(h, m)[j + 1] = Sums(h, m)[j] + h[j + 1] /\ Sums(h, m)[j] \in Nat
      BY <1>2, <2>1, <3>1
    <3>3. Sums(h, m)[j] = Sums(h, m)[k]
      BY <1>4, <2>2
    <3> QED
      BY <2>1, <3>2, <3>3
  <2>3. CASE ~(j >= k)
    <3>1. j + 1 >= k => j + 1 = k
      BY <2>3
    <3> QED
      BY <2>1, <3>1
  <2> QED
    BY <2>2, <2>3
<1> HIDE DEF T
<1>5. m \in T
  <2>1. \A j \in 0 .. m : j \in T
    BY <1>3, <1>4, UpTo
  <2> QED
    BY <2>1
<1> QED
  BY <1>1, <1>2, <1>5 DEF T

\* One number that grows makes the sum grow as much.
LEMMA SumReplaced ==
  ASSUME NEW k \in Nat, NEW f, NEW h, NEW p \in 1 .. k, NEW w \in Nat,
         \A j \in 1 .. k : f[j] \in Nat, \A j \in 1 .. k : h[j] \in Nat,
         \A j \in 1 .. k : j # p => h[j] = f[j], h[p] = f[p] + w
  PROVE  SumUpTo(h, k) = SumUpTo(f, k) + w
<1> DEFINE More(j) == IF j >= p THEN w ELSE 0
           T == {j \in 0 .. k : Sums(h, k)[j] = Sums(f, k)[j] + More(j)}
<1>1. /\ SumUpTo(f, k) = Sums(f, k)[k]
      /\ Sums(f, k)[0] = 0
      /\ \A j \in 1 .. k : Sums(f, k)[j] = Sums(f, k)[j - 1] + f[j]
      /\ \A j \in 0 .. k : Sums(f, k)[j] \in Nat
  BY SumsAre
<1>2. /\ SumUpTo(h, k) = Sums(h, k)[k]
      /\ Sums(h, k)[0] = 0
      /\ \A j \in 1 .. k : Sums(h, k)[j] = Sums(h, k)[j - 1] + h[j]
  BY SumsAre
<1>3. 0 \in T
  BY <1>1, <1>2
<1>4. ASSUME NEW j \in Nat, j < k, j \in T
      PROVE  j + 1 \in T
  <2>1. j + 1 \in 0 .. k /\ j + 1 \in 1 .. k /\ (j + 1) - 1 = j /\ j \in 0 .. k
    BY <1>4
  <2>2. /\ Sums(f, k)[j + 1] = Sums(f, k)[j] + f[j + 1] /\ Sums(f, k)[j] \in Nat
        /\ Sums(h, k)[j + 1] = Sums(h, k)[j] + h[j + 1]
        /\ f[j + 1] \in Nat
    BY <1>1, <1>2, <2>1
  <2>3. Sums(h, k)[j] = Sums(f, k)[j] + More(j)
    BY <1>4
  <2>4. CASE j + 1 = p
    <3>1. More(j) = 0 /\ More(j + 1) = w /\ h[j + 1] = f[j + 1] + w
      BY <2>4
    <3> HIDE DEF More
    <3> QED
      BY <2>1, <2>2, <2>3, <3>1
  <2>5. CASE j + 1 # p
    <3>1. More(j + 1) = More(j) /\ h[j + 1] = f[j + 1] /\ More(j) \in Nat
      BY <2>1, <2>5
    <3> HIDE DEF More
    <3> QED
      BY <2>1, <2>2, <2>3, <3>1
  <2> QED
    BY <2>4, <2>5
<1> HIDE DEF T
<1>5. k \in T
  <2>1. \A j \in 0 .. k : j \in T
    BY <1>3, <1>4, UpTo
  <2> QED
    BY <2>1
<1>6. More(k) = w
  OBVIOUS
<1> QED
  BY <1>1, <1>2, <1>5, <1>6 DEF T

-----------------------------------------------------------------------------
(* Buffers.  The rows that do not count are empty and without a length, so  *)
(* the lengths of all rows can be added.                                    *)

Zeroed(b) ==
  /\ b.num_rows <= b.free_row
  /\ b.num_rows = 0 => b.free_row = 0
  /\ \A r \in Rows : r >= b.num_rows => b.bits_per_row[r] = 0 /\ b.len_rows[r] = 0

LensOf(L) == SumUpTo([r \in 1 .. BITBUF_ROWS |-> L[r - 1]], BITBUF_ROWS)

\* The row that is filled has no length yet.
Open(b) == b.num_rows > 0 => b.len_rows[CurrentRow(b)] = 0

\* The rows in front of the one that is filled are x samples long, unless one did not fit.
Counts(b, x) ==
  /\ b \in Bitbuffers /\ Zeroed(b)
  /\ NoMoreRows(b) \/ (Open(b) /\ LensOf(b.len_rows) = x)

LEMMA Fields ==
  ASSUME NEW b \in Bitbuffers
  PROVE  /\ b.num_rows \in 0 .. BITBUF_ROWS /\ b.free_row \in 0 .. BITBUF_ROWS
         /\ b.bits_per_row \in [Rows -> Nat] /\ b.syncs_before_row \in [Rows -> Nat]
         /\ b.len_rows \in [Rows -> Nat] /\ b.bb \in [AllBits -> 0 .. 1]
         /\ BITBUF_ROWS \in Nat \ {0} /\ Rows = 0 .. BITBUF_ROWS - 1
         /\ CurrentRow(b) = b.num_rows - 1
         /\ b.num_rows > 0 => CurrentRow(b) \in Rows /\ CurrentRow(b) \in Nat
<1>1. /\ b.num_rows \in 0 .. BITBUF_ROWS /\ b.free_row \in 0 .. BITBUF_ROWS
      /\ b.bits_per_row \in [Rows -> Nat] /\ b.syncs_before_row \in [Rows -> Nat]
      /\ b.len_rows \in [Rows -> Nat] /\ b.bb \in [AllBits -> 0 .. 1]
  BY DEF Bitbuffers
<1>2. BITBUF_ROWS \in Nat \ {0} /\ Rows = 0 .. BITBUF_ROWS - 1
  BY BufferAssumption DEF Rows
<1> DEFINE q == b.num_rows
<1>3. CurrentRow(b) = q - 1 /\ q \in 0 .. BITBUF_ROWS
  BY <1>1 DEF CurrentRow
<1> HIDE DEF q
<1>4. q > 0 => q - 1 \in 0 .. BITBUF_ROWS - 1 /\ q - 1 \in Nat
  BY <1>2, <1>3
<1> QED
  BY <1>1, <1>2, <1>3, <1>4 DEF q

LEMMA LensMore ==
  ASSUME NEW L, NEW M, NEW row \in Rows, NEW w \in Nat,
         \A r \in Rows : L[r] \in Nat /\ M[r] \in Nat /\ (r # row => M[r] = L[r]),
         M[row] = L[row] + w
  PROVE  LensOf(M) = LensOf(L) + w
<1> DEFINE U == [r \in 1 .. BITBUF_ROWS |-> L[r - 1]]
           V == [r \in 1 .. BITBUF_ROWS |-> M[r - 1]]
           p == row + 1
<1>1. BITBUF_ROWS \in Nat
  BY BufferAssumption
<1>2. p \in 1 .. BITBUF_ROWS /\ row \in Nat /\ p - 1 = row
  BY <1>1 DEF Rows
<1>3. \A r \in 1 .. BITBUF_ROWS : r - 1 \in Rows /\ (r - 1 = row => r = p)
  BY <1>1, <1>2 DEF Rows
<1> HIDE DEF p
<1>4. /\ \A r \in 1 .. BITBUF_ROWS : U[r] \in Nat
      /\ \A r \in 1 .. BITBUF_ROWS : V[r] \in Nat
      /\ \A r \in 1 .. BITBUF_ROWS : r # p => V[r] = U[r]
  BY <1>3
<1>5. p \in 1 .. BITBUF_ROWS /\ V[p] = U[p] + w
  BY <1>2
<1> HIDE DEF U, V
<1>6. SumUpTo(V, BITBUF_ROWS) = SumUpTo(U, BITBUF_ROWS) + w
  BY <1>1, <1>4, <1>5, SumReplaced
<1> QED
  BY <1>6 DEF LensOf, U, V

LEMMA LensZero ==
  ASSUME NEW L, \A r \in Rows : L[r] = 0
  PROVE  LensOf(L) = 0
<1> DEFINE f == [r \in 1 .. BITBUF_ROWS |-> L[r - 1]]
<1>1. BITBUF_ROWS \in Nat
  BY BufferAssumption
<1>2. \A r \in 1 .. BITBUF_ROWS : r - 1 \in Rows
  BY <1>1 DEF Rows
<1>3. \A r \in 1 .. BITBUF_ROWS : f[r] = 0
  BY <1>2
<1> HIDE DEF f
<1>4. SumUpTo(f, 0) = SumUpTo(f, BITBUF_ROWS)
  BY <1>1, <1>3, SumZeros
<1>5. SumUpTo(f, 0) = 0
  BY SumsAre
<1> QED
  BY <1>4, <1>5 DEF LensOf, f

LEMMA ClearCounts == Counts(bitbuffer_clear, 0) /\ bitbuffer_clear.num_rows = 0
<1> DEFINE b == bitbuffer_clear
<1>1. /\ b.num_rows = 0 /\ b.free_row = 0
      /\ \A r \in Rows : b.bits_per_row[r] = 0 /\ b.len_rows[r] = 0
  BY DEF bitbuffer_clear
<1>2. b \in Bitbuffers
  BY BufferAssumption DEF bitbuffer_clear, Bitbuffers
<1> HIDE DEF b
<1>3. Zeroed(b) /\ Open(b)
  BY <1>1 DEF Zeroed, Open
<1>4. LensOf(b.len_rows) = 0
  BY <1>1, LensZero
<1>5. Counts(b, 0)
  BY <1>2, <1>3, <1>4 DEF Counts
<1> QED
  BY <1>1, <1>5 DEF b

\* What does not touch the lengths, nor the rows that do not count, keeps the count.
LEMMA Recounted ==
  ASSUME NEW b, NEW x, Counts(b, x), NEW c \in Bitbuffers,
         c.num_rows = b.num_rows, c.num_rows > 0, c.free_row >= b.free_row,
         c.len_rows = b.len_rows,
         \A r \in Rows : r >= b.num_rows => c.bits_per_row[r] = b.bits_per_row[r]
  PROVE  Counts(c, x)
<1>1. /\ b \in Bitbuffers /\ b.num_rows <= b.free_row
      /\ \A r \in Rows : r >= b.num_rows => b.bits_per_row[r] = 0 /\ b.len_rows[r] = 0
      /\ NoMoreRows(b) \/ (Open(b) /\ LensOf(b.len_rows) = x)
  BY DEF Counts, Zeroed
<1>2. /\ b.num_rows \in Nat /\ b.free_row \in Nat /\ c.free_row \in Nat /\ BITBUF_ROWS \in Nat
      /\ CurrentRow(b) = CurrentRow(c)
  BY <1>1, Fields DEF CurrentRow
<1>3. Zeroed(c)
  BY <1>1, <1>2 DEF Zeroed
<1>4. NoMoreRows(b) => NoMoreRows(c)
  BY <1>2 DEF NoMoreRows
<1>5. Open(b) => Open(c)
  BY <1>2 DEF Open
<1> QED
  BY <1>1, <1>3, <1>4, <1>5 DEF Counts

LEMMA WithRowIs ==
  ASSUME NEW b \in Bitbuffers
  PROVE  /\ WithRow(b) \in Bitbuffers /\ WithRow(b).num_rows > 0
         /\ WithRow(b).bits_per_row = b.bits_per_row /\ WithRow(b).len_rows = b.len_rows
         /\ b.num_rows > 0 => WithRow(b) = b
         /\ b.num_rows = 0 => WithRow(b).num_rows = 1 /\ WithRow(b).free_row = 1
<1>1. CASE b.num_rows # 0
  BY <1>1, Fields DEF WithRow
<1>2. CASE b.num_rows = 0
  <2> DEFINE c == [b EXCEPT !.num_rows = 1, !.free_row = 1]
  <2>1. WithRow(b) = c
    BY <1>2 DEF WithRow
  <2>2. 1 \in 0 .. BITBUF_ROWS
    BY BufferAssumption
  <2>3. /\ c \in Bitbuffers /\ c.num_rows = 1 /\ c.free_row = 1
        /\ c.bits_per_row = b.bits_per_row /\ c.len_rows = b.len_rows
    BY <2>2 DEF Bitbuffers
  <2> HIDE DEF c
  <2> QED
    BY <1>2, <2>1, <2>3
<1> QED
  BY <1>1, <1>2

LEMMA WithRowCounts ==
  ASSUME NEW b, NEW x, Counts(b, x)
  PROVE  Counts(WithRow(b), x)
<1> DEFINE c == WithRow(b)
<1>1. /\ b \in Bitbuffers /\ b.num_rows <= b.free_row /\ (b.num_rows = 0 => b.free_row = 0)
      /\ \A r \in Rows : r >= b.num_rows => b.bits_per_row[r] = 0 /\ b.len_rows[r] = 0
      /\ NoMoreRows(b) \/ (Open(b) /\ LensOf(b.len_rows) = x)
  BY DEF Counts, Zeroed
<1>2. /\ c \in Bitbuffers /\ c.num_rows > 0
      /\ c.bits_per_row = b.bits_per_row /\ c.len_rows = b.len_rows
      /\ b.num_rows > 0 => c = b
      /\ b.num_rows = 0 => c.num_rows = 1 /\ c.free_row = 1
  BY <1>1, WithRowIs
<1>3. CASE b.num_rows > 0
  BY <1>2, <1>3
<1>4. CASE ~(b.num_rows > 0)
  <2>1. b.num_rows = 0 /\ b.free_row = 0 /\ BITBUF_ROWS \in Nat \ {0} /\ Rows = 0 .. BITBUF_ROWS - 1
    BY <1>1, <1>4, Fields
  <2>2. ~NoMoreRows(b)
    BY <2>1 DEF NoMoreRows
  <2>3. \A r \in Rows : b.bits_per_row[r] = 0 /\ b.len_rows[r] = 0
    BY <1>1, <2>1
  <2>4. c.num_rows = 1 /\ c.free_row = 1 /\ CurrentRow(c) = 0 /\ 0 \in Rows
    BY <1>2, <2>1 DEF CurrentRow
  <2>5. Zeroed(c)
    BY <1>2, <2>3, <2>4 DEF Zeroed
  <2>6. Open(c)
    BY <1>2, <2>3, <2>4 DEF Open
  <2> HIDE DEF c
  <2>7. LensOf(c.len_rows) = x
    BY <1>1, <1>2, <2>2
  <2> QED
    BY <1>2, <2>5, <2>6, <2>7 DEF Counts, c
<1> QED
  BY <1>3, <1>4

LEMMA AddBitIs ==
  ASSUME NEW b \in Bitbuffers, NEW bit
  PROVE  LET w == WithRow(b)
             c == bitbuffer_add_bit(b, bit)
         IN  /\ c \in Bitbuffers /\ c.num_rows = w.num_rows /\ c.free_row >= w.free_row
             /\ c.len_rows = b.len_rows
             /\ \A r \in Rows : r # CurrentRow(w) => c.bits_per_row[r] = b.bits_per_row[r]
             /\ c.bits_per_row[CurrentRow(w)] <= b.bits_per_row[CurrentRow(w)] + 1
<1> DEFINE w == WithRow(b)
           row == CurrentRow(w)
           o == w.bits_per_row[row]
           f == IF Spills(w) THEN w.free_row + 1 ELSE w.free_row
           P == [w.bits_per_row EXCEPT ![row] = @ + 1]
           at == Index(row, o)
           B == [w.bb EXCEPT ![at] = IF bit = 1 THEN 1 ELSE @]
           c == [w EXCEPT !.free_row = f, !.bits_per_row = P, !.bb = B]
<1>1. /\ w \in Bitbuffers /\ w.num_rows > 0
      /\ w.bits_per_row = b.bits_per_row /\ w.len_rows = b.len_rows
  BY WithRowIs
<1>2. bitbuffer_add_bit(b, bit) = IF NoMoreBits(w) THEN w ELSE c
  BY DEF bitbuffer_add_bit, StoreBit
<1> HIDE DEF w
<1>3. /\ w.num_rows \in 0 .. BITBUF_ROWS /\ w.free_row \in 0 .. BITBUF_ROWS
      /\ w.bits_per_row \in [Rows -> Nat] /\ w.len_rows \in [Rows -> Nat]
      /\ w.bb \in [AllBits -> 0 .. 1] /\ row \in Rows /\ o \in Nat /\ BITBUF_ROWS \in Nat
  BY <1>1, Fields
<1>4. CASE NoMoreBits(w)
  <2>1. w.free_row >= w.free_row /\ o <= o + 1
    BY <1>3
  <2> QED
    BY <1>1, <1>2, <1>4, <2>1 DEF w
<1>5. CASE ~NoMoreBits(w)
  <2>1. f \in 0 .. BITBUF_ROWS /\ f >= w.free_row
    BY <1>3, <1>5 DEF NoMoreBits
  <2>2. /\ P \in [Rows -> Nat] /\ P[row] = o + 1 /\ P[row] <= o + 1
        /\ \A r \in Rows : r # row => P[r] = w.bits_per_row[r]
    BY <1>3
  <2>3. B \in [AllBits -> 0 .. 1]
    <3>1. w.bb \in [AllBits -> 0 .. 1] /\ \A i \in AllBits : w.bb[i] \in 0 .. 1
      BY <1>3
    <3> DEFINE u == w.bb
    <3> HIDE DEF at, o, f, P, w
    <3>2. B = [u EXCEPT ![at] = IF bit = 1 THEN 1 ELSE @]
      OBVIOUS
    <3> HIDE DEF u, B
    <3>3. u \in [AllBits -> 0 .. 1] /\ \A i \in AllBits : u[i] \in 0 .. 1
      BY <3>1 DEF u
    <3>4. \A i \in AllBits : B[i] = IF i = at /\ bit = 1 THEN 1 ELSE u[i]
      BY <3>2, <3>3
    <3>5. B = [i \in AllBits |-> B[i]]
      BY <3>2, <3>3
    <3>6. \A i \in AllBits : B[i] \in 0 .. 1
      BY <3>3, <3>4
    <3> QED
      BY <3>5, <3>6
  <2> HIDE DEF f, P, B, o, row
  <2>4. /\ c \in Bitbuffers /\ c.num_rows = w.num_rows /\ c.free_row = f
        /\ c.len_rows = w.len_rows /\ c.bits_per_row = P
    BY <1>1, <2>1, <2>2, <2>3 DEF Bitbuffers
  <2> HIDE DEF c
  <2> QED
    BY <1>1, <1>2, <1>5, <2>1, <2>2, <2>4 DEF w, row, o
<1> QED
  BY <1>4, <1>5

LEMMA AddBitCounts ==
  ASSUME NEW b, NEW x, Counts(b, x), NEW bit
  PROVE  Counts(bitbuffer_add_bit(b, bit), x)
<1> DEFINE w == WithRow(b)
           c == bitbuffer_add_bit(b, bit)
<1>1. b \in Bitbuffers
  BY DEF Counts
<1>2. /\ Counts(w, x) /\ w \in Bitbuffers /\ w.num_rows > 0
      /\ w.bits_per_row = b.bits_per_row /\ w.len_rows = b.len_rows
  BY <1>1, WithRowIs, WithRowCounts
<1>3. /\ c \in Bitbuffers /\ c.num_rows = w.num_rows /\ c.free_row >= w.free_row
      /\ c.len_rows = b.len_rows
      /\ \A r \in Rows : r # CurrentRow(w) => c.bits_per_row[r] = b.bits_per_row[r]
  BY <1>1, AddBitIs
<1>4. \A r \in Rows : r >= w.num_rows => r # CurrentRow(w)
  <2>1. CurrentRow(w) = w.num_rows - 1 /\ w.num_rows \in 0 .. BITBUF_ROWS
        /\ BITBUF_ROWS \in Nat /\ Rows = 0 .. BITBUF_ROWS - 1
    BY <1>2, Fields
  <2> HIDE DEF w
  <2> QED
    BY <2>1
<1> HIDE DEF w, c
<1>5. Counts(c, x)
  BY <1>2, <1>3, <1>4, Recounted
<1> QED
  BY <1>5 DEF c

\* The row that is filled after a new row holds nothing, whether there was one left or not.
LEMMA AddRowIs ==
  ASSUME NEW b \in Bitbuffers, NEW len \in Nat
  PROVE  LET c == bitbuffer_add_row(b, len)
             w == WithRow(b)
             L == [w.len_rows EXCEPT ![CurrentRow(w)] = len]
         IN  /\ c \in Bitbuffers /\ c.num_rows > 0 /\ c.len_rows = L
             /\ NoMoreRows(w) =>
                  /\ c.num_rows = w.num_rows /\ c.free_row = w.free_row
                  /\ c.bits_per_row = [w.bits_per_row EXCEPT ![CurrentRow(w)] = 0]
             /\ ~NoMoreRows(w) =>
                  /\ c.num_rows = w.free_row + 1 /\ c.free_row = w.free_row + 1
                  /\ c.bits_per_row = w.bits_per_row
<1> DEFINE c == bitbuffer_add_row(b, len)
           w == WithRow(b)
           row == CurrentRow(w)
           L == [w.len_rows EXCEPT ![row] = len]
           v == [w EXCEPT !.len_rows[row] = len]
<1>1. w \in Bitbuffers /\ w.num_rows > 0
  BY WithRowIs
<1>2. c = IF NoMoreRows(v) THEN [v EXCEPT !.bits_per_row[CurrentRow(v)] = 0]
                           ELSE [v EXCEPT !.free_row = @ + 1, !.num_rows = v.free_row + 1]
  BY DEF bitbuffer_add_row
<1> HIDE DEF w, c
<1>3. /\ w.num_rows \in 0 .. BITBUF_ROWS /\ w.free_row \in 0 .. BITBUF_ROWS
      /\ w.bits_per_row \in [Rows -> Nat] /\ L \in [Rows -> Nat]
      /\ row \in Rows /\ BITBUF_ROWS \in Nat
  BY <1>1, Fields
<1>4. v = [w EXCEPT !.len_rows = L]
  OBVIOUS
<1> HIDE DEF L
<1>5. /\ v \in Bitbuffers /\ v.num_rows = w.num_rows /\ v.free_row = w.free_row
      /\ v.bits_per_row = w.bits_per_row /\ v.len_rows = L
  BY <1>1, <1>3, <1>4 DEF Bitbuffers
<1> HIDE DEF v
<1>6. CurrentRow(v) = row /\ (NoMoreRows(v) <=> NoMoreRows(w))
  BY <1>5 DEF CurrentRow, NoMoreRows
<1>7. CASE NoMoreRows(w)
  <2> DEFINE P == [w.bits_per_row EXCEPT ![row] = 0]
  <2>1. P \in [Rows -> Nat]
    BY <1>3
  <2>2. c = [v EXCEPT !.bits_per_row = P]
    BY <1>2, <1>5, <1>6, <1>7
  <2> HIDE DEF P
  <2>3. /\ c \in Bitbuffers /\ c.num_rows = v.num_rows /\ c.free_row = v.free_row
        /\ c.bits_per_row = P /\ c.len_rows = v.len_rows
    BY <1>5, <2>1, <2>2 DEF Bitbuffers
  <2> QED
    BY <1>1, <1>5, <1>7, <2>3 DEF P, c, w, L
<1>8. CASE ~NoMoreRows(w)
  <2> DEFINE f == w.free_row + 1
  <2>1. f \in 0 .. BITBUF_ROWS /\ f > 0
    BY <1>3, <1>8 DEF NoMoreRows
  <2>2. c = [v EXCEPT !.free_row = f, !.num_rows = f]
    BY <1>2, <1>5, <1>6, <1>8
  <2> HIDE DEF f
  <2>3. /\ c \in Bitbuffers /\ c.num_rows = f /\ c.free_row = f
        /\ c.bits_per_row = v.bits_per_row /\ c.len_rows = v.len_rows
    BY <1>5, <2>1, <2>2 DEF Bitbuffers
  <2> QED
    BY <1>1, <1>5, <1>8, <2>1, <2>3 DEF f, c, w, L
<1> QED
  BY <1>7, <1>8

\* The length of the row that ends is counted, and the next row is open.
LEMMA AddRowCounts ==
  ASSUME NEW b, NEW x \in Int, Counts(b, x), NEW len \in Nat
  PROVE  LET c == bitbuffer_add_row(b, len)
         IN  /\ Counts(c, x + len) /\ c.num_rows > 0
             /\ c.bits_per_row[CurrentRow(c)] = 0
<1> DEFINE c == bitbuffer_add_row(b, len)
           w == WithRow(b)
           row == CurrentRow(w)
           L == [w.len_rows EXCEPT ![row] = len]
<1>1. b \in Bitbuffers
  BY DEF Counts
<1>2. Counts(w, x) /\ w \in Bitbuffers /\ w.num_rows > 0
  BY <1>1, WithRowIs, WithRowCounts
<1>3. /\ c \in Bitbuffers /\ c.num_rows > 0 /\ c.len_rows = L
      /\ NoMoreRows(w) =>
           /\ c.num_rows = w.num_rows /\ c.free_row = w.free_row
           /\ c.bits_per_row = [w.bits_per_row EXCEPT ![row] = 0]
      /\ ~NoMoreRows(w) =>
           /\ c.num_rows = w.free_row + 1 /\ c.free_row = w.free_row + 1
           /\ c.bits_per_row = w.bits_per_row
  BY <1>1, AddRowIs
<1> HIDE DEF w, c
<1>4. /\ w.num_rows \in 0 .. BITBUF_ROWS /\ w.free_row \in 0 .. BITBUF_ROWS
      /\ w.bits_per_row \in [Rows -> Nat] /\ w.len_rows \in [Rows -> Nat]
      /\ row \in Rows /\ BITBUF_ROWS \in Nat /\ row = w.num_rows - 1 /\ row \in Nat
      /\ Rows = 0 .. BITBUF_ROWS - 1
  BY <1>2, Fields
<1>5. /\ w.num_rows <= w.free_row
      /\ \A r \in Rows : r >= w.num_rows => w.bits_per_row[r] = 0 /\ w.len_rows[r] = 0
      /\ NoMoreRows(w) \/ (Open(w) /\ LensOf(w.len_rows) = x)
  BY <1>2 DEF Counts, Zeroed
<1>6. L \in [Rows -> Nat] /\ L[row] = len /\ \A r \in Rows : r # row => L[r] = w.len_rows[r]
  BY <1>4
<1> HIDE DEF row
<1>7. CASE NoMoreRows(w)
  <2> DEFINE P == [w.bits_per_row EXCEPT ![row] = 0]
  <2>1. P[row] = 0 /\ \A r \in Rows : r # row => P[r] = w.bits_per_row[r]
    BY <1>4
  <2> HIDE DEF P, L
  <2>2. /\ c.num_rows = w.num_rows /\ c.free_row = w.free_row /\ c.bits_per_row = P
        /\ c.len_rows = L
    BY <1>3, <1>7 DEF P, L
  <2>3. CurrentRow(c) = row
    BY <1>4, <2>2 DEF CurrentRow, row
  <2>4. NoMoreRows(c)
    BY <1>7, <2>2 DEF NoMoreRows
  <2>5. \A r \in Rows : r >= c.num_rows => r # row
    BY <1>4, <2>2
  <2>6. Zeroed(c)
    <3>1. c.num_rows > 0
      BY <1>3
    <3> QED
      BY <1>2, <1>5, <1>6, <2>1, <2>2, <2>5, <3>1 DEF Zeroed
  <2>7. Counts(c, x + len) /\ c.num_rows > 0
    <3>1. c \in Bitbuffers /\ c.num_rows > 0
      BY <1>3
    <3> QED
      BY <2>4, <2>6, <3>1 DEF Counts
  <2>8. c.bits_per_row[CurrentRow(c)] = 0
    BY <2>1, <2>2, <2>3
  <2> QED
    BY <2>7, <2>8 DEF c
<1>8. CASE ~NoMoreRows(w)
  <2> DEFINE f == w.free_row
  <2>0. f \in Nat /\ f < BITBUF_ROWS /\ f \in Rows /\ row < f /\ f >= w.num_rows
    BY <1>4, <1>5, <1>8 DEF NoMoreRows
  <2> HIDE DEF f
  <2>1. /\ c.num_rows = f + 1 /\ c.free_row = f + 1 /\ c.bits_per_row = w.bits_per_row
        /\ c.len_rows = L
    BY <1>3, <1>8 DEF f
  <2>2. CurrentRow(c) = f
    BY <2>0, <2>1 DEF CurrentRow
  <2>3. w.bits_per_row[f] = 0 /\ w.len_rows[f] = 0 /\ L[f] = 0
    BY <1>5, <1>6, <2>0
  <2>4. Zeroed(c)
    <3>1. \A r \in Rows : r >= f + 1 => r >= w.num_rows /\ r # row
      <4>1. Rows \subseteq Nat /\ w.num_rows \in Nat /\ row \in Nat
        BY <1>4
      <4> QED
        BY <2>0, <4>1
    <3>2. \A r \in Rows : r >= f + 1 => w.bits_per_row[r] = 0 /\ L[r] = 0
      BY <1>5, <1>6, <3>1
    <3> QED
      BY <2>0, <2>1, <3>2 DEF Zeroed
  <2>5. Open(c)
    BY <2>1, <2>2, <2>3 DEF Open
  <2>6. LensOf(L) = x + len
    <3>1. Open(w) /\ LensOf(w.len_rows) = x
      BY <1>5, <1>8
    <3>2. w.len_rows[row] = 0
      BY <1>2, <3>1 DEF Open, row
    <3>3. \A r \in Rows : w.len_rows[r] \in Nat /\ L[r] \in Nat /\ (r # row => L[r] = w.len_rows[r])
      BY <1>4, <1>6
    <3>4. L[row] = w.len_rows[row] + len
      BY <1>6, <3>2
    <3> HIDE DEF L
    <3>5. LensOf(L) = LensOf(w.len_rows) + len
      BY <1>4, <3>3, <3>4, LensMore
    <3> QED
      BY <3>1, <3>5
  <2> HIDE DEF L
  <2>7. Counts(c, x + len)
    BY <1>3, <2>1, <2>4, <2>5, <2>6 DEF Counts
  <2> QED
    BY <1>3, <2>1, <2>2, <2>3, <2>7 DEF c
<1> QED
  BY <1>7, <1>8

LEMMA AddSyncIs ==
  ASSUME NEW b \in Bitbuffers, NEW len \in Nat
  PROVE  LET a == IF SyncEndsRow(b) THEN bitbuffer_add_row(b, len) ELSE WithRow(b)
             c == bitbuffer_add_sync(b, len)
         IN  /\ c \in Bitbuffers /\ c.num_rows = a.num_rows /\ c.num_rows > 0
             /\ c.free_row = a.free_row /\ c.bits_per_row = a.bits_per_row
             /\ c.len_rows = a.len_rows
<1> DEFINE a == IF SyncEndsRow(b) THEN bitbuffer_add_row(b, len) ELSE WithRow(b)
           Y == [a.syncs_before_row EXCEPT ![CurrentRow(a)] = @ + 1]
           c == [a EXCEPT !.syncs_before_row[CurrentRow(a)] = @ + 1]
<1>1. a \in Bitbuffers /\ a.num_rows > 0
  BY AddRowIs, WithRowIs
<1>2. bitbuffer_add_sync(b, len) = c
  BY DEF bitbuffer_add_sync
<1> HIDE DEF a
<1>3. c = [a EXCEPT !.syncs_before_row = Y] /\ Y \in [Rows -> Nat]
  BY <1>1, Fields
<1> HIDE DEF Y
<1>4. /\ c \in Bitbuffers /\ c.num_rows = a.num_rows /\ c.free_row = a.free_row
      /\ c.bits_per_row = a.bits_per_row /\ c.len_rows = a.len_rows
  BY <1>1, <1>3 DEF Bitbuffers
<1> HIDE DEF c
<1> QED
  BY <1>1, <1>2, <1>4 DEF a

LEMMA AddSyncCounts ==
  ASSUME NEW b, NEW x \in Int, Counts(b, x), NEW len \in Nat
  PROVE  LET c == bitbuffer_add_sync(b, len)
         IN  /\ Counts(c, IF SyncEndsRow(b) THEN x + len ELSE x) /\ c.num_rows > 0
             /\ c.bits_per_row[CurrentRow(c)] = 0
<1> DEFINE a == IF SyncEndsRow(b) THEN bitbuffer_add_row(b, len) ELSE WithRow(b)
           c == bitbuffer_add_sync(b, len)
           y == IF SyncEndsRow(b) THEN x + len ELSE x
<1>1. b \in Bitbuffers
  BY DEF Counts
<1>2. /\ c \in Bitbuffers /\ c.num_rows = a.num_rows /\ c.num_rows > 0
      /\ c.free_row = a.free_row /\ c.bits_per_row = a.bits_per_row
      /\ c.len_rows = a.len_rows
  BY <1>1, AddSyncIs
<1>3. Counts(a, y) /\ a.bits_per_row[CurrentRow(a)] = 0
  <2>1. CASE SyncEndsRow(b)
    BY <2>1, AddRowCounts
  <2>2. CASE ~SyncEndsRow(b)
    <3> DEFINE w == WithRow(b)
    <3>1. Counts(w, x) /\ w \in Bitbuffers /\ w.num_rows > 0
      BY <1>1, WithRowIs, WithRowCounts
    <3>2. ~(w.bits_per_row[CurrentRow(w)] > 0)
      BY <2>2 DEF SyncEndsRow
    <3> HIDE DEF w
    <3>3. w.bits_per_row[CurrentRow(w)] \in Nat
      BY <3>1, Fields
    <3>4. w.bits_per_row[CurrentRow(w)] = 0
      BY <3>2, <3>3
    <3> QED
      BY <2>2, <3>1, <3>4 DEF w
  <2> QED
    BY <2>1, <2>2
<1> HIDE DEF a, c, y
<1>4. a.free_row \in Nat /\ c.free_row >= a.free_row
  <2>1. a \in Bitbuffers
    BY <1>3 DEF Counts
  <2>2. a.free_row \in 0 .. BITBUF_ROWS /\ BITBUF_ROWS \in Nat
    BY <2>1, Fields
  <2> QED
    BY <1>2, <2>2
<1>5. Counts(c, y)
  BY <1>2, <1>3, <1>4, Recounted
<1>6. c.bits_per_row[CurrentRow(c)] = 0
  BY <1>2, <1>3 DEF CurrentRow
<1> QED
  BY <1>2, <1>5, <1>6 DEF c, y

LEMMA AddLastLenIs ==
  ASSUME NEW b \in Bitbuffers, NEW len \in Nat
  PROVE  LET c == bitbuffer_add_last_len(b, len)
         IN  /\ c \in Bitbuffers /\ c.num_rows = b.num_rows /\ c.free_row = b.free_row
             /\ c.bits_per_row = b.bits_per_row
             /\ c.len_rows = IF b.num_rows > 0 /\ b.len_rows[CurrentRow(b)] = 0
                               THEN [b.len_rows EXCEPT ![CurrentRow(b)] = len] ELSE b.len_rows
<1>1. CASE b.num_rows > 0 /\ b.len_rows[CurrentRow(b)] = 0
  <2> DEFINE L == [b.len_rows EXCEPT ![CurrentRow(b)] = len]
             c == [b EXCEPT !.len_rows = L]
  <2>1. L \in [Rows -> Nat]
    BY Fields
  <2>2. bitbuffer_add_last_len(b, len) = c
    BY <1>1 DEF bitbuffer_add_last_len
  <2> HIDE DEF L
  <2>3. /\ c \in Bitbuffers /\ c.num_rows = b.num_rows /\ c.free_row = b.free_row
        /\ c.bits_per_row = b.bits_per_row /\ c.len_rows = L
    BY <2>1 DEF Bitbuffers
  <2> HIDE DEF c
  <2> QED
    BY <1>1, <2>2, <2>3 DEF L
<1>2. CASE ~(b.num_rows > 0 /\ b.len_rows[CurrentRow(b)] = 0)
  BY <1>2 DEF bitbuffer_add_last_len
<1> QED
  BY <1>1, <1>2

\* Then the last row counts too.
LEMMA LastLenCounts ==
  ASSUME NEW b, NEW x \in Int, Counts(b, x), b.num_rows > 0, NEW len \in Nat
  PROVE  LET c == bitbuffer_add_last_len(b, len)
         IN  /\ c \in Bitbuffers /\ Zeroed(c) /\ c.num_rows = b.num_rows
             /\ c.bits_per_row = b.bits_per_row
             /\ Unmeasured(c) => len = 0
             /\ NoMoreRows(c) \/ LensOf(c.len_rows) = x + len
<1> DEFINE c == bitbuffer_add_last_len(b, len)
           row == CurrentRow(b)
<1>1. /\ b \in Bitbuffers /\ b.num_rows <= b.free_row
      /\ \A r \in Rows : r >= b.num_rows => b.bits_per_row[r] = 0 /\ b.len_rows[r] = 0
      /\ NoMoreRows(b) \/ (Open(b) /\ LensOf(b.len_rows) = x)
  BY DEF Counts, Zeroed
<1>2. /\ c \in Bitbuffers /\ c.num_rows = b.num_rows /\ c.free_row = b.free_row
      /\ c.bits_per_row = b.bits_per_row
      /\ c.len_rows = IF b.num_rows > 0 /\ b.len_rows[row] = 0
                        THEN [b.len_rows EXCEPT ![row] = len] ELSE b.len_rows
  BY <1>1, AddLastLenIs
<1>3. /\ row \in Rows /\ row \in Nat /\ row = b.num_rows - 1 /\ b.len_rows \in [Rows -> Nat]
      /\ b.num_rows \in Nat /\ Rows \subseteq Nat
  BY <1>1, Fields
<1> HIDE DEF c
<1>4. CurrentRow(c) = row
  BY <1>2 DEF CurrentRow
<1>5. \A r \in Rows : r # row => c.len_rows[r] = b.len_rows[r]
  BY <1>2, <1>3
<1>6. Zeroed(c)
  <2>1. \A r \in Rows : r >= b.num_rows => r # row
    BY <1>3
  <2> QED
    BY <1>1, <1>2, <1>5, <2>1 DEF Zeroed
<1>7. Unmeasured(c) => len = 0
  BY <1>2, <1>3, <1>4 DEF Unmeasured
<1> HIDE DEF row
<1>8. CASE NoMoreRows(b)
  <2>1. NoMoreRows(c)
    BY <1>2, <1>8 DEF NoMoreRows
  <2> QED
    BY <1>2, <1>6, <1>7, <2>1 DEF c
<1>9. CASE ~NoMoreRows(b)
  <2>1. b.len_rows[row] = 0 /\ LensOf(b.len_rows) = x
    BY <1>1, <1>9 DEF Open, row
  <2> DEFINE L == [b.len_rows EXCEPT ![row] = len]
  <2>2. c.len_rows = L
    BY <1>2, <2>1
  <2>3. \A r \in Rows : b.len_rows[r] \in Nat /\ L[r] \in Nat /\ (r # row => L[r] = b.len_rows[r])
    BY <1>3
  <2>4. L[row] = b.len_rows[row] + len
    BY <1>3, <2>1
  <2> HIDE DEF L
  <2>5. LensOf(L) = LensOf(b.len_rows) + len
    BY <1>3, <2>3, <2>4, LensMore
  <2> QED
    BY <1>2, <1>6, <1>7, <2>1, <2>2, <2>5 DEF c
<1> QED
  BY <1>8, <1>9

-----------------------------------------------------------------------------
(* What else is done with a buffer leaves it one.                           *)

LEMMA RowBitsType == RowBits \in Nat \ {0}
<1> DEFINE C == BITBUF_COLS
           Y == BYTE
<1>1. C \in Nat \ {0} /\ Y \in Nat \ {0}
  BY BufferAssumption
<1>2. RowBits = C * Y
  BY DEF RowBits
<1> HIDE DEF C, Y
<1>3. C * Y \in Nat /\ C * Y # 0
  BY <1>1
<1> QED
  BY <1>2, <1>3

LEMMA WidthFits ==
  ASSUME NEW R \in Nat \ {0}, NEW K \in Nat, NEW w \in Nat \ {0}, w <= (K + 1) * R
  PROVE  (w - 1) \div R \in 0 .. K
<1> DEFINE x == (w - 1) \div R
           y == (w - 1) % R
<1>1. w - 1 = R * x + y /\ x \in Nat /\ y \in 0 .. R - 1
  OBVIOUS
<1> HIDE DEF x, y
<1>2. ~(x >= K + 1)
  <2> SUFFICES ASSUME x >= K + 1
               PROVE  FALSE
    OBVIOUS
  <2>1. R * (K + 1) <= R * x
    BY <1>1
  <2> QED
    BY <1>1, <2>1
<1> QED
  BY <1>1, <1>2 DEF x

LEMMA SetWidthIs ==
  ASSUME NEW b \in Bitbuffers, NEW width \in Nat
  PROVE  bitbuffer_set_width(b, width) \in Bitbuffers
<1> DEFINE w == WithRow(b)
           row == CurrentRow(w)
           old == w.bits_per_row[row]
           new == IF width > RemainingBits(w) THEN RemainingBits(w) ELSE width
           cut == {Index(row, j) : j \in new .. BitsToByte(old) - 1}
           F == w.num_rows + (IF new = 0 THEN 0 ELSE (new - 1) \div RowBits)
           P == [w.bits_per_row EXCEPT ![row] = new]
           B == [j \in AllBits |-> IF j \in cut /\ old > new THEN 0 ELSE w.bb[j]]
           c == [w EXCEPT !.bits_per_row = P, !.free_row = F, !.bb = B]
           K == BITBUF_ROWS - w.num_rows
           R == RowBits
<1>1. w \in Bitbuffers /\ w.num_rows > 0
  BY WithRowIs
<1>2. bitbuffer_set_width(b, width) = c
  BY DEF bitbuffer_set_width
<1>3. RemainingBits(w) = (K + 1) * R
  BY DEF RemainingBits
<1> HIDE DEF w
<1>4. /\ w.num_rows \in 0 .. BITBUF_ROWS /\ row \in Rows /\ w.bits_per_row \in [Rows -> Nat]
      /\ w.bb \in [AllBits -> 0 .. 1] /\ BITBUF_ROWS \in Nat /\ K \in Nat
  BY <1>1, Fields
<1>5. R \in Nat \ {0}
  BY RowBitsType
<1>6. F = w.num_rows + (IF new = 0 THEN 0 ELSE (new - 1) \div R)
  OBVIOUS
<1> HIDE DEF F, R
<1>7. new \in Nat /\ new <= (K + 1) * R
  <2> DEFINE M == (K + 1) * R
  <2>1. M \in Nat
    BY <1>4, <1>5
  <2>2. new = IF width > M THEN M ELSE width
    BY <1>3
  <2> HIDE DEF M, new
  <2>3. new \in Nat /\ new <= M
    BY <2>1, <2>2
  <2> QED
    BY <2>3 DEF M
<1> HIDE DEF new, cut
<1>8. F \in 0 .. BITBUF_ROWS
  <2>1. CASE new = 0
    BY <1>4, <1>6, <2>1
  <2>2. CASE new # 0
    <3> DEFINE x == (new - 1) \div R
    <3>1. x \in 0 .. K
      BY <1>4, <1>5, <1>7, <2>2, WidthFits
    <3>2. F = w.num_rows + x
      BY <1>6, <2>2
    <3> HIDE DEF x
    <3> QED
      BY <1>4, <3>1, <3>2
  <2> QED
    BY <2>1, <2>2
<1>9. P \in [Rows -> Nat] /\ B \in [AllBits -> 0 .. 1]
  BY <1>4, <1>7
<1> HIDE DEF P, B
<1>10. c \in Bitbuffers
  BY <1>1, <1>8, <1>9 DEF Bitbuffers
<1> QED
  BY <1>2, <1>10

LEMMA InvertIs ==
  ASSUME NEW b \in Bitbuffers
  PROVE  bitbuffer_invert(b) \in Bitbuffers
<1> DEFINE Owns(r, k) == k - Index(r, 0) \in 0 .. b.bits_per_row[r] - 1
           B == [k \in AllBits |->
             IF \E r \in RowIndexes(b) : Owns(r, k)
               THEN LET r == CHOOSE r \in RowIndexes(b) : Owns(r, k)
                    IN  1 - b.bb[Index(r, k - Index(r, 0))]
               ELSE b.bb[k]]
<1>1. bitbuffer_invert(b) = [b EXCEPT !.bb = B]
  BY DEF bitbuffer_invert, MapBits
<1>2. /\ b.bb \in [AllBits -> 0 .. 1] /\ RowIndexes(b) \subseteq Nat
      /\ AllBits \subseteq Int
  BY Fields DEF RowIndexes, AllBits
<1>3. \A r \in Nat, k \in Int : Index(r, k - Index(r, 0)) = k
  <2> DEFINE R == RowBits
  <2>1. R \in Nat
    BY RowBitsType
  <2>2. \A r \in Nat, k \in Int : Index(r, k - Index(r, 0)) = r * R + (k - (r * R + 0))
    BY DEF Index
  <2> HIDE DEF R
  <2>3. \A r \in Nat, k \in Int : r * R + (k - (r * R + 0)) = k
    BY <2>1
  <2> QED
    BY <2>2, <2>3
<1> HIDE DEF Owns
<1>4. ASSUME NEW k \in AllBits
      PROVE  B[k] \in 0 .. 1
  <2>1. b.bb[k] \in 0 .. 1
    BY <1>2
  <2>2. CASE \E r \in RowIndexes(b) : Owns(r, k)
    <3> DEFINE q == CHOOSE r \in RowIndexes(b) : Owns(r, k)
    <3>1. q \in RowIndexes(b)
      BY <2>2
    <3>2. B[k] = 1 - b.bb[Index(q, k - Index(q, 0))]
      BY <2>2
    <3> HIDE DEF q, B
    <3>3. Index(q, k - Index(q, 0)) = k
      BY <1>2, <1>3, <3>1
    <3>4. B[k] = 1 - b.bb[k]
      BY <3>2, <3>3
    <3> QED
      BY <2>1, <3>4
  <2>3. CASE ~(\E r \in RowIndexes(b) : Owns(r, k))
    BY <2>1, <2>3
  <2> QED
    BY <2>2, <2>3
<1>5. B \in [AllBits -> 0 .. 1]
  BY <1>4
<1> HIDE DEF B
<1>6. [b EXCEPT !.bb = B] \in Bitbuffers
  BY <1>5 DEF Bitbuffers
<1> QED
  BY <1>1, <1>6

LEMMA DecodedIs ==
  ASSUME NEW b \in Bitbuffers, b.num_rows > 0
  PROVE  Decoded(b) \subseteq Bitbuffers
<1>1. DropRow(b) \in Bitbuffers
  <2> DEFINE q == b.num_rows - 1
  <2>1. q \in 0 .. BITBUF_ROWS
    BY Fields
  <2> HIDE DEF q
  <2>2. [b EXCEPT !.num_rows = q] \in Bitbuffers
    BY <2>1 DEF Bitbuffers
  <2> QED
    BY <2>2 DEF DropRow, q
<1> HIDE DEF DropRow
<1> QED
  BY <1>1, InvertIs DEF Decoded

-----------------------------------------------------------------------------
(* What the slicers do with the buffer and the length of the row.           *)

Buffers == [bits : Bitbuffers, l : Nat]

LEMMA LongerIs ==
  ASSUME NEW s \in Buffers, NEW width \in Nat
  PROVE  /\ Longer(s, width) \in Buffers /\ Longer(s, width).bits = s.bits
         /\ Longer(s, width).l = s.l + width
BY DEF Longer, Buffers

\* Bits that are added one by one keep the buffer in a set that one bit keeps it in.
LEMMA AddIn ==
  ASSUME NEW s \in Buffers, NEW P, s.bits \in P, NEW bit, NEW count \in Int,
         \A b \in P : bitbuffer_add_bit(b, bit) \in P
  PROVE  Add(s, bit, count).bits \in P /\ Add(s, bit, count).l = s.l
<1>1. CASE count <= 0
  BY <1>1 DEF Add
<1>2. CASE ~(count <= 0)
  <2> DEFINE S == [k \in 0 .. count |-> P]
             F == [k \in 1 .. count |-> [b \in P |-> bitbuffer_add_bit(b, bit)]]
             Is(g) == g = [k \in 0 .. count |->
                             IF k = 0 THEN s.bits ELSE bitbuffer_add_bit(g[k - 1], bit)]
             added == CHOOSE g : Is(g)
  <2>1. count \in Nat
    BY <1>2
  <2>2. \A k \in 1 .. count : k - 1 \in 0 .. count /\ k \in 0 .. count
    BY <2>1
  <2>3. \A k \in 0 .. count : S[k] = P
    OBVIOUS
  <2>4. \A k \in 1 .. count : \A b \in P : F[k][b] = bitbuffer_add_bit(b, bit)
    OBVIOUS
  <2> HIDE DEF S, F
  <2>5. s.bits \in S[0]
    BY <2>1, <2>3
  <2>6. \A k \in 1 .. count : \A b \in S[k - 1] : F[k][b] \in S[k]
    BY <2>2, <2>3, <2>4
  <2>7. PICK g : Recurs(g, s.bits, F, count) /\ \A k \in 0 .. count : g[k] \in S[k]
    BY <2>1, <2>5, <2>6, Iterates
  <2>8. Is(g)
    <3>1. g = [k \in 0 .. count |-> IF k = 0 THEN s.bits ELSE F[k][g[k - 1]]]
      BY <2>7 DEF Recurs
    <3>2. \A k \in 0 .. count : k # 0 => k \in 1 .. count
      BY <2>1
    <3>3. \A k \in 0 .. count : k # 0 => F[k][g[k - 1]] = bitbuffer_add_bit(g[k - 1], bit)
      BY <2>2, <2>3, <2>4, <2>7, <3>2
    <3>4. \A k \in 0 .. count :
            (IF k = 0 THEN s.bits ELSE F[k][g[k - 1]])
              = (IF k = 0 THEN s.bits ELSE bitbuffer_add_bit(g[k - 1], bit))
      BY <3>3
    <3> QED
      BY <3>1, <3>4, Zenon
  <2>9. Is(added)
    BY <2>8
  <2>10. Add(s, bit, count) = [s EXCEPT !.bits = added[count]]
    BY <1>2 DEF Add
  <2> HIDE DEF added
  <2>11. added[0] = s.bits
         /\ \A k \in 1 .. count : added[k] = bitbuffer_add_bit(added[k - 1], bit)
    <3>1. \A k \in 0 .. count : added[k] = IF k = 0 THEN s.bits ELSE bitbuffer_add_bit(added[k - 1], bit)
      BY <2>9, Zenon
    <3>2. 0 \in 0 .. count /\ \A k \in 1 .. count : k # 0
      BY <2>1
    <3> HIDE DEF Is
    <3> QED
      BY <2>2, <3>1, <3>2
  <2> DEFINE T == {k \in 0 .. count : added[k] \in P}
  <2>12. 0 \in T
    BY <2>1, <2>11
  <2>13. ASSUME NEW k \in Nat, k < count, k \in T
         PROVE  k + 1 \in T
    <3>1. k + 1 \in 1 .. count /\ (k + 1) - 1 = k /\ k + 1 \in 0 .. count
      BY <2>1, <2>13
    <3>2. added[k + 1] = bitbuffer_add_bit(added[k], bit)
      BY <2>11, <3>1
    <3> QED
      BY <2>13, <3>1, <3>2
  <2> HIDE DEF T
  <2>14. \A k \in 0 .. count : k \in T
    BY <2>1, <2>12, <2>13, UpTo
  <2>15. count \in T
    BY <2>1, <2>14
  <2>16. added[count] \in P
    BY <2>15 DEF T
  <2> QED
    BY <2>10, <2>16 DEF Buffers
<1> QED
  BY <1>1, <1>2

LEMMA AddIs ==
  ASSUME NEW s \in Buffers, NEW bit, NEW count \in Int
  PROVE  Add(s, bit, count) \in Buffers /\ Add(s, bit, count).l = s.l
<1>1. \A b \in Bitbuffers : bitbuffer_add_bit(b, bit) \in Bitbuffers
  BY AddBitIs
<1>2. s.bits \in Bitbuffers
  BY DEF Buffers
<1>3. Add(s, bit, count).bits \in Bitbuffers /\ Add(s, bit, count).l = s.l
  BY <1>1, <1>2, AddIn
<1>4. \E B : Add(s, bit, count) = [s EXCEPT !.bits = B]
  <2>1. s = [s EXCEPT !.bits = s.bits]
    BY DEF Buffers
  <2> QED
    BY <2>1, Zenon DEF Add
<1>5. PICK B : Add(s, bit, count) = [s EXCEPT !.bits = B]
  BY <1>4
<1> QED
  BY <1>3, <1>5 DEF Buffers

LEMMA EndRowIs ==
  ASSUME NEW s \in Buffers
  PROVE  EndRow(s) \in Buffers /\ HasRow(EndRow(s))
<1> DEFINE c == bitbuffer_add_row(s.bits, s.l)
<1>1. s.bits \in Bitbuffers /\ s.l \in Nat
  BY DEF Buffers
<1>2. c \in Bitbuffers /\ c.num_rows > 0
  BY <1>1, AddRowIs
<1>3. EndRow(s) = [bits |-> c, l |-> 0]
  BY DEF EndRow
<1> HIDE DEF c
<1> QED
  BY <1>2, <1>3 DEF Buffers, HasRow

LEMMA SyncIs ==
  ASSUME NEW s \in Buffers
  PROVE  Sync(s) \in Buffers
<1> DEFINE c == bitbuffer_add_sync(s.bits, s.l)
<1>1. s.bits \in Bitbuffers /\ s.l \in Nat
  BY DEF Buffers
<1>2. c \in Bitbuffers
  BY <1>1, AddSyncIs
<1>3. Sync(s) = [bits |-> c, l |-> IF SyncEndsRow(s.bits) THEN 0 ELSE s.l]
  BY DEF Sync
<1> HIDE DEF c
<1> QED
  BY <1>1, <1>2, <1>3 DEF Buffers

LEMMA LastLenIs ==
  ASSUME NEW s \in Buffers
  PROVE  /\ LastLen(s) \in Buffers /\ LastLen(s).l = s.l
         /\ LastLen(s).bits = bitbuffer_add_last_len(s.bits, s.l)
         /\ HasRow(s) => HasRow(LastLen(s))
<1> DEFINE c == bitbuffer_add_last_len(s.bits, s.l)
<1>1. s.bits \in Bitbuffers /\ s.l \in Nat
  BY DEF Buffers
<1>2. c \in Bitbuffers /\ c.num_rows = s.bits.num_rows
  BY <1>1, AddLastLenIs
<1>3. LastLen(s) = [s EXCEPT !.bits = c]
  BY DEF LastLen
<1> HIDE DEF c
<1>4. LastLen(s) \in Buffers /\ LastLen(s).l = s.l /\ LastLen(s).bits = c
  BY <1>1, <1>2, <1>3 DEF Buffers
<1> QED
  BY <1>2, <1>4 DEF HasRow, c

-----------------------------------------------------------------------------
(* The rows of the buffer and the length of the one that is filled are x    *)
(* samples long.                                                            *)

Counted(s, x) == s \in Buffers /\ Counts(s.bits, x - s.l)

LEMMA LongerCounted ==
  ASSUME NEW s, NEW x \in Int, Counted(s, x), NEW width \in Nat
  PROVE  Counted(Longer(s, width), x + width) /\ (width > 0 => Longer(s, width).l > 0)
<1>1. s \in Buffers /\ Counts(s.bits, x - s.l) /\ s.l \in Nat
  BY DEF Counted, Buffers
<1> DEFINE t == Longer(s, width)
<1>2. t \in Buffers /\ t.bits = s.bits /\ t.l = s.l + width
  BY <1>1, LongerIs
<1> HIDE DEF t
<1>3. (x + width) - t.l = x - s.l
  BY <1>1, <1>2
<1>4. width > 0 => t.l > 0
  BY <1>1, <1>2
<1> QED
  BY <1>1, <1>2, <1>3, <1>4 DEF Counted, t

LEMMA AddCounted ==
  ASSUME NEW s, NEW x, Counted(s, x), NEW bit, NEW count \in Int
  PROVE  Counted(Add(s, bit, count), x) /\ Add(s, bit, count).l = s.l
<1> DEFINE P == {b \in Bitbuffers : Counts(b, x - s.l)}
           t == Add(s, bit, count)
<1>1. s \in Buffers /\ Counts(s.bits, x - s.l) /\ s.bits \in Bitbuffers
  BY DEF Counted, Buffers
<1>2. \A b \in P : bitbuffer_add_bit(b, bit) \in P
  BY AddBitIs, AddBitCounts
<1>3. s.bits \in P
  BY <1>1
<1> HIDE DEF P
<1>4. t.bits \in P /\ t \in Buffers /\ t.l = s.l
  BY <1>1, <1>2, <1>3, AddIn, AddIs
<1> HIDE DEF t
<1> QED
  BY <1>4 DEF Counted, P, t

\* The row that is filled holds at most k bits.
Holds(s, k) == s.bits.bits_per_row[CurrentRow(s.bits)] <= k

LEMMA EndRowCounted ==
  ASSUME NEW s, NEW x \in Int, Counted(s, x)
  PROVE  Counted(EndRow(s), x) /\ HasRow(EndRow(s)) /\ Holds(EndRow(s), 0)
<1> DEFINE c == bitbuffer_add_row(s.bits, s.l)
           y == x - s.l
           t == EndRow(s)
<1>1. s \in Buffers /\ Counts(s.bits, y) /\ s.l \in Nat /\ y \in Int /\ y + s.l = x - 0
  BY DEF Counted, Buffers
<1>2. t \in Buffers /\ t.bits = c /\ t.l = 0
  BY <1>1, EndRowIs DEF EndRow
<1> HIDE DEF t, y
<1>3. Counts(c, y + s.l) /\ c.num_rows > 0 /\ c.bits_per_row[CurrentRow(c)] = 0
  BY <1>1, AddRowCounts
<1> HIDE DEF c
<1>4. Counts(t.bits, x - t.l)
  BY <1>1, <1>2, <1>3
<1> QED
  BY <1>2, <1>3, <1>4 DEF Counted, HasRow, Holds, t

LEMMA SyncCounted ==
  ASSUME NEW s, NEW x \in Int, Counted(s, x)
  PROVE  Counted(Sync(s), x) /\ HasRow(Sync(s)) /\ Holds(Sync(s), 0)
<1> DEFINE c == bitbuffer_add_sync(s.bits, s.l)
           y == x - s.l
           t == Sync(s)
<1>1. s \in Buffers /\ Counts(s.bits, y) /\ s.l \in Nat /\ y \in Int /\ y + s.l = x - 0
  BY DEF Counted, Buffers
<1>2. t \in Buffers /\ t.bits = c /\ t.l = IF SyncEndsRow(s.bits) THEN 0 ELSE s.l
  BY <1>1, SyncIs DEF Sync
<1> HIDE DEF t
<1>3. /\ Counts(c, IF SyncEndsRow(s.bits) THEN y + s.l ELSE y) /\ c.num_rows > 0
      /\ c.bits_per_row[CurrentRow(c)] = 0
  <2> HIDE DEF y
  <2> QED
    BY <1>1, AddSyncCounts
<1> HIDE DEF c
<1>4. (IF SyncEndsRow(s.bits) THEN y + s.l ELSE y) = x - t.l
  BY <1>1, <1>2
<1> HIDE DEF y
<1>5. Counts(t.bits, x - t.l)
  BY <1>2, <1>3, <1>4
<1> QED
  BY <1>2, <1>3, <1>5 DEF Counted, HasRow, Holds, t

\* One bit behind an empty row makes a row of at most one.
LEMMA AddOnce ==
  ASSUME NEW s \in Buffers, HasRow(s), NEW k \in Nat, Holds(s, k), NEW bit
  PROVE  HasRow(Add(s, bit, 1)) /\ Holds(Add(s, bit, 1), k + 1)
<1> DEFINE b == s.bits
           P == {s.bits, bitbuffer_add_bit(s.bits, bit)}
           c == bitbuffer_add_bit(b, bit)
           Is(g) == g = [i \in 0 .. 1 |-> IF i = 0 THEN b ELSE bitbuffer_add_bit(g[i - 1], bit)]
           added == CHOOSE g : Is(g)
<1>1. b \in Bitbuffers /\ b.num_rows > 0 /\ b.bits_per_row[CurrentRow(b)] <= k
  BY DEF Buffers, HasRow, Holds
<1>2. /\ c \in Bitbuffers /\ c.num_rows = b.num_rows
      /\ c.bits_per_row[CurrentRow(b)] <= b.bits_per_row[CurrentRow(b)] + 1
  <2>1. WithRow(b) = b
    BY <1>1, WithRowIs
  <2> QED
    BY <1>1, <2>1, AddBitIs
<1>3. Add(s, bit, 1).bits = c
  <2> DEFINE g == [i \in 0 .. 1 |-> IF i = 0 THEN b ELSE c]
  <2>1. Is(g)
    <3>1. g[0] = b
      OBVIOUS
    <3>2. \A i \in 0 .. 1 : i # 0 => i - 1 = 0
      OBVIOUS
    <3> QED
      BY <3>1, <3>2
  <2>2. Is(added)
    BY <2>1
  <2>3. Add(s, bit, 1) = [s EXCEPT !.bits = added[1]]
    BY DEF Add
  <2> HIDE DEF added, c
  <2>4. added[0] = b /\ added[1] = bitbuffer_add_bit(added[0], bit)
    BY <2>2
  <2> QED
    BY <2>3, <2>4 DEF Buffers, c
<1>4. b.bits_per_row[CurrentRow(b)] \in Nat /\ CurrentRow(c) = CurrentRow(b)
      /\ c.bits_per_row[CurrentRow(b)] \in Nat
  <2>1. CurrentRow(c) = CurrentRow(b)
    BY <1>2 DEF CurrentRow
  <2>2. CurrentRow(b) \in Rows /\ b.bits_per_row \in [Rows -> Nat] /\ c.bits_per_row \in [Rows -> Nat]
    BY <1>1, <1>2, Fields
  <2> QED
    BY <2>1, <2>2
<1> HIDE DEF b, c
<1>5. c.bits_per_row[CurrentRow(c)] <= k + 1
  BY <1>1, <1>2, <1>4
<1> QED
  BY <1>1, <1>2, <1>3, <1>5 DEF HasRow, Holds

-----------------------------------------------------------------------------
(* Events.                                                                  *)

\* The rows of an event are as long as all rows are: the one taken back has no length.
LEMMA EventLength ==
  ASSUME NEW b \in Bitbuffers, Zeroed(b), b.num_rows > 0
  PROVE  LengthOf(Event(b)) = LensOf(b.len_rows)
<1> DEFINE q == DropRow(b).num_rows
           e == Event(b)
           U == [r \in 1 .. q |-> b.len_rows[r - 1]]
           V == [r \in 1 .. BITBUF_ROWS |-> b.len_rows[r - 1]]
<1>1. /\ b.num_rows \in Nat /\ b.num_rows <= BITBUF_ROWS /\ BITBUF_ROWS \in Nat
      /\ CurrentRow(b) = b.num_rows - 1 /\ Rows = 0 .. BITBUF_ROWS - 1
      /\ b.len_rows \in [Rows -> Nat]
  BY Fields
<1>2. q = IF Unmeasured(b) THEN b.num_rows - 1 ELSE b.num_rows
  BY DEF DropRow, Bitbuffers
<1>3. q \in Nat /\ q <= BITBUF_ROWS
  BY <1>1, <1>2
<1>4. e.rows = [r \in 1 .. q |-> [bits |-> RowBitsOf(b, r - 1), len |-> b.len_rows[r - 1]]]
  BY DEF Event
<1> HIDE DEF q, e
<1>5. DOMAIN e.rows = 1 .. q /\ Len(e.rows) = q /\ \A r \in 1 .. q : e.rows[r].len = b.len_rows[r - 1]
  <2> DEFINE G(r) == [bits |-> RowBitsOf(b, r - 1), len |-> b.len_rows[r - 1]]
             R == e.rows
             S == {G(r) : r \in 1 .. q}
  <2>1. R = [r \in 1 .. q |-> G(r)]
    BY <1>4
  <2>2. \A r \in 1 .. q : G(r).len = b.len_rows[r - 1] /\ G(r) \in S
    OBVIOUS
  <2> HIDE DEF G, R, S
  <2>3. DOMAIN R = 1 .. q /\ \A r \in 1 .. q : R[r] = G(r)
    BY <2>1
  <2>4. R \in Seq(S)
    BY <1>3, <2>1, <2>2
  <2>5. Len(R) = q
    BY <1>3, <2>3, <2>4
  <2> QED
    BY <2>2, <2>3, <2>5 DEF R
<1>6. LengthOf(e) = SumUpTo(U, q)
  <2>1. [r \in DOMAIN e.rows |-> e.rows[r].len] = U
    BY <1>5
  <2> QED
    BY <1>5, <2>1, Zenon DEF LengthOf
<1>7. ASSUME NEW r \in Rows, r >= q
      PROVE  b.len_rows[r] = 0
  <2>1. CASE r >= b.num_rows
    BY <2>1 DEF Zeroed
  <2>2. CASE ~(r >= b.num_rows)
    <3>1. Unmeasured(b) /\ r = b.num_rows - 1
      BY <1>1, <1>2, <1>7, <2>2
    <3> QED
      BY <1>1, <3>1 DEF Unmeasured
  <2> QED
    BY <2>1, <2>2
<1>8. \A r \in 1 .. BITBUF_ROWS : r - 1 \in Rows /\ V[r] = b.len_rows[r - 1]
  BY <1>1
<1>9. \A r \in 1 .. BITBUF_ROWS : V[r] \in Nat
  BY <1>1, <1>8
<1>10. \A r \in 1 .. q : U[r] = V[r]
  <2>1. \A r \in 1 .. q : r \in 1 .. BITBUF_ROWS
    BY <1>1, <1>3
  <2> QED
    BY <1>8, <2>1
<1>11. \A r \in q + 1 .. BITBUF_ROWS : V[r] = 0
  <2>1. \A r \in q + 1 .. BITBUF_ROWS : r \in 1 .. BITBUF_ROWS /\ r - 1 >= q
    BY <1>1, <1>3
  <2> QED
    BY <1>7, <1>8, <2>1
<1> HIDE DEF U, V
<1>12. SumUpTo(U, q) = SumUpTo(V, BITBUF_ROWS)
  <2>1. q \in Nat /\ BITBUF_ROWS \in Nat /\ q <= BITBUF_ROWS
    BY <1>1, <1>3
  <2> QED
    BY <1>9, <1>10, <1>11, <2>1, SumZeros
<1> QED
  BY <1>6, <1>12 DEF LensOf, V, e

LEMMA EventDropped ==
  ASSUME NEW b \in Bitbuffers, NEW k \in Nat, Unmeasured(b) => b.bits_per_row[CurrentRow(b)] <= k
  PROVE  Event(b).dropped <= k
BY DEF Event

\* The end of a message that was counted.
LEMMA MessageCounted ==
  ASSUME NEW s, NEW x \in Int, Counted(s, x), HasRow(s), NEW k \in Nat, s.l > 0 \/ Holds(s, k)
  PROVE  LET e == Event(LastLen(s).bits)
         IN  /\ HasRow(LastLen(s)) /\ LastLen(s).l = s.l
             /\ e.dropped <= k /\ (e.full \/ LengthOf(e) = x) /\ e.last = n
<1> DEFINE c == bitbuffer_add_last_len(s.bits, s.l)
           y == x - s.l
           e == Event(c)
<1>1. s \in Buffers /\ Counts(s.bits, y) /\ s.l \in Nat /\ y \in Int /\ y + s.l = x
      /\ s.bits.num_rows > 0
  BY DEF Counted, Buffers, HasRow
<1>2. LastLen(s).bits = c /\ LastLen(s).l = s.l /\ HasRow(LastLen(s))
  BY <1>1, LastLenIs
<1> HIDE DEF y
<1>3. /\ c \in Bitbuffers /\ Zeroed(c) /\ c.num_rows = s.bits.num_rows
      /\ c.bits_per_row = s.bits.bits_per_row
      /\ Unmeasured(c) => s.l = 0
      /\ NoMoreRows(c) \/ LensOf(c.len_rows) = y + s.l
  BY <1>1, LastLenCounts
<1>4. e.full = NoMoreRows(c) /\ e.last = n
  BY DEF Event
<1> HIDE DEF c
<1>5. Unmeasured(c) => c.bits_per_row[CurrentRow(c)] <= k
  BY <1>1, <1>3 DEF Holds, CurrentRow
<1>6. e.dropped <= k
  BY <1>3, <1>5, EventDropped
<1>7. LengthOf(e) = LensOf(c.len_rows)
  BY <1>1, <1>3, EventLength
<1> HIDE DEF e
<1>8. e.full \/ LengthOf(e) = x
  BY <1>1, <1>3, <1>4, <1>7
<1> QED
  BY <1>2, <1>4, <1>6, <1>8 DEF e

LEMMA CountedHasRow ==
  ASSUME NEW s, NEW x, Counted(s, x), Accumulated(s)
  PROVE  HasRow(s)
<1>1. s.bits \in Bitbuffers /\ Zeroed(s.bits)
  BY DEF Counted, Counts
<1>2. /\ s.bits.num_rows \in 0 .. BITBUF_ROWS /\ BITBUF_ROWS \in Nat \ {0}
      /\ Rows = 0 .. BITBUF_ROWS - 1
  BY <1>1, Fields
<1>3. 0 \in Rows
  BY <1>2
<1> SUFFICES ASSUME s.bits.num_rows = 0
             PROVE  FALSE
  BY <1>2 DEF HasRow
<1>4. s.bits.bits_per_row[0] = 0
  BY <1>1, <1>3 DEF Zeroed
<1> QED
  BY <1>4 DEF Accumulated

-----------------------------------------------------------------------------
(* Devices and trains.                                                      *)

Messages == {"PCM", "PPM", "PWM", "MC", "OSV1"}
Measures == {"PPM", "PWM", "MC"}

RateType  == [bits : Nat, samples : Nat \ {0}]
RatesType == [f_short : RateType, f_long : RateType]

TrainTyped == train \in Seq(IF device.modulation = "STRING" THEN Codes ELSE Pulses)

LEMMA SamplesType ==
  ASSUME NEW w \in Nat
  PROVE  Samples(w) \in Nat
<1> DEFINE p == w * SamplesPerMs
<1>1. SamplesPerMs \in Nat
  BY SlicerAssumption
<1>2. p \in Nat
  BY <1>1
<1>3. Samples(w) = p \div 1000
  BY DEF Samples
<1> HIDE DEF p
<1> QED
  BY <1>2, <1>3

LEMMA DeviceWidths ==
  ASSUME device \in Devices
  PROVE  /\ s_short \in Nat /\ s_long \in Nat /\ s_reset \in Nat /\ s_gap \in Nat
         /\ s_sync \in Nat /\ s_tolerance \in Nat
         /\ ~RateTooLow(device) => s_short > 0
         /\ ~RateTooLow(device) /\ device.modulation = "PCM" => s_long > 0
<1>1. device \in DeviceType /\ (device.modulation = "PCM" => device.long_width > 0)
  BY SlicerAssumption
<1>2. /\ device.short_width \in Nat \ {0} /\ device.long_width \in Nat /\ device.gap_limit \in Nat
      /\ device.reset_limit \in Nat /\ device.sync_width \in Nat /\ device.tolerance \in Nat
  BY <1>1 DEF DeviceType
<1>3. /\ s_short \in Nat /\ s_long \in Nat /\ s_reset \in Nat /\ s_gap \in Nat
      /\ s_sync \in Nat /\ s_tolerance \in Nat
  BY <1>2, SamplesType DEF s_short, s_long, s_reset, s_gap, s_sync, s_tolerance
<1>4. ~RateTooLow(device) => s_short # 0 /\ (device.long_width > 0 => s_long # 0)
  BY <1>2 DEF RateTooLow, s_short, s_long
<1> QED
  BY <1>1, <1>3, <1>4

LEMMA PulsesAre ==
  ASSUME TrainTyped, device.modulation # "STRING"
  PROVE  /\ num_pulses \in Nat
         /\ \A k \in Nat : k < num_pulses =>
              Pulse(k) \in Nat /\ Gap(k) \in Nat /\ Pulse(k) + Gap(k) > 0
<1>1. train \in Seq(Pulses) /\ num_pulses = Len(train)
  BY DEF TrainTyped, num_pulses
<1>2. num_pulses \in Nat
  BY <1>1
<1>3. ASSUME NEW k \in Nat, k < num_pulses
      PROVE  Pulse(k) \in Nat /\ Gap(k) \in Nat /\ Pulse(k) + Gap(k) > 0
  <2>1. k + 1 \in 1 .. Len(train)
    BY <1>1, <1>2, <1>3
  <2>2. train[k + 1] \in Pulses
    BY <1>1, <2>1
  <2>3. Pulse(k) = train[k + 1].pulse /\ Gap(k) = train[k + 1].gap
    BY DEF Pulse, Gap
  <2> QED
    BY <2>2, <2>3 DEF Pulses
<1> QED
  BY <1>2, <1>3

LEMMA SymbolType ==
  ASSUME TrainTyped, device.modulation # "STRING", NEW k \in Nat, k < num_symbols
  PROVE  Symbol(k) \in Nat
<1>1. num_pulses \in Nat
  BY PulsesAre
<1>2. k \div 2 \in Nat /\ k \div 2 < num_pulses
  BY <1>1 DEF num_symbols
<1> QED
  BY <1>2, PulsesAre DEF Symbol

LEMMA SamplesNext ==
  ASSUME TrainTyped, device.modulation # "STRING", NEW k \in Nat, k < num_pulses
  PROVE  /\ SamplesUpTo(k) \in Nat
         /\ SamplesUpTo(k + 1) = SamplesUpTo(k) + (Pulse(k) + Gap(k))
<1> DEFINE U == [j \in 1 .. k |-> Pulse(j - 1) + Gap(j - 1)]
           V == [j \in 1 .. k + 1 |-> Pulse(j - 1) + Gap(j - 1)]
<1>1. \A j \in 1 .. k + 1 : Pulse(j - 1) + Gap(j - 1) \in Nat
  <2>1. \A j \in 1 .. k + 1 : j - 1 \in Nat /\ j - 1 < num_pulses
    BY PulsesAre
  <2>2. \A i \in Nat : i < num_pulses => Pulse(i) + Gap(i) \in Nat
    BY PulsesAre
  <2> QED
    BY <2>1, <2>2
<1>2. \A j \in 1 .. k + 1 : V[j] = Pulse(j - 1) + Gap(j - 1)
  OBVIOUS
<1>3. \A j \in 1 .. k : U[j] = V[j] /\ j \in 1 .. k + 1
  OBVIOUS
<1>4. k + 1 \in 1 .. k + 1 /\ (k + 1) - 1 = k
  OBVIOUS
<1>5. SamplesUpTo(k) = SumUpTo(U, k) /\ SamplesUpTo(k + 1) = SumUpTo(V, k + 1)
  BY DEF SamplesUpTo
<1>6. V[k + 1] = Pulse(k) + Gap(k)
  <2> HIDE DEF V
  <2> QED
    BY <1>2, <1>4
<1> HIDE DEF U, V
<1>7. \A j \in 1 .. k + 1 : V[j] \in Nat
  BY <1>1, <1>2
<1>8. \A j \in 1 .. k : U[j] \in Nat
  BY <1>3, <1>7
<1>9. SumUpTo(V, k + 1) = SumUpTo(U, k) + V[k + 1]
  BY <1>3, <1>7, SumNext
<1>10. SumUpTo(U, k) \in Nat
  BY <1>8, SumType
<1> QED
  BY <1>5, <1>6, <1>9, <1>10

-----------------------------------------------------------------------------
(* The invariant.                                                           *)

\* RowsKept, and that the events are a sequence.
EventsOK ==
  /\ ~undefined
  /\ \E S : events \in Seq(S)
  /\ \A i \in DOMAIN events :
       events[i].dropped <= (IF device.modulation = "MC" THEN 1 ELSE 0)

\* The rows in the buffer are counted; as long as no message has ended they are as long
\* as the pulses so far, when there is a slicer that looks at them.
Counting ==
  /\ \E x \in Int : Counted(Buffer, x)
  /\ device.modulation \in Measures /\ ~RateTooLow(device) =>
       IF events = <<>> THEN Counted(Buffer, SamplesUpTo(n))
         ELSE events[1].full \/ LengthOf(events[1]) = SamplesUpTo(events[1].last + 1)

IInv ==
  /\ TypeOK /\ TrainTyped /\ rate \in RatesType
  /\ device.modulation # "STRING" /\ RateTooLow(device) => n = End
  /\ device.modulation \in Messages => EventsOK /\ Counting

\* What one pulse adds to the sum of the samples.
Spent == Pulse(n) + Gap(n)

LEMMA SamplesAfter ==
  ASSUME TrainTyped, device.modulation # "STRING", n \in Nat, n < num_pulses,
         UNCHANGED given, n' = n + 1
  PROVE  SamplesUpTo(n)' = SamplesUpTo(n) + Spent
<1>1. train' = train
  BY DEF given
<1>2. SamplesUpTo(n)' = SamplesUpTo(n + 1)
  BY <1>1 DEF SamplesUpTo, Pulse, Gap, num_pulses
<1> QED
  BY <1>2, SamplesNext DEF Spent

LEMMA FirstKept ==
  ASSUME UNCHANGED given, events'[1] = events[1],
         events[1].full \/ LengthOf(events[1]) = SamplesUpTo(events[1].last + 1)
  PROVE  (events[1].full \/ LengthOf(events[1]) = SamplesUpTo(events[1].last + 1))'
<1>1. train' = train
  BY DEF given
<1>2. SamplesUpTo(events[1].last + 1)' = SamplesUpTo(events[1].last + 1)
  BY <1>1 DEF SamplesUpTo, Pulse, Gap, num_pulses
<1> QED
  BY <1>2

\* The buffer is counted before a step.
LEMMA CountNow ==
  ASSUME TrainTyped, n \in Nat, n < num_pulses, device.modulation \in Messages,
         ~RateTooLow(device), Counting
  PROVE  \E x \in Int : /\ Counted(Buffer, x)
                        /\ device.modulation \in Measures /\ events = <<>> => x = SamplesUpTo(n)
<1>1. CASE device.modulation \in Measures /\ events = <<>>
  <2>1. SamplesUpTo(n) \in Nat
    BY SamplesNext DEF Messages
  <2> QED
    BY <1>1, <2>1 DEF Counting
<1>2. CASE ~(device.modulation \in Measures /\ events = <<>>)
  BY <1>2 DEF Counting
<1> QED
  BY <1>1, <1>2

LEMMA GoesOn ==
  ASSUME TrainTyped, n \in Nat, device.modulation \in Messages, EventsOK, Counting,
         UNCHANGED given, device.modulation \in Measures => n' = n + 1 /\ n < num_pulses,
         NEW s, Continue(s), NEW y \in Int, Counted(s, y),
         device.modulation \in Measures /\ events = <<>> => y = SamplesUpTo(n) + Spent
  PROVE  EventsOK' /\ Counting' /\ bits' \in Bitbuffers /\ l' \in Nat
<1>1. /\ bits' = s.bits /\ l' = s.l /\ events' = events /\ undefined' = undefined
      /\ device' = device
  BY DEF Continue, given
<1>2. s \in Buffers /\ Counts(s.bits, y - s.l)
  BY DEF Counted
<1>3. Buffer' = s
  BY <1>1, <1>2 DEF Buffer, Buffers
<1>4. EventsOK'
  BY <1>1 DEF EventsOK
<1>5. bits' \in Bitbuffers /\ l' \in Nat
  BY <1>1, <1>2 DEF Buffers
<1>6. Counted(Buffer', y)
  BY <1>3
<1>7. ASSUME device.modulation \in Measures, events = <<>>
      PROVE  Counted(Buffer', SamplesUpTo(n)')
  <2>1. device.modulation # "STRING" /\ n' = n + 1 /\ n < num_pulses
    BY <1>7 DEF Measures
  <2>2. SamplesUpTo(n)' = y
    BY <1>7, <2>1, SamplesAfter
  <2> QED
    BY <1>6, <2>2
<1>8. ASSUME device.modulation \in Measures, ~RateTooLow(device), events # <<>>
      PROVE  (events[1].full \/ LengthOf(events[1]) = SamplesUpTo(events[1].last + 1))'
  BY <1>1, <1>8, FirstKept DEF Counting
<1>9. Counting'
  <2>1. (\E x \in Int : Counted(Buffer, x))'
    BY <1>6 DEF Counted, Counts
  <2> QED
    BY <1>1, <1>7, <1>8, <2>1 DEF Counting
<1> QED
  BY <1>4, <1>5, <1>9

LEMMA MessageEnds ==
  ASSUME TrainTyped, n \in Nat, n < num_pulses, device.modulation \in Messages, EventsOK,
         Counting, UNCHANGED given,
         NEW e, events' = Append(events, e), undefined' = FALSE,
         e.dropped <= (IF device.modulation = "MC" THEN 1 ELSE 0),
         device.modulation \in Measures /\ events = <<>>
           => e.last = n /\ (e.full \/ LengthOf(e) = SamplesUpTo(n) + Spent),
         NEW y \in Int, NEW t, bits' = t.bits, l' = t.l, Counted(t, y)
  PROVE  EventsOK' /\ Counting' /\ bits' \in Bitbuffers /\ l' \in Nat
<1>1. device' = device /\ train' = train
  BY DEF given
<1>2. t \in Buffers /\ Counts(t.bits, y - t.l)
  BY DEF Counted
<1>3. Buffer' = t
  BY <1>2 DEF Buffer, Buffers
<1>4. PICK S : events \in Seq(S)
  BY DEF EventsOK
<1> DEFINE Z == S \cup {e}
           d == IF device.modulation = "MC" THEN 1 ELSE 0
<1>5. events \in Seq(Z) /\ e \in Z
  BY <1>4
<1> HIDE DEF Z
<1>6. /\ events' \in Seq(Z) /\ Len(events) \in Nat
      /\ DOMAIN events' = 1 .. Len(events) + 1 /\ DOMAIN events = 1 .. Len(events)
      /\ \A i \in 1 .. Len(events) : events'[i] = events[i]
      /\ events'[Len(events) + 1] = e
  BY <1>5
<1>7. \A i \in DOMAIN events : events[i].dropped <= d
  BY DEF EventsOK
<1>8. \A i \in DOMAIN events' : events'[i].dropped <= d
  <2>1. \A i \in DOMAIN events' : i \in DOMAIN events \/ i = Len(events) + 1
    BY <1>6
  <2>2. e.dropped <= d
    OBVIOUS
  <2> HIDE DEF d
  <2> QED
    BY <1>6, <1>7, <2>1, <2>2
<1>9. EventsOK'
  BY <1>1, <1>6, <1>8 DEF EventsOK
<1>10. bits' \in Bitbuffers /\ l' \in Nat
  BY <1>2 DEF Buffers
<1>11. Counted(Buffer', y)
  BY <1>2, <1>3 DEF Counted
<1>12. events' # <<>>
  BY <1>6
<1>13. ASSUME device.modulation \in Measures, ~RateTooLow(device)
       PROVE  (events[1].full \/ LengthOf(events[1]) = SamplesUpTo(events[1].last + 1))'
  <2>1. CASE events = <<>>
    <3>1. events'[1] = e
      BY <1>6, <2>1
    <3>2. e.last = n /\ (e.full \/ LengthOf(e) = SamplesUpTo(n) + Spent)
      BY <1>13, <2>1
    <3>3. SamplesUpTo(n + 1) = SamplesUpTo(n) + Spent
      BY <1>13, SamplesNext DEF Measures, Spent
    <3>4. SamplesUpTo(events[1].last + 1)' = SamplesUpTo(n + 1)
      BY <1>1, <3>1, <3>2 DEF SamplesUpTo, Pulse, Gap, num_pulses
    <3> QED
      BY <3>1, <3>2, <3>3, <3>4
  <2>2. CASE events # <<>>
    <3>1. events'[1] = events[1]
      BY <1>5, <1>6, <2>2
    <3> QED
      BY <1>13, <2>2, <3>1, FirstKept DEF Counting
  <2> QED
    BY <2>1, <2>2
<1>14. Counting'
  <2>1. (\E x \in Int : Counted(Buffer, x))'
    BY <1>11 DEF Counted, Counts
  <2> QED
    BY <1>1, <1>12, <1>13, <2>1 DEF Counting
<1> QED
  BY <1>9, <1>10, <1>14

Dropped == IF device.modulation = "MC" THEN 1 ELSE 0

\* A message that ends with the length of its last row; another buffer comes after it.
LEMMA EndsCounted ==
  ASSUME TrainTyped, n \in Nat, n < num_pulses, device.modulation \in Messages, EventsOK,
         Counting, UNCHANGED given,
         NEW s, NEW x \in Int, Counted(s, x), HasRow(s), s.l > 0 \/ Holds(s, Dropped),
         device.modulation \in Measures /\ events = <<>> => x = SamplesUpTo(n) + Spent,
         account_event(LastLen(s).bits),
         NEW b, Counts(b, 0), bits' = b, l' = s.l
  PROVE  EventsOK' /\ Counting' /\ bits' \in Bitbuffers /\ l' \in Nat /\ undefined' = FALSE
<1> DEFINE e == Event(LastLen(s).bits)
           t == [bits |-> b, l |-> s.l]
<1>1. Dropped \in Nat
  BY DEF Dropped
<1>2. HasRow(LastLen(s)) /\ e.dropped <= Dropped /\ (e.full \/ LengthOf(e) = x) /\ e.last = n
  BY <1>1, MessageCounted
<1>3. events' = Append(events, e) /\ undefined' = FALSE
  BY <1>2 DEF account_event, HasRow
<1>4. s.l \in Nat /\ b \in Bitbuffers
  BY DEF Counted, Buffers, Counts
<1>5. Counted(t, s.l)
  <2>1. t \in Buffers /\ t.bits = b /\ t.l = s.l /\ s.l - t.l = 0
    BY <1>4 DEF Buffers
  <2> HIDE DEF t
  <2> QED
    BY <2>1 DEF Counted
<1>6. s.l \in Int /\ bits' = t.bits /\ l' = t.l
  BY <1>4
<1> HIDE DEF e, t
<1>7. EventsOK' /\ Counting' /\ bits' \in Bitbuffers /\ l' \in Nat
  <2>1. e.dropped <= (IF device.modulation = "MC" THEN 1 ELSE 0)
    BY <1>2 DEF Dropped
  <2>2. device.modulation \in Measures /\ events = <<>>
           => e.last = n /\ (e.full \/ LengthOf(e) = SamplesUpTo(n) + Spent)
    BY <1>2
  <2> QED
    BY <1>3, <1>5, <1>6, <2>1, <2>2, MessageEnds
<1> QED
  BY <1>3, <1>7

\* The rest of the invariant after a step.
LEMMA StepIs ==
  ASSUME IInv, n \in Nat, n < End, UNCHANGED given, n' \in 0 .. End,
         bits' \in Bitbuffers, l' \in Nat, time_since_last' \in Nat, manbit' \in 0 .. 1,
         undefined' \in BOOLEAN,
         device.modulation \in Messages => EventsOK' /\ Counting'
  PROVE  IInv'
<1>1. device' = device /\ train' = train /\ rate' = rate
  BY DEF given
<1>2. End' = End
  BY <1>1 DEF End, num_symbols, num_pulses
<1>3. TypeOK'
  BY <1>1, <1>2 DEF TypeOK, IInv
<1>4. TrainTyped' /\ (rate \in RatesType)'
  BY <1>1 DEF IInv, TrainTyped
<1>5. (device.modulation # "STRING" /\ RateTooLow(device) => n = End)'
  <2>1. device.modulation # "STRING" => ~RateTooLow(device)
    BY DEF IInv
  <2>2. RateTooLow(device') <=> RateTooLow(device)
    BY <1>1
  <2>3. device'.modulation # "STRING" => ~RateTooLow(device')
    BY <1>1, <2>1, <2>2
  <2> QED
    BY <2>3
<1> QED
  BY <1>1, <1>3, <1>4, <1>5 DEF IInv

\* A slicer of pulses looks at a pulse of the train.
LEMMA EachPulseIs ==
  ASSUME IInv, NEW m, EachPulse(m), m \notin SymbolSlicers
  PROVE  /\ device.modulation = m /\ n \in Nat /\ n < End /\ n' = n + 1 /\ n' \in 0 .. End
         /\ n < num_pulses /\ num_pulses \in Nat
         /\ m # "STRING" => ~RateTooLow(device)
<1>1. device.modulation = m /\ n < num_pulses /\ n' = n + 1
  BY DEF EachPulse, Slicing
<1>2. End = num_pulses
  BY <1>1 DEF End
<1>3. n \in 0 .. End
  BY DEF IInv, TypeOK
<1>4. num_pulses \in Nat
  <2>1. \E S : train \in Seq(S)
    BY DEF IInv, TrainTyped
  <2> QED
    BY <2>1 DEF num_pulses
<1>5. n \in Nat /\ n < End /\ n' \in 0 .. End
  BY <1>1, <1>2, <1>3, <1>4
<1>6. m # "STRING" => ~RateTooLow(device)
  BY <1>1, <1>5 DEF IInv
<1> QED
  BY <1>1, <1>4, <1>5, <1>6

\* What all slicers of messages start a step with.
LEMMA StartOfPulse ==
  ASSUME IInv, NEW m \in Messages, EachPulse(m), UNCHANGED given
  PROVE  /\ device.modulation = m /\ n \in Nat /\ n < num_pulses /\ n' = n + 1
         /\ Spent \in Nat /\ Spent > 0 /\ Pulse(n) \in Nat /\ Gap(n) \in Nat
         /\ TrainTyped /\ EventsOK /\ Counting
         /\ \E x \in Int : /\ Counted(Buffer, x)
                           /\ m \in Measures /\ events = <<>> => x = SamplesUpTo(n)
<1>1. m # "STRING" /\ m \notin SymbolSlicers
  BY DEF Messages, SymbolSlicers
<1>2. /\ device.modulation = m /\ n \in Nat /\ n' = n + 1 /\ n < num_pulses
      /\ ~RateTooLow(device)
  BY <1>1, EachPulseIs
<1>3. TrainTyped /\ EventsOK /\ Counting
  BY <1>2 DEF IInv
<1>4. Pulse(n) \in Nat /\ Gap(n) \in Nat /\ Pulse(n) + Gap(n) > 0
  BY <1>1, <1>2, <1>3, PulsesAre
<1>5. Spent \in Nat /\ Spent > 0
  BY <1>4 DEF Spent
<1>6. \E x \in Int : /\ Counted(Buffer, x)
                     /\ m \in Measures /\ events = <<>> => x = SamplesUpTo(n)
  BY <1>2, <1>3, CountNow
<1> QED
  BY <1>2, <1>3, <1>4, <1>5, <1>6

LEMMA EndOfPulse ==
  ASSUME IInv, NEW m \in Messages, EachPulse(m), UNCHANGED given,
         EventsOK', Counting', bits' \in Bitbuffers, l' \in Nat, undefined' \in BOOLEAN,
         time_since_last' \in Nat, manbit' \in 0 .. 1
  PROVE  IInv'
<1>1. m # "STRING" /\ m \notin SymbolSlicers
  BY DEF Messages, SymbolSlicers
<1>2. n \in Nat /\ n < End /\ n' \in 0 .. End
  BY <1>1, EachPulseIs
<1> QED
  BY <1>2, StepIs

-----------------------------------------------------------------------------
(* The slicers of messages, one by one.                                     *)

LEMMA PpmGapIs ==
  ASSUME NEW x \in Int, Counted(Buffer, x), Spent \in Nat, Spent > 0
  PROVE  Counted(PpmGap, x + Spent) /\ (PpmGap.l > 0 \/ Holds(PpmGap, 0))
<1> DEFINE s == Longer(Buffer, Pulse(n) + Gap(n))
           y == x + Spent
<1>1. Counted(s, y) /\ s.l > 0 /\ y \in Int
  BY LongerCounted DEF Spent
<1> HIDE DEF y
<1>2. PpmGap = s \/ PpmGap = Add(s, 0, 1) \/ PpmGap = Add(s, 1, 1)
        \/ PpmGap = Sync(s) \/ PpmGap = EndRow(s)
  BY DEF PpmGap
<1> HIDE DEF s
<1>3. /\ Counted(Add(s, 0, 1), y) /\ Add(s, 0, 1).l = s.l
      /\ Counted(Add(s, 1, 1), y) /\ Add(s, 1, 1).l = s.l
  BY <1>1, AddCounted
<1>4. Counted(Sync(s), y) /\ Holds(Sync(s), 0)
  BY <1>1, SyncCounted
<1>5. Counted(EndRow(s), y) /\ Holds(EndRow(s), 0)
  BY <1>1, EndRowCounted
<1> QED
  BY <1>1, <1>2, <1>3, <1>4, <1>5 DEF y

LEMMA PpmStep ==
  ASSUME IInv, pulse_slicer_ppm, UNCHANGED given
  PROVE  IInv'
<1>1. EachPulse("PPM") /\ "PPM" \in Messages /\ "PPM" \in Measures
  BY DEF pulse_slicer_ppm, Messages, Measures
<1>2. /\ device.modulation = "PPM" /\ n \in Nat /\ n < num_pulses /\ n' = n + 1
      /\ Spent \in Nat /\ Spent > 0
      /\ TrainTyped /\ EventsOK /\ Counting
      /\ \E x \in Int : Counted(Buffer, x) /\ (events = <<>> => x = SamplesUpTo(n))
  BY <1>1, StartOfPulse
<1>3. PICK x \in Int : Counted(Buffer, x) /\ (events = <<>> => x = SamplesUpTo(n))
  BY <1>2
<1> DEFINE s == PpmGap
           y == x + Spent
<1>4. Counted(s, y) /\ (s.l > 0 \/ Holds(s, 0)) /\ y \in Int
  BY <1>2, <1>3, PpmGapIs
<1>5. (events = <<>> => y = SamplesUpTo(n) + Spent) /\ Dropped = 0
  BY <1>2, <1>3 DEF Dropped
<1>6. time_since_last' \in Nat /\ manbit' \in 0 .. 1
  BY DEF pulse_slicer_ppm, IInv, TypeOK
<1>7. \/ Accumulated(s) /\ EndMessage(LastLen(s))
      \/ Continue(s)
  BY DEF pulse_slicer_ppm
<1> HIDE DEF s, y
<1>8. EventsOK' /\ Counting' /\ bits' \in Bitbuffers /\ l' \in Nat /\ undefined' \in BOOLEAN
  <2>1. CASE Accumulated(s) /\ EndMessage(LastLen(s))
    <3>1. HasRow(s)
      BY <1>4, <2>1, CountedHasRow
    <3>2. s \in Buffers
      BY <1>4 DEF Counted
    <3>3. account_event(LastLen(s).bits) /\ bits' = bitbuffer_clear /\ l' = s.l
      BY <2>1, <3>2, LastLenIs DEF EndMessage
    <3> QED
      BY <1>1, <1>2, <1>4, <1>5, <3>1, <3>3, ClearCounts, EndsCounted
  <2>2. CASE Continue(s)
    <3>1. EventsOK' /\ Counting' /\ bits' \in Bitbuffers /\ l' \in Nat
      BY <1>1, <1>2, <1>4, <1>5, <2>2, GoesOn
    <3>2. undefined' \in BOOLEAN
      BY <2>2 DEF Continue, IInv, TypeOK
    <3> QED
      BY <3>1, <3>2
  <2> QED
    BY <1>7, <2>1, <2>2
<1> QED
  BY <1>1, <1>6, <1>8, EndOfPulse

LEMMA PwmPulseIs ==
  ASSUME NEW x \in Int, Counted(Buffer, x), Spent \in Nat, Spent > 0
  PROVE  Counted(PwmPulse, x + Spent) /\ (PwmPulse.l > 0 \/ Holds(PwmPulse, 0))
<1> DEFINE s == Longer(Buffer, Pulse(n) + Gap(n))
           y == x + Spent
<1>1. Counted(s, y) /\ s.l > 0 /\ y \in Int
  BY LongerCounted DEF Spent
<1> HIDE DEF y
<1>2. PwmPulse = s \/ PwmPulse = Add(s, 1, 1) \/ PwmPulse = Add(s, 0, 1)
        \/ PwmPulse = Sync(s) \/ PwmPulse = EndRow(s)
  BY DEF PwmPulse
<1> HIDE DEF s
<1>3. /\ Counted(Add(s, 0, 1), y) /\ Add(s, 0, 1).l = s.l
      /\ Counted(Add(s, 1, 1), y) /\ Add(s, 1, 1).l = s.l
  BY <1>1, AddCounted
<1>4. Counted(Sync(s), y) /\ Holds(Sync(s), 0)
  BY <1>1, SyncCounted
<1>5. Counted(EndRow(s), y) /\ Holds(EndRow(s), 0)
  BY <1>1, EndRowCounted
<1> QED
  BY <1>1, <1>2, <1>3, <1>4, <1>5 DEF y

LEMMA PwmStep ==
  ASSUME IInv, pulse_slicer_pwm, UNCHANGED given
  PROVE  IInv'
<1>1. EachPulse("PWM") /\ "PWM" \in Messages /\ "PWM" \in Measures
  BY DEF pulse_slicer_pwm, Messages, Measures
<1>2. /\ device.modulation = "PWM" /\ n \in Nat /\ n < num_pulses /\ n' = n + 1
      /\ Spent \in Nat /\ Spent > 0
      /\ TrainTyped /\ EventsOK /\ Counting
      /\ \E x \in Int : Counted(Buffer, x) /\ (events = <<>> => x = SamplesUpTo(n))
  BY <1>1, StartOfPulse
<1>3. PICK x \in Int : Counted(Buffer, x) /\ (events = <<>> => x = SamplesUpTo(n))
  BY <1>2
<1> DEFINE s == PwmPulse
           y == x + Spent
<1>4. Counted(s, y) /\ (s.l > 0 \/ Holds(s, 0)) /\ y \in Int
  BY <1>2, <1>3, PwmPulseIs
<1>5. (events = <<>> => y = SamplesUpTo(n) + Spent) /\ Dropped = 0
  BY <1>2, <1>3 DEF Dropped
<1>6. time_since_last' \in Nat /\ manbit' \in 0 .. 1
  BY DEF pulse_slicer_pwm, IInv, TypeOK
<1>7. \/ HasRow(s) /\ EndMessage(LastLen(s))
      \/ Continue(EndRow(s)) \/ Continue(s)
  BY DEF pulse_slicer_pwm
<1> HIDE DEF s, y
<1>8. CASE HasRow(s) /\ EndMessage(LastLen(s))
  <2>1. s \in Buffers
    BY <1>4 DEF Counted
  <2>2. account_event(LastLen(s).bits) /\ bits' = bitbuffer_clear /\ l' = s.l
    BY <1>8, <2>1, LastLenIs DEF EndMessage
  <2>3. EventsOK' /\ Counting' /\ bits' \in Bitbuffers /\ l' \in Nat /\ undefined' = FALSE
    BY <1>1, <1>2, <1>4, <1>5, <1>8, <2>2, ClearCounts, EndsCounted
  <2> QED
    BY <1>1, <1>6, <2>3, EndOfPulse
<1>9. ASSUME NEW t, Continue(t), Counted(t, y)
      PROVE  IInv'
  <2>1. EventsOK' /\ Counting' /\ bits' \in Bitbuffers /\ l' \in Nat
    BY <1>1, <1>2, <1>4, <1>5, <1>9, GoesOn
  <2>2. undefined' \in BOOLEAN
    BY <1>9 DEF Continue, IInv, TypeOK
  <2> QED
    BY <1>1, <1>6, <2>1, <2>2, EndOfPulse
<1>10. Counted(EndRow(s), y)
  BY <1>4, EndRowCounted
<1> QED
  BY <1>4, <1>7, <1>8, <1>9, <1>10

LEMMA FallingEdgeIs ==
  ASSUME NEW x \in Int, Counted(Buffer, x), Spent \in Nat, Spent > 0
  PROVE  Counted(FallingEdge, x + Spent) /\ (FallingEdge.l > 0 \/ Holds(FallingEdge, 1))
<1> DEFINE s == Longer(Buffer, Pulse(n) + Gap(n))
           y == x + Spent
           i == IF Pulse(n) > s_shortBy1p5 /\ Pulse(n) <= Longest THEN 1 ELSE 0
           u == Add(s, 1, i)
           v == EndRow(u)
           w == Add(v, 0, 1)
<1>1. Counted(s, y) /\ s.l > 0 /\ y \in Int
  BY LongerCounted DEF Spent
<1> HIDE DEF y
<1>2. FallingEdge = s \/ FallingEdge = Add(s, 1, 1) \/ FallingEdge = w
  BY DEF FallingEdge, InvalidPulse
<1>3. i \in Int
  OBVIOUS
<1> HIDE DEF s, i
<1>4. Counted(Add(s, 1, 1), y) /\ Add(s, 1, 1).l = s.l
  BY <1>1, AddCounted
<1>5. Counted(u, y)
  BY <1>1, <1>3, AddCounted
<1> HIDE DEF u
<1>6. Counted(v, y) /\ HasRow(v) /\ Holds(v, 0) /\ v \in Buffers
  BY <1>1, <1>5, EndRowCounted DEF Counted
<1> HIDE DEF v
<1>7. Counted(w, y)
  BY <1>6, AddCounted
<1>8. Holds(w, 1)
  <2>1. Holds(w, 0 + 1)
    BY <1>6, AddOnce
  <2> QED
    BY <2>1 DEF Holds
<1> QED
  BY <1>1, <1>2, <1>4, <1>7, <1>8 DEF y

LEMMA McStep ==
  ASSUME IInv, pulse_slicer_manchester_zerobit, UNCHANGED given
  PROVE  IInv'
<1>1. EachPulse("MC") /\ "MC" \in Messages /\ "MC" \in Measures
  BY DEF pulse_slicer_manchester_zerobit, Messages, Measures
<1>2. /\ device.modulation = "MC" /\ n \in Nat /\ n < num_pulses /\ n' = n + 1
      /\ Spent \in Nat /\ Spent > 0
      /\ Pulse(n) \in Nat /\ Gap(n) \in Nat
      /\ TrainTyped /\ EventsOK /\ Counting
      /\ \E x \in Int : Counted(Buffer, x) /\ (events = <<>> => x = SamplesUpTo(n))
  BY <1>1, StartOfPulse
<1>3. PICK x \in Int : Counted(Buffer, x) /\ (events = <<>> => x = SamplesUpTo(n))
  BY <1>2
<1> DEFINE s == FallingEdge
           y == x + Spent
<1>4. Counted(s, y) /\ (s.l > 0 \/ Holds(s, 1)) /\ y \in Int
  BY <1>2, <1>3, FallingEdgeIs
<1>5. (events = <<>> => y = SamplesUpTo(n) + Spent) /\ Dropped = 1
  BY <1>2, <1>3 DEF Dropped
<1>6. time_since_last' \in Nat /\ manbit' \in 0 .. 1
  <2>1. time_since_last \in Nat /\ manbit \in 0 .. 1
    BY DEF IInv, TypeOK
  <2>2. SinceFallingEdge \in Nat
    BY <1>2, <2>1 DEF SinceFallingEdge
  <2>3. time_since_last' = 0 \/ time_since_last' = SinceFallingEdge + Gap(n)
    BY DEF pulse_slicer_manchester_zerobit
  <2> QED
    BY <1>2, <2>1, <2>2, <2>3 DEF pulse_slicer_manchester_zerobit
<1> DEFINE z == bitbuffer_add_bit(bitbuffer_clear, 0)
<1>7. \/ HasRow(s) /\ account_event(LastLen(s).bits) /\ bits' = z /\ l' = s.l
      \/ Continue(Add(s, 0, 1)) \/ Continue(s)
  BY DEF pulse_slicer_manchester_zerobit
<1>8. Counts(z, 0)
  BY ClearCounts, AddBitCounts
<1> HIDE DEF s, y, z
<1>9. CASE HasRow(s) /\ account_event(LastLen(s).bits) /\ bits' = z /\ l' = s.l
  <2>1. EventsOK' /\ Counting' /\ bits' \in Bitbuffers /\ l' \in Nat /\ undefined' = FALSE
    BY <1>1, <1>2, <1>4, <1>5, <1>8, <1>9, EndsCounted
  <2> QED
    BY <1>1, <1>6, <2>1, EndOfPulse
<1>10. ASSUME NEW t, Continue(t), Counted(t, y)
       PROVE  IInv'
  <2>1. EventsOK' /\ Counting' /\ bits' \in Bitbuffers /\ l' \in Nat
    BY <1>1, <1>2, <1>4, <1>5, <1>10, GoesOn
  <2>2. undefined' \in BOOLEAN
    BY <1>10 DEF Continue, IInv, TypeOK
  <2> QED
    BY <1>1, <1>6, <2>1, <2>2, EndOfPulse
<1>11. Counted(Add(s, 0, 1), y)
  BY <1>4, AddCounted
<1> QED
  BY <1>4, <1>7, <1>9, <1>10, <1>11

-----------------------------------------------------------------------------
(* PCM.                                                                     *)

LEMMA DivType ==
  ASSUME NEW a \in Int, NEW d \in Nat \ {0}
  PROVE  a \div d \in Int
OBVIOUS

LEMMA PeriodsType ==
  ASSUME NEW width \in Int, NEW by \in RateType
  PROVE  Periods(width, by) \in Int
<1> DEFINE c == by.bits
           d == by.samples
           a == 2 * width * c + d
<1>1. c \in Nat /\ d \in Nat \ {0}
  BY DEF RateType
<1>2. Periods(width, by) = a \div (2 * d)
  BY DEF Periods
<1> HIDE DEF c, d
<1>3. a \in Int /\ 2 * d \in Nat \ {0}
  BY <1>1
<1> HIDE DEF a
<1> QED
  BY <1>2, <1>3, DivType

LEMMA PcmRowIs ==
  ASSUME TrainTyped, device \in Devices, device.modulation = "PCM", ~RateTooLow(device),
         rate \in RatesType, n \in Nat, n < num_pulses, NEW x \in Int, Counted(Buffer, x)
  PROVE  \E y \in Int : Counted(PcmRow, y)
<1>1. s_short \in Nat /\ s_long \in Nat \ {0} /\ s_reset \in Nat /\ s_gap \in Nat
  BY DeviceWidths
<1>2. Pulse(n) \in Nat /\ Gap(n) \in Nat
  BY PulsesAre
<1>3. rate.f_short \in RateType /\ rate.f_long \in RateType
  BY DEF RatesType
<1>4. PcmHighs \in Int
  BY <1>2, <1>3, PeriodsType DEF PcmHighs
<1>5. PcmLows \in Int
  <2> DEFINE a == Gap(n) + s_short - s_long
             p == Periods(a, rate.f_long)
  <2>1. a \in Int
    BY <1>1, <1>2
  <2> HIDE DEF a
  <2>2. p \in Int
    BY <1>3, <2>1, PeriodsType
  <2>3. MaxZeros \in Int
    BY <1>1, DivType DEF MaxZeros, GapLimit
  <2>4. PcmLows = Least(p, MaxZeros)
    BY DEF PcmLows, a
  <2> HIDE DEF p
  <2> QED
    BY <2>2, <2>3, <2>4 DEF Least
<1> DEFINE w == (Pulse(n) + Gap(n)) % (UINT16_MAX + 1)
           s == Longer(Buffer, w)
           u == Add(s, 1, PcmHighs)
           v == Add(u, 0, PcmLows)
           y == x + w
<1>6. w \in Nat
  <2> DEFINE a == Pulse(n) + Gap(n)
             d == UINT16_MAX + 1
  <2>1. a \in Nat /\ d \in Nat \ {0}
    BY <1>2, BufferAssumption
  <2> HIDE DEF a, d
  <2>2. a % d \in Nat
    BY <2>1
  <2> QED
    BY <2>2 DEF a, d
<1>7. PcmBits = v
  BY DEF PcmBits
<1> HIDE DEF w
<1>8. y \in Int /\ Counted(s, y)
  BY <1>6, LongerCounted
<1> HIDE DEF s, y
<1>9. Counted(u, y)
  BY <1>4, <1>8, AddCounted
<1> HIDE DEF u
<1>10. Counted(v, y)
  BY <1>5, <1>9, AddCounted
<1> HIDE DEF v
<1> DEFINE c == [v EXCEPT !.bits = bitbuffer_clear]
<1>11. v \in Buffers /\ v.l \in Int
  BY <1>10 DEF Counted, Buffers
<1>12. Counted(c, v.l)
  <2>1. bitbuffer_clear \in Bitbuffers
    BY ClearCounts DEF Counts
  <2>2. c \in Buffers /\ c.bits = bitbuffer_clear /\ v.l - c.l = 0
    BY <1>11, <2>1 DEF Buffers
  <2> HIDE DEF c
  <2> QED
    BY <2>2, ClearCounts DEF Counted
<1>13. PcmRow = c \/ PcmRow = EndRow(v) \/ PcmRow = v
  BY <1>7 DEF PcmRow
<1>14. Counted(EndRow(v), y)
  BY <1>8, <1>10, EndRowCounted
<1> HIDE DEF c
<1> QED
  BY <1>8, <1>10, <1>11, <1>12, <1>13, <1>14

\* A row without bits can be taken back.
LEMMA EmptyRowEnds ==
  ASSUME NEW s, NEW x, Counted(s, x), HasRow(s), Holds(s, 0)
  PROVE  Event(s.bits).dropped <= 0
<1>1. s.bits \in Bitbuffers
  BY DEF Counted, Counts
<1>2. s.bits.bits_per_row[CurrentRow(s.bits)] <= 0
  BY DEF Holds
<1> QED
  BY <1>1, <1>2, EventDropped

LEMMA PcmStep ==
  ASSUME IInv, pulse_slicer_pcm, UNCHANGED given
  PROVE  IInv'
<1>1. EachPulse("PCM") /\ "PCM" \in Messages /\ "PCM" \notin Measures
      /\ "PCM" \notin SymbolSlicers /\ "PCM" # "STRING"
  BY DEF pulse_slicer_pcm, Messages, Measures, SymbolSlicers
<1>2. /\ device.modulation = "PCM" /\ n \in Nat /\ n < num_pulses /\ n' = n + 1
      /\ TrainTyped /\ EventsOK /\ Counting
      /\ \E x \in Int : Counted(Buffer, x)
  BY <1>1, StartOfPulse
<1>3. PICK x \in Int : Counted(Buffer, x)
  BY <1>2
<1> DEFINE s == PcmRow
           t == EndRow(s)
<1>4. PICK y \in Int : Counted(s, y)
  <2>1. ~RateTooLow(device)
    BY <1>1, EachPulseIs
  <2>2. device \in Devices /\ rate \in RatesType
    BY DEF IInv, TypeOK
  <2> QED
    BY <1>2, <1>3, <2>1, <2>2, PcmRowIs
<1>5. time_since_last' \in Nat /\ manbit' \in 0 .. 1
  BY DEF pulse_slicer_pcm, IInv, TypeOK
<1>6. EndMessage(t) \/ Continue(s)
  BY DEF pulse_slicer_pcm
<1> HIDE DEF s
<1>7. Counted(t, y) /\ HasRow(t) /\ Holds(t, 0)
  BY <1>4, EndRowCounted
<1> HIDE DEF t
<1>8. CASE EndMessage(t)
  <2> DEFINE e == Event(t.bits)
             c == [bits |-> bitbuffer_clear, l |-> t.l]
  <2>1. e.dropped <= 0
    BY <1>7, EmptyRowEnds
  <2>2. /\ events' = Append(events, e) /\ undefined' = FALSE
        /\ bits' = bitbuffer_clear /\ l' = t.l
    BY <1>7, <1>8 DEF EndMessage, account_event, HasRow
  <2>3. t.l \in Nat
    BY <1>7 DEF Counted, Buffers
  <2>4. Counted(c, t.l) /\ bits' = c.bits /\ l' = c.l /\ t.l \in Int
    <3>1. c.bits = bitbuffer_clear /\ c.l = t.l /\ t.l - c.l = 0
      BY <2>3
    <3>2. bitbuffer_clear \in Bitbuffers
      BY ClearCounts DEF Counts
    <3>3. c \in Buffers
      BY <2>3, <3>2 DEF Buffers
    <3> HIDE DEF c
    <3> QED
      BY <2>2, <2>3, <3>1, <3>3, ClearCounts DEF Counted
  <2> HIDE DEF e, c
  <2>5. e.dropped <= (IF device.modulation = "MC" THEN 1 ELSE 0)
    BY <1>2, <2>1
  <2>6. EventsOK' /\ Counting' /\ bits' \in Bitbuffers /\ l' \in Nat
    BY <1>1, <1>2, <2>2, <2>4, <2>5, MessageEnds
  <2> QED
    BY <1>1, <1>5, <2>2, <2>6, EndOfPulse
<1>9. CASE Continue(s)
  <2>1. EventsOK' /\ Counting' /\ bits' \in Bitbuffers /\ l' \in Nat
    BY <1>1, <1>2, <1>4, <1>9, GoesOn
  <2>2. undefined' \in BOOLEAN
    BY <1>9 DEF Continue, IInv, TypeOK
  <2> QED
    BY <1>1, <1>5, <2>1, <2>2, EndOfPulse
<1> QED
  BY <1>6, <1>8, <1>9

-----------------------------------------------------------------------------
(* OSV1.                                                                    *)

\* The buffer is counted by any number.
LEMMA Osv1GoesOn ==
  ASSUME IInv, device.modulation = "OSV1", UNCHANGED given, n \in Nat,
         NEW s, Continue(s), NEW x \in Int, Counted(s, x)
  PROVE  EventsOK' /\ Counting' /\ bits' \in Bitbuffers /\ l' \in Nat /\ undefined' \in BOOLEAN
<1>1. device.modulation \in Messages /\ device.modulation \notin Measures
  BY DEF Messages, Measures
<1>2. TrainTyped /\ EventsOK /\ Counting
  BY <1>1 DEF IInv
<1>3. EventsOK' /\ Counting' /\ bits' \in Bitbuffers /\ l' \in Nat
  BY <1>1, <1>2, GoesOn
<1>4. undefined' \in BOOLEAN
  BY DEF Continue, IInv, TypeOK
<1> QED
  BY <1>3, <1>4

LEMMA Osv1StartStep ==
  ASSUME IInv, Osv1Start, UNCHANGED given
  PROVE  IInv'
<1>1. /\ device.modulation = "OSV1" /\ n = 0 /\ num_pulses > 0
      /\ n' = IF PreambleComplete /\ Synced THEN PREAMBLE + 1 ELSE num_pulses
      /\ manbit' \in 0 .. 1 /\ Continue(Add(Buffer, 0, manbit')) /\ time_since_last' = time_since_last
  BY DEF Osv1Start, Slicing
<1>2. device.modulation \in Messages /\ device.modulation # "STRING" /\ End = num_pulses
  BY <1>1 DEF Messages, End, SymbolSlicers
<1>3. TrainTyped /\ Counting /\ device \in Devices /\ time_since_last \in Nat
  BY <1>2 DEF IInv, TypeOK
<1>4. num_pulses \in Nat
  BY <1>2, <1>3, PulsesAre
<1>5. ~RateTooLow(device)
  BY <1>1, <1>2, <1>4 DEF IInv
<1>6. n' \in 0 .. End
  <2>1. CASE ~(PreambleComplete /\ Synced)
    BY <1>1, <1>2, <1>4, <2>1
  <2>2. CASE PreambleComplete /\ Synced
    <3>1. PREAMBLE < num_pulses
      BY <2>2 DEF Synced
    <3> QED
      BY <1>1, <1>2, <1>4, <2>2, <3>1 DEF PREAMBLE
  <2> QED
    BY <2>1, <2>2
<1>7. PICK x \in Int : Counted(Buffer, x)
  BY <1>3 DEF Counting
<1>8. Counted(Add(Buffer, 0, manbit'), x)
  <2>1. manbit' = 0 \/ manbit' = 1
    BY <1>1
  <2>2. Counted(Add(Buffer, 0, 0), x) /\ Counted(Add(Buffer, 0, 1), x)
    BY <1>7, AddCounted
  <2> QED
    BY <2>1, <2>2
<1>9. EventsOK' /\ Counting' /\ bits' \in Bitbuffers /\ l' \in Nat /\ undefined' \in BOOLEAN
  BY <1>1, <1>7, <1>8, Osv1GoesOn
<1>10. n \in Nat /\ n < End
  BY <1>1, <1>2
<1> QED
  BY <1>1, <1>3, <1>6, <1>9, <1>10, StepIs

LEMMA HalfBitsCounted ==
  ASSUME NEW s, NEW x, Counted(s, x), NEW bit, NEW half, NEW width
  PROVE  Counted(HalfBits(s, bit, half, width), x) /\ HalfBits(s, bit, half, width).l = s.l
<1> DEFINE count == IF half = 0 \/ width > halfbit_max THEN 1 ELSE 0
<1>1. count \in Int
  OBVIOUS
<1>2. HalfBits(s, bit, half, width) = Add(s, bit, count)
  BY DEF HalfBits
<1> HIDE DEF count
<1> QED
  BY <1>1, <1>2, AddCounted

LEMMA Osv1BitsStep ==
  ASSUME IInv, Osv1Bits, UNCHANGED given
  PROVE  IInv'
<1> DEFINE s0 == Longer(Buffer, Pulse(n) + Gap(n))
           s == HalfBits(s0, 1, manbit, Pulse(n))
           half == AfterHalves(manbit, Pulse(n))
           t == HalfBits(s, 0, half, Gap(n))
<1>1. /\ device.modulation = "OSV1" /\ n \in PREAMBLE + 1 .. num_pulses - 1
      /\ time_since_last' = time_since_last
      /\ \/ HasRow(s) /\ EndMessage(LastLen(s)) /\ n' = num_pulses /\ manbit' = manbit
         \/ Continue(t) /\ n' = n + 1 /\ manbit' = AfterHalves(half, Gap(n))
  BY DEF Osv1Bits, Slicing
<1>2. device.modulation \in Messages /\ device.modulation # "STRING" /\ End = num_pulses
      /\ device.modulation \notin Measures /\ Dropped = 0
  BY <1>1 DEF Messages, Measures, End, SymbolSlicers, Dropped
<1>3. TrainTyped /\ EventsOK /\ Counting /\ device \in Devices /\ time_since_last \in Nat
      /\ manbit \in 0 .. 1
  BY <1>2 DEF IInv, TypeOK
<1>4. num_pulses \in Nat
  BY <1>2, <1>3, PulsesAre
<1>5. n \in Nat /\ n < num_pulses /\ n < End /\ n' \in 0 .. End
  BY <1>1, <1>2, <1>4 DEF PREAMBLE
<1>6. Pulse(n) + Gap(n) \in Nat /\ Pulse(n) + Gap(n) > 0
  BY <1>2, <1>3, <1>5, PulsesAre
<1>7. PICK x \in Int : Counted(Buffer, x)
  BY <1>3 DEF Counting
<1> DEFINE y == x + (Pulse(n) + Gap(n))
<1>8. Counted(s0, y) /\ s0.l > 0 /\ y \in Int
  BY <1>6, <1>7, LongerCounted
<1> HIDE DEF s0, y
<1>9. Counted(s, y) /\ s.l = s0.l
  BY <1>8, HalfBitsCounted
<1>10. half \in 0 .. 1 /\ AfterHalves(half, Gap(n)) \in 0 .. 1
  <2>1. half \in 0 .. 1
    BY <1>3 DEF AfterHalves
  <2> HIDE DEF half
  <2> QED
    BY <2>1 DEF AfterHalves
<1> HIDE DEF s, half
<1>11. Counted(t, y)
  BY <1>9, HalfBitsCounted
<1> HIDE DEF t
<1>12. manbit' \in 0 .. 1 /\ time_since_last' \in Nat
  BY <1>1, <1>3, <1>10
<1>13. EventsOK' /\ Counting' /\ bits' \in Bitbuffers /\ l' \in Nat /\ undefined' \in BOOLEAN
  <2>1. CASE HasRow(s) /\ EndMessage(LastLen(s))
    <3>1. s \in Buffers
      BY <1>9 DEF Counted
    <3>2. account_event(LastLen(s).bits) /\ bits' = bitbuffer_clear /\ l' = s.l
      BY <2>1, <3>1, LastLenIs DEF EndMessage
    <3>3. s.l > 0
      BY <1>8, <1>9
    <3>4. EventsOK' /\ Counting' /\ bits' \in Bitbuffers /\ l' \in Nat /\ undefined' = FALSE
      BY <1>2, <1>3, <1>5, <1>8, <1>9, <2>1, <3>2, <3>3, ClearCounts, EndsCounted
    <3> QED
      BY <3>4
  <2>2. CASE Continue(t)
    BY <1>1, <1>5, <1>8, <1>11, <2>2, Osv1GoesOn
  <2> QED
    BY <1>1, <2>1, <2>2
<1> QED
  BY <1>5, <1>12, <1>13, StepIs

-----------------------------------------------------------------------------
(* The other slicers keep the types.                                        *)

LEMMA AccountTyped ==
  ASSUME NEW b, account_event(b)
  PROVE  undefined' \in BOOLEAN
BY DEF account_event

LEMMA BufferTyped ==
  ASSUME IInv
  PROVE  /\ Buffer \in Buffers /\ undefined \in BOOLEAN /\ time_since_last \in Nat
         /\ manbit \in 0 .. 1 /\ n \in 0 .. End /\ device \in Devices
BY DEF IInv, TypeOK, Buffer, Buffers

LEMMA ContinueTyped ==
  ASSUME IInv, NEW s \in Buffers, Continue(s)
  PROVE  bits' \in Bitbuffers /\ l' \in Nat /\ undefined' \in BOOLEAN
BY BufferTyped DEF Continue, Buffers

LEMMA EndMessageTyped ==
  ASSUME NEW s \in Buffers, EndMessage(s)
  PROVE  bits' \in Bitbuffers /\ l' \in Nat /\ undefined' \in BOOLEAN
<1>1. bitbuffer_clear \in Bitbuffers
  BY ClearCounts DEF Counts
<1>2. undefined' \in BOOLEAN
  BY AccountTyped DEF EndMessage
<1> QED
  BY <1>1, <1>2 DEF EndMessage, Buffers

LEMMA EndMessageKeptTyped ==
  ASSUME NEW s \in Buffers, EndMessageKept(s)
  PROVE  bits' \in Bitbuffers /\ l' \in Nat /\ undefined' \in BOOLEAN
<1>1. undefined' \in BOOLEAN
  BY AccountTyped DEF EndMessageKept
<1>2. s.bits \in Bitbuffers /\ s.l \in Nat
  BY DEF Buffers
<1>3. bits' \in Bitbuffers
  <2>1. CASE HasRow(s)
    <3>1. bits' \in Decoded(s.bits)
      BY <2>1 DEF EndMessageKept
    <3>2. Decoded(s.bits) \subseteq Bitbuffers
      BY <1>2, <2>1, DecodedIs DEF HasRow
    <3> QED
      BY <3>1, <3>2
  <2>2. CASE ~HasRow(s)
    BY <1>2, <2>2 DEF EndMessageKept
  <2> QED
    BY <2>1, <2>2
<1>4. l' \in Nat
  BY <1>2 DEF EndMessageKept
<1> QED
  BY <1>1, <1>3, <1>4

\* What the slicers of symbols start a step with.
LEMMA StartOfSymbol ==
  ASSUME IInv, NEW m \in SymbolSlicers, NEW step, EachSymbol(m, step)
  PROVE  /\ device.modulation = m /\ device.modulation \notin Messages
         /\ n \in Nat /\ n < End /\ End = num_symbols /\ End \in Nat /\ n' = n + step
         /\ Symbol(n) \in Nat /\ Lengthened \subseteq Buffers
         /\ s_short \in Nat \ {0}
<1>1. device.modulation = m /\ n < num_symbols /\ n' = n + step
  BY DEF EachSymbol, Slicing
<1>2. device.modulation \notin Messages /\ device.modulation # "STRING" /\ End = num_symbols
  BY <1>1 DEF SymbolSlicers, Messages, End
<1>3. TrainTyped
  BY DEF IInv
<1>4. num_symbols \in Nat
  BY <1>2, <1>3, PulsesAre DEF num_symbols
<1>5. n \in Nat
  BY <1>2, <1>4, BufferTyped
<1>6. Symbol(n) \in Nat
  BY <1>1, <1>2, <1>3, <1>5, SymbolType
<1>7. ASSUME NEW s \in Lengthened
      PROVE  s \in Buffers
  <2>1. PICK width \in IF n < num_pulses THEN {Pulse(n) + Gap(n)} ELSE BehindTrain :
          s = Longer(Buffer, width)
    BY <1>7 DEF Lengthened
  <2>2. width \in Nat
    <3>1. CASE n < num_pulses
      BY <1>2, <1>3, <1>5, <2>1, <3>1, PulsesAre
    <3>2. CASE ~(n < num_pulses)
      BY <2>1, <3>2, SlicerAssumption
    <3> QED
      BY <3>1, <3>2
  <2> QED
    BY <2>1, <2>2, BufferTyped, LongerIs
<1>8. Lengthened \subseteq Buffers
  BY <1>7
<1>9. ~RateTooLow(device)
  BY <1>1, <1>2, <1>4, <1>5 DEF IInv
<1>10. s_short \in Nat \ {0}
  BY <1>9, BufferTyped, DeviceWidths
<1> QED
  BY <1>1, <1>2, <1>4, <1>5, <1>6, <1>7, <1>8, <1>10

LEMMA DmcStep ==
  ASSUME IInv, pulse_slicer_dmc, UNCHANGED given
  PROVE  IInv'
<1>0. PICK t \in Lengthened : DmcOne(t) \/ DmcOther(t)
  BY DEF pulse_slicer_dmc
<1> DEFINE one == Add(t, 1, 1)
           zero == Add(t, 0, 1)
<1>1. /\ "DMC" \in SymbolSlicers
      /\ EachSymbol("DMC", 1) \/ (EachSymbol("DMC", 2) /\ n + 1 < num_symbols)
      /\ time_since_last' = time_since_last /\ manbit' = manbit
  BY <1>0 DEF pulse_slicer_dmc, DmcOne, DmcOther, SymbolSlicers
<1>2. PICK step \in {1, 2} : EachSymbol("DMC", step) /\ (step = 2 => n + 1 < num_symbols)
  BY <1>1
<1>3. /\ device.modulation \notin Messages
      /\ n \in Nat /\ n < End /\ End = num_symbols /\ End \in Nat /\ n' = n + step
      /\ t \in Buffers
  BY <1>0, <1>1, <1>2, StartOfSymbol
<1>4. n' \in 0 .. End
  BY <1>2, <1>3
<1>5. time_since_last' \in Nat /\ manbit' \in 0 .. 1
  BY <1>1, BufferTyped
<1>6. \/ Continue(one) \/ Continue(EndRow(one)) \/ Continue(zero) \/ Continue(t)
      \/ EndMessageKept(LastLen(t))
  BY <1>0 DEF DmcOne, DmcOther
<1>7. one \in Buffers /\ zero \in Buffers
  BY <1>3, AddIs
<1> HIDE DEF one, zero
<1>8. EndRow(one) \in Buffers /\ LastLen(t) \in Buffers
  BY <1>3, <1>7, EndRowIs, LastLenIs
<1>9. bits' \in Bitbuffers /\ l' \in Nat /\ undefined' \in BOOLEAN
  <2>1. ASSUME NEW s \in Buffers, Continue(s)
        PROVE  bits' \in Bitbuffers /\ l' \in Nat /\ undefined' \in BOOLEAN
    BY <2>1, ContinueTyped
  <2>2. ASSUME NEW s \in Buffers, EndMessageKept(s)
        PROVE  bits' \in Bitbuffers /\ l' \in Nat /\ undefined' \in BOOLEAN
    BY <2>2, EndMessageKeptTyped
  <2> QED
    BY <1>3, <1>6, <1>7, <1>8, <2>1, <2>2
<1> QED
  BY <1>3, <1>4, <1>5, <1>9, StepIs

\* The end of a step of both pulse interval slicers.
LEMMA PiwmEnds ==
  ASSUME IInv, UNCHANGED given, UNCHANGED <<time_since_last, manbit>>,
         NEW m \in SymbolSlicers, EachSymbol(m, 1), NEW s \in Buffers, EndPiwm(s)
  PROVE  IInv'
<1>1. /\ device.modulation \notin Messages
      /\ n \in Nat /\ n < End /\ End \in Nat /\ n' = n + 1
  BY StartOfSymbol
<1>2. n' \in 0 .. End
  BY <1>1
<1>3. time_since_last' \in Nat /\ manbit' \in 0 .. 1
  BY BufferTyped
<1>4. EndMessageKept(LastLen(s)) \/ Continue(s)
  BY DEF EndPiwm
<1>5. LastLen(s) \in Buffers
  BY LastLenIs
<1>6. bits' \in Bitbuffers /\ l' \in Nat /\ undefined' \in BOOLEAN
  <2>1. CASE EndMessageKept(LastLen(s))
    BY <1>5, <2>1, EndMessageKeptTyped
  <2>2. CASE Continue(s)
    BY <2>2, ContinueTyped
  <2> QED
    BY <1>4, <2>1, <2>2
<1> QED
  BY <1>1, <1>2, <1>3, <1>6, StepIs

\* A device's width that samples are left of is not zero either.
LEMMA NominalIs ==
  ASSUME NEW width \in Nat, Samples(width) # 0
  PROVE  Nominal(width) \in RateType
<1> DEFINE p == width * SamplesPerMs
<1>1. p \in Nat
  BY SlicerAssumption
<1>2. Samples(width) = p \div 1000
  BY DEF Samples
<1>3. Nominal(width) = [bits |-> 1000, samples |-> p]
  BY DEF Nominal, Rate
<1> HIDE DEF p
<1>4. p # 0
  BY <1>1, <1>2
<1> QED
  BY <1>1, <1>3, <1>4 DEF RateType

LEMMA PiwmRawStep ==
  ASSUME IInv, pulse_slicer_piwm_raw, UNCHANGED given
  PROVE  IInv'
<1>1. /\ "PIWM_RAW" \in SymbolSlicers /\ EachSymbol("PIWM_RAW", 1)
      /\ UNCHANGED <<time_since_last, manbit>>
  BY DEF pulse_slicer_piwm_raw, SymbolSlicers
<1>2. PICK t \in Lengthened : EndPiwm(PiwmRun(t))
  BY DEF pulse_slicer_piwm_raw
<1> DEFINE r == Nominal(device.short_width)
           w == Periods(Symbol(n), r)
           u == Add(t, 1 - (n % 2), w)
<1>3. n \in Nat /\ Symbol(n) \in Nat /\ t \in Buffers /\ s_short # 0 /\ device \in Devices
  BY <1>1, <1>2, BufferTyped, StartOfSymbol
<1>4. r \in RateType
  <2>1. device.short_width \in Nat
    BY <1>3, SlicerAssumption DEF DeviceType
  <2> QED
    BY <1>3, <2>1, NominalIs DEF s_short
<1>5. PiwmRun(t) = EndRow(t) \/ PiwmRun(t) = u \/ PiwmRun(t) = t
  BY DEF PiwmRun
<1> HIDE DEF r
<1>6. w \in Int
  BY <1>3, <1>4, PeriodsType
<1> HIDE DEF w
<1>7. u \in Buffers
  BY <1>3, <1>6, AddIs
<1>8. EndRow(t) \in Buffers
  BY <1>3, EndRowIs
<1> HIDE DEF u
<1>9. PiwmRun(t) \in Buffers
  BY <1>3, <1>5, <1>7, <1>8
<1> QED
  BY <1>1, <1>2, <1>9, PiwmEnds

LEMMA PiwmDcStep ==
  ASSUME IInv, pulse_slicer_piwm_dc, UNCHANGED given
  PROVE  IInv'
<1>1. /\ "PIWM_DC" \in SymbolSlicers /\ EachSymbol("PIWM_DC", 1)
      /\ UNCHANGED <<time_since_last, manbit>>
  BY DEF pulse_slicer_piwm_dc, SymbolSlicers
<1>2. PICK t \in Lengthened : EndPiwm(PiwmBit(t))
  BY DEF pulse_slicer_piwm_dc
<1>3. t \in Buffers
  BY <1>1, <1>2, StartOfSymbol
<1>4. PiwmBit(t) = Add(t, 1, 1) \/ PiwmBit(t) = Add(t, 0, 1) \/ PiwmBit(t) = EndRow(t)
      \/ PiwmBit(t) = t
  BY DEF PiwmBit
<1>5. Add(t, 1, 1) \in Buffers /\ Add(t, 0, 1) \in Buffers /\ EndRow(t) \in Buffers
  BY <1>3, AddIs, EndRowIs
<1>6. PiwmBit(t) \in Buffers
  BY <1>3, <1>4, <1>5
<1> QED
  BY <1>1, <1>2, <1>6, PiwmEnds

LEMMA NrzsStep ==
  ASSUME IInv, pulse_slicer_nrzs, UNCHANGED given
  PROVE  IInv'
<1> DEFINE t == Longer(Buffer, Pulse(n) + Gap(n))
           c == IF Pulse(n) > s_short THEN Pulse(n) \div s_short ELSE 0
           u == Add(t, 1, c)
           v == Add(u, 0, 1)
           s == NrzsPulse
<1>1. /\ EachPulse("NRZS") /\ "NRZS" \notin SymbolSlicers /\ "NRZS" # "STRING"
      /\ "NRZS" \notin Messages
      /\ EndMessageKept(LastLen(s)) \/ Continue(s)
      /\ time_since_last' = time_since_last /\ manbit' = manbit
  BY DEF pulse_slicer_nrzs, SymbolSlicers, Messages
<1>2. /\ device.modulation = "NRZS" /\ n \in Nat /\ n < num_pulses /\ n < End /\ n' \in 0 .. End
      /\ ~RateTooLow(device)
  BY <1>1, EachPulseIs
<1>3. TrainTyped
  BY DEF IInv
<1>4. Pulse(n) \in Nat /\ Gap(n) \in Nat
  BY <1>1, <1>2, <1>3, PulsesAre
<1>5. s_short \in Nat \ {0}
  BY <1>2, BufferTyped, DeviceWidths
<1>6. t \in Buffers
  BY <1>4, BufferTyped, LongerIs
<1>7. c \in Int
  BY <1>4, <1>5, DivType
<1>8. s = t \/ s = v
  BY DEF NrzsPulse
<1> HIDE DEF t, c
<1>9. u \in Buffers
  BY <1>6, <1>7, AddIs
<1> HIDE DEF u
<1>10. v \in Buffers
  BY <1>9, AddIs
<1> HIDE DEF v, s
<1>11. s \in Buffers /\ LastLen(s) \in Buffers
  BY <1>6, <1>8, <1>10, LastLenIs
<1>12. bits' \in Bitbuffers /\ l' \in Nat /\ undefined' \in BOOLEAN
  <2>1. CASE EndMessageKept(LastLen(s))
    BY <1>11, <2>1, EndMessageKeptTyped
  <2>2. CASE Continue(s)
    BY <1>11, <2>2, ContinueTyped
  <2> QED
    BY <1>1, <2>1, <2>2
<1>13. time_since_last' \in Nat /\ manbit' \in 0 .. 1
  BY <1>1, BufferTyped
<1> QED
  BY <1>1, <1>2, <1>12, <1>13, StepIs

LEMMA AddBitsIs ==
  ASSUME NEW b \in Bitbuffers, NEW Z, NEW bs \in Seq(Z)
  PROVE  AddBits(b, bs) \in Bitbuffers
<1> DEFINE N == Len(bs)
           S == [k \in 0 .. N |-> Bitbuffers]
           F == [k \in 1 .. N |-> [c \in Bitbuffers |-> bitbuffer_add_bit(c, bs[k])]]
           Is(g) == g = [k \in 0 .. N |-> IF k = 0 THEN b ELSE bitbuffer_add_bit(g[k - 1], bs[k])]
           added == CHOOSE g : Is(g)
<1>1. N \in Nat
  OBVIOUS
<1>2. AddBits(b, bs) = added[N]
  BY DEF AddBits
<1> HIDE DEF N
<1>3. \A k \in 1 .. N : k - 1 \in 0 .. N /\ k \in 0 .. N
  BY <1>1
<1>4. \A k \in 0 .. N : S[k] = Bitbuffers
  OBVIOUS
<1>5. \A k \in 1 .. N : \A c \in Bitbuffers : F[k][c] = bitbuffer_add_bit(c, bs[k])
  OBVIOUS
<1> HIDE DEF S, F
<1>6. \A c \in Bitbuffers, k \in 1 .. N : bitbuffer_add_bit(c, bs[k]) \in Bitbuffers
  BY AddBitIs
<1>7. b \in S[0] /\ \A k \in 1 .. N : \A c \in S[k - 1] : F[k][c] \in S[k]
  <2>1. b \in S[0]
    BY <1>1, <1>4
  <2>2. ASSUME NEW k \in 1 .. N, NEW c \in S[k - 1]
        PROVE  F[k][c] \in S[k]
    <3>1. S[k - 1] = Bitbuffers /\ S[k] = Bitbuffers
      BY <1>3, <1>4
    <3> QED
      BY <1>5, <1>6, <3>1
  <2> QED
    BY <2>1, <2>2
<1>8. PICK g : Recurs(g, b, F, N) /\ \A k \in 0 .. N : g[k] \in S[k]
  BY <1>1, <1>7, Iterates
<1>9. Is(g)
  <2>1. g = [k \in 0 .. N |-> IF k = 0 THEN b ELSE F[k][g[k - 1]]]
    BY <1>8 DEF Recurs
  <2>2. \A k \in 0 .. N : k # 0 => F[k][g[k - 1]] = bitbuffer_add_bit(g[k - 1], bs[k])
    <3>1. \A k \in 0 .. N : k # 0 => k \in 1 .. N
      BY <1>1
    <3> QED
      BY <1>3, <1>4, <1>5, <1>8, <3>1
  <2>3. \A k \in 0 .. N : (IF k = 0 THEN b ELSE F[k][g[k - 1]])
                            = (IF k = 0 THEN b ELSE bitbuffer_add_bit(g[k - 1], bs[k]))
    BY <2>2
  <2> QED
    BY <2>1, <2>3, Zenon
<1>10. Is(added)
  BY <1>9
<1> HIDE DEF added
<1>11. added[0] = b /\ \A k \in 1 .. N : added[k] = bitbuffer_add_bit(added[k - 1], bs[k])
  <2>1. \A k \in 0 .. N : added[k] = IF k = 0 THEN b ELSE bitbuffer_add_bit(added[k - 1], bs[k])
    BY <1>10, Zenon
  <2>2. 0 \in 0 .. N /\ \A k \in 1 .. N : k # 0
    BY <1>1
  <2> HIDE DEF Is
  <2> QED
    BY <1>3, <2>1, <2>2
<1> DEFINE T == {k \in 0 .. N : added[k] \in Bitbuffers}
<1>12. 0 \in T
  BY <1>1, <1>11
<1>13. ASSUME NEW k \in Nat, k < N, k \in T
       PROVE  k + 1 \in T
  <2>1. k + 1 \in 1 .. N /\ (k + 1) - 1 = k /\ k + 1 \in 0 .. N
    BY <1>1, <1>13
  <2>2. added[k + 1] = bitbuffer_add_bit(added[k], bs[k + 1])
    BY <1>11, <2>1
  <2> QED
    BY <1>6, <1>13, <2>1, <2>2
<1> HIDE DEF T
<1>14. \A k \in 0 .. N : k \in T
  BY <1>1, <1>12, <1>13, UpTo
<1>15. N \in T
  BY <1>1, <1>14
<1> QED
  BY <1>2, <1>15 DEF T

LEMMA StringStep ==
  ASSUME IInv, pulse_slicer_string, UNCHANGED given
  PROVE  IInv'
<1> DEFINE s == ParsedRow
           code == train[n + 1]
           b0 == IF n = 0 THEN bits ELSE bitbuffer_add_row(bits, 0)
           b == AddBits(b0, code.bits)
<1>1. /\ EachPulse("STRING") /\ "STRING" \notin SymbolSlicers /\ "STRING" \notin Messages
      /\ EndMessage(s) \/ Continue(s)
      /\ time_since_last' = time_since_last /\ manbit' = manbit
  BY DEF pulse_slicer_string, SymbolSlicers, Messages
<1>2. /\ device.modulation = "STRING" /\ n \in Nat /\ n < End /\ n' \in 0 .. End
      /\ n < num_pulses /\ num_pulses \in Nat
  BY <1>1, EachPulseIs
<1>3. code \in Codes
  <2>1. train \in Seq(Codes)
    BY <1>2 DEF IInv, TrainTyped
  <2>2. n + 1 \in 1 .. Len(train)
    BY <1>2 DEF num_pulses
  <2> QED
    BY <2>1, <2>2
<1>4. code.bits \in Seq(0 .. 1) /\ (code.width >= 0 => code.width \in Nat)
  BY <1>3 DEF Codes
<1>5. bits \in Bitbuffers
  BY DEF IInv, TypeOK
<1>6. b0 \in Bitbuffers
  BY <1>5, AddRowIs
<1>7. s = [bits |-> IF code.width >= 0 THEN bitbuffer_set_width(b, code.width) ELSE b, l |-> 0]
  BY DEF ParsedRow
<1> HIDE DEF b0, code
<1>8. b \in Bitbuffers
  BY <1>4, <1>6, AddBitsIs
<1> HIDE DEF b, s
<1>9. s \in Buffers
  <2>1. code.width >= 0 => bitbuffer_set_width(b, code.width) \in Bitbuffers
    BY <1>4, <1>8, SetWidthIs
  <2> QED
    BY <1>7, <1>8, <2>1 DEF Buffers
<1>10. bits' \in Bitbuffers /\ l' \in Nat /\ undefined' \in BOOLEAN
  BY <1>1, <1>9, ContinueTyped, EndMessageTyped
<1>11. time_since_last' \in Nat /\ manbit' \in 0 .. 1
  BY <1>1, BufferTyped
<1> QED
  BY <1>1, <1>2, <1>10, <1>11, StepIs

-----------------------------------------------------------------------------
(* The bit period of PCM is never measured from nothing: a width that is     *)
(* divided by is not zero.                                                  *)

TuneType ==
  [ f_short : RateType, f_long : RateType, preamble : Nat, min_count : Nat,
    count : Nat, swidth : Nat, lwidth : Nat ]

\* A run without any width has at most c bits, less than it takes to tune.
Runs(c) ==
  {t \in TuneType : /\ t.min_count >= 2
                    /\ t.lwidth = 0 => t.count = 0
                    /\ t.swidth = 0 => t.count <= c}

LEMMA StaysIn ==
  ASSUME NEW N \in Nat, NEW S, NEW h, h[0] \in S[0],
         \A k \in 1 .. N : h[k - 1] \in S[k - 1] => h[k] \in S[k]
  PROVE  \A k \in 0 .. N : h[k] \in S[k]
<1> DEFINE T == {k \in 0 .. N : h[k] \in S[k]}
<1>1. 0 \in T
  OBVIOUS
<1>2. ASSUME NEW k \in Nat, k < N, k \in T
      PROVE  k + 1 \in T
  <2>1. k + 1 \in 1 .. N /\ (k + 1) - 1 = k /\ k + 1 \in 0 .. N
    BY <1>2
  <2> QED
    BY <1>2, <2>1
<1> HIDE DEF T
<1>3. \A k \in 0 .. N : k \in T
  BY <1>1, <1>2, UpTo
<1> QED
  BY <1>3 DEF T

LEMMA ThresholdsAre ==
  /\ MinRzPreamble \in Nat /\ MinRzPreamble >= 2 /\ MinNrzPreamble \in Nat /\ MinNrzPreamble >= 2
  /\ MinRzMeasured \in Nat /\ MinRzMeasured >= 6 /\ MinNrzMeasured \in Nat /\ MinNrzMeasured >= 6
BY SlicerAssumption

LEMMA TuningIs ==
  ASSUME device \in Devices, s_short \in Nat \ {0}, s_long \in Nat \ {0}
  PROVE  Tuning \in Runs(0) /\ Tuning.swidth = 0 /\ Tuning.lwidth = 0 /\ Tuning.count = 0
<1> DEFINE m == IF RZ THEN MinRzPreamble ELSE MinNrzPreamble
           a == Nominal(device.short_width)
           b == Nominal(device.long_width)
<1>1. device.short_width \in Nat /\ device.long_width \in Nat
  BY SlicerAssumption DEF DeviceType
<1>2. m \in Nat /\ m >= 2
  BY ThresholdsAre
<1>3. Tuning = [ f_short |-> a, f_long |-> b, preamble |-> 0, min_count |-> m,
                 count |-> 0, swidth |-> 0, lwidth |-> 0 ]
  BY DEF Tuning
<1>4. a \in RateType /\ b \in RateType
  BY <1>1, NominalIs DEF s_short, s_long
<1> HIDE DEF m, a, b
<1> QED
  BY <1>2, <1>3, <1>4 DEF Runs, TuneType

LEMMA MeasureIn ==
  ASSUME NEW c \in 0 .. 1, NEW t \in Runs(c), NEW p \in Pulses, RZ => c = 0 \/ p.pulse > 0
  PROVE  Measure(t, p) \in Runs(1)
<1> DEFINE k == t.count + (IF RZ THEN 1 ELSE 2)
           u == t.swidth + p.pulse + (IF RZ THEN 0 ELSE p.gap)
           v == t.lwidth + p.pulse + p.gap
           m == [t EXCEPT !.count = k, !.swidth = u, !.lwidth = v]
<1>1. /\ t \in TuneType /\ t.min_count >= 2 /\ (t.swidth = 0 => t.count <= c)
      /\ t.count \in Nat /\ t.swidth \in Nat /\ t.lwidth \in Nat
  BY DEF Runs, TuneType
<1>2. p.pulse \in Nat /\ p.gap \in Nat /\ p.pulse + p.gap > 0
  BY DEF Pulses
<1>3. Measure(t, p) = m
  BY DEF Measure
<1>4. k \in Nat /\ u \in Nat /\ v \in Nat /\ v # 0
  BY <1>1, <1>2
<1>5. u = 0 => k <= 1
  <2>1. CASE RZ
    BY <1>1, <1>2, <2>1
  <2>2. CASE ~RZ
    BY <1>1, <1>2, <2>2
  <2> QED
    BY <2>1, <2>2
<1> HIDE DEF k, u, v
<1>6. /\ m \in TuneType /\ m.min_count = t.min_count /\ m.count = k /\ m.swidth = u
      /\ m.lwidth = v
  BY <1>1, <1>4 DEF TuneType
<1> HIDE DEF m
<1> QED
  BY <1>1, <1>3, <1>4, <1>5, <1>6 DEF Runs

LEMMA EndRunIn ==
  ASSUME NEW t \in Runs(1)
  PROVE  EndRun(t) \in Runs(0)
<1>1. /\ t \in TuneType /\ t.min_count >= 2 /\ (t.swidth = 0 => t.count <= 1)
      /\ (t.lwidth = 0 => t.count = 0)
      /\ t.count \in Nat /\ t.swidth \in Nat /\ t.lwidth \in Nat /\ t.min_count \in Nat
  BY DEF Runs, TuneType
<1> DEFINE m == [t EXCEPT !.count = 0, !.swidth = 0, !.lwidth = 0]
<1>2. m \in TuneType /\ m.min_count = t.min_count /\ m.count = 0
  BY <1>1 DEF TuneType
<1>3. CASE t.count < t.min_count
  <2>1. EndRun(t) = m
    BY <1>3 DEF EndRun
  <2> HIDE DEF m
  <2> QED
    BY <1>1, <1>2, <2>1 DEF Runs
<1>4. CASE ~(t.count < t.min_count)
  <2> DEFINE a == Rate(t.count, t.swidth)
             b == Rate(t.count, t.lwidth)
             z == [m EXCEPT !.f_short = a, !.f_long = b, !.min_count = t.count, !.preamble = t.count]
  <2>1. t.count >= 2 /\ t.swidth # 0 /\ t.lwidth # 0
    BY <1>1, <1>4
  <2>2. a \in RateType /\ b \in RateType
    BY <1>1, <2>1 DEF Rate, RateType
  <2>3. EndRun(t) = z
    BY <1>4 DEF EndRun
  <2> HIDE DEF a, b, m
  <2>4. z \in TuneType /\ z.min_count = t.count /\ z.count = m.count
    BY <1>1, <1>2, <2>2 DEF TuneType
  <2> HIDE DEF z
  <2> QED
    BY <1>2, <2>1, <2>3, <2>4 DEF Runs
<1> QED
  BY <1>3, <1>4

\* What a bit period is measured from: only the first pulse and the last gap can be empty.
Measurable ==
  /\ train \in Seq(Pulses)
  /\ \A k \in 2 .. Len(train) : train[k].pulse > 0 /\ train[k - 1].gap > 0

LEMMA MeasurableAt ==
  ASSUME Measurable, NEW k \in 1 .. num_pulses
  PROVE  /\ train[k] \in Pulses
         /\ k = 1 \/ train[k].pulse > 0
         /\ k = num_pulses \/ train[k].gap > 0
<1>1. num_pulses = Len(train) /\ Len(train) \in Nat /\ train \in Seq(Pulses)
  BY DEF Measurable, num_pulses
<1>2. train[k] \in Pulses
  BY <1>1
<1>3. k = 1 \/ k \in 2 .. Len(train)
  BY <1>1
<1>4. k = num_pulses \/ (k + 1 \in 2 .. Len(train) /\ (k + 1) - 1 = k)
  BY <1>1
<1>5. \A i \in 2 .. Len(train) : train[i].pulse > 0 /\ train[i - 1].gap > 0
  BY DEF Measurable
<1> QED
  BY <1>2, <1>3, <1>4, <1>5

LEMMA PreambleIs ==
  ASSUME Measurable, device \in Devices, s_short \in Nat \ {0}, s_long \in Nat \ {0}
  PROVE  Preamble \in Runs(0)
<1> DEFINE N == num_pulses
           C(k) == IF k = 0 THEN 0 ELSE 1
           S == [k \in 0 .. N |-> Runs(C(k))]
           G(t, k) == IF Toggle(t, train[k]) THEN Measure(t, train[k]) ELSE EndRun(t)
           F == [k \in 1 .. N |-> [t \in Runs(C(k - 1)) |-> G(t, k)]]
           Is(g) == g = [k \in 0 .. N |-> IF k = 0 THEN Tuning ELSE G(g[k - 1], k)]
           run == CHOOSE g : Is(g)
<1>1. N \in Nat
  BY DEF Measurable, num_pulses
<1>2. Preamble = EndRun(run[N])
  BY DEF Preamble
<1>3. \A k \in 1 .. N : train[k] \in Pulses /\ (k = 1 \/ train[k].pulse > 0)
  BY MeasurableAt
<1> HIDE DEF N
<1>4. \A k \in 1 .. N : k \in 0 .. N /\ k - 1 \in 0 .. N /\ k # 0 /\ (k - 1 = 0 => k = 1)
  BY <1>1
<1>5. ASSUME NEW k \in 1 .. N, NEW t \in Runs(C(k - 1))
      PROVE  G(t, k) \in Runs(1)
  <2>1. C(k - 1) \in 0 .. 1 /\ (C(k - 1) = 0 \/ train[k].pulse > 0)
    BY <1>3, <1>4
  <2>2. train[k] \in Pulses
    BY <1>3
  <2>3. Runs(C(k - 1)) \subseteq Runs(1) /\ Runs(0) \subseteq Runs(1)
    BY <2>1 DEF Runs, TuneType
  <2> HIDE DEF C
  <2>4. Measure(t, train[k]) \in Runs(1)
    BY <2>1, <2>2, MeasureIn
  <2>5. EndRun(t) \in Runs(1)
    BY <2>3, EndRunIn
  <2> QED
    BY <2>4, <2>5
<1> HIDE DEF G
<1>6. \A k \in 0 .. N : S[k] = Runs(C(k))
  OBVIOUS
<1>7. \A k \in 1 .. N : S[k] = Runs(1) /\ S[k - 1] = Runs(C(k - 1))
  BY <1>4, <1>6
<1>8. \A k \in 1 .. N : \A t \in Runs(C(k - 1)) : F[k][t] = G(t, k)
  OBVIOUS
<1>9. Tuning \in S[0]
  <2>1. S[0] = Runs(0)
    BY <1>1, <1>6
  <2> QED
    BY <2>1, TuningIs
<1> HIDE DEF S, F, C
<1>10. \A k \in 1 .. N : \A t \in S[k - 1] : F[k][t] = G(t, k) /\ G(t, k) \in S[k]
  BY <1>5, <1>7, <1>8
<1>11. PICK g : Recurs(g, Tuning, F, N) /\ \A k \in 0 .. N : g[k] \in S[k]
  <2>1. \A k \in 1 .. N : \A t \in S[k - 1] : F[k][t] \in S[k]
    BY <1>10
  <2> QED
    BY <1>1, <1>9, <2>1, Iterates
<1>12. Is(g)
  <2>1. g = [k \in 0 .. N |-> IF k = 0 THEN Tuning ELSE F[k][g[k - 1]]]
    BY <1>11 DEF Recurs
  <2>2. \A k \in 0 .. N : k # 0 => F[k][g[k - 1]] = G(g[k - 1], k)
    <3>1. \A k \in 0 .. N : k # 0 => k \in 1 .. N
      BY <1>1
    <3> QED
      BY <1>4, <1>10, <1>11, <3>1
  <2>3. \A k \in 0 .. N : (IF k = 0 THEN Tuning ELSE F[k][g[k - 1]])
                            = (IF k = 0 THEN Tuning ELSE G(g[k - 1], k))
    BY <2>2
  <2> QED
    BY <2>1, <2>3, Zenon
<1>13. Is(run)
  BY <1>12
<1> HIDE DEF run
<1>14. run[0] = Tuning /\ \A k \in 1 .. N : run[k] = G(run[k - 1], k)
  <2>1. \A k \in 0 .. N : run[k] = IF k = 0 THEN Tuning ELSE G(run[k - 1], k)
    BY <1>13, Zenon
  <2>2. 0 \in 0 .. N
    BY <1>1
  <2> HIDE DEF Is
  <2> QED
    BY <1>4, <2>1, <2>2
<1>15. \A k \in 0 .. N : run[k] \in S[k]
  <2>1. \A k \in 1 .. N : run[k - 1] \in S[k - 1] => run[k] \in S[k]
    BY <1>10, <1>14
  <2> QED
    BY <1>1, <1>9, <1>14, <2>1, StaysIn
<1>16. run[N] \in Runs(1)
  <2>1. N = 0 \/ N \in 1 .. N
    BY <1>1
  <2>2. N \in 0 .. N
    BY <1>1
  <2>3. Runs(0) \subseteq Runs(1)
    BY DEF Runs, TuneType
  <2>4. S[0] = Runs(0)
    BY <1>1, <1>6 DEF C
  <2> QED
    BY <1>7, <1>15, <2>1, <2>2, <2>3, <2>4
<1> QED
  BY <1>2, <1>16, EndRunIn

\* The bits measured anywhere: those without a width are at most c.
Seen(c) == {t \in TuneType : t.swidth = 0 \/ t.lwidth = 0 => t.count <= c}

LEMMA SeenMore ==
  ASSUME NEW c \in Nat, NEW d \in Nat, c <= d
  PROVE  Seen(c) \subseteq Seen(d)
BY DEF Seen, TuneType

LEMMA MeasuredRzIn ==
  ASSUME RZ, NEW c \in Nat, NEW t \in Seen(c), NEW p \in Pulses, c = 0 \/ p.pulse > 0
  PROVE  MeasuredRz(t, p) \in Seen(IF c = 0 THEN 1 ELSE c)
<1> DEFINE k == t.count + (IF RZ THEN 1 ELSE 2)
           u == t.swidth + p.pulse + (IF RZ THEN 0 ELSE p.gap)
           v == t.lwidth + p.pulse + p.gap
           d == IF c = 0 THEN 1 ELSE c
           m == [t EXCEPT !.count = k, !.swidth = u, !.lwidth = v]
<1>1. /\ t \in TuneType /\ (t.swidth = 0 \/ t.lwidth = 0 => t.count <= c)
      /\ t.count \in Nat /\ t.swidth \in Nat /\ t.lwidth \in Nat
  BY DEF Seen, TuneType
<1>2. p.pulse \in Nat /\ p.gap \in Nat /\ p.pulse + p.gap > 0
  BY DEF Pulses
<1>3. Measure(t, p) = m
  BY DEF Measure
<1>4. k \in Nat /\ u \in Nat /\ v \in Nat /\ v # 0 /\ (u = 0 => k <= d)
  <2>1. k = t.count + 1 /\ u = t.swidth + p.pulse
    BY <1>1, <1>2
  <2> HIDE DEF k, u
  <2> QED
    BY <1>1, <1>2, <2>1
<1>8. d \in Nat /\ c <= d
  OBVIOUS
<1> HIDE DEF k, u, v, d
<1>5. m \in TuneType /\ m.count = k /\ m.swidth = u /\ m.lwidth = v
  BY <1>1, <1>4 DEF TuneType
<1> HIDE DEF m
<1>6. m \in Seen(d)
  BY <1>4, <1>5 DEF Seen
<1>7. t \in Seen(d)
  BY <1>8, SeenMore
<1> QED
  BY <1>3, <1>6, <1>7 DEF MeasuredRz, d

\* Only the bits of an empty width are without one.
LEMMA MeasuredAsIn ==
  ASSUME NEW c \in Nat, NEW t \in Seen(c), NEW width \in Nat, NEW count \in Nat, NEW nominal
  PROVE  MeasuredAs(t, width, count, nominal) \in Seen(IF width > 0 THEN c ELSE c + count)
<1> DEFINE k == t.count + count
           u == t.swidth + width
           v == t.lwidth + width
           m == [t EXCEPT !.count = k, !.swidth = u, !.lwidth = v]
           d == IF width > 0 THEN c ELSE c + count
<1>1. /\ t \in TuneType /\ (t.swidth = 0 \/ t.lwidth = 0 => t.count <= c)
      /\ t.count \in Nat /\ t.swidth \in Nat /\ t.lwidth \in Nat
  BY DEF Seen, TuneType
<1>2. MeasuredAs(t, width, count, nominal) = m \/ MeasuredAs(t, width, count, nominal) = t
  BY DEF MeasuredAs
<1>3. d \in Nat /\ c <= d
  OBVIOUS
<1>4. k \in Nat /\ u \in Nat /\ v \in Nat /\ (u = 0 \/ v = 0 => k <= d)
  BY <1>1
<1> HIDE DEF k, u, v, d
<1>5. m \in TuneType /\ m.count = k /\ m.swidth = u /\ m.lwidth = v
  BY <1>1, <1>4 DEF TuneType
<1> HIDE DEF m
<1>6. m \in Seen(d)
  BY <1>4, <1>5 DEF Seen
<1>7. t \in Seen(d)
  BY <1>3, SeenMore
<1> QED
  BY <1>2, <1>6, <1>7 DEF d

\* An empty width may count as one bit and as two.
LEMMA MeasuredNrzIn ==
  ASSUME NEW c \in Nat, NEW t \in Seen(c), NEW width \in Nat, NEW short
  PROVE  MeasuredNrz(t, width, short) \in Seen(IF width > 0 THEN c ELSE c + 3)
<1> DEFINE once == MeasuredAs(t, width, 1, short)
           c1 == IF width > 0 THEN c ELSE c + 1
           both == MeasuredAs(once, width, 2, 2 * short)
<1>1. MeasuredNrz(t, width, short) = both
  BY DEF MeasuredNrz
<1>2. once \in Seen(c1) /\ c1 \in Nat
  BY MeasuredAsIn
<1> HIDE DEF once
<1>3. both \in Seen(IF width > 0 THEN c1 ELSE c1 + 2)
  <2> HIDE DEF c1
  <2> QED
    BY <1>2, MeasuredAsIn
<1>4. (IF width > 0 THEN c1 ELSE c1 + 2) = (IF width > 0 THEN c ELSE c + 3)
  OBVIOUS
<1> HIDE DEF both
<1> QED
  BY <1>1, <1>3, <1>4

LEMMA MeasuredIs ==
  ASSUME Measurable, device \in Devices, s_short \in Nat \ {0}, s_long \in Nat \ {0}
  PROVE  Measured \in Seen(6)
<1> DEFINE N == num_pulses
           C(k) == IF k = 0 THEN 0 ELSE IF k = N THEN 6 ELSE 3
           S == [k \in 0 .. N |-> Seen(C(k))]
           G(t, k) == IF RZ THEN MeasuredRz(t, train[k])
                            ELSE MeasuredNrz(MeasuredNrz(t, train[k].pulse, s_short),
                                             train[k].gap, s_long)
           F == [k \in 1 .. N |-> [t \in Seen(C(k - 1)) |-> G(t, k)]]
           Is(g) == g = [k \in 0 .. N |-> IF k = 0 THEN Tuning ELSE G(g[k - 1], k)]
           upto == CHOOSE g : Is(g)
<1>1. N \in Nat
  BY DEF Measurable, num_pulses
<1>2. Measured = upto[N]
  BY DEF Measured
<1>3. \A k \in 1 .. N : /\ train[k] \in Pulses /\ (k = 1 \/ train[k].pulse > 0)
                        /\ (k = N \/ train[k].gap > 0)
  BY MeasurableAt
<1> HIDE DEF N
<1>4. \A k \in 1 .. N : k \in 0 .. N /\ k - 1 \in 0 .. N /\ k # 0 /\ (k - 1 = 0 <=> k = 1) /\ k - 1 # N
  BY <1>1
<1>5. ASSUME NEW k \in 1 .. N, NEW t \in Seen(C(k - 1))
      PROVE  G(t, k) \in Seen(C(k))
  <2> DEFINE p == train[k]
             c == C(k - 1)
  <2>1. /\ p \in Pulses /\ p.pulse \in Nat /\ p.gap \in Nat /\ (k = 1 \/ p.pulse > 0)
        /\ (k = N \/ p.gap > 0)
    BY <1>3 DEF Pulses
  <2>2. c = (IF k = 1 THEN 0 ELSE 3) /\ C(k) = (IF k = N THEN 6 ELSE 3)
    BY <1>4
  <2>3. t \in Seen(c)
    OBVIOUS
  <2> HIDE DEF p, c, C
  <2>4. CASE RZ
    <3>1. G(t, k) = MeasuredRz(t, p)
      BY <2>4 DEF p
    <3> DEFINE d == IF c = 0 THEN 1 ELSE c
    <3>2. c \in Nat /\ (c = 0 \/ p.pulse > 0)
      BY <2>1, <2>2
    <3>3. MeasuredRz(t, p) \in Seen(d)
      BY <2>1, <2>3, <2>4, <3>2, MeasuredRzIn
    <3>4. C(k) \in Nat /\ d \in Nat /\ d <= C(k)
      BY <2>2
    <3> HIDE DEF d
    <3>5. Seen(d) \subseteq Seen(C(k))
      BY <3>4, SeenMore
    <3> QED
      BY <3>1, <3>3, <3>5
  <2>5. CASE ~RZ
    <3> DEFINE a == MeasuredNrz(t, p.pulse, s_short)
               c1 == IF p.pulse > 0 THEN c ELSE c + 3
               z == MeasuredNrz(a, p.gap, s_long)
               c2 == IF p.gap > 0 THEN c1 ELSE c1 + 3
    <3>1. G(t, k) = z
      BY <2>5 DEF p
    <3>2. c \in Nat /\ c1 \in Nat /\ c2 \in Nat
      BY <2>1, <2>2
    <3>3. a \in Seen(c1)
      BY <2>1, <2>3, <3>2, MeasuredNrzIn
    <3> HIDE DEF a
    <3>4. c1 <= 3
      BY <2>1, <2>2
    <3>5. z \in Seen(c2)
      <4> HIDE DEF c1
      <4> QED
        BY <2>1, <3>2, <3>3, MeasuredNrzIn
    <3>6. c2 <= C(k) /\ C(k) \in Nat
      <4> HIDE DEF c1
      <4> QED
        BY <2>1, <2>2, <3>2, <3>4
    <3> HIDE DEF c1, c2, z
    <3>7. Seen(c2) \subseteq Seen(C(k))
      BY <3>2, <3>6, SeenMore
    <3> QED
      BY <3>1, <3>5, <3>7
  <2> QED
    BY <2>4, <2>5
<1> HIDE DEF G
<1>6. \A k \in 0 .. N : S[k] = Seen(C(k))
  OBVIOUS
<1>7. \A k \in 1 .. N : S[k] = Seen(C(k)) /\ S[k - 1] = Seen(C(k - 1))
  BY <1>4, <1>6
<1>8. \A k \in 1 .. N : \A t \in Seen(C(k - 1)) : F[k][t] = G(t, k)
  OBVIOUS
<1>9. Tuning \in S[0]
  <2>1. S[0] = Seen(0)
    BY <1>1, <1>6
  <2>2. Tuning \in TuneType /\ Tuning.count = 0
    BY TuningIs DEF Runs
  <2> QED
    BY <2>1, <2>2 DEF Seen
<1>10. N \in 0 .. N /\ C(N) \in Nat /\ C(N) <= 6
  BY <1>1
<1> HIDE DEF S, F, C
<1>11. \A k \in 1 .. N : \A t \in S[k - 1] : F[k][t] = G(t, k) /\ G(t, k) \in S[k]
  BY <1>5, <1>7, <1>8
<1>12. PICK g : Recurs(g, Tuning, F, N) /\ \A k \in 0 .. N : g[k] \in S[k]
  <2>1. \A k \in 1 .. N : \A t \in S[k - 1] : F[k][t] \in S[k]
    BY <1>11
  <2> QED
    BY <1>1, <1>9, <2>1, Iterates
<1>13. Is(g)
  <2>1. g = [k \in 0 .. N |-> IF k = 0 THEN Tuning ELSE F[k][g[k - 1]]]
    BY <1>12 DEF Recurs
  <2>2. \A k \in 0 .. N : k # 0 => F[k][g[k - 1]] = G(g[k - 1], k)
    <3>1. \A k \in 0 .. N : k # 0 => k \in 1 .. N
      BY <1>1
    <3> QED
      BY <1>4, <1>11, <1>12, <3>1
  <2>3. \A k \in 0 .. N : (IF k = 0 THEN Tuning ELSE F[k][g[k - 1]])
                            = (IF k = 0 THEN Tuning ELSE G(g[k - 1], k))
    BY <2>2
  <2> QED
    BY <2>1, <2>3, Zenon
<1>14. Is(upto)
  BY <1>13
<1> HIDE DEF upto
<1>15. upto[0] = Tuning /\ \A k \in 1 .. N : upto[k] = G(upto[k - 1], k)
  <2>1. \A k \in 0 .. N : upto[k] = IF k = 0 THEN Tuning ELSE G(upto[k - 1], k)
    BY <1>14, Zenon
  <2>2. 0 \in 0 .. N
    BY <1>1
  <2> HIDE DEF Is
  <2> QED
    BY <1>4, <2>1, <2>2
<1>16. \A k \in 0 .. N : upto[k] \in S[k]
  <2>1. \A k \in 1 .. N : upto[k - 1] \in S[k - 1] => upto[k] \in S[k]
    BY <1>11, <1>15
  <2> QED
    BY <1>1, <1>9, <1>15, <2>1, StaysIn
<1>17. upto[N] \in Seen(C(N))
  BY <1>6, <1>10, <1>16
<1>18. Seen(C(N)) \subseteq Seen(6)
  BY <1>10, SeenMore
<1> QED
  BY <1>2, <1>17, <1>18

\* The slicer of PCM divides by no zero.
LEMMA TunedIs ==
  ASSUME Measurable, device \in Devices, s_short \in Nat \ {0}, s_long \in Nat \ {0}
  PROVE  Tuned \in RatesType
<1> DEFINE t == Preamble
           all == Measured
           least == IF RZ THEN MinRzMeasured ELSE MinNrzMeasured
<1>1. t.f_short \in RateType /\ t.f_long \in RateType
  BY PreambleIs DEF Runs, TuneType
<1>2. /\ all.count \in Nat /\ all.swidth \in Nat /\ all.lwidth \in Nat
      /\ all.swidth = 0 \/ all.lwidth = 0 => all.count <= 6
  BY MeasuredIs DEF Seen, TuneType
<1>3. least \in Nat /\ least >= 6
  BY ThresholdsAre
<1>4. Tuned = IF t.preamble = 0 /\ all.count > least
                THEN Rates(Rate(all.count, all.swidth), Rate(all.count, all.lwidth))
                ELSE Rates(t.f_short, t.f_long)
  BY DEF Tuned
<1> HIDE DEF t, all, least
<1>5. all.count > least => all.swidth \in Nat \ {0} /\ all.lwidth \in Nat \ {0}
  BY <1>2, <1>3
<1>6. all.count > least => /\ Rate(all.count, all.swidth) \in RateType
                           /\ Rate(all.count, all.lwidth) \in RateType
  BY <1>2, <1>5 DEF Rate, RateType
<1> QED
  BY <1>1, <1>4, <1>6 DEF Rates, RatesType

-----------------------------------------------------------------------------
(* The specification keeps the invariant.                                   *)

\* No slicer runs on widths that are too short for the sample rate.
Silent == device.modulation # "STRING" /\ RateTooLow(device) => events = <<>>

SlicersInv == IInv /\ Silent

LEMMA GivenTrain ==
  ASSUME Init
  PROVE  TrainTyped /\ (device.modulation = "PCM" => Measurable)
<1>1. device \in Devices
  BY DEF Init
<1>2. PICK signal \in Signals[device] : train = signal.train
  BY DEF Init
<1>3. /\ signal.train \in Seq(IF device.modulation = "STRING" THEN Codes ELSE Pulses)
      /\ device.modulation = "PCM" =>
           \A k \in 2 .. Len(signal.train) :
             signal.train[k].pulse > 0 /\ signal.train[k - 1].gap > 0
  BY <1>1, SlicerAssumption
<1>4. TrainTyped
  BY <1>2, <1>3 DEF TrainTyped
<1> QED
  BY <1>2, <1>3, <1>4 DEF TrainTyped, Measurable

LEMMA InitialLength == SamplesUpTo(0) = 0
<1> DEFINE f == [j \in 1 .. 0 |-> Pulse(j - 1) + Gap(j - 1)]
<1>1. SamplesUpTo(0) = SumUpTo(f, 0)
  BY DEF SamplesUpTo
<1>2. \A j \in 1 .. 0 : f[j] \in Nat
  OBVIOUS
<1> HIDE DEF f
<1>3. SumUpTo(f, 0) = Sums(f, 0)[0] /\ Sums(f, 0)[0] = 0
  BY <1>2, SumsAre
<1> QED
  BY <1>1, <1>3

LEMMA InitialRate ==
  ASSUME Init
  PROVE  rate \in RatesType
<1>1. device \in Devices /\ (device.modulation = "PCM" => Measurable)
  BY GivenTrain DEF Init
<1>2. rate = IF device.modulation = "PCM" /\ ~RateTooLow(device)
               THEN Tuned ELSE Rates(Rate(1, 1), Rate(1, 1))
  BY DEF Init
<1>3. ASSUME device.modulation = "PCM", ~RateTooLow(device)
      PROVE  Tuned \in RatesType
  <2>1. s_short \in Nat \ {0} /\ s_long \in Nat \ {0}
    BY <1>1, <1>3, DeviceWidths
  <2> QED
    BY <1>1, <1>3, <2>1, TunedIs
<1>4. Rates(Rate(1, 1), Rate(1, 1)) \in RatesType
  BY DEF Rates, Rate, RatesType, RateType
<1> QED
  BY <1>2, <1>3, <1>4

LEMMA SlicersInit ==
  ASSUME Init
  PROVE  SlicersInv
<1>1. /\ device \in Devices /\ l = 0 /\ time_since_last = 0 /\ manbit = 0
      /\ events = <<>> /\ undefined = FALSE
      /\ n = IF device.modulation # "STRING" /\ RateTooLow(device) THEN End ELSE 0
      /\ bits = IF device.modulation = "MC" THEN bitbuffer_add_bit(bitbuffer_clear, 0)
                                            ELSE bitbuffer_clear
  BY DEF Init
<1>2. TrainTyped
  BY GivenTrain
<1>3. Counts(bits, 0)
  BY <1>1, ClearCounts, AddBitCounts
<1>4. bits \in Bitbuffers
  BY <1>3 DEF Counts
<1>5. End \in Nat
  <2>1. num_pulses \in Nat
    <3>1. \E S : train \in Seq(S)
      BY <1>2 DEF TrainTyped
    <3> QED
      BY <3>1 DEF num_pulses
  <2> QED
    BY <2>1 DEF End, num_symbols
<1>6. n \in 0 .. End
  BY <1>1, <1>5
<1>7. TypeOK
  <2>1. l \in Nat /\ time_since_last \in Nat /\ manbit \in 0 .. 1
    BY <1>1
  <2>2. undefined \in BOOLEAN /\ device \in Devices
    BY <1>1, Zenon
  <2> QED
    BY <1>4, <1>6, <2>1, <2>2, Zenon DEF TypeOK
<1>8. Counted(Buffer, 0)
  <2>1. Buffer.bits = bits /\ Buffer.l = 0 /\ Buffer \in Buffers
    BY <1>1, <1>4 DEF Buffer, Buffers
  <2> QED
    BY <1>3, <2>1 DEF Counted
<1>9. EventsOK
  <2>1. events \in Seq({})
    BY <1>1
  <2> QED
    BY <1>1, <2>1 DEF EventsOK
<1>10. Counting
  <2>1. ASSUME device.modulation \in Measures, ~RateTooLow(device)
        PROVE  Counted(Buffer, SamplesUpTo(n))
    <3>1. n = 0
      BY <1>1, <2>1
    <3> QED
      BY <1>8, <3>1, InitialLength
  <2> QED
    BY <1>1, <1>8, <2>1 DEF Counting
<1>11. rate \in RatesType
  BY InitialRate
<1>12. device.modulation # "STRING" /\ RateTooLow(device) => n = End
  BY <1>1
<1> QED
  BY <1>1, <1>2, <1>7, <1>9, <1>10, <1>11, <1>12 DEF IInv, SlicersInv, Silent

\* A slicer that looks at a pulse has not come to the end.
LEMMA StepsBefore ==
  ASSUME IInv, Next
  PROVE  device.modulation = "STRING" \/ ~RateTooLow(device)
<1>1. /\ "PCM" \notin SymbolSlicers /\ "PPM" \notin SymbolSlicers /\ "PWM" \notin SymbolSlicers
      /\ "MC" \notin SymbolSlicers /\ "NRZS" \notin SymbolSlicers
      /\ {"DMC", "PIWM_RAW", "PIWM_DC"} \subseteq SymbolSlicers
  BY DEF SymbolSlicers
<1>2. \A m \in {"PCM", "PPM", "PWM", "MC", "NRZS"} : ~EachPulse(m) \/ ~RateTooLow(device)
  BY <1>1, EachPulseIs
<1>3. \A m \in SymbolSlicers, step \in Nat : ~EachSymbol(m, step) \/ n < End
  BY StartOfSymbol
<1>4. ASSUME n < End, device.modulation # "STRING"
      PROVE  ~RateTooLow(device)
  <2>1. End \in Nat
    <3>1. TrainTyped
      BY DEF IInv
    <3>2. num_pulses \in Nat
      BY <1>4, <3>1, PulsesAre
    <3> QED
      BY <3>2 DEF End, num_symbols
  <2>2. n \in 0 .. End
    BY DEF IInv, TypeOK
  <2>3. n # End
    BY <1>4, <2>1, <2>2
  <2> QED
    BY <1>4, <2>3 DEF IInv
<1>5. CASE pulse_slicer_pcm
  BY <1>2, <1>5 DEF pulse_slicer_pcm
<1>6. CASE pulse_slicer_ppm
  BY <1>2, <1>6 DEF pulse_slicer_ppm
<1>7. CASE pulse_slicer_pwm
  BY <1>2, <1>7 DEF pulse_slicer_pwm
<1>8. CASE pulse_slicer_manchester_zerobit
  BY <1>2, <1>8 DEF pulse_slicer_manchester_zerobit
<1>9. CASE pulse_slicer_nrzs
  BY <1>2, <1>9 DEF pulse_slicer_nrzs
<1>10. CASE pulse_slicer_dmc
  <2>1. EachSymbol("DMC", 1) \/ EachSymbol("DMC", 2)
    BY <1>10 DEF pulse_slicer_dmc, DmcOne, DmcOther
  <2> QED
    BY <1>1, <1>3, <1>4, <2>1
<1>11. CASE pulse_slicer_piwm_raw
  BY <1>1, <1>3, <1>4, <1>11 DEF pulse_slicer_piwm_raw
<1>12. CASE pulse_slicer_piwm_dc
  BY <1>1, <1>3, <1>4, <1>12 DEF pulse_slicer_piwm_dc
<1>13. CASE pulse_slicer_osv1
  <2>1. /\ device.modulation = "OSV1"
        /\ (n = 0 /\ num_pulses > 0) \/ n \in PREAMBLE + 1 .. num_pulses - 1
    BY <1>13, Zenon DEF pulse_slicer_osv1, Osv1Start, Osv1Bits, Slicing
  <2>2. device.modulation # "STRING" /\ End = num_pulses
    BY <2>1 DEF End, SymbolSlicers
  <2>3. num_pulses \in Nat
    <3>1. TrainTyped
      BY DEF IInv
    <3> QED
      BY <2>2, <3>1, PulsesAre
  <2>4. n < End
    BY <2>1, <2>2, <2>3 DEF PREAMBLE
  <2> QED
    BY <1>4, <2>2, <2>4
<1>14. CASE pulse_slicer_string
  BY <1>14 DEF pulse_slicer_string, EachPulse, Slicing
<1> QED
  BY <1>5, <1>6, <1>7, <1>8, <1>9, <1>10, <1>11, <1>12, <1>13, <1>14 DEF Next

LEMMA SlicersNext ==
  ASSUME IInv, Next
  PROVE  IInv'
<1>1. UNCHANGED given
  BY DEF Next
<1>2. pulse_slicer_osv1 => Osv1Start \/ Osv1Bits
  BY DEF pulse_slicer_osv1
<1>3. \/ pulse_slicer_pcm \/ pulse_slicer_ppm \/ pulse_slicer_pwm
      \/ pulse_slicer_manchester_zerobit
      \/ pulse_slicer_dmc \/ pulse_slicer_piwm_raw \/ pulse_slicer_piwm_dc
      \/ pulse_slicer_nrzs \/ Osv1Start \/ Osv1Bits \/ pulse_slicer_string
  BY <1>2 DEF Next
<1> QED
  BY <1>1, <1>3, PcmStep, PpmStep, PwmStep, McStep, DmcStep, PiwmRawStep, PiwmDcStep,
     NrzsStep, Osv1StartStep, Osv1BitsStep, StringStep

LEMMA SlicersStep ==
  ASSUME SlicersInv, [Next]_vars
  PROVE  SlicersInv'
<1>1. CASE Next
  <2>1. IInv'
    BY <1>1, SlicersNext DEF SlicersInv
  <2>2. device' = device
    BY <1>1 DEF Next, given
  <2>3. device.modulation = "STRING" \/ ~RateTooLow(device)
    BY <1>1, StepsBefore DEF SlicersInv
  <2>4. RateTooLow(device') <=> RateTooLow(device)
    BY <2>2
  <2>5. Silent'
    BY <2>2, <2>3, <2>4 DEF Silent
  <2> QED
    BY <2>1, <2>5 DEF SlicersInv
<1>2. CASE UNCHANGED vars
  <2>1. /\ device' = device /\ train' = train /\ rate' = rate /\ n' = n /\ bits' = bits /\ l' = l
        /\ time_since_last' = time_since_last /\ manbit' = manbit
        /\ events' = events /\ undefined' = undefined
    BY <1>2 DEF vars
  <2>2. End' = End
    BY <2>1 DEF End, num_symbols, num_pulses
  <2>3. TypeOK'
    BY <2>1, <2>2 DEF SlicersInv, IInv, TypeOK
  <2>4. TrainTyped' /\ (rate \in RatesType)'
    BY <2>1 DEF SlicersInv, IInv, TrainTyped
  <2>5. EventsOK => EventsOK'
    BY <2>1 DEF EventsOK
  <2>6. Counting => Counting'
    <3>1. Buffer' = Buffer
      BY <2>1 DEF Buffer
    <3>2. SamplesUpTo(n)' = SamplesUpTo(n) /\ SamplesUpTo(events[1].last + 1)' = SamplesUpTo(events[1].last + 1)
      BY <2>1 DEF SamplesUpTo, Pulse, Gap, num_pulses
    <3>3. (\E x \in Int : Counted(Buffer, x)) => (\E x \in Int : Counted(Buffer, x))'
      BY <2>1, <3>1
    <3> QED
      BY <2>1, <3>1, <3>2, <3>3 DEF Counting
  <2>7. (device.modulation # "STRING" /\ RateTooLow(device) => n = End)'
    BY <2>1, <2>2 DEF SlicersInv, IInv
  <2>8. Silent'
    BY <2>1 DEF SlicersInv, Silent
  <2> QED
    BY <2>1, <2>3, <2>4, <2>5, <2>6, <2>7, <2>8 DEF SlicersInv, IInv
<1> QED
  BY <1>1, <1>2

-----------------------------------------------------------------------------
(* The results.                                                             *)

\* Type correctness: whatever the train, the bit buffer stays one, and no slicer steps over
\* the end (for DMC, which looks ahead and takes two symbols at once, and OSV1, which skips
\* its preamble, that is not in a guard).
THEOREM SlicerTypeOK == Spec => []TypeOK
<1>1. SlicersInv => TypeOK
  BY DEF SlicersInv, IInv
<1> QED
  BY SlicersInit, SlicersStep, <1>1, PTL DEF Spec

\* The slicers that start each message with an empty buffer - PCM, PPM, PWM, Manchester
\* and OSV1 - never call account_event without a row, which would have it look in front of
\* the array, and what it takes back for want of a length holds no bit but the zero that
\* the Manchester slicer puts there itself: no received bit is lost.
THEOREM SlicerRowsKept == Spec => []RowsKept
<1>1. SlicersInv => RowsKept
  BY DEF SlicersInv, IInv, EventsOK, RowsKept, Messages
<1> QED
  BY SlicersInit, SlicersStep, <1>1, PTL DEF Spec

\* The rows of the first message of PPM, PWM and Manchester are as long, summed up, as the
\* pulses and gaps it was made of, on which the plugin relies when it cuts the row out of
\* the samples, unless the buffer got full.
THEOREM SlicerLengthsAddUp == Spec => []LengthsAddUp
<1>1. SlicersInv => LengthsAddUp
  <2>1. Measures \subseteq Messages /\ "STRING" \notin Measures
    BY DEF Measures, Messages
  <2> QED
    BY <2>1 DEF SlicersInv, IInv, Silent, Counting, LengthsAddUp, Measures
<1> QED
  BY SlicersInit, SlicersStep, <1>1, PTL DEF Spec

\* The bit period a PCM train is cut with is never measured from nothing: pulse_slicer_pcm
\* divides by none of the widths of a preamble or of scattered bits that are zero.
THEOREM SlicerRateMeasured == Spec => [](rate \in RatesType)
<1>1. SlicersInv => rate \in RatesType
  BY DEF SlicersInv, IInv
<1> QED
  BY SlicersInit, SlicersStep, <1>1, PTL DEF Spec
=============================================================================

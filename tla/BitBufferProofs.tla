---------------------------- MODULE BitBufferProofs ----------------------------
(***************************************************************************)
(* The rows of a bit buffer, for any number and width of rows and any      *)
(* number of calls: none spills into another one or over the end, the      *)
(* memory behind them is clear, what the buffer holds are the rows that    *)
(* were added, and a decoder finds those that are repeated.  And of the    *)
(* checksums that decoders run over what they found (bit_util.c): they are *)
(* the remainders that a transmitter computes, and find every burst of     *)
(* errors up to their width, for any polynomial and any message.  And of   *)
(* the line codes that have frames: what was sent is decoded.              *)
(***************************************************************************)
EXTENDS BitBufferCalls, BitUtil, TelegramSender, TLAPS, WellFoundedInduction, FiniteSetTheorems,
        SequenceTheorems

-----------------------------------------------------------------------------
(* Rows in use by n bits.                                                   *)

\* The quotient of a number written as quotient and rest.
LEMMA DivUnique ==
  ASSUME NEW R \in Nat \ {0}, NEW x \in Nat, NEW y \in 0 .. R - 1
  PROVE  (R * x + y) \div R = x /\ (R * x + y) % R = y
<1> DEFINE a == R * x + y
           d == a \div R
           m == a % R
<1>1. a \in Nat
  OBVIOUS
<1>2. a = R * d + m /\ d \in Nat /\ m \in 0 .. R - 1
  BY <1>1
<1>3. ~(d < x)
  <2> SUFFICES ASSUME d < x
               PROVE  FALSE
    OBVIOUS
  <2>1. R * (d + 1) <= R * x
    BY <1>2
  <2> QED
    BY <1>2, <2>1
<1>4. ~(d > x)
  <2> SUFFICES ASSUME d > x
               PROVE  FALSE
    OBVIOUS
  <2>1. R * (x + 1) <= R * d
    BY <1>2
  <2> QED
    BY <1>2, <2>1
<1> QED
  BY <1>2, <1>3, <1>4

LEMMA DivOfPred ==
  ASSUME NEW R \in Nat \ {0}, NEW n \in Nat \ {0}
  PROVE  /\ (n + R - 1) \div R = 1 + (n - 1) \div R
         /\ (n - 1) \div R \in Nat
         /\ n \div R = IF n % R = 0 THEN 1 + (n - 1) \div R ELSE (n - 1) \div R
         /\ n - 1 < R * (1 + (n - 1) \div R)
<1> DEFINE x == (n - 1) \div R
           y == (n - 1) % R
<1>1. n - 1 = R * x + y /\ x \in Nat /\ y \in 0 .. R - 1
  OBVIOUS
<1> HIDE DEF x, y
<1>2. n + R - 1 = R * (x + 1) + y
  BY <1>1
<1>3. (n + R - 1) \div R = x + 1
  <2>1. x + 1 \in Nat
    BY <1>1
  <2> QED
    BY <1>1, <1>2, <2>1, DivUnique
<1>4. n \div R = IF n % R = 0 THEN x + 1 ELSE x
  <2>1. CASE y = R - 1
    <3>1. n = R * (x + 1) + 0 /\ x + 1 \in Nat /\ 0 \in 0 .. R - 1
      BY <1>1, <2>1
    <3>2. n \div R = x + 1 /\ n % R = 0
      BY <3>1, DivUnique
    <3> QED
      BY <3>2
  <2>2. CASE y # R - 1
    <3>1. n = R * x + (y + 1) /\ y + 1 \in 0 .. R - 1 /\ y + 1 # 0
      BY <1>1, <2>2
    <3>2. n \div R = x /\ n % R = y + 1
      BY <1>1, <3>1, DivUnique
    <3> QED
      BY <3>1, <3>2
  <2> QED
    BY <2>1, <2>2
<1>5. n - 1 < R * (1 + x)
  BY <1>1
<1> QED
  BY <1>1, <1>3, <1>4, <1>5 DEF x

LEMMA RowBitsType == RowBits \in Nat \ {0}
<1> DEFINE c == BITBUF_COLS
           b == BYTE
<1>1. c \in Nat \ {0} /\ b \in Nat \ {0}
  BY BufferAssumption
<1> HIDE DEF c, b
<1>2. c * b \in Nat \ {0}
  BY <1>1
<1> QED
  BY <1>2 DEF RowBits, c, b

\* A row with one bit more ends where it did, or one row later when it spills.
LEMMA EndRowOfMore ==
  ASSUME NEW r \in Nat, NEW n \in Nat
  PROVE  /\ EndRow(r, n) \in Nat /\ EndRow(r, n) >= r + 1
         /\ EndRow(r, 0) = r + 1
         /\ n > 0 => EndRow(r, n) = r + 1 + (n - 1) \div RowBits
         /\ EndRow(r, n + 1) = IF n > 0 /\ n % RowBits = 0 THEN EndRow(r, n) + 1
                                                           ELSE EndRow(r, n)
<1>0. RowBits \in Nat \ {0}
  BY RowBitsType
<1> DEFINE R == RowBits
           d(k) == (k + R - 1) \div R
<1>1. EndRow(r, 0) = r + 1
  BY DEF EndRow
<1>2. \A k \in Nat \ {0} : EndRow(r, k) = r + d(k)
  BY DEF EndRow
<1> HIDE DEF R
<1>3. R \in Nat \ {0}
  BY <1>0 DEF R
<1>4. \A k \in Nat \ {0} : d(k) = 1 + (k - 1) \div R /\ (k - 1) \div R \in Nat
  BY <1>3, DivOfPred
<1>5. CASE n = 0
  <2>1. n + 1 \in Nat \ {0} /\ n + 1 = 1
    BY <1>5
  <2>2. d(1) = 1
    <3>1. R = R * 1 + 0 /\ 1 \in Nat /\ 0 \in 0 .. R - 1 /\ 1 + R - 1 = R
      BY <1>3
    <3>2. R \div R = 1
      BY <1>3, <3>1, DivUnique
    <3> QED
      BY <3>1, <3>2
  <2>3. EndRow(r, n + 1) = r + 1
    BY <1>2, <2>1, <2>2
  <2> QED
    BY <1>1, <1>5, <2>3
<1>6. CASE n > 0
  <2> DEFINE x == (n - 1) \div R
  <2>1. n \in Nat \ {0} /\ n + 1 \in Nat \ {0} /\ n + 1 - 1 = n
    BY <1>6
  <2>2. x \in Nat /\ n \div R = IF n % R = 0 THEN 1 + x ELSE x
    BY <1>3, <2>1, DivOfPred
  <2>3. EndRow(r, n) = r + (1 + x)
    BY <1>2, <1>4, <2>1
  <2>4. EndRow(r, n + 1) = r + (1 + n \div R)
    BY <1>2, <1>4, <2>1
  <2> HIDE DEF x
  <2>5. EndRow(r, n + 1) = IF n % R = 0 THEN r + (1 + (1 + x)) ELSE r + (1 + x)
    BY <2>2, <2>4
  <2>6. EndRow(r, n) \in Nat /\ EndRow(r, n) >= r + 1 /\ EndRow(r, n) = r + 1 + x
    BY <2>2, <2>3
  <2>7. EndRow(r, n + 1) = IF n % R = 0 THEN EndRow(r, n) + 1 ELSE EndRow(r, n)
    BY <2>2, <2>3, <2>5
  <2> QED
    BY <1>1, <1>6, <2>6, <2>7 DEF R, x
<1> QED
  BY <1>5, <1>6

\* A bit of a row that ends in the buffer lies in the buffer.
LEMMA IndexInBuffer ==
  ASSUME NEW r \in Nat, NEW n \in Nat, NEW K \in Nat, EndRow(r, n + 1) <= K
  PROVE  Index(r, n) \in 0 .. K * RowBits - 1
<1> DEFINE R == RowBits
           k == n + 1
           x == (k - 1) \div R
<1>0. k \in Nat \ {0} /\ k - 1 = n
  OBVIOUS
<1>1. EndRow(r, n + 1) = r + 1 + x
  BY EndRowOfMore
<1> HIDE DEF k
<1>2. R \in Nat \ {0}
  BY RowBitsType
<1>3. Index(r, n) = r * R + n
  BY DEF Index
<1> HIDE DEF R
<1>4. x \in Nat /\ n < R * (1 + x)
  <2>1. x \in Nat /\ k - 1 < R * (1 + x)
    BY <1>0, <1>2, DivOfPred
  <2> QED
    BY <1>0, <2>1
<1> HIDE DEF x
<1>5. r + 1 + x <= K
  BY <1>1
<1>6. R * (r + (1 + x)) <= R * K
  BY <1>2, <1>4, <1>5
<1>7. r * R + n < R * (r + (1 + x))
  BY <1>2, <1>4
<1>8. r * R + n \in Nat
  BY <1>2
<1>9. r * R + n < K * R
  BY <1>2, <1>4, <1>6, <1>7, <1>8
<1> QED
  BY <1>2, <1>3, <1>8, <1>9 DEF R

-----------------------------------------------------------------------------
(* Buffers.                                                                 *)

\* The rows behind the active ones are empty, and every active row that has bits or is
\* the one that is filled starts behind the end of those before it.
RowsOK(b) ==
  /\ b.num_rows <= b.free_row
  /\ \A r \in Rows : r >= b.num_rows => b.bits_per_row[r] = 0
  /\ b.num_rows > 0 => EndRow(CurrentRow(b), b.bits_per_row[CurrentRow(b)]) <= b.free_row
  /\ \A q \in RowIndexes(b), r \in RowIndexes(b) :
       r < q /\ (b.bits_per_row[q] > 0 \/ q = CurrentRow(b))
         => EndRow(r, b.bits_per_row[r]) <= q

Good(b) == b \in Bitbuffers /\ RowsOK(b)

LEMMA Fields ==
  ASSUME NEW b \in Bitbuffers
  PROVE  /\ b.num_rows \in 0 .. BITBUF_ROWS /\ b.free_row \in 0 .. BITBUF_ROWS
         /\ b.bits_per_row \in [Rows -> Nat] /\ b.syncs_before_row \in [Rows -> Nat]
         /\ b.len_rows \in [Rows -> Nat] /\ b.bb \in [AllBits -> 0 .. 1]
         /\ BITBUF_ROWS \in Nat \ {0}
         /\ RowIndexes(b) \subseteq Rows /\ RowIndexes(b) = 0 .. b.num_rows - 1
         /\ b.num_rows > 0 => CurrentRow(b) \in Rows /\ CurrentRow(b) \in Nat
                              /\ CurrentRow(b) \in RowIndexes(b)
                              /\ CurrentRow(b) = b.num_rows - 1
<1>1. /\ b.num_rows \in 0 .. BITBUF_ROWS /\ b.free_row \in 0 .. BITBUF_ROWS
      /\ b.bits_per_row \in [Rows -> Nat] /\ b.syncs_before_row \in [Rows -> Nat]
      /\ b.len_rows \in [Rows -> Nat] /\ b.bb \in [AllBits -> 0 .. 1]
  BY DEF Bitbuffers
<1>2. BITBUF_ROWS \in Nat \ {0}
  BY BufferAssumption
<1> DEFINE n == b.num_rows
<1>3. n \in 0 .. BITBUF_ROWS
  BY <1>1
<1>4. CurrentRow(b) = n - 1 /\ RowIndexes(b) = 0 .. n - 1
  BY DEF RowIndexes, CurrentRow
<1>5. Rows = 0 .. BITBUF_ROWS - 1
  BY DEF Rows
<1> HIDE DEF n
<1>6. 0 .. n - 1 \subseteq 0 .. BITBUF_ROWS - 1
  BY <1>2, <1>3
<1>7. n > 0 => n - 1 \in 0 .. BITBUF_ROWS - 1 /\ n - 1 \in Nat /\ n - 1 \in 0 .. n - 1
  BY <1>2, <1>3
<1> QED
  BY <1>1, <1>2, <1>4, <1>5, <1>6, <1>7 DEF n

LEMMA ClearGood == Good(bitbuffer_clear)
<1>1. BITBUF_ROWS \in Nat \ {0}
  BY BufferAssumption
<1>2. bitbuffer_clear \in Bitbuffers
  BY <1>1 DEF bitbuffer_clear, Bitbuffers
<1>3. RowsOK(bitbuffer_clear)
  BY DEF bitbuffer_clear, RowsOK, RowIndexes
<1> QED
  BY <1>2, <1>3 DEF Good

\* Changes of what is stored, and of lengths and syncs, leave the rows where they are.
LEMMA SameRowsGood ==
  ASSUME NEW b, Good(b), NEW c \in Bitbuffers,
         c.num_rows = b.num_rows, c.free_row = b.free_row, c.bits_per_row = b.bits_per_row
  PROVE  Good(c)
BY DEF Good, RowsOK, RowIndexes, CurrentRow

LEMMA WithRowGood ==
  ASSUME NEW b, Good(b)
  PROVE  Good(WithRow(b)) /\ WithRow(b).num_rows > 0
<1>1. CASE b.num_rows # 0
  BY <1>1, Fields DEF WithRow, Good
<1>2. CASE b.num_rows = 0
  <2> DEFINE c == [b EXCEPT !.num_rows = 1, !.free_row = 1]
  <2>1. WithRow(b) = c
    BY <1>2 DEF WithRow
  <2>2. b \in Bitbuffers
    BY DEF Good
  <2>3. 1 \in 0 .. BITBUF_ROWS
    BY BufferAssumption
  <2>4. /\ c \in Bitbuffers /\ c.num_rows = 1 /\ c.free_row = 1
        /\ c.bits_per_row = b.bits_per_row
    BY <2>2, <2>3 DEF Bitbuffers
  <2> HIDE DEF c
  <2>5. \A r \in Rows : c.bits_per_row[r] = 0
    BY <1>2, <2>4 DEF Good, RowsOK, Rows
  <2>6. CurrentRow(c) = 0 /\ RowIndexes(c) = {0} /\ 0 \in Rows
    BY <2>4, BufferAssumption DEF CurrentRow, RowIndexes, Rows
  <2>7. EndRow(0, 0) = 1
    BY EndRowOfMore
  <2>8. RowsOK(c)
    BY <2>4, <2>5, <2>6, <2>7, BufferAssumption DEF RowsOK
  <2> QED
    BY <2>1, <2>4, <2>8 DEF Good
<1> QED
  BY <1>1, <1>2

-----------------------------------------------------------------------------
(* Operations.                                                              *)

\* The row that is filled may have any length that ends before the free rows.
LEMMA LastRowGood ==
  ASSUME NEW b, Good(b), b.num_rows > 0, NEW n \in Nat, NEW c \in Bitbuffers,
         c.num_rows = b.num_rows, b.num_rows <= c.free_row,
         EndRow(CurrentRow(b), n) <= c.free_row,
         c.bits_per_row = [b.bits_per_row EXCEPT ![CurrentRow(b)] = n]
  PROVE  Good(c)
<1> DEFINE row == CurrentRow(b)
           P == b.bits_per_row
           Q == c.bits_per_row
<1>1. /\ row \in Rows /\ row = b.num_rows - 1 /\ row \in Nat /\ P \in [Rows -> Nat]
      /\ b.num_rows \in Nat
  BY Fields DEF Good
<1>2. /\ CurrentRow(c) = row /\ RowIndexes(c) = RowIndexes(b) /\ RowIndexes(b) = 0 .. row
      /\ RowIndexes(b) \subseteq Rows
  <2>1. CurrentRow(c) = row /\ RowIndexes(c) = RowIndexes(b) /\ RowIndexes(b) = 0 .. b.num_rows - 1
    BY DEF CurrentRow, RowIndexes
  <2>2. RowIndexes(b) \subseteq Rows
    BY Fields DEF Good
  <2> QED
    BY <1>1, <2>1, <2>2
<1>3. Q[row] = n /\ \A r \in Rows : r # row => Q[r] = P[r]
  BY <1>1
<1>4. \A r \in Rows : r >= c.num_rows => Q[r] = 0
  <2> SUFFICES ASSUME NEW r \in Rows, r >= b.num_rows
               PROVE  Q[r] = 0
    OBVIOUS
  <2>1. r # row
    BY <1>1
  <2>2. P[r] = 0
    BY DEF Good, RowsOK
  <2> QED
    BY <1>3, <2>1, <2>2
<1>5. EndRow(row, Q[row]) <= c.free_row
  BY <1>3
<1>6. ASSUME NEW q \in 0 .. row, NEW r \in 0 .. row, r < q, Q[q] > 0 \/ q = row
      PROVE  EndRow(r, Q[r]) <= q
  <2>1. r # row /\ Q[r] = P[r] /\ r \in Rows /\ q \in Rows
    BY <1>1, <1>2, <1>3, <1>6
  <2>2. P[q] > 0 \/ q = row
    BY <1>3, <1>6, <2>1
  <2>3. EndRow(r, P[r]) <= q
    BY <1>2, <1>6, <2>2 DEF Good, RowsOK
  <2> QED
    BY <2>1, <2>3
<1> HIDE DEF row, P, Q
<1>7. RowsOK(c)
  BY <1>2, <1>4, <1>5, <1>6 DEF RowsOK, Q
<1> QED
  BY <1>7 DEF Good

LEMMA StoreGood ==
  ASSUME NEW b, Good(b), b.num_rows > 0, ~NoMoreBits(b), NEW bit \in 0 .. 1
  PROVE  Good(StoreBit(b, bit))
<1> DEFINE row == CurrentRow(b)
           n == b.bits_per_row[row]
           F == IF Spills(b) THEN b.free_row + 1 ELSE b.free_row
           P == [b.bits_per_row EXCEPT ![row] = n + 1]
           at == Index(row, n)
           B == [b.bb EXCEPT ![at] = IF bit = 1 THEN 1 ELSE @]
           c == [b EXCEPT !.free_row = F, !.bits_per_row = P, !.bb = B]
<1>1. /\ b \in Bitbuffers /\ row \in Rows /\ row \in Nat /\ b.bits_per_row \in [Rows -> Nat]
      /\ b.bb \in [AllBits -> 0 .. 1] /\ n \in Nat
      /\ b.free_row \in 0 .. BITBUF_ROWS /\ b.num_rows <= b.free_row
      /\ EndRow(row, n) <= b.free_row
      /\ b.num_rows \in Nat /\ BITBUF_ROWS \in Nat
  BY Fields DEF Good, RowsOK
<1>2. StoreBit(b, bit) = c
  BY DEF StoreBit
<1>3. Spills(b) <=> n > 0 /\ n % RowBits = 0
  BY DEF Spills
<1>4. Spills(b) => b.free_row < BITBUF_ROWS
  BY <1>1 DEF NoMoreBits
<1>5. F \in 0 .. BITBUF_ROWS /\ b.num_rows <= F
  BY <1>1, <1>4
<1>6. EndRow(row, n + 1) <= F
  <2>1. /\ EndRow(row, n) \in Nat
        /\ EndRow(row, n + 1) = IF Spills(b) THEN EndRow(row, n) + 1 ELSE EndRow(row, n)
    BY <1>1, <1>3, EndRowOfMore
  <2> QED
    BY <1>1, <2>1
<1>7. P \in [Rows -> Nat]
  BY <1>1
<1>8. B \in [AllBits -> 0 .. 1]
  <2>1. \A k \in AllBits : b.bb[k] \in 0 .. 1
    BY <1>1
  <2> QED
    BY <1>1, <2>1
<1> HIDE DEF F, P, B
<1>9. /\ c \in Bitbuffers /\ c.num_rows = b.num_rows /\ c.free_row = F
      /\ c.bits_per_row = P
  BY <1>1, <1>5, <1>7, <1>8 DEF Bitbuffers
<1> HIDE DEF c, n
<1>10. n + 1 \in Nat
  BY <1>1
<1>11. Good(c)
  <2>1. c.bits_per_row = [b.bits_per_row EXCEPT ![CurrentRow(b)] = n + 1]
    BY <1>9 DEF P
  <2>2. EndRow(CurrentRow(b), n + 1) <= c.free_row /\ b.num_rows <= c.free_row
    BY <1>5, <1>6, <1>9
  <2> QED
    BY <1>9, <1>10, <2>1, <2>2, LastRowGood
<1> QED
  BY <1>2, <1>11

LEMMA AddBitGood ==
  ASSUME NEW b, Good(b), NEW bit \in 0 .. 1
  PROVE  Good(bitbuffer_add_bit(b, bit))
BY WithRowGood, StoreGood DEF bitbuffer_add_bit

\* The length of the row is noted.
LEMMA NotedGood ==
  ASSUME NEW b, Good(b), b.num_rows > 0, NEW len \in Nat
  PROVE  LET c == [b EXCEPT !.len_rows[CurrentRow(b)] = len]
         IN  Good(c) /\ c.num_rows = b.num_rows
<1> DEFINE L == [b.len_rows EXCEPT ![CurrentRow(b)] = len]
           c == [b EXCEPT !.len_rows[CurrentRow(b)] = len]
<1>1. b \in Bitbuffers /\ L \in [Rows -> Nat]
  BY Fields DEF Good
<1>2. c = [b EXCEPT !.len_rows = L]
  OBVIOUS
<1> HIDE DEF L
<1>3. /\ c \in Bitbuffers /\ c.num_rows = b.num_rows /\ c.free_row = b.free_row
      /\ c.bits_per_row = b.bits_per_row
  BY <1>1, <1>2 DEF Bitbuffers
<1> HIDE DEF c
<1>4. Good(c)
  BY <1>3, SameRowsGood
<1> QED
  BY <1>3, <1>4 DEF c

\* The row that is started lies behind all rows in use.
LEMMA NewRowGood ==
  ASSUME NEW b, Good(b), b.num_rows > 0, b.free_row < BITBUF_ROWS,
         NEW c \in Bitbuffers, c.num_rows = b.free_row + 1, c.free_row = b.free_row + 1,
         c.bits_per_row = b.bits_per_row
  PROVE  Good(c)
<1> DEFINE f == b.free_row
           row == CurrentRow(b)
           P == b.bits_per_row
<1>1. /\ row = b.num_rows - 1 /\ row \in Nat /\ f \in Nat /\ b.num_rows <= f
      /\ EndRow(row, P[row]) <= f /\ RowIndexes(b) = 0 .. row /\ row < f
      /\ f \in Rows /\ b.num_rows \in Nat
  BY Fields DEF Good, RowsOK, Rows
<1>2. CurrentRow(c) = f /\ RowIndexes(c) = 0 .. f /\ 0 .. f \subseteq Rows
  <2>1. RowIndexes(c) = 0 .. c.num_rows - 1 /\ RowIndexes(c) \subseteq Rows
        /\ CurrentRow(c) = c.num_rows - 1
    BY Fields DEF CurrentRow
  <2> QED
    BY <1>1, <2>1
<1>3. \A r \in Rows : r > row => P[r] = 0
  <2>1. \A r \in Rows : r > row => r >= b.num_rows
    <3>1. Rows \subseteq Nat
      BY BufferAssumption DEF Rows
    <3> QED
      BY <1>1, <3>1
  <2> QED
    BY <2>1 DEF Good, RowsOK
<1>4. P[f] = 0 /\ EndRow(f, P[f]) <= c.free_row
  <2>1. P[f] = 0
    BY <1>1, <1>3
  <2> QED
    <3>1. EndRow(f, 0) = f + 1
      BY <1>1, EndRowOfMore
    <3> QED
      BY <1>1, <2>1, <3>1
<1>5. ASSUME NEW q \in 0 .. row, NEW r \in 0 .. row, r < q, P[q] > 0 \/ q = row
      PROVE  EndRow(r, P[r]) <= q
  BY <1>1, <1>5 DEF Good, RowsOK
<1>6. ASSUME NEW q \in 0 .. f, NEW r \in 0 .. f, r < q, P[q] > 0 \/ q = f
      PROVE  EndRow(r, P[r]) <= q
  <2>1. q \in Rows /\ r \in Rows
    BY <1>2
  <2>2. CASE r > row
    <3>1. P[r] = 0 /\ EndRow(r, 0) = r + 1
      BY <1>3, <2>1, <2>2, EndRowOfMore
    <3> QED
      BY <1>6, <3>1
  <2>3. CASE ~(r > row) /\ q # f
    <3>1. q <= row
      BY <1>1, <1>3, <1>6, <2>1, <2>3
    <3> QED
      BY <1>1, <1>5, <1>6, <2>3, <3>1
  <2>4. CASE ~(r > row) /\ q = f /\ r = row
    BY <1>1, <2>4
  <2>5. CASE ~(r > row) /\ q = f /\ r # row
    <3>1. EndRow(r, P[r]) <= row
      BY <1>1, <1>5, <2>5
    <3>2. EndRow(r, P[r]) \in Nat
      <4>1. P[r] \in Nat /\ r \in Nat
        BY <2>1, Fields DEF Good
      <4> QED
        BY <4>1, EndRowOfMore
    <3> QED
      BY <1>1, <2>5, <3>1, <3>2
  <2> QED
    BY <2>2, <2>3, <2>4, <2>5
<1>7. \A r \in Rows : r >= c.num_rows => P[r] = 0
  <2>1. \A r \in Rows : r >= f + 1 => r > row
    BY <1>1 DEF Rows
  <2> QED
    BY <1>3, <2>1
<1> HIDE DEF f, row, P
<1>8. RowsOK(c)
  <2>1. c.num_rows <= c.free_row
    BY Fields DEF Good
  <2>2. EndRow(CurrentRow(c), c.bits_per_row[CurrentRow(c)]) <= c.free_row
    BY <1>2, <1>4 DEF P
  <2>3. \A q \in RowIndexes(c), r \in RowIndexes(c) :
          r < q /\ (c.bits_per_row[q] > 0 \/ q = CurrentRow(c)) => EndRow(r, c.bits_per_row[r]) <= q
    BY <1>2, <1>6 DEF P
  <2> QED
    BY <1>7, <2>1, <2>2, <2>3 DEF RowsOK, P
<1> QED
  BY <1>8 DEF Good

LEMMA AddRowGood ==
  ASSUME NEW bits0, Good(bits0), NEW len \in Nat
  PROVE  /\ Good(bitbuffer_add_row(bits0, len))
         /\ bitbuffer_add_row(bits0, len).num_rows > 0
<1> DEFINE w == WithRow(bits0)
           b == [w EXCEPT !.len_rows[CurrentRow(w)] = len]
<1>1. Good(w) /\ w.num_rows > 0
  BY WithRowGood
<1>2. Good(b) /\ b.num_rows > 0
  BY <1>1, NotedGood
<1>3. bitbuffer_add_row(bits0, len) =
        IF NoMoreRows(b) THEN [b EXCEPT !.bits_per_row[CurrentRow(b)] = 0]
                         ELSE [b EXCEPT !.free_row = @ + 1, !.num_rows = b.free_row + 1]
  BY DEF bitbuffer_add_row
<1> HIDE DEF b
<1>4. b \in Bitbuffers /\ b.num_rows <= b.free_row
  BY <1>2 DEF Good, RowsOK
<1>5. CASE NoMoreRows(b)
  <2> DEFINE P == [b.bits_per_row EXCEPT ![CurrentRow(b)] = 0]
             c == [b EXCEPT !.bits_per_row[CurrentRow(b)] = 0]
  <2>1. c = [b EXCEPT !.bits_per_row = P] /\ P \in [Rows -> Nat]
    BY <1>4, Fields
  <2> HIDE DEF P
  <2>2. c \in Bitbuffers /\ c.num_rows = b.num_rows /\ c.free_row = b.free_row
        /\ c.bits_per_row = P
    BY <1>4, <2>1 DEF Bitbuffers
  <2> HIDE DEF c
  <2>3. EndRow(CurrentRow(b), 0) <= c.free_row
    <3>1. CurrentRow(b) \in Nat /\ CurrentRow(b) + 1 = b.num_rows
      BY <1>2, <1>4, Fields
    <3> QED
      BY <1>4, <2>2, <3>1, EndRowOfMore
  <2>4. Good(c)
    BY <1>2, <1>4, <2>2, <2>3, LastRowGood DEF P
  <2> QED
    BY <1>2, <1>3, <1>5, <2>2, <2>4 DEF c
<1>6. CASE ~NoMoreRows(b)
  <2> DEFINE f == b.free_row + 1
             c == [b EXCEPT !.free_row = @ + 1, !.num_rows = b.free_row + 1]
  <2>1. b.free_row < BITBUF_ROWS /\ f \in 0 .. BITBUF_ROWS /\ f > 0
    BY <1>4, <1>6, Fields DEF NoMoreRows
  <2>2. c = [b EXCEPT !.free_row = f, !.num_rows = f]
    OBVIOUS
  <2> HIDE DEF f
  <2>3. c \in Bitbuffers /\ c.num_rows = f /\ c.free_row = f /\ c.bits_per_row = b.bits_per_row
    BY <1>4, <2>1, <2>2 DEF Bitbuffers
  <2> HIDE DEF c
  <2>4. Good(c)
    BY <1>2, <2>1, <2>3, NewRowGood DEF f
  <2> QED
    BY <1>3, <1>6, <2>1, <2>3, <2>4 DEF c
<1> QED
  BY <1>5, <1>6

LEMMA AddSyncGood ==
  ASSUME NEW bits0, Good(bits0), NEW len \in Nat
  PROVE  Good(bitbuffer_add_sync(bits0, len))
<1> DEFINE b == IF SyncEndsRow(bits0) THEN bitbuffer_add_row(bits0, len) ELSE WithRow(bits0)
           S == [b.syncs_before_row EXCEPT ![CurrentRow(b)] = @ + 1]
           c == [b EXCEPT !.syncs_before_row[CurrentRow(b)] = @ + 1]
<1>1. Good(b) /\ b.num_rows > 0
  BY AddRowGood, WithRowGood
<1>2. bitbuffer_add_sync(bits0, len) = c
  BY DEF bitbuffer_add_sync
<1> HIDE DEF b
<1>3. b \in Bitbuffers
  BY <1>1 DEF Good
<1>4. c = [b EXCEPT !.syncs_before_row = S] /\ S \in [Rows -> Nat]
  BY <1>1, <1>3, Fields
<1> HIDE DEF S
<1>5. /\ c \in Bitbuffers /\ c.num_rows = b.num_rows /\ c.free_row = b.free_row
      /\ c.bits_per_row = b.bits_per_row
  BY <1>3, <1>4 DEF Bitbuffers
<1> HIDE DEF c
<1> QED
  BY <1>1, <1>2, <1>5, SameRowsGood

LEMMA WidthFits ==
  ASSUME NEW R \in Nat \ {0}, NEW K \in Nat, NEW n \in Nat \ {0}, n <= (K + 1) * R
  PROVE  (n - 1) \div R \in 0 .. K
<1> DEFINE x == (n - 1) \div R
           y == (n - 1) % R
<1>1. n - 1 = R * x + y /\ x \in Nat /\ y \in 0 .. R - 1
  OBVIOUS
<1> HIDE DEF x, y
<1>2. ~(x >= K + 1)
  <2> SUFFICES ASSUME x >= K + 1
               PROVE  FALSE
    OBVIOUS
  <2>1. R * (K + 1) <= R * x
    BY <1>1
  <2> QED
    BY <1>1, <2>1
<1> QED
  BY <1>1, <1>2 DEF x

\* The free rows start behind the row that was given a width.
LEMMA SetWidthEnds ==
  ASSUME NEW b, Good(b), b.num_rows > 0, NEW width \in Nat
  PROVE  LET row == CurrentRow(b)
             new == IF width > RemainingBits(b) THEN RemainingBits(b) ELSE width
             F   == b.num_rows + (IF new = 0 THEN 0 ELSE (new - 1) \div RowBits)
         IN  /\ new \in Nat /\ F \in 0 .. BITBUF_ROWS /\ b.num_rows <= F
             /\ EndRow(row, new) = F
<1> DEFINE row == CurrentRow(b)
           new == IF width > RemainingBits(b) THEN RemainingBits(b) ELSE width
           F == b.num_rows + (IF new = 0 THEN 0 ELSE (new - 1) \div RowBits)
           K == BITBUF_ROWS - b.num_rows
<1>3. RemainingBits(b) = (K + 1) * RowBits
  BY DEF RemainingBits
<1>4. /\ b \in Bitbuffers /\ row \in Nat /\ row = b.num_rows - 1 /\ b.num_rows \in Nat
      /\ K \in Nat
  BY Fields DEF Good
<1>5. RowBits \in Nat \ {0}
  BY RowBitsType
<1>6. new \in Nat /\ new <= (K + 1) * RowBits
  <2> DEFINE M == (K + 1) * RowBits
  <2>1. M \in Nat
    BY <1>4, <1>5
  <2>2. new = IF width > M THEN M ELSE width
    BY <1>3
  <2> HIDE DEF M, new
  <2>3. new \in Nat /\ new <= M
    BY <2>1, <2>2
  <2> QED
    BY <2>3 DEF M
<1> HIDE DEF new
<1>7. F \in 0 .. BITBUF_ROWS /\ b.num_rows <= F /\ EndRow(row, new) = F
  <2>1. CASE new = 0
    <3>1. F = b.num_rows
      BY <1>4, <2>1
    <3>2. EndRow(row, 0) = row + 1
      BY <1>4, EndRowOfMore
    <3>3. b.num_rows \in 0 .. BITBUF_ROWS
      BY <1>4, Fields
    <3> HIDE DEF F
    <3> QED
      BY <1>4, <2>1, <3>1, <3>2, <3>3
  <2>2. CASE new # 0
    <3> DEFINE x == (new - 1) \div RowBits
    <3>1. new \in Nat \ {0} /\ x \in 0 .. K
      BY <1>4, <1>5, <1>6, <2>2, WidthFits
    <3>2. F = b.num_rows + x
      BY <2>2
    <3>3. EndRow(row, new) = row + 1 + x
      <4> DEFINE r == row
                 n == new
      <4>1. r \in Nat /\ n \in Nat /\ n > 0
        BY <1>4, <3>1
      <4> HIDE DEF r, n
      <4>2. EndRow(r, n) = r + 1 + (n - 1) \div RowBits
        BY <4>1, EndRowOfMore
      <4> QED
        BY <4>2 DEF r, n
    <3>4. b.num_rows \in 0 .. BITBUF_ROWS /\ BITBUF_ROWS \in Nat
      BY <1>4, Fields
    <3> HIDE DEF x, F, row, new
    <3> QED
      BY <1>4, <3>1, <3>2, <3>3, <3>4
  <2> QED
    BY <2>1, <2>2
<1> HIDE DEF F
<1> QED
  BY <1>6, <1>7 DEF F, new

LEMMA SetWidthGood ==
  ASSUME NEW bits0, Good(bits0), NEW width \in Nat
  PROVE  Good(bitbuffer_set_width(bits0, width))
<1> DEFINE b == WithRow(bits0)
           row == CurrentRow(b)
           old == b.bits_per_row[row]
           new == IF width > RemainingBits(b) THEN RemainingBits(b) ELSE width
           cut == {Index(row, j) : j \in new .. BitsToByte(old) - 1}
           F == b.num_rows + (IF new = 0 THEN 0 ELSE (new - 1) \div RowBits)
           P == [b.bits_per_row EXCEPT ![row] = new]
           B == [j \in AllBits |-> IF j \in cut /\ old > new THEN 0 ELSE b.bb[j]]
           c == [b EXCEPT !.bits_per_row = P, !.free_row = F, !.bb = B]
<1>1. Good(b) /\ b.num_rows > 0
  BY WithRowGood
<1>2. bitbuffer_set_width(bits0, width) = c
  BY DEF bitbuffer_set_width
<1> HIDE DEF b
<1>4. /\ b \in Bitbuffers /\ row \in Nat /\ row = b.num_rows - 1 /\ b.num_rows \in Nat
      /\ row \in Rows /\ b.bits_per_row \in [Rows -> Nat]
      /\ b.bb \in [AllBits -> 0 .. 1]
  BY <1>1, Fields DEF Good
<1>7. new \in Nat /\ F \in 0 .. BITBUF_ROWS /\ b.num_rows <= F /\ EndRow(row, new) = F
  BY <1>1, SetWidthEnds
<1> HIDE DEF new, cut
<1>8. P \in [Rows -> Nat]
  BY <1>4, <1>7
<1>9. B \in [AllBits -> 0 .. 1]
  BY <1>4
<1> HIDE DEF F, P, B
<1>10. c \in Bitbuffers /\ c.num_rows = b.num_rows /\ c.free_row = F /\ c.bits_per_row = P
  BY <1>4, <1>7, <1>8, <1>9 DEF Bitbuffers
<1> HIDE DEF c
<1>11. Good(c)
  <2>1. c.bits_per_row = [b.bits_per_row EXCEPT ![CurrentRow(b)] = new]
    BY <1>10 DEF P
  <2>2. EndRow(CurrentRow(b), new) <= c.free_row /\ b.num_rows <= c.free_row
    BY <1>7, <1>10
  <2> QED
    BY <1>1, <1>7, <1>10, <2>1, <2>2, LastRowGood
<1> QED
  BY <1>2, <1>11

\* The transformations touch stored bits only.
LEMMA StoredGood ==
  ASSUME NEW b, Good(b), NEW B \in [AllBits -> 0 .. 1]
  PROVE  Good([b EXCEPT !.bb = B])
<1> DEFINE c == [b EXCEPT !.bb = B]
<1>1. b \in Bitbuffers
  BY DEF Good
<1>2. /\ c \in Bitbuffers /\ c.num_rows = b.num_rows /\ c.free_row = b.free_row
      /\ c.bits_per_row = b.bits_per_row
  BY <1>1 DEF Bitbuffers
<1> HIDE DEF c
<1>3. Good(c)
  BY <1>2, SameRowsGood
<1> QED
  BY <1>3 DEF c

LEMMA ClearUnusedGood ==
  ASSUME NEW b, Good(b)
  PROVE  Good(ClearUnused(b))
<1> DEFINE B == [k \in AllBits |->
     IF \E r \in RowIndexes(b) :
          k - Index(r, 0) \in b.bits_per_row[r] .. BitsToByte(b.bits_per_row[r]) - 1
       THEN 0 ELSE b.bb[k]]
<1>1. B \in [AllBits -> 0 .. 1]
  BY Fields DEF Good
<1> HIDE DEF B
<1>2. Good([b EXCEPT !.bb = B])
  BY <1>1, StoredGood
<1> QED
  BY <1>2 DEF ClearUnused, B

LEMMA InvertGood ==
  ASSUME NEW b, Good(b)
  PROVE  Good(bitbuffer_invert(b))
<1> DEFINE Owns(r, k) == k - Index(r, 0) \in 0 .. b.bits_per_row[r] - 1
           B == [k \in AllBits |->
             IF \E r \in RowIndexes(b) : Owns(r, k)
               THEN LET r == CHOOSE r \in RowIndexes(b) : Owns(r, k)
                    IN  1 - b.bb[Index(r, k - Index(r, 0))]
               ELSE b.bb[k]]
<1>1. bitbuffer_invert(b) = [b EXCEPT !.bb = B]
  BY DEF bitbuffer_invert, MapBits
<1>2. /\ b.bb \in [AllBits -> 0 .. 1] /\ RowIndexes(b) \subseteq Nat
      /\ AllBits \subseteq Int
  BY Fields, BufferAssumption DEF Good, Rows, AllBits
<1>3. \A r \in Nat, k \in Int : Index(r, k - Index(r, 0)) = k
  <2> DEFINE R == RowBits
  <2>1. R \in Nat
    BY RowBitsType
  <2>2. \A r \in Nat, k \in Int : Index(r, k - Index(r, 0)) = r * R + (k - (r * R + 0))
    BY DEF Index
  <2> HIDE DEF R
  <2>3. \A r \in Nat, k \in Int : r * R + (k - (r * R + 0)) = k
    BY <2>1
  <2> QED
    BY <2>2, <2>3
<1> HIDE DEF Owns
<1>4. ASSUME NEW k \in AllBits
      PROVE  B[k] \in 0 .. 1
  <2>1. b.bb[k] \in 0 .. 1
    BY <1>2
  <2>2. CASE \E r \in RowIndexes(b) : Owns(r, k)
    <3> DEFINE q == CHOOSE r \in RowIndexes(b) : Owns(r, k)
    <3>1. q \in RowIndexes(b)
      BY <2>2
    <3>2. B[k] = 1 - b.bb[Index(q, k - Index(q, 0))]
      BY <2>2
    <3> HIDE DEF q, B
    <3>3. Index(q, k - Index(q, 0)) = k
      BY <1>2, <1>3, <3>1
    <3>4. B[k] = 1 - b.bb[k]
      BY <3>2, <3>3
    <3> QED
      BY <2>1, <3>4
  <2>3. CASE ~(\E r \in RowIndexes(b) : Owns(r, k))
    BY <2>1, <2>3
  <2> QED
    BY <2>2, <2>3
<1>5. B \in [AllBits -> 0 .. 1]
  BY <1>4
<1> HIDE DEF B
<1> QED
  BY <1>1, <1>5, StoredGood

LEMMA NrzmGood ==
  ASSUME NEW b, Good(b)
  PROVE  Good(bitbuffer_nrzm_decode(b))
<1> DEFINE Owns(r, k) == k - Index(r, 0) \in 0 .. b.bits_per_row[r] - 1
           B == [k \in AllBits |->
             IF \E r \in RowIndexes(b) : Owns(r, k)
               THEN LET r == CHOOSE r \in RowIndexes(b) : Owns(r, k)
                    IN  IF b.bb[Index(r, k - Index(r, 0))] # Before(b, r, k - Index(r, 0))
                          THEN 1 ELSE 0
               ELSE b.bb[k]]
<1>1. bitbuffer_nrzm_decode(b) = ClearUnused([b EXCEPT !.bb = B])
  BY DEF bitbuffer_nrzm_decode, MapBits
<1>2. b.bb \in [AllBits -> 0 .. 1]
  BY Fields DEF Good
<1> HIDE DEF Owns
<1>3. B \in [AllBits -> 0 .. 1]
  BY <1>2
<1> HIDE DEF B
<1> QED
  BY <1>1, <1>3, StoredGood, ClearUnusedGood

LEMMA NrzsGood ==
  ASSUME NEW b, Good(b)
  PROVE  Good(bitbuffer_nrzs_decode(b))
<1> DEFINE Owns(r, k) == k - Index(r, 0) \in 0 .. b.bits_per_row[r] - 1
           B == [k \in AllBits |->
             IF \E r \in RowIndexes(b) : Owns(r, k)
               THEN LET r == CHOOSE r \in RowIndexes(b) : Owns(r, k)
                    IN  IF b.bb[Index(r, k - Index(r, 0))] = Before(b, r, k - Index(r, 0))
                          THEN 1 ELSE 0
               ELSE b.bb[k]]
<1>1. bitbuffer_nrzs_decode(b) = ClearUnused([b EXCEPT !.bb = B])
  BY DEF bitbuffer_nrzs_decode, MapBits
<1>2. b.bb \in [AllBits -> 0 .. 1]
  BY Fields DEF Good
<1> HIDE DEF Owns
<1>3. B \in [AllBits -> 0 .. 1]
  BY <1>2
<1> HIDE DEF B
<1> QED
  BY <1>1, <1>3, StoredGood, ClearUnusedGood

-----------------------------------------------------------------------------
(* The calls.                                                               *)

IInv == TypeOK /\ RowsOK(bits)

LEMMA BufferInit ==
  ASSUME Init
  PROVE  IInv
<1>1. Good(bits)
  BY ClearGood DEF Init
<1>2. /\ user \in {"slicer", "parser", "decoder"} /\ sized \in BOOLEAN /\ truncated \in BOOLEAN
      /\ added = 0 /\ transforms = 0
  BY DEF Init
<1>3. 0 \in 0 .. MaxAdded /\ 0 \in 0 .. MaxTransforms
  BY CallsAssumption
<1> QED
  BY <1>1, <1>2, <1>3 DEF IInv, TypeOK, Good

LEMMA BufferStep ==
  ASSUME IInv, [Next]_vars
  PROVE  IInv'
<1>1. /\ Good(bits) /\ MaxAdded \in Nat /\ MaxTransforms \in Nat
      /\ added \in 0 .. MaxAdded /\ transforms \in 0 .. MaxTransforms
      /\ user \in {"slicer", "parser", "decoder"} /\ sized \in BOOLEAN /\ truncated \in BOOLEAN
  BY CallsAssumption DEF IInv, TypeOK, Good
<1>2. SUFFICES /\ Good(bits')
               /\ user' \in {"slicer", "parser", "decoder"} /\ sized' \in BOOLEAN
               /\ added' \in 0 .. MaxAdded /\ transforms' \in 0 .. MaxTransforms
               /\ truncated' \in BOOLEAN
  <2>1. Good(bits') => bits' \in Bitbuffers /\ RowsOK(bits')
    BY DEF Good
  <2>2. RowsOK(bits') => RowsOK(bits)'
    BY DEF RowsOK
  <2> QED
    BY <2>1, <2>2 DEF IInv, TypeOK
<1>3. ASSUME NEW bit \in 0 .. 1, AddBit(bit)
      PROVE  /\ Good(bits') /\ added' = added + 1 /\ added < MaxAdded
             /\ truncated' \in BOOLEAN /\ UNCHANGED <<user, sized, transforms>>
  <2>1. bits' = bitbuffer_add_bit(bits, bit) /\ Good(bitbuffer_add_bit(bits, bit))
    BY <1>1, <1>3, AddBitGood DEF AddBit
  <2> QED
    BY <1>3, <2>1 DEF AddBit, Filling, NoMoreBits
<1>4. ASSUME AddRow
      PROVE  /\ Good(bits') /\ added' = added + 1 /\ added < MaxAdded /\ sized' = FALSE
             /\ truncated' \in BOOLEAN /\ UNCHANGED <<user, transforms>>
  <2>1. bits' = bitbuffer_add_row(bits, 1) /\ Good(bitbuffer_add_row(bits, 1))
    BY <1>1, <1>4, AddRowGood DEF AddRow
  <2> QED
    BY <1>4, <2>1 DEF AddRow, Filling, NoMoreRows
<1>5. ASSUME AddSync
      PROVE  /\ Good(bits') /\ added' = added + 1 /\ added < MaxAdded
             /\ truncated' \in BOOLEAN /\ UNCHANGED <<user, sized, transforms>>
  <2>1. bits' = bitbuffer_add_sync(bits, 1) /\ Good(bitbuffer_add_sync(bits, 1))
    BY <1>1, <1>5, AddSyncGood DEF AddSync
  <2> QED
    BY <1>5, <2>1 DEF AddSync, Filling, NoMoreRows
<1>6. ASSUME NEW width \in Widths, SetWidth(width)
      PROVE  /\ Good(bits') /\ added' = added + 1 /\ added < MaxAdded /\ sized' = TRUE
             /\ truncated' \in BOOLEAN /\ UNCHANGED <<user, transforms>>
  <2>1. width \in Nat
    BY CallsAssumption
  <2>2. bits' = bitbuffer_set_width(bits, width) /\ Good(bitbuffer_set_width(bits, width))
    BY <1>1, <1>6, <2>1, SetWidthGood DEF SetWidth
  <2> QED
    BY <1>6, <2>2 DEF SetWidth, Filling
<1>7. CASE \/ \E bit \in 0 .. 1 : AddBit(bit)
           \/ AddRow \/ AddSync
           \/ \E width \in Widths : SetWidth(width)
  <2>1. /\ Good(bits') /\ added' = added + 1 /\ added < MaxAdded
        /\ sized' \in {sized, TRUE, FALSE} /\ truncated' \in BOOLEAN
        /\ UNCHANGED <<user, transforms>>
    BY <1>3, <1>4, <1>5, <1>6, <1>7
  <2>2. added' \in 0 .. MaxAdded
    BY <1>1, <2>1
  <2>3. sized' \in BOOLEAN
    BY <1>1, <2>1
  <2> QED
    BY <1>1, <2>1, <2>2, <2>3
<1>8. CASE Transform
  <2>1. Good(bits')
    BY <1>1, <1>8, InvertGood, NrzmGood, NrzsGood DEF Transform
  <2> QED
    BY <1>1, <1>8, <2>1 DEF Transform
<1>9. CASE Clear
  <2>1. Good(bits')
    BY <1>9, ClearGood DEF Clear
  <2>2. /\ user' \in {"slicer", "parser", "decoder"} /\ sized' = FALSE /\ truncated' = FALSE
        /\ added' = 0 /\ transforms' = 0
    BY <1>9 DEF Clear
  <2>3. 0 \in 0 .. MaxAdded /\ 0 \in 0 .. MaxTransforms
    BY <1>1
  <2> QED
    BY <2>1, <2>2, <2>3
<1>10. CASE Deliver \/ UNCHANGED vars
  BY <1>1, <1>10 DEF Deliver, vars
<1> QED
  BY <1>7, <1>8, <1>9, <1>10 DEF Next

-----------------------------------------------------------------------------
(* The results.                                                             *)

\* Type correctness: every row, length and bit stays what the structure can hold.
THEOREM BufferTypeOK == Spec => []TypeOK
<1>1. IInv => TypeOK
  BY DEF IInv
<1> QED
  BY BufferInit, BufferStep, <1>1, PTL DEF Spec

\* No row spills into another one that is in use, or into those that are handed out next.
THEOREM BufferRowsApart == Spec => []RowsApart
<1>1. IInv => RowsApart
  <2> SUFFICES ASSUME IInv, bits.num_rows > 0
               PROVE  /\ EndRow(CurrentRow(bits), bits.bits_per_row[CurrentRow(bits)])
                           <= bits.free_row
                      /\ bits.num_rows <= bits.free_row
                      /\ \A r \in RowIndexes(bits), q \in RowIndexes(bits) :
                           r < q /\ bits.bits_per_row[q] > 0 => EndRow(r, bits.bits_per_row[r]) <= q
    BY DEF RowsApart
  <2> QED
    BY DEF IInv, RowsOK
<1> QED
  BY BufferInit, BufferStep, <1>1, PTL DEF Spec

\* bitbuffer_add_bit writes inside of the array of bits, however long the rows became.
THEOREM BufferRoomForBit == Spec => []RoomForBit
<1>1. IInv => RoomForBit
  <2> SUFFICES ASSUME IInv, bits.num_rows > 0, ~NoMoreBits(bits)
               PROVE  Index(CurrentRow(bits), bits.bits_per_row[CurrentRow(bits)]) \in AllBits
    BY DEF RoomForBit
  <2> DEFINE row == CurrentRow(bits)
             n == bits.bits_per_row[row]
  <2>1. /\ row \in Nat /\ n \in Nat /\ bits.free_row \in 0 .. BITBUF_ROWS
        /\ BITBUF_ROWS \in Nat
    BY Fields DEF IInv, TypeOK
  <2>2. EndRow(row, n) <= bits.free_row
    BY DEF IInv, RowsOK
  <2>3. Spills(bits) <=> n > 0 /\ n % RowBits = 0
    BY DEF Spills
  <2>4. Spills(bits) => bits.free_row < BITBUF_ROWS
    BY <2>1 DEF NoMoreBits
  <2> HIDE DEF row, n
  <2>5. EndRow(row, n + 1) <= BITBUF_ROWS
    <3>1. /\ EndRow(row, n) \in Nat
          /\ EndRow(row, n + 1) = IF Spills(bits) THEN EndRow(row, n) + 1 ELSE EndRow(row, n)
      BY <2>1, <2>3, EndRowOfMore
    <3> QED
      BY <2>1, <2>2, <2>4, <3>1
  <2>6. Index(row, n) \in AllBits
    BY <2>1, <2>5, IndexInBuffer DEF AllBits
  <2> QED
    BY <2>6 DEF row, n
<1> QED
  BY BufferInit, BufferStep, <1>1, PTL DEF Spec

-----------------------------------------------------------------------------
(* Where the bits of a row are.                                             *)

LEMMA LeastOf ==
  ASSUME NEW T, T \subseteq Nat, T # {}
  PROVE  \E x \in T : \A y \in T : x <= y
<1> DEFINE R == OpToRel(<, Nat)
<1>1. IsWellFoundedOn(R, Nat)
  BY NatLessThanWellFounded
<1>2. R = {p \in Nat \X Nat : p[1] < p[2]}
  BY DEF OpToRel
<1> HIDE DEF R
<1>3. \E x \in T : \A y \in T : ~ (<<y, x>> \in R)
  BY <1>1, WFMin
<1>4. \A x \in T, y \in T : ~ (<<y, x>> \in R) => x <= y
  BY <1>2
<1> QED
  BY <1>3, <1>4

LEMMA IndexOf ==
  ASSUME NEW r \in Nat, NEW j \in Nat
  PROVE  /\ Index(r, j) \in Nat /\ Index(r, j) = r * RowBits + j
         /\ r * RowBits \in Nat /\ Index(r, 0) = r * RowBits
         /\ \A k \in Int : k - Index(r, 0) = j <=> k = Index(r, j)
<1>1. RowBits \in Nat
  BY RowBitsType
<1> DEFINE s == r * RowBits
<1>2. s \in Nat
  BY <1>1
<1>3. Index(r, j) = s + j /\ Index(r, 0) = s + 0
  BY DEF Index
<1> HIDE DEF s
<1>4. /\ s + j \in Nat /\ s + 0 = s
      /\ \A k \in Int : k - s = j <=> k = s + j
  BY <1>2
<1> QED
  BY <1>2, <1>3, <1>4 DEF s

\* Products keep order.
LEMMA TimesUp ==
  ASSUME NEW R \in Nat, NEW a \in Nat, NEW b \in Nat, a <= b
  PROVE  a * R <= b * R
<1>1. PICK d \in Nat : b = a + d
  <2>1. b - a \in Nat /\ b = a + (b - a)
    OBVIOUS
  <2> QED
    BY <2>1
<1>2. (a + d) * R = a * R + d * R
  OBVIOUS
<1>3. d * R \in Nat /\ a * R \in Nat
  OBVIOUS
<1> QED
  BY <1>1, <1>2, <1>3

LEMMA DivBelow ==
  ASSUME NEW R \in Nat \ {0}, NEW n \in Nat \ {0}
  PROVE  R * ((n - 1) \div R) <= n - 1
<1> DEFINE x == (n - 1) \div R
           y == (n - 1) % R
<1>1. n - 1 = R * x + y /\ x \in Nat /\ y \in 0 .. R - 1
  OBVIOUS
<1> HIDE DEF x, y
<1>2. R * x <= n - 1
  BY <1>1
<1> QED
  BY <1>2 DEF x

\* The bytes of n bits, up to the end of the last one, end where their rows do.
LEMMA RowExtent ==
  ASSUME NEW r \in Nat, NEW n \in Nat
  PROVE  /\ BitsToByte(n) \in Nat /\ n <= BitsToByte(n)
         /\ n = 0 => BitsToByte(n) = 0
         /\ \A j \in 0 .. BitsToByte(n) - 1 : Index(r, j) < EndRow(r, n) * RowBits
<1> DEFINE B == BYTE
           C == BITBUF_COLS
           x == (n - 1) \div B
           y == (n - 1) \div RowBits
<1>1. B \in Nat \ {0} /\ C \in Nat \ {0} /\ RowBits = C * B /\ RowBits \in Nat \ {0}
  BY BufferAssumption, RowBitsType DEF RowBits
<1>2. BitsToByte(n) = ((n + B - 1) \div B) * B
  BY DEF BitsToByte
<1>3. CASE n = 0
  <2>1. B - 1 = B * 0 + (B - 1) /\ B - 1 \in 0 .. B - 1 /\ n + B - 1 = B - 1
    BY <1>1, <1>3
  <2> HIDE DEF B
  <2>2. (B - 1) \div B = 0
    BY <1>1, <2>1, DivUnique
  <2>3. BitsToByte(n) = 0
    BY <1>1, <1>2, <2>1, <2>2
  <2> QED
    BY <1>3, <2>3
<1>4. CASE n # 0
  <2>0. n \in Nat \ {0}
    BY <1>4
  <2> HIDE DEF B, C
  <2>1. (n + B - 1) \div B = 1 + x /\ x \in Nat /\ n - 1 < B * (1 + x)
    BY <1>1, <2>0, DivOfPred
  <2>2. y \in Nat /\ n - 1 < RowBits * (1 + y)
    BY <1>1, <2>0, DivOfPred
  <2>3. EndRow(r, n) = r + 1 + y
    BY <2>0, EndRowOfMore
  <2>5. B * x <= n - 1
    BY <1>1, <2>0, DivBelow
  <2> HIDE DEF x, y
  <2>6. x < C * (1 + y)
    <3> DEFINE z == C * (1 + y)
    <3>1. z \in Nat /\ RowBits * (1 + y) = B * z
      BY <1>1, <2>2
    <3> HIDE DEF z
    <3> SUFFICES ASSUME x >= z
                 PROVE  FALSE
      BY <2>1, <3>1 DEF z
    <3>2. z * B <= x * B
      BY <1>1, <2>1, <3>1, TimesUp
    <3>3. z * B = B * z /\ x * B = B * x /\ B * z \in Nat /\ B * x \in Nat
      BY <1>1, <2>1, <3>1
    <3> QED
      BY <2>0, <2>2, <2>5, <3>1, <3>2, <3>3
  <2> DEFINE z == C * (1 + y)
             t == (1 + x) * B
  <2>7. BitsToByte(n) = t /\ t \in Nat /\ n <= t
    <3>1. BitsToByte(n) = t
      BY <1>2, <2>1
    <3>2. t = B * (1 + x) /\ B * (1 + x) \in Nat
      BY <1>1, <2>1
    <3> HIDE DEF t
    <3> QED
      BY <2>0, <2>1, <3>1, <3>2
  <2>8. t <= z * B /\ z * B = RowBits * (1 + y)
    <3>1. z \in Nat /\ RowBits * (1 + y) = z * B
      BY <1>1, <2>2
    <3>2. 1 + x \in Nat /\ 1 + x <= z
      BY <2>1, <2>6, <3>1
    <3> HIDE DEF z
    <3>3. (1 + x) * B <= z * B
      BY <1>1, <3>1, <3>2, TimesUp
    <3> QED
      BY <3>1, <3>3
  <2>9. EndRow(r, n) * RowBits = r * RowBits + RowBits * (1 + y)
    BY <1>1, <2>2, <2>3
  <2>10. r * RowBits \in Nat /\ RowBits * (1 + y) \in Nat
    BY <1>1, <2>2
  <2> DEFINE s == r * RowBits
             e == RowBits * (1 + y)
  <2>11. ASSUME NEW j \in 0 .. t - 1
         PROVE  Index(r, j) < EndRow(r, n) * RowBits
    <3>1. j \in Nat /\ j < e
      <4> HIDE DEF t, e, z
      <4> QED
        BY <2>7, <2>8, <2>10 DEF e
    <3>2. Index(r, j) = s + j
      BY <3>1, IndexOf
    <3> HIDE DEF s, e, t
    <3> QED
      BY <2>9, <2>10, <3>1, <3>2 DEF s, e
  <2> HIDE DEF t
  <2> QED
    BY <1>4, <2>7, <2>11
<1> QED
  BY <1>3, <1>4

\* The bytes of a row end before any later row that has bits or is filled.
LEMMA BytesBefore ==
  ASSUME NEW b, Good(b), NEW r \in RowIndexes(b), NEW q \in RowIndexes(b), r < q,
         b.bits_per_row[q] > 0 \/ q = CurrentRow(b),
         NEW j \in 0 .. BitsToByte(b.bits_per_row[r]) - 1
  PROVE  Index(r, j) < q * RowBits
<1> DEFINE n == b.bits_per_row[r]
<1>1. r \in Nat /\ q \in Nat /\ n \in Nat /\ RowBits \in Nat
  <2>1. RowIndexes(b) \subseteq Rows /\ b.bits_per_row \in [Rows -> Nat] /\ Rows \subseteq Nat
    BY Fields DEF Good, Rows
  <2> QED
    BY <2>1, RowBitsType
<1>2. EndRow(r, n) <= q
  BY DEF Good, RowsOK
<1> HIDE DEF n
<1>3. EndRow(r, n) \in Nat
  BY <1>1, EndRowOfMore
<1>4. Index(r, j) < EndRow(r, n) * RowBits
  BY <1>1, RowExtent DEF n
<1>5. EndRow(r, n) * RowBits <= q * RowBits
  BY <1>1, <1>2, <1>3, TimesUp
<1>6. Index(r, j) \in Nat
  <2>1. BitsToByte(n) \in Nat
    BY <1>1, RowExtent
  <2>2. j \in Nat
    BY <2>1 DEF n
  <2> QED
    BY <1>1, <2>2, IndexOf
<1> DEFINE u == EndRow(r, n) * RowBits
           v == q * RowBits
<1>7. u \in Nat /\ v \in Nat
  BY <1>1, <1>3
<1> HIDE DEF u, v
<1> QED
  BY <1>4, <1>5, <1>6, <1>7 DEF u, v

\* The bytes of a row lie in the buffer.
LEMMA BytesInBuffer ==
  ASSUME NEW b, Good(b), NEW r \in RowIndexes(b),
         NEW j \in 0 .. BitsToByte(b.bits_per_row[r]) - 1
  PROVE  Index(r, j) \in AllBits
<1> DEFINE n == b.bits_per_row[r]
           cur == CurrentRow(b)
<1>1. /\ r \in Nat /\ n \in Nat /\ RowBits \in Nat /\ BITBUF_ROWS \in Nat
      /\ cur \in RowIndexes(b) /\ cur \in Nat /\ r <= cur /\ cur < BITBUF_ROWS
      /\ b.free_row \in 0 .. BITBUF_ROWS /\ b.num_rows > 0
  <2>1. /\ RowIndexes(b) \subseteq Rows /\ b.bits_per_row \in [Rows -> Nat] /\ Rows \subseteq Nat
        /\ RowIndexes(b) = 0 .. b.num_rows - 1 /\ b.num_rows \in 0 .. BITBUF_ROWS
        /\ BITBUF_ROWS \in Nat /\ b.free_row \in 0 .. BITBUF_ROWS
    BY Fields DEF Good, Rows
  <2>2. b.num_rows > 0
    BY <2>1
  <2>3. cur = b.num_rows - 1
    BY DEF CurrentRow
  <2> QED
    BY <2>1, <2>2, <2>3, RowBitsType
<1>2. j \in Nat /\ Index(r, j) \in Nat /\ Index(r, j) < EndRow(r, n) * RowBits
  <2>1. BitsToByte(n) \in Nat
    BY <1>1, RowExtent
  <2>2. j \in Nat
    BY <2>1
  <2> HIDE DEF n
  <2>3. Index(r, j) < EndRow(r, n) * RowBits
    BY <1>1, RowExtent DEF n
  <2> QED
    BY <1>1, <2>2, <2>3, IndexOf
<1>3. EndRow(r, n) \in Nat /\ EndRow(r, n) <= BITBUF_ROWS
  <2>1. EndRow(r, n) \in Nat
    <3> HIDE DEF n
    <3> QED
      BY <1>1, EndRowOfMore
  <2>2. CASE r = cur
    <3>1. EndRow(r, n) <= b.free_row
      BY <1>1, <2>2 DEF Good, RowsOK
    <3> QED
      BY <1>1, <2>1, <3>1
  <2>3. CASE r # cur
    <3>1. r < cur
      BY <1>1, <2>3
    <3>2. EndRow(r, n) <= cur
      BY <1>1, <3>1 DEF Good, RowsOK
    <3> HIDE DEF n, cur
    <3> QED
      BY <1>1, <2>1, <3>2
  <2> QED
    BY <2>2, <2>3
<1> DEFINE u == EndRow(r, n) * RowBits
           v == BITBUF_ROWS * RowBits
<1>4. u <= v
  <2> HIDE DEF n
  <2> QED
    BY <1>1, <1>3, TimesUp
<1>5. u \in Nat /\ v \in Nat
  BY <1>1, <1>3
<1>6. Index(r, j) < u /\ AllBits = 0 .. v - 1
  BY <1>2 DEF AllBits
<1> HIDE DEF u, v
<1> QED
  BY <1>2, <1>4, <1>5, <1>6

\* A bit of one row is in the bytes of no other row.
LEMMA Apart ==
  ASSUME NEW b, Good(b), NEW r \in RowIndexes(b), NEW q \in RowIndexes(b),
         NEW i \in 0 .. BitsToByte(b.bits_per_row[r]) - 1,
         NEW j \in 0 .. b.bits_per_row[q] - 1, Index(r, i) = Index(q, j)
  PROVE  r = q /\ i = j
<1> DEFINE n == b.bits_per_row[r]
           m == b.bits_per_row[q]
<1>1. /\ r \in Nat /\ n \in Nat /\ q \in Nat /\ m \in Nat
      /\ RowIndexes(b) = 0 .. b.num_rows - 1
  <2>1. RowIndexes(b) \subseteq Rows /\ b.bits_per_row \in [Rows -> Nat] /\ Rows \subseteq Nat
    BY Fields DEF Good, Rows
  <2> QED
    BY <2>1 DEF RowIndexes
<1>2. BitsToByte(n) \in Nat /\ BitsToByte(m) \in Nat /\ m <= BitsToByte(m)
      /\ (n = 0 => BitsToByte(n) = 0)
  BY <1>1, RowExtent
<1>3. i \in Nat /\ j \in Nat /\ n > 0 /\ m > 0 /\ j \in 0 .. BitsToByte(m) - 1
  BY <1>1, <1>2
<1>4. /\ Index(r, i) = r * RowBits + i /\ r * RowBits \in Nat
      /\ Index(q, j) = q * RowBits + j /\ q * RowBits \in Nat
  BY <1>1, <1>3, IndexOf
<1> DEFINE s == r * RowBits
           t == q * RowBits
<1>5. ~(r < q)
  <2> SUFFICES ASSUME r < q
               PROVE  FALSE
    OBVIOUS
  <2>1. Index(r, i) < t
    BY <1>3, BytesBefore
  <2>2. Index(r, i) = t + j /\ t \in Nat
    BY <1>4
  <2> HIDE DEF t
  <2> QED
    BY <1>3, <2>1, <2>2
<1>6. ~(q < r)
  <2> SUFFICES ASSUME q < r
               PROVE  FALSE
    OBVIOUS
  <2>1. Index(q, j) < s
    BY <1>3, BytesBefore
  <2>2. Index(q, j) = s + i /\ s \in Nat
    BY <1>4
  <2> HIDE DEF s
  <2> QED
    BY <1>3, <2>1, <2>2
<1>7. r = q
  BY <1>1, <1>5, <1>6
<1>8. i = j
  <2>1. s + i = s + j /\ s \in Nat
    BY <1>4, <1>7
  <2> HIDE DEF s
  <2> QED
    BY <1>3, <2>1
<1> QED
  BY <1>7, <1>8

\* Bit k of the memory is one of a row's.
Owned(b, k) == \E r \in RowIndexes(b) : k - Index(r, 0) \in 0 .. b.bits_per_row[r] - 1

LEMMA OwnedIs ==
  ASSUME NEW b, Good(b), NEW k \in AllBits
  PROVE  /\ Owned(b, k) <=> 
              \E r \in RowIndexes(b) : \E j \in 0 .. b.bits_per_row[r] - 1 : k = Index(r, j)
         /\ \A r \in RowIndexes(b) :
              k - Index(r, 0) \in 0 .. b.bits_per_row[r] - 1 =>
                k = Index(r, k - Index(r, 0))
<1>1. /\ RowIndexes(b) \subseteq Nat /\ AllBits \subseteq Int
      /\ \A r \in RowIndexes(b) : b.bits_per_row[r] \in Nat
  <2>1. RowIndexes(b) \subseteq Rows /\ b.bits_per_row \in [Rows -> Nat] /\ Rows \subseteq Nat
    BY Fields DEF Good, Rows
  <2>2. AllBits \subseteq Int
    BY RowBitsType, BufferAssumption DEF AllBits
  <2> QED
    BY <2>1, <2>2
<1>2. ASSUME NEW r \in RowIndexes(b), NEW j \in 0 .. b.bits_per_row[r] - 1
      PROVE  k - Index(r, 0) = j <=> k = Index(r, j)
  <2>1. r \in Nat /\ j \in Nat /\ k \in Int
    BY <1>1
  <2> QED
    BY <2>1, IndexOf
<1> QED
  BY <1>2 DEF Owned

\* The unused bits of a row's last byte are no row's.
LEMMA UnusedUnowned ==
  ASSUME NEW b, Good(b), NEW r \in RowIndexes(b),
         NEW i \in b.bits_per_row[r] .. BitsToByte(b.bits_per_row[r]) - 1
  PROVE  Index(r, i) \in AllBits /\ ~Owned(b, Index(r, i))
<1>1. b.bits_per_row[r] \in Nat
  BY Fields DEF Good
<1>2. i \in 0 .. BitsToByte(b.bits_per_row[r]) - 1
  BY <1>1, RowExtent
<1>3. Index(r, i) \in AllBits
  BY <1>2, BytesInBuffer
<1>4. ASSUME NEW q \in RowIndexes(b), NEW j \in 0 .. b.bits_per_row[q] - 1,
             Index(r, i) = Index(q, j)
      PROVE  FALSE
  <2>1. r = q /\ i = j
    BY <1>2, <1>4, Apart
  <2> QED
    BY <1>1, <1>4, <2>1
<1> QED
  BY <1>3, <1>4, OwnedIs

-----------------------------------------------------------------------------
(* The own rows, one more at a time.  Claims about all of the first n rows  *)
(* are shown by the least n for which they are wrong.                       *)

NextOwn(b, s, r) == IF Own(b, r) THEN Append(s, r) ELSE s

IsOwn(g, b, N) == g = [k \in 0 .. N |-> IF k = 0 THEN <<>> ELSE NextOwn(b, g[k - 1], k - 1)]

LEMMA OwnExists ==
  ASSUME NEW b, NEW N \in Nat
  PROVE  \E g : IsOwn(g, b, N)
<1> DEFINE Fits(n) == \E g : IsOwn(g, b, n)
           T == {n \in Nat : ~Fits(n)}
<1>1. Fits(0)
  <2> DEFINE g == [k \in 0 .. 0 |-> <<>>]
  <2>1. g = [k \in 0 .. 0 |-> IF k = 0 THEN <<>> ELSE NextOwn(b, g[k - 1], k - 1)]
    OBVIOUS
  <2> QED
    BY <2>1 DEF IsOwn
<1>2. ASSUME NEW n \in Nat, Fits(n)
      PROVE  Fits(n + 1)
  <2>1. PICK g : IsOwn(g, b, n)
    BY <1>2
  <2> DEFINE D == 0 .. n + 1
             h == [k \in D |-> IF k = n + 1 THEN NextOwn(b, g[n], n) ELSE g[k]]
             f == [k \in D |-> IF k = 0 THEN <<>> ELSE NextOwn(b, h[k - 1], k - 1)]
  <2>2. ASSUME NEW k \in D
        PROVE  h[k] = f[k]
    <3>1. CASE k = 0
      <4>1. g[0] = <<>> /\ 0 # n + 1 /\ 0 \in D
        BY <2>1 DEF IsOwn
      <4> HIDE DEF D
      <4> QED
        BY <3>1, <4>1
    <3>2. CASE k = n + 1
      <4>1. k - 1 = n /\ n \in D /\ n # n + 1 /\ k # 0
        BY <3>2
      <4> HIDE DEF D
      <4>2. h[k] = NextOwn(b, g[n], n) /\ h[n] = g[n]
        BY <3>2, <4>1
      <4>3. f[k] = NextOwn(b, h[k - 1], k - 1)
        BY <4>1
      <4> QED
        BY <4>1, <4>2, <4>3
    <3>3. CASE k # 0 /\ k # n + 1
      <4>1. k - 1 \in D /\ k - 1 # n + 1 /\ k \in 0 .. n
        BY <3>3
      <4>2. g[k] = NextOwn(b, g[k - 1], k - 1)
        BY <2>1, <3>3, <4>1 DEF IsOwn
      <4> HIDE DEF D
      <4>3. h[k] = g[k] /\ h[k - 1] = g[k - 1]
        BY <3>3, <4>1
      <4>4. f[k] = NextOwn(b, h[k - 1], k - 1)
        BY <3>3
      <4> QED
        BY <4>2, <4>3, <4>4
    <3> QED
      BY <3>1, <3>2, <3>3
  <2>3. h = f
    BY <2>2
  <2> HIDE DEF h
  <2> QED
    BY <2>3 DEF IsOwn
<1> HIDE DEF Fits
<1>3. T = {}
  <2> SUFFICES ASSUME T # {}
               PROVE  FALSE
    OBVIOUS
  <2>1. PICK x \in T : \A y \in T : x <= y
    BY LeastOf
  <2>2. x \in Nat /\ ~Fits(x) /\ x # 0
    BY <1>1
  <2>3. x - 1 \in Nat /\ ~(x - 1 \in T)
    BY <2>1, <2>2
  <2> QED
    BY <1>2, <2>2, <2>3
<1> QED
  BY <1>3 DEF Fits

LEMMA OwnStep ==
  ASSUME NEW b
  PROVE  /\ OwnUpTo(b, 0) = <<>>
         /\ \A r \in Rows : OwnUpTo(b, r + 1) = NextOwn(b, OwnUpTo(b, r), r)
<1> DEFINE own == CHOOSE g : g = [k \in 0 .. BITBUF_ROWS |->
                    IF k = 0 THEN <<>>
                      ELSE IF Own(b, k - 1) THEN Append(g[k - 1], k - 1) ELSE g[k - 1]]
<1>1. \A n : OwnUpTo(b, n) = own[n]
  BY DEF OwnUpTo
<1>2. BITBUF_ROWS \in Nat
  BY BufferAssumption
<1>3. IsOwn(own, b, BITBUF_ROWS)
  <2>1. \E g : IsOwn(g, b, BITBUF_ROWS)
    BY <1>2, OwnExists
  <2> QED
    BY <2>1 DEF IsOwn, NextOwn
<1> HIDE DEF own
<1>4. own[0] = <<>>
  BY <1>2, <1>3 DEF IsOwn
<1>5. ASSUME NEW r \in Rows
      PROVE  own[r + 1] = NextOwn(b, own[r], r)
  <2>1. r + 1 \in 0 .. BITBUF_ROWS /\ r + 1 # 0 /\ (r + 1) - 1 = r
    BY <1>2 DEF Rows
  <2> QED
    BY <1>3, <2>1 DEF IsOwn
<1> QED
  BY <1>1, <1>4, <1>5

\* They are rows before n, and own.
LEMMA OwnType ==
  ASSUME NEW b, NEW n \in 0 .. BITBUF_ROWS
  PROVE  /\ OwnUpTo(b, n) \in Seq(Nat)
         /\ \A i \in 1 .. Len(OwnUpTo(b, n)) :
              OwnUpTo(b, n)[i] \in 0 .. n - 1 /\ Own(b, OwnUpTo(b, n)[i])
<1> DEFINE Typed(s, k) ==
             s \in Seq(Nat) /\ \A i \in 1 .. Len(s) : s[i] \in 0 .. k - 1 /\ Own(b, s[i])
           T == {k \in 0 .. BITBUF_ROWS : ~Typed(OwnUpTo(b, k), k)}
<1>0. BITBUF_ROWS \in Nat
  BY BufferAssumption
<1>1. SUFFICES ASSUME T # {}
               PROVE  FALSE
  OBVIOUS
<1>2. PICK x \in T : \A y \in T : x <= y
  <2>1. T \subseteq Nat
    OBVIOUS
  <2> HIDE DEF T
  <2> QED
    BY <1>1, <2>1, LeastOf
<1>3. x \in 0 .. BITBUF_ROWS /\ ~Typed(OwnUpTo(b, x), x)
  OBVIOUS
<1>4. x # 0
  <2>1. Typed(<<>>, 0)
    OBVIOUS
  <2> HIDE DEF Typed
  <2> QED
    BY <1>3, <2>1, OwnStep
<1>5. x - 1 \in Rows /\ x - 1 \in Nat /\ x - 1 \notin T /\ (x - 1) + 1 = x
  BY <1>0, <1>2, <1>3, <1>4 DEF Rows
<1> DEFINE p == x - 1
           s == OwnUpTo(b, p)
<1>6. Typed(s, p)
  BY <1>0, <1>5 DEF Rows
<1>7. OwnUpTo(b, x) = NextOwn(b, s, p)
  BY <1>5, OwnStep
<1>8. p \in Nat /\ x = p + 1
  BY <1>5
<1> HIDE DEF s, p
<1>9. Typed(s, x)
  BY <1>6, <1>8
<1>10. CASE Own(b, p)
  <2> DEFINE t == Append(s, p)
  <2>1. t \in Seq(Nat) /\ Len(t) = Len(s) + 1 /\ t[Len(s) + 1] = p
        /\ \A i \in 1 .. Len(s) : t[i] = s[i]
    BY <1>6, <1>8
  <2>2. Len(s) \in Nat
    BY <1>6
  <2> HIDE DEF t
  <2>3. ASSUME NEW i \in 1 .. Len(t)
        PROVE  t[i] \in 0 .. x - 1 /\ Own(b, t[i])
    <3>1. i \in 1 .. Len(s) \/ i = Len(s) + 1
      BY <2>1, <2>2
    <3> QED
      BY <1>8, <1>9, <1>10, <2>1, <3>1, SMTT(40)
  <2> QED
    BY <1>3, <1>7, <1>10, <2>1, <2>3 DEF NextOwn, t
<1>11. CASE ~Own(b, p)
  BY <1>3, <1>7, <1>9, <1>11 DEF NextOwn
<1> QED
  BY <1>10, <1>11

\* What is own among the first n rows is all that matters.
LEMMA OwnSame ==
  ASSUME NEW b, NEW c, NEW n \in 0 .. BITBUF_ROWS,
         \A r \in 0 .. n - 1 : Own(c, r) <=> Own(b, r)
  PROVE  OwnUpTo(c, n) = OwnUpTo(b, n)
<1> DEFINE T == {k \in 0 .. n : OwnUpTo(c, k) # OwnUpTo(b, k)}
<1>0. n \in Nat /\ n <= BITBUF_ROWS /\ BITBUF_ROWS \in Nat
  BY BufferAssumption
<1>1. SUFFICES ASSUME T # {}
               PROVE  FALSE
  BY <1>0
<1>2. PICK x \in T : \A y \in T : x <= y
  <2>1. T \subseteq Nat
    OBVIOUS
  <2> HIDE DEF T
  <2> QED
    BY <1>1, <2>1, LeastOf
<1>3. x # 0
  BY <1>2, OwnStep
<1>4. x - 1 \in 0 .. n - 1 /\ x - 1 \in Rows /\ x - 1 \notin T /\ (x - 1) + 1 = x
  BY <1>0, <1>2, <1>3 DEF Rows
<1>5. OwnUpTo(c, x - 1) = OwnUpTo(b, x - 1)
  BY <1>0, <1>4
<1>6. OwnUpTo(c, x) = NextOwn(c, OwnUpTo(c, x - 1), x - 1)
      /\ OwnUpTo(b, x) = NextOwn(b, OwnUpTo(b, x - 1), x - 1)
  BY <1>4, OwnStep
<1> QED
  BY <1>2, <1>4, <1>5, <1>6 DEF NextOwn

\* Rows that are not own add nothing.
LEMMA OwnSkipped ==
  ASSUME NEW b, NEW n \in 0 .. BITBUF_ROWS, NEW m \in 0 .. n,
         \A r \in m .. n - 1 : ~Own(b, r)
  PROVE  OwnUpTo(b, n) = OwnUpTo(b, m)
<1> DEFINE T == {k \in m .. n : OwnUpTo(b, k) # OwnUpTo(b, m)}
<1>0. n \in Nat /\ n <= BITBUF_ROWS /\ BITBUF_ROWS \in Nat /\ m \in Nat /\ m <= n
  BY BufferAssumption
<1>1. SUFFICES ASSUME T # {}
               PROVE  FALSE
  BY <1>0
<1>2. PICK x \in T : \A y \in T : x <= y
  <2>1. T \subseteq Nat
    BY <1>0
  <2> HIDE DEF T
  <2> QED
    BY <1>1, <2>1, LeastOf
<1>3. x # m
  BY <1>2
<1>4. x - 1 \in m .. n - 1 /\ x - 1 \in Rows /\ x - 1 \notin T /\ (x - 1) + 1 = x
  BY <1>0, <1>2, <1>3 DEF Rows
<1>5. OwnUpTo(b, x - 1) = OwnUpTo(b, m)
  BY <1>0, <1>4
<1>6. OwnUpTo(b, x) = NextOwn(b, OwnUpTo(b, x - 1), x - 1)
  BY <1>4, OwnStep
<1> QED
  BY <1>2, <1>4, <1>5, <1>6 DEF NextOwn

LEMMA RowsAre ==
  ASSUME NEW b, Good(b), NEW r \in RowIndexes(b)
  PROVE  /\ r \in Rows /\ r \in Nat /\ r < b.num_rows /\ b.num_rows > 0
         /\ r <= CurrentRow(b) /\ CurrentRow(b) \in RowIndexes(b)
         /\ CurrentRow(b) \in Nat /\ CurrentRow(b) \in Rows
         /\ b.bits_per_row[r] \in Nat /\ b.syncs_before_row[r] \in Nat
<1>1. /\ RowIndexes(b) \subseteq Rows /\ RowIndexes(b) = 0 .. b.num_rows - 1
      /\ b.bits_per_row \in [Rows -> Nat] /\ b.syncs_before_row \in [Rows -> Nat]
      /\ b.num_rows \in Nat /\ Rows \subseteq Nat
  BY Fields DEF Good, Rows
<1>2. CurrentRow(b) = b.num_rows - 1
  BY DEF CurrentRow
<1> QED
  BY <1>1, <1>2

\* Longer rows own more.
LEMMA OwnedMore ==
  ASSUME NEW b, Good(b), NEW c, Good(c), b.num_rows <= c.num_rows,
         \A r \in RowIndexes(b) : b.bits_per_row[r] <= c.bits_per_row[r],
         NEW k \in AllBits, Owned(b, k)
  PROVE  Owned(c, k)
<1>1. PICK r \in RowIndexes(b) : \E j \in 0 .. b.bits_per_row[r] - 1 : k = Index(r, j)
  BY OwnedIs
<1>2. PICK j \in 0 .. b.bits_per_row[r] - 1 : k = Index(r, j)
  BY <1>1
<1>3. r \in RowIndexes(c)
  BY RowsAre, Fields DEF Good, RowIndexes
<1>4. j \in 0 .. c.bits_per_row[r] - 1
  BY <1>3, RowsAre
<1> QED
  BY <1>2, <1>3, <1>4, OwnedIs

\* What a row gets when it becomes longer was no row's.
LEMMA FreshUnowned ==
  ASSUME NEW b, Good(b), NEW c, Good(c), b.num_rows <= c.num_rows,
         \A r \in RowIndexes(b) : b.bits_per_row[r] <= c.bits_per_row[r],
         NEW r \in RowIndexes(b), NEW i \in b.bits_per_row[r] .. c.bits_per_row[r] - 1
  PROVE  Index(r, i) \in AllBits /\ ~Owned(b, Index(r, i))
<1>0. \A q \in RowIndexes(b) : q \in RowIndexes(c)
  BY RowsAre, Fields DEF Good, RowIndexes
<1>1. /\ b.bits_per_row[r] \in Nat /\ c.bits_per_row[r] \in Nat /\ r \in RowIndexes(c)
  BY <1>0, RowsAre
<1>2. i \in 0 .. BitsToByte(c.bits_per_row[r]) - 1
  BY <1>1, RowExtent
<1>3. Index(r, i) \in AllBits
  BY <1>1, <1>2, BytesInBuffer
<1>4. ASSUME NEW q \in RowIndexes(b), NEW j \in 0 .. b.bits_per_row[q] - 1,
             Index(r, i) = Index(q, j)
      PROVE  FALSE
  <2>1. q \in RowIndexes(c) /\ j \in 0 .. c.bits_per_row[q] - 1
    BY <1>0, RowsAre
  <2>2. r = q /\ i = j
    BY <1>1, <1>2, <1>4, <2>1, Apart
  <2> QED
    BY <1>1, <1>4, <2>2
<1> QED
  BY <1>3, <1>4, OwnedIs

\* Memory that no row uses is clear.
Clean(b) == \A k \in AllBits : ~Owned(b, k) => b.bb[k] = 0

LEMMA CleanMore ==
  ASSUME NEW b, Good(b), Clean(b), NEW c, Good(c), b.num_rows <= c.num_rows,
         \A r \in RowIndexes(b) : b.bits_per_row[r] <= c.bits_per_row[r],
         \A k \in AllBits : ~Owned(c, k) => c.bb[k] = b.bb[k]
  PROVE  Clean(c)
BY OwnedMore DEF Clean

\* The first row of a buffer is started with nothing.
LEMMA WithRowIs ==
  ASSUME NEW b, Good(b)
  PROVE  LET w == WithRow(b)
         IN  /\ Good(w) /\ w.num_rows > 0 /\ b.num_rows <= w.num_rows
             /\ w.bits_per_row = b.bits_per_row /\ w.bb = b.bb
             /\ w.syncs_before_row = b.syncs_before_row
             /\ IF b.num_rows = 0 THEN w.num_rows = 1 /\ w.free_row = 1 ELSE w = b
<1>1. Good(WithRow(b)) /\ WithRow(b).num_rows > 0
  BY WithRowGood
<1>2. b \in Bitbuffers /\ b.num_rows \in Nat
  BY Fields DEF Good
<1> QED
  BY <1>1, <1>2 DEF WithRow, Bitbuffers

LEMMA StoreIs ==
  ASSUME NEW b, Good(b), b.num_rows > 0, ~NoMoreBits(b), NEW bit \in 0 .. 1
  PROVE  LET row == CurrentRow(b)
             n   == b.bits_per_row[row]
             c   == StoreBit(b, bit)
         IN  /\ Good(c) /\ c.num_rows = b.num_rows
             /\ c.bits_per_row = [b.bits_per_row EXCEPT ![row] = n + 1]
             /\ c.syncs_before_row = b.syncs_before_row
             /\ c.bb = [b.bb EXCEPT ![Index(row, n)] = IF bit = 1 THEN 1 ELSE @]
             /\ c.free_row = IF Spills(b) THEN b.free_row + 1 ELSE b.free_row
<1>1. Good(StoreBit(b, bit))
  BY StoreGood
<1>2. b \in Bitbuffers
  BY DEF Good
<1> QED
  BY <1>1, <1>2 DEF StoreBit, Bitbuffers

LEMMA StoreClean ==
  ASSUME NEW b, Good(b), b.num_rows > 0, ~NoMoreBits(b), NEW bit \in 0 .. 1
  PROVE  LET n == b.bits_per_row[CurrentRow(b)]
         IN  /\ Clean(b) => Clean(StoreBit(b, bit))
             /\ n \in Nat /\ Index(CurrentRow(b), n) \in AllBits
             /\ ~Owned(b, Index(CurrentRow(b), n))
<1> DEFINE row == CurrentRow(b)
           n == b.bits_per_row[row]
           c == StoreBit(b, bit)
           at == Index(row, n)
<1>1. /\ Good(c) /\ c.num_rows = b.num_rows
      /\ c.bits_per_row = [b.bits_per_row EXCEPT ![row] = n + 1]
      /\ c.bb = [b.bb EXCEPT ![at] = IF bit = 1 THEN 1 ELSE @]
  BY StoreIs
<1>2. row \in RowIndexes(b) /\ row \in Rows /\ n \in Nat /\ b.bits_per_row \in [Rows -> Nat]
      /\ b.bb \in [AllBits -> 0 .. 1] /\ b.num_rows \in Nat
  BY Fields DEF Good
<1> HIDE DEF c
<1>3. \A r \in RowIndexes(b) : b.bits_per_row[r] <= c.bits_per_row[r]
  BY <1>1, <1>2, RowsAre
<1>4. n \in b.bits_per_row[row] .. c.bits_per_row[row] - 1
  BY <1>1, <1>2
<1> HIDE DEF n, row
<1>9. b.num_rows <= c.num_rows
  BY <1>1, <1>2
<1>5. at \in AllBits /\ ~Owned(b, at)
  BY <1>1, <1>2, <1>3, <1>4, <1>9, FreshUnowned
<1>6. Owned(c, at)
  <2>1. row \in RowIndexes(c) /\ n \in 0 .. c.bits_per_row[row] - 1
    BY <1>1, <1>2 DEF RowIndexes
  <2> QED
    BY <1>1, <1>5, <2>1, OwnedIs
<1>7. \A k \in AllBits : ~Owned(c, k) => c.bb[k] = b.bb[k]
  <2> SUFFICES ASSUME NEW k \in AllBits, ~Owned(c, k)
               PROVE  c.bb[k] = b.bb[k]
    OBVIOUS
  <2>1. k # at
    BY <1>6
  <2> HIDE DEF at
  <2> QED
    BY <1>1, <1>2, <2>1
<1> HIDE DEF at
<1>8. Clean(b) => Clean(c)
  BY <1>1, <1>3, <1>7, <1>9, CleanMore
<1> QED
  BY <1>2, <1>5, <1>8 DEF c, n, row, at

\* A row is started behind all others, or the last row is given up.
LEMMA AddRowIs ==
  ASSUME NEW bits0, Good(bits0), NEW len \in Nat
  PROVE  LET w == WithRow(bits0)
             c == bitbuffer_add_row(bits0, len)
         IN  /\ Good(c) /\ c.bb = w.bb /\ c.syncs_before_row = w.syncs_before_row
             /\ IF NoMoreRows(w)
                  THEN /\ c.num_rows = w.num_rows /\ c.free_row = w.free_row
                       /\ c.bits_per_row = [w.bits_per_row EXCEPT ![CurrentRow(w)] = 0]
                  ELSE /\ c.num_rows = w.free_row + 1 /\ c.free_row = w.free_row + 1
                       /\ c.bits_per_row = w.bits_per_row
<1> DEFINE w == WithRow(bits0)
           b == [w EXCEPT !.len_rows[CurrentRow(w)] = len]
           c == bitbuffer_add_row(bits0, len)
<1>1. Good(w) /\ Good(c)
  BY WithRowGood, AddRowGood
<1>2. w \in Bitbuffers
  BY <1>1 DEF Good
<1>3. c = IF NoMoreRows(b) THEN [b EXCEPT !.bits_per_row[CurrentRow(b)] = 0]
                           ELSE [b EXCEPT !.free_row = @ + 1, !.num_rows = b.free_row + 1]
  BY DEF bitbuffer_add_row
<1> HIDE DEF w, c
<1>4. /\ b.num_rows = w.num_rows /\ b.free_row = w.free_row /\ b.bits_per_row = w.bits_per_row
      /\ b.syncs_before_row = w.syncs_before_row /\ b.bb = w.bb
      /\ b = [w EXCEPT !.len_rows = b.len_rows]
  BY <1>2 DEF Bitbuffers
<1>5. CurrentRow(b) = CurrentRow(w) /\ (NoMoreRows(b) <=> NoMoreRows(w))
  BY <1>4 DEF CurrentRow, NoMoreRows
<1>6. DOMAIN b = DOMAIN w
  BY <1>4
<1> HIDE DEF b
<1>7. /\ c.bb = b.bb /\ c.syncs_before_row = b.syncs_before_row
      /\ IF NoMoreRows(b)
           THEN /\ c.num_rows = b.num_rows /\ c.free_row = b.free_row
                /\ c.bits_per_row = [b.bits_per_row EXCEPT ![CurrentRow(b)] = 0]
           ELSE /\ c.num_rows = b.free_row + 1 /\ c.free_row = b.free_row + 1
                /\ c.bits_per_row = b.bits_per_row
  BY <1>2, <1>3, <1>6 DEF Bitbuffers
<1> QED
  BY <1>1, <1>4, <1>5, <1>7 DEF c, w

LEMMA SetWidthIs ==
  ASSUME NEW bits0, Good(bits0), NEW width \in Nat
  PROVE  LET w   == WithRow(bits0)
             row == CurrentRow(w)
             old == w.bits_per_row[row]
             new == IF width > RemainingBits(w) THEN RemainingBits(w) ELSE width
             c   == bitbuffer_set_width(bits0, width)
         IN  /\ Good(c) /\ c.num_rows = w.num_rows /\ new \in Nat
             /\ c.bits_per_row = [w.bits_per_row EXCEPT ![row] = new]
             /\ c.syncs_before_row = w.syncs_before_row
             /\ EndRow(row, new) = c.free_row
             /\ \A k \in AllBits :
                  c.bb[k] = IF old > new /\ \E j \in new .. BitsToByte(old) - 1 : k = Index(row, j)
                              THEN 0 ELSE w.bb[k]
<1> DEFINE w == WithRow(bits0)
           row == CurrentRow(w)
           old == w.bits_per_row[row]
           new == IF width > RemainingBits(w) THEN RemainingBits(w) ELSE width
           cut == {Index(row, i) : i \in new .. BitsToByte(old) - 1}
           F == w.num_rows + (IF new = 0 THEN 0 ELSE (new - 1) \div RowBits)
           B == [i \in AllBits |-> IF i \in cut /\ old > new THEN 0 ELSE w.bb[i]]
           c == bitbuffer_set_width(bits0, width)
<1>1. Good(w) /\ Good(c) /\ w.num_rows > 0
  BY WithRowGood, SetWidthGood
<1>2. w \in Bitbuffers
  BY <1>1 DEF Good
<1>3. c = [w EXCEPT !.bits_per_row[row] = new, !.free_row = F, !.bb = B]
  BY DEF bitbuffer_set_width
<1> HIDE DEF w, c
<1>4. new \in Nat /\ EndRow(row, new) = F
  BY <1>1, SetWidthEnds
<1>5. \A k \in AllBits :
        B[k] = IF old > new /\ \E j \in new .. BitsToByte(old) - 1 : k = Index(row, j)
                 THEN 0 ELSE w.bb[k]
  OBVIOUS
<1> HIDE DEF B, F, new
<1>6. /\ c.num_rows = w.num_rows /\ c.free_row = F /\ c.bb = B
      /\ c.bits_per_row = [w.bits_per_row EXCEPT ![row] = new]
      /\ c.syncs_before_row = w.syncs_before_row
  BY <1>2, <1>3 DEF Bitbuffers
<1> QED
  BY <1>1, <1>4, <1>5, <1>6 DEF w, c, new

LEMMA AddRowClean ==
  ASSUME NEW bits0, Good(bits0), Clean(bits0), ~NoMoreRows(WithRow(bits0)), NEW len \in Nat
  PROVE  Clean(bitbuffer_add_row(bits0, len))
<1> DEFINE w == WithRow(bits0)
           c == bitbuffer_add_row(bits0, len)
<1>1. /\ Good(w) /\ bits0.num_rows <= w.num_rows /\ w.bits_per_row = bits0.bits_per_row
      /\ w.bb = bits0.bb
  BY WithRowIs
<1>2. /\ Good(c) /\ c.bb = w.bb /\ c.num_rows = w.free_row + 1 /\ c.bits_per_row = w.bits_per_row
  BY AddRowIs
<1> HIDE DEF w, c
<1>3. bits0.num_rows <= c.num_rows
  <2>1. w.num_rows <= w.free_row /\ w.free_row \in Nat /\ w.num_rows \in Nat
        /\ bits0.num_rows \in Nat
    BY <1>1, Fields DEF Good, RowsOK
  <2> QED
    BY <1>1, <1>2, <2>1
<1>4. \A r \in RowIndexes(bits0) : bits0.bits_per_row[r] <= c.bits_per_row[r]
  BY <1>1, <1>2, RowsAre
<1>5. Clean(c)
  BY <1>1, <1>2, <1>3, <1>4, CleanMore
<1> QED
  BY <1>5 DEF c

LEMMA WithRowClean ==
  ASSUME NEW b, Good(b), Clean(b)
  PROVE  Clean(WithRow(b))
<1> DEFINE w == WithRow(b)
<1>1. /\ Good(w) /\ b.num_rows <= w.num_rows /\ w.bits_per_row = b.bits_per_row /\ w.bb = b.bb
  BY WithRowIs
<1> HIDE DEF w
<1>2. \A r \in RowIndexes(b) : b.bits_per_row[r] <= w.bits_per_row[r]
  BY <1>1, RowsAre
<1>3. Clean(w)
  BY <1>1, <1>2, CleanMore
<1> QED
  BY <1>3 DEF w

\* A sync is counted for the row it comes before, which it starts if need be.
LEMMA AddSyncIs ==
  ASSUME NEW bits0, Good(bits0), NEW len \in Nat
  PROVE  LET b == IF SyncEndsRow(bits0) THEN bitbuffer_add_row(bits0, len) ELSE WithRow(bits0)
             c == bitbuffer_add_sync(bits0, len)
         IN  /\ Good(b) /\ b.num_rows > 0 /\ Good(c) /\ c.num_rows = b.num_rows
             /\ c.free_row = b.free_row /\ c.bits_per_row = b.bits_per_row /\ c.bb = b.bb
             /\ c.syncs_before_row = [b.syncs_before_row EXCEPT ![CurrentRow(b)] = @ + 1]
<1> DEFINE b == IF SyncEndsRow(bits0) THEN bitbuffer_add_row(bits0, len) ELSE WithRow(bits0)
           c == bitbuffer_add_sync(bits0, len)
<1>1. Good(b) /\ b.num_rows > 0 /\ Good(c)
  BY AddRowGood, WithRowGood, AddSyncGood
<1>2. c = [b EXCEPT !.syncs_before_row[CurrentRow(b)] = @ + 1]
  BY DEF bitbuffer_add_sync
<1> HIDE DEF b, c
<1>3. b \in Bitbuffers
  BY <1>1 DEF Good
<1>4. /\ c.num_rows = b.num_rows /\ c.free_row = b.free_row /\ c.bb = b.bb
      /\ c.bits_per_row = b.bits_per_row
      /\ c.syncs_before_row = [b.syncs_before_row EXCEPT ![CurrentRow(b)] = @ + 1]
  BY <1>2, <1>3 DEF Bitbuffers
<1> QED
  BY <1>1, <1>4 DEF b, c

LEMMA SetWidthClean ==
  ASSUME NEW bits0, Good(bits0), Clean(bits0), NEW width \in Nat
  PROVE  Clean(bitbuffer_set_width(bits0, width))
<1> DEFINE w == WithRow(bits0)
           row == CurrentRow(w)
           old == w.bits_per_row[row]
           new == IF width > RemainingBits(w) THEN RemainingBits(w) ELSE width
           c == bitbuffer_set_width(bits0, width)
<1>1. /\ Good(w) /\ Good(c) /\ c.num_rows = w.num_rows /\ new \in Nat /\ w.num_rows > 0
      /\ c.bits_per_row = [w.bits_per_row EXCEPT ![row] = new]
      /\ \A k \in AllBits :
           c.bb[k] = IF old > new /\ \E j \in new .. BitsToByte(old) - 1 : k = Index(row, j)
                       THEN 0 ELSE w.bb[k]
  BY WithRowGood, SetWidthIs
<1>2. Clean(w)
  BY WithRowClean
<1> HIDE DEF w, c, new
<1>3. row \in RowIndexes(w) /\ row \in Rows /\ old \in Nat /\ w.bits_per_row \in [Rows -> Nat]
  BY <1>1, Fields DEF Good
<1>4. SUFFICES ASSUME NEW k \in AllBits, ~Owned(c, k), Owned(w, k)
               PROVE  c.bb[k] = 0
  BY <1>1, <1>2 DEF Clean, c
<1>5. PICK r \in RowIndexes(w) : \E j \in 0 .. w.bits_per_row[r] - 1 : k = Index(r, j)
  BY <1>1, <1>4, OwnedIs
<1>6. PICK j \in 0 .. w.bits_per_row[r] - 1 : k = Index(r, j)
  BY <1>5
<1>7. r \in RowIndexes(c) /\ r \in Rows
  BY <1>1, <1>5, RowsAre DEF RowIndexes
<1>8. ~(j \in 0 .. c.bits_per_row[r] - 1)
  BY <1>1, <1>4, <1>6, <1>7, OwnedIs
<1>9. r = row /\ ~(j \in 0 .. new - 1)
  BY <1>1, <1>3, <1>6, <1>7, <1>8
<1>10. old <= BitsToByte(old) /\ BitsToByte(old) \in Nat
  <2> DEFINE n == old
  <2>1. n \in Nat /\ row \in Nat
    BY <1>1, <1>3, RowsAre
  <2> HIDE DEF n
  <2>2. n <= BitsToByte(n) /\ BitsToByte(n) \in Nat
    BY <2>1, RowExtent
  <2> QED
    BY <2>2 DEF n
<1>11. old > new /\ j \in new .. BitsToByte(old) - 1
  BY <1>1, <1>3, <1>6, <1>9, <1>10
<1> QED
  BY <1>1, <1>6, <1>9, <1>11

\* The row that a transformation finds for a bit is the bit's.
LEMMA Chosen ==
  ASSUME NEW b, Good(b), NEW r \in RowIndexes(b), NEW i \in 0 .. b.bits_per_row[r] - 1
  PROVE  LET k == Index(r, i)
         IN  /\ k \in AllBits /\ k - Index(r, 0) = i /\ Owned(b, k)
             /\ r = CHOOSE q \in RowIndexes(b) : k - Index(q, 0) \in 0 .. b.bits_per_row[q] - 1
<1> DEFINE k == Index(r, i)
           q == CHOOSE q \in RowIndexes(b) : k - Index(q, 0) \in 0 .. b.bits_per_row[q] - 1
<1>1. r \in Nat /\ b.bits_per_row[r] \in Nat /\ i \in Nat
  BY RowsAre
<1>2. i \in 0 .. BitsToByte(b.bits_per_row[r]) - 1
  BY <1>1, RowExtent
<1>3. k \in AllBits /\ k \in Int
  <2>1. k \in AllBits
    BY <1>2, BytesInBuffer
  <2> QED
    BY <1>1, <2>1, IndexOf
<1>4. k - Index(r, 0) = i
  BY <1>1, <1>3, IndexOf
<1>5. q \in RowIndexes(b) /\ k - Index(q, 0) \in 0 .. b.bits_per_row[q] - 1
  BY <1>4
<1>6. Owned(b, k)
  BY <1>4 DEF Owned
<1> HIDE DEF q
<1>7. k = Index(q, k - Index(q, 0))
  BY <1>3, <1>5, OwnedIs
<1>8. r = q
  BY <1>2, <1>5, <1>7, Apart
<1> QED
  BY <1>3, <1>4, <1>6, <1>8 DEF q

\* The rows stay where they are, and memory that is no row's keeps its bits or is cleared.
SameRows(b, c) ==
  /\ c.num_rows = b.num_rows /\ c.free_row = b.free_row /\ c.bits_per_row = b.bits_per_row
  /\ c.syncs_before_row = b.syncs_before_row
  /\ \A k \in AllBits : ~Owned(b, k) => c.bb[k] = b.bb[k] \/ c.bb[k] = 0

LEMMA SameRowsClean ==
  ASSUME NEW b, NEW c, SameRows(b, c), Clean(b)
  PROVE  Clean(c)
BY DEF SameRows, Clean, Owned, RowIndexes

LEMMA ClearUnusedIs ==
  ASSUME NEW b, Good(b)
  PROVE  /\ Good(ClearUnused(b)) /\ SameRows(b, ClearUnused(b))
         /\ \A k \in AllBits : Owned(b, k) => ClearUnused(b).bb[k] = b.bb[k]
<1> DEFINE Unused(k) == \E r \in RowIndexes(b) :
             k - Index(r, 0) \in b.bits_per_row[r] .. BitsToByte(b.bits_per_row[r]) - 1
           B == [k \in AllBits |-> IF Unused(k) THEN 0 ELSE b.bb[k]]
           c == ClearUnused(b)
<1>1. Good(c) /\ b \in Bitbuffers
  BY ClearUnusedGood DEF Good
<1>2. c = [b EXCEPT !.bb = B]
  BY DEF ClearUnused
<1>3. ASSUME NEW k \in AllBits, Unused(k)
      PROVE  ~Owned(b, k)
  <2>1. PICK r \in RowIndexes(b) :
          k - Index(r, 0) \in b.bits_per_row[r] .. BitsToByte(b.bits_per_row[r]) - 1
    BY <1>3
  <2> DEFINE i == k - Index(r, 0)
  <2>2. r \in Nat /\ b.bits_per_row[r] \in Nat
    BY RowsAre
  <2>3. i \in Nat
    BY <2>1, <2>2
  <2>4. k \in Int
    <3>1. BITBUF_ROWS * RowBits \in Nat
      BY RowBitsType, BufferAssumption
    <3> QED
      BY <3>1 DEF AllBits
  <2> HIDE DEF i
  <2>5. k = Index(r, i)
    BY <2>2, <2>3, <2>4, IndexOf DEF i
  <2> QED
    BY <2>1, <2>5, UnusedUnowned DEF i
<1> HIDE DEF Unused
<1>4. \A k \in AllBits : B[k] = IF Unused(k) THEN 0 ELSE b.bb[k]
  OBVIOUS
<1> HIDE DEF B, c
<1>5. /\ c.num_rows = b.num_rows /\ c.free_row = b.free_row /\ c.bits_per_row = b.bits_per_row
      /\ c.syncs_before_row = b.syncs_before_row /\ c.bb = B
  BY <1>1, <1>2 DEF Bitbuffers
<1> QED
  BY <1>1, <1>3, <1>4, <1>5 DEF SameRows, c

LEMMA InvertIs ==
  ASSUME NEW b, Good(b)
  PROVE  LET c == bitbuffer_invert(b)
         IN  /\ Good(c) /\ SameRows(b, c)
             /\ \A r \in RowIndexes(b) : \A i \in 0 .. b.bits_per_row[r] - 1 :
                  c.bb[Index(r, i)] = 1 - b.bb[Index(r, i)]
<1> DEFINE Owns(r, k) == k - Index(r, 0) \in 0 .. b.bits_per_row[r] - 1
           f(r, i) == 1 - b.bb[Index(r, i)]
           B == [k \in AllBits |->
             IF \E r \in RowIndexes(b) : Owns(r, k)
               THEN LET r == CHOOSE r \in RowIndexes(b) : Owns(r, k)
                    IN  f(r, k - Index(r, 0))
               ELSE b.bb[k]]
           m == [b EXCEPT !.bb = B]
           c == bitbuffer_invert(b)
<1>1. Good(c) /\ b \in Bitbuffers
  BY InvertGood DEF Good
<1>2. c = m
  BY DEF bitbuffer_invert, MapBits
<1>4. ASSUME NEW r \in RowIndexes(b), NEW i \in 0 .. b.bits_per_row[r] - 1
      PROVE  B[Index(r, i)] = f(r, i) /\ Index(r, i) \in AllBits /\ Owned(b, Index(r, i))
  <2> DEFINE k == Index(r, i)
             q == CHOOSE q \in RowIndexes(b) : Owns(q, k)
  <2>1. k \in AllBits /\ k - Index(r, 0) = i /\ Owned(b, k) /\ r = q
    BY Chosen
  <2>2. \E p \in RowIndexes(b) : Owns(p, k)
    BY <2>1
  <2>3. B[k] = f(q, k - Index(q, 0))
    BY <2>1, <2>2
  <2> HIDE DEF B, f, k, q
  <2>4. B[k] = f(r, i)
    BY <2>1, <2>3
  <2> QED
    BY <2>1, <2>4 DEF k
<1>5. \A k \in AllBits : ~Owned(b, k) => B[k] = b.bb[k]
  BY DEF Owned
<1> HIDE DEF B, f
<1>3. B \in [AllBits -> 0 .. 1]
  <2>1. b.bb \in [AllBits -> 0 .. 1]
    BY Fields DEF Good
  <2>2. DOMAIN B = AllBits /\ B = [k \in AllBits |-> B[k]]
    BY DEF B
  <2>3. ASSUME NEW k \in AllBits
        PROVE  B[k] \in 0 .. 1
    <3>1. CASE Owned(b, k)
      <4>1. PICK r \in RowIndexes(b) : \E i \in 0 .. b.bits_per_row[r] - 1 : k = Index(r, i)
        BY <3>1, OwnedIs
      <4>2. PICK i \in 0 .. b.bits_per_row[r] - 1 : k = Index(r, i)
        BY <4>1
      <4>3. B[k] = 1 - b.bb[k]
        BY <1>4, <4>2 DEF f
      <4>4. b.bb[k] \in 0 .. 1
        BY <2>1
      <4> QED
        BY <4>3, <4>4
    <3>2. CASE ~Owned(b, k)
      BY <1>5, <2>1, <3>2
    <3> QED
      BY <3>1, <3>2
  <2> QED
    BY <2>2, <2>3
<1>6. Good(m)
  BY <1>3, StoredGood
<1>7. /\ m.num_rows = b.num_rows /\ m.free_row = b.free_row /\ m.bits_per_row = b.bits_per_row
      /\ m.syncs_before_row = b.syncs_before_row /\ m.bb = B
  BY <1>1 DEF Bitbuffers
<1> HIDE DEF m, c
<1> QED
  BY <1>1, <1>2, <1>4, <1>5, <1>7 DEF SameRows, c, f

LEMMA NrzmIs ==
  ASSUME NEW b, Good(b)
  PROVE  LET c == bitbuffer_nrzm_decode(b)
         IN  /\ Good(c) /\ SameRows(b, c)
             /\ \A r \in RowIndexes(b) : \A i \in 0 .. b.bits_per_row[r] - 1 :
                  c.bb[Index(r, i)] = IF b.bb[Index(r, i)] # Before(b, r, i) THEN 1 ELSE 0
<1> DEFINE Owns(r, k) == k - Index(r, 0) \in 0 .. b.bits_per_row[r] - 1
           f(r, i) == IF b.bb[Index(r, i)] # Before(b, r, i) THEN 1 ELSE 0
           B == [k \in AllBits |->
             IF \E r \in RowIndexes(b) : Owns(r, k)
               THEN LET r == CHOOSE r \in RowIndexes(b) : Owns(r, k)
                    IN  f(r, k - Index(r, 0))
               ELSE b.bb[k]]
           m == [b EXCEPT !.bb = B]
           c == bitbuffer_nrzm_decode(b)
<1>1. Good(c) /\ b \in Bitbuffers
  BY NrzmGood DEF Good
<1>2. c = ClearUnused(m)
  BY DEF bitbuffer_nrzm_decode, MapBits
<1>3. B \in [AllBits -> 0 .. 1]
  <2>1. b.bb \in [AllBits -> 0 .. 1]
    BY Fields DEF Good
  <2> HIDE DEF Owns
  <2> QED
    BY <2>1
<1>4. ASSUME NEW r \in RowIndexes(b), NEW i \in 0 .. b.bits_per_row[r] - 1
      PROVE  B[Index(r, i)] = f(r, i) /\ Index(r, i) \in AllBits /\ Owned(b, Index(r, i))
  <2> DEFINE k == Index(r, i)
             q == CHOOSE q \in RowIndexes(b) : Owns(q, k)
  <2>1. k \in AllBits /\ k - Index(r, 0) = i /\ Owned(b, k) /\ r = q
    BY Chosen
  <2>2. \E p \in RowIndexes(b) : Owns(p, k)
    BY <2>1
  <2>3. B[k] = f(q, k - Index(q, 0))
    BY <2>1, <2>2
  <2> HIDE DEF B, f, k, q
  <2>4. B[k] = f(r, i)
    BY <2>1, <2>3
  <2> QED
    BY <2>1, <2>4 DEF k
<1>5. \A k \in AllBits : ~Owned(b, k) => B[k] = b.bb[k]
  BY DEF Owned
<1> HIDE DEF B, f
<1>6. Good(m)
  BY <1>3, StoredGood
<1>7. /\ m.num_rows = b.num_rows /\ m.free_row = b.free_row /\ m.bits_per_row = b.bits_per_row
      /\ m.syncs_before_row = b.syncs_before_row /\ m.bb = B
  BY <1>1 DEF Bitbuffers
<1> HIDE DEF m, c
<1>8. \A k \in AllBits : Owned(m, k) <=> Owned(b, k)
  BY <1>7 DEF Owned, RowIndexes
<1>9. SameRows(m, c) /\ \A k \in AllBits : Owned(m, k) => c.bb[k] = m.bb[k]
  BY <1>2, <1>6, ClearUnusedIs
<1>10. SameRows(b, c)
  BY <1>5, <1>7, <1>8, <1>9 DEF SameRows
<1>11. ASSUME NEW r \in RowIndexes(b), NEW i \in 0 .. b.bits_per_row[r] - 1
       PROVE  c.bb[Index(r, i)] = f(r, i)
  BY <1>4, <1>7, <1>8, <1>9
<1> QED
  BY <1>1, <1>10, <1>11 DEF c, f

LEMMA NrzsIs ==
  ASSUME NEW b, Good(b)
  PROVE  LET c == bitbuffer_nrzs_decode(b)
         IN  /\ Good(c) /\ SameRows(b, c)
             /\ \A r \in RowIndexes(b) : \A i \in 0 .. b.bits_per_row[r] - 1 :
                  c.bb[Index(r, i)] = IF b.bb[Index(r, i)] = Before(b, r, i) THEN 1 ELSE 0
<1> DEFINE Owns(r, k) == k - Index(r, 0) \in 0 .. b.bits_per_row[r] - 1
           f(r, i) == IF b.bb[Index(r, i)] = Before(b, r, i) THEN 1 ELSE 0
           B == [k \in AllBits |->
             IF \E r \in RowIndexes(b) : Owns(r, k)
               THEN LET r == CHOOSE r \in RowIndexes(b) : Owns(r, k)
                    IN  f(r, k - Index(r, 0))
               ELSE b.bb[k]]
           m == [b EXCEPT !.bb = B]
           c == bitbuffer_nrzs_decode(b)
<1>1. Good(c) /\ b \in Bitbuffers
  BY NrzsGood DEF Good
<1>2. c = ClearUnused(m)
  BY DEF bitbuffer_nrzs_decode, MapBits
<1>3. B \in [AllBits -> 0 .. 1]
  <2>1. b.bb \in [AllBits -> 0 .. 1]
    BY Fields DEF Good
  <2> HIDE DEF Owns
  <2> QED
    BY <2>1
<1>4. ASSUME NEW r \in RowIndexes(b), NEW i \in 0 .. b.bits_per_row[r] - 1
      PROVE  B[Index(r, i)] = f(r, i) /\ Index(r, i) \in AllBits /\ Owned(b, Index(r, i))
  <2> DEFINE k == Index(r, i)
             q == CHOOSE q \in RowIndexes(b) : Owns(q, k)
  <2>1. k \in AllBits /\ k - Index(r, 0) = i /\ Owned(b, k) /\ r = q
    BY Chosen
  <2>2. \E p \in RowIndexes(b) : Owns(p, k)
    BY <2>1
  <2>3. B[k] = f(q, k - Index(q, 0))
    BY <2>1, <2>2
  <2> HIDE DEF B, f, k, q
  <2>4. B[k] = f(r, i)
    BY <2>1, <2>3
  <2> QED
    BY <2>1, <2>4 DEF k
<1>5. \A k \in AllBits : ~Owned(b, k) => B[k] = b.bb[k]
  BY DEF Owned
<1> HIDE DEF B, f
<1>6. Good(m)
  BY <1>3, StoredGood
<1>7. /\ m.num_rows = b.num_rows /\ m.free_row = b.free_row /\ m.bits_per_row = b.bits_per_row
      /\ m.syncs_before_row = b.syncs_before_row /\ m.bb = B
  BY <1>1 DEF Bitbuffers
<1> HIDE DEF m, c
<1>8. \A k \in AllBits : Owned(m, k) <=> Owned(b, k)
  BY <1>7 DEF Owned, RowIndexes
<1>9. SameRows(m, c) /\ \A k \in AllBits : Owned(m, k) => c.bb[k] = m.bb[k]
  BY <1>2, <1>6, ClearUnusedIs
<1>10. SameRows(b, c)
  BY <1>5, <1>7, <1>8, <1>9 DEF SameRows
<1>11. ASSUME NEW r \in RowIndexes(b), NEW i \in 0 .. b.bits_per_row[r] - 1
       PROVE  c.bb[Index(r, i)] = f(r, i)
  BY <1>4, <1>7, <1>8, <1>9
<1> QED
  BY <1>1, <1>10, <1>11 DEF c, f

-----------------------------------------------------------------------------
(* What the rows promise to the next ones.                                  *)

\* The free rows start right behind the last row, unless it was given up, and no row
\* that is still free has syncs.
Tidy(b) ==
  /\ \A r \in Rows : r >= b.num_rows => b.syncs_before_row[r] = 0
  /\ b.num_rows > 0 => \/ EndRow(CurrentRow(b), b.bits_per_row[CurrentRow(b)]) = b.free_row
                       \/ b.free_row = BITBUF_ROWS

LEMMA ClearTidy == Tidy(bitbuffer_clear) /\ Clean(bitbuffer_clear)
BY DEF Tidy, Clean, bitbuffer_clear

LEMMA WithRowTidy ==
  ASSUME NEW b, Good(b), Tidy(b)
  PROVE  Tidy(WithRow(b))
<1> DEFINE w == WithRow(b)
<1>1. /\ Good(w) /\ w.bits_per_row = b.bits_per_row /\ w.syncs_before_row = b.syncs_before_row
      /\ IF b.num_rows = 0 THEN w.num_rows = 1 /\ w.free_row = 1 ELSE w = b
  BY WithRowIs
<1> HIDE DEF w
<1>2. CASE b.num_rows = 0
  <2>1. \A r \in Rows : r >= 0 /\ b.bits_per_row[r] = 0 /\ b.syncs_before_row[r] = 0
    BY <1>2 DEF Good, RowsOK, Tidy, Rows
  <2>2. CurrentRow(w) = 0 /\ 0 \in Rows /\ EndRow(0, 0) = 1
    BY <1>1, <1>2, BufferAssumption, EndRowOfMore DEF CurrentRow, Rows
  <2>3. Tidy(w)
    BY <1>1, <1>2, <2>1, <2>2 DEF Tidy
  <2> QED
    BY <2>3 DEF w
<1>3. CASE b.num_rows # 0
  BY <1>1, <1>3 DEF w
<1> QED
  BY <1>2, <1>3

LEMMA StoreTidy ==
  ASSUME NEW b, Good(b), Tidy(b), b.num_rows > 0, ~NoMoreBits(b), NEW bit \in 0 .. 1
  PROVE  Tidy(StoreBit(b, bit))
<1> DEFINE row == CurrentRow(b)
           n == b.bits_per_row[row]
           c == StoreBit(b, bit)
<1>1. /\ c.num_rows = b.num_rows /\ c.bits_per_row = [b.bits_per_row EXCEPT ![row] = n + 1]
      /\ c.syncs_before_row = b.syncs_before_row
      /\ c.free_row = IF Spills(b) THEN b.free_row + 1 ELSE b.free_row
  BY StoreIs
<1>2. /\ row \in Rows /\ row \in Nat /\ n \in Nat /\ b.bits_per_row \in [Rows -> Nat]
      /\ b.free_row \in 0 .. BITBUF_ROWS /\ BITBUF_ROWS \in Nat
  BY Fields DEF Good
<1>3. CurrentRow(c) = row /\ c.bits_per_row[row] = n + 1
  BY <1>1, <1>2 DEF CurrentRow
<1>4. /\ EndRow(row, n) \in Nat
      /\ EndRow(row, n + 1) = IF Spills(b) THEN EndRow(row, n) + 1 ELSE EndRow(row, n)
  <2>1. Spills(b) <=> n > 0 /\ n % RowBits = 0
    BY DEF Spills
  <2> HIDE DEF row, n
  <2> QED
    BY <1>2, <2>1, EndRowOfMore
<1>5. EndRow(row, n) = b.free_row \/ b.free_row = BITBUF_ROWS
  BY DEF Tidy
<1>6. Spills(b) => b.free_row < BITBUF_ROWS
  BY <1>2 DEF NoMoreBits
<1> HIDE DEF row, n, c
<1>7. EndRow(row, n + 1) = c.free_row \/ c.free_row = BITBUF_ROWS
  BY <1>1, <1>2, <1>4, <1>5, <1>6
<1>8. Tidy(c)
  BY <1>1, <1>3, <1>7 DEF Tidy
<1> QED
  BY <1>8 DEF c

LEMMA AddRowTidy ==
  ASSUME NEW bits0, Good(bits0), Tidy(bits0), NEW len \in Nat
  PROVE  Tidy(bitbuffer_add_row(bits0, len))
<1> DEFINE w == WithRow(bits0)
           c == bitbuffer_add_row(bits0, len)
<1>1. Good(w) /\ Tidy(w) /\ w.num_rows > 0
  BY WithRowTidy, WithRowGood
<1>2. /\ Good(c) /\ c.syncs_before_row = w.syncs_before_row
      /\ IF NoMoreRows(w)
           THEN /\ c.num_rows = w.num_rows /\ c.free_row = w.free_row
                /\ c.bits_per_row = [w.bits_per_row EXCEPT ![CurrentRow(w)] = 0]
           ELSE /\ c.num_rows = w.free_row + 1 /\ c.free_row = w.free_row + 1
                /\ c.bits_per_row = w.bits_per_row
  BY AddRowIs
<1> HIDE DEF w, c
<1>3. /\ w.free_row \in 0 .. BITBUF_ROWS /\ BITBUF_ROWS \in Nat /\ w.num_rows <= w.free_row
      /\ w.num_rows \in Nat /\ Rows \subseteq Nat
  BY <1>1, Fields DEF Good, RowsOK, Rows
<1>4. CASE NoMoreRows(w)
  <2>1. w.free_row = BITBUF_ROWS
    BY <1>3, <1>4 DEF NoMoreRows
  <2>2. Tidy(c)
    BY <1>1, <1>2, <1>4, <2>1 DEF Tidy
  <2> QED
    BY <2>2 DEF c
<1>5. CASE ~NoMoreRows(w)
  <2> DEFINE f == w.free_row
  <2>1. f \in Rows /\ f \in Nat /\ f >= w.num_rows
    BY <1>3, <1>5 DEF NoMoreRows, Rows
  <2>2. CurrentRow(c) = f
    BY <1>2, <1>3, <1>5 DEF CurrentRow
  <2>3. c.bits_per_row[f] = 0
    BY <1>1, <1>2, <1>5, <2>1 DEF Good, RowsOK
  <2>4. EndRow(f, 0) = c.free_row
    BY <1>2, <1>5, <2>1, EndRowOfMore
  <2>5. \A r \in Rows : r >= c.num_rows => c.syncs_before_row[r] = 0
    <3>1. \A r \in Rows : r >= c.num_rows => r >= w.num_rows
      BY <1>2, <1>3, <1>5
    <3> QED
      BY <1>1, <1>2, <3>1 DEF Tidy
  <2> HIDE DEF f
  <2>6. Tidy(c)
    BY <2>2, <2>3, <2>4, <2>5 DEF Tidy
  <2> QED
    BY <2>6 DEF c
<1> QED
  BY <1>4, <1>5

LEMMA AddSyncTidy ==
  ASSUME NEW bits0, Good(bits0), Tidy(bits0), NEW len \in Nat
  PROVE  Tidy(bitbuffer_add_sync(bits0, len))
<1> DEFINE b == IF SyncEndsRow(bits0) THEN bitbuffer_add_row(bits0, len) ELSE WithRow(bits0)
           c == bitbuffer_add_sync(bits0, len)
<1>1. Tidy(b)
  BY AddRowTidy, WithRowTidy
<1>2. /\ Good(b) /\ b.num_rows > 0 /\ c.num_rows = b.num_rows
      /\ c.free_row = b.free_row /\ c.bits_per_row = b.bits_per_row
      /\ c.syncs_before_row = [b.syncs_before_row EXCEPT ![CurrentRow(b)] = @ + 1]
  BY AddSyncIs
<1> HIDE DEF b, c
<1>3. \A r \in Rows : r >= b.num_rows => r # CurrentRow(b)
  <2>1. b.num_rows \in Nat /\ Rows \subseteq Nat
    BY <1>2, Fields DEF Good, Rows
  <2> QED
    BY <2>1 DEF CurrentRow
<1>4. CurrentRow(c) = CurrentRow(b) /\ b.syncs_before_row \in [Rows -> Nat]
  BY <1>2, Fields DEF CurrentRow, Good
<1>5. \A r \in Rows : r >= b.num_rows => c.syncs_before_row[r] = 0
  BY <1>1, <1>2, <1>3, <1>4 DEF Tidy
<1>6. Tidy(c)
  BY <1>1, <1>2, <1>4, <1>5 DEF Tidy
<1> QED
  BY <1>6 DEF c

LEMMA SetWidthTidy ==
  ASSUME NEW bits0, Good(bits0), Tidy(bits0), NEW width \in Nat
  PROVE  Tidy(bitbuffer_set_width(bits0, width))
<1> DEFINE w == WithRow(bits0)
           row == CurrentRow(w)
           new == IF width > RemainingBits(w) THEN RemainingBits(w) ELSE width
           c == bitbuffer_set_width(bits0, width)
<1>1. Good(w) /\ Tidy(w) /\ w.num_rows > 0
  BY WithRowTidy, WithRowGood
<1>2. /\ c.num_rows = w.num_rows /\ c.bits_per_row = [w.bits_per_row EXCEPT ![row] = new]
      /\ c.syncs_before_row = w.syncs_before_row /\ EndRow(row, new) = c.free_row
  BY SetWidthIs
<1> HIDE DEF w, c, new
<1>3. CurrentRow(c) = row /\ c.bits_per_row[row] = new
  BY <1>1, <1>2, Fields DEF CurrentRow, Good
<1>4. Tidy(c)
  BY <1>1, <1>2, <1>3 DEF Tidy
<1> QED
  BY <1>4 DEF c

LEMMA SameRowsTidy ==
  ASSUME NEW b, NEW c, SameRows(b, c), Tidy(b)
  PROVE  Tidy(c)
BY DEF SameRows, Tidy, CurrentRow

\* The invariant: rows do not overlap, are tidy, and as long as nothing was lost the
\* memory behind them is clear.
RowsInv == IInv /\ Tidy(bits) /\ (~truncated => Clean(bits))

LEMMA RowsInit ==
  ASSUME Init
  PROVE  RowsInv
<1>1. IInv
  BY BufferInit
<1> QED
  BY <1>1, ClearTidy DEF RowsInv, Init

LEMMA RowsStep ==
  ASSUME RowsInv, [Next]_vars
  PROVE  RowsInv'
<1>1. IInv' /\ Good(bits) /\ Tidy(bits) /\ truncated \in BOOLEAN
  BY BufferStep DEF RowsInv, IInv, TypeOK, Good
<1>2. SUFFICES Tidy(bits') /\ (~truncated' => Clean(bits'))
  <2>1. Tidy(bits') => Tidy(bits)'
    BY DEF Tidy
  <2>2. Clean(bits') => Clean(bits)'
    BY DEF Clean
  <2> QED
    BY <1>1, <2>1, <2>2 DEF RowsInv
<1>3. ASSUME NEW bit \in 0 .. 1, AddBit(bit)
      PROVE  Tidy(bits') /\ (~truncated' => Clean(bits'))
  <2> DEFINE w == WithRow(bits)
  <2>1. Good(w) /\ w.num_rows > 0 /\ Tidy(w)
    BY <1>1, WithRowGood, WithRowTidy
  <2>2. bits' = IF NoMoreBits(w) THEN w ELSE StoreBit(w, bit)
    BY <1>3 DEF AddBit, bitbuffer_add_bit
  <2>3. ~truncated' => ~truncated /\ ~NoMoreBits(w)
    BY <1>3 DEF AddBit
  <2>4. ~truncated => Clean(w)
    BY <1>1, WithRowClean DEF RowsInv
  <2> HIDE DEF w
  <2> QED
    BY <2>1, <2>2, <2>3, <2>4, StoreTidy, StoreClean
<1>4. ASSUME AddRow
      PROVE  Tidy(bits') /\ (~truncated' => Clean(bits'))
  <2>1. bits' = bitbuffer_add_row(bits, 1) /\ (~truncated' => ~truncated /\ ~NoMoreRows(WithRow(bits)))
    BY <1>4 DEF AddRow
  <2> QED
    BY <1>1, <2>1, AddRowTidy, AddRowClean DEF RowsInv
<1>5. ASSUME AddSync
      PROVE  Tidy(bits') /\ (~truncated' => Clean(bits'))
  <2> DEFINE b == IF SyncEndsRow(bits) THEN bitbuffer_add_row(bits, 1) ELSE WithRow(bits)
             c == bitbuffer_add_sync(bits, 1)
  <2>1. bits' = c /\ (~truncated' => ~truncated /\ (SyncEndsRow(bits) => ~NoMoreRows(WithRow(bits))))
    BY <1>5 DEF AddSync
  <2>2. ~truncated' => Clean(b)
    BY <1>1, <2>1, AddRowClean, WithRowClean DEF RowsInv
  <2>3. Good(b) /\ Good(c) /\ c.num_rows = b.num_rows /\ c.bits_per_row = b.bits_per_row /\ c.bb = b.bb
    BY <1>1, AddSyncIs
  <2>4. Tidy(c)
    BY <1>1, AddSyncTidy
  <2> HIDE DEF b, c
  <2>5. Clean(b) => Clean(c)
    BY <2>3 DEF Clean, Owned, RowIndexes
  <2> QED
    BY <2>1, <2>2, <2>4, <2>5
<1>6. ASSUME NEW width \in Widths, SetWidth(width)
      PROVE  Tidy(bits') /\ (~truncated' => Clean(bits'))
  <2>1. width \in Nat
    BY CallsAssumption
  <2>2. bits' = bitbuffer_set_width(bits, width) /\ (~truncated' => ~truncated)
    BY <1>6 DEF SetWidth
  <2> QED
    BY <1>1, <2>1, <2>2, SetWidthTidy, SetWidthClean DEF RowsInv
<1>7. CASE Transform
  <2>1. SameRows(bits, bits') /\ truncated' = truncated
    BY <1>1, <1>7, InvertIs, NrzmIs, NrzsIs DEF Transform
  <2> QED
    BY <1>1, <2>1, SameRowsTidy, SameRowsClean DEF RowsInv
<1>8. CASE Clear
  BY <1>8, ClearTidy DEF Clear
<1>9. CASE Deliver \/ UNCHANGED vars
  BY <1>1, <1>9 DEF Deliver, vars, RowsInv
<1> QED
  BY <1>3, <1>4, <1>5, <1>6, <1>7, <1>8, <1>9 DEF Next

\* The unused bits of each row's last byte are 0, which the decoders rely on when they
\* compare or print whole bytes, whatever was added, cut or transformed before - as long
\* as the buffer was never full.
THEOREM BufferUnusedBitsClear == Spec => []UnusedBitsClear
<1>1. RowsInv => UnusedBitsClear
  <2> SUFFICES ASSUME RowsInv, ~truncated, NEW r \in RowIndexes(bits),
                      NEW i \in bits.bits_per_row[r] .. BitsToByte(bits.bits_per_row[r]) - 1
               PROVE  bits.bb[Index(r, i)] = 0
    BY DEF UnusedBitsClear
  <2>1. Good(bits) /\ Clean(bits)
    BY DEF RowsInv, IInv, TypeOK, Good
  <2> QED
    BY <2>1, UnusedUnowned DEF Clean
<1> QED
  BY RowsInit, RowsStep, <1>1, PTL DEF Spec

-----------------------------------------------------------------------------
(* The rows a reader finds.                                                 *)

LEMMA MakeSeq ==
  ASSUME NEW S, NEW n \in Nat, NEW f \in [1 .. n -> S]
  PROVE  f \in Seq(S) /\ Len(f) = n /\ \A i \in 1 .. n : f[i] \in S
OBVIOUS

LEMMA SameSeq ==
  ASSUME NEW S, NEW s \in Seq(S), NEW t \in Seq(S), Len(s) = Len(t),
         \A i \in 1 .. Len(s) : s[i] = t[i]
  PROVE  s = t
OBVIOUS

LEMMA ReplaceLast ==
  ASSUME NEW S, NEW H \in Seq(S), NEW x \in S, NEW y \in S
  PROVE  LET s == Append(H, x)
         IN  /\ s \in Seq(S) /\ Len(s) = Len(H) + 1 /\ s[Len(H) + 1] = x /\ Len(H) \in Nat
             /\ \A i \in 1 .. Len(H) : s[i] = H[i]
             /\ s # <<>>
             /\ [s EXCEPT ![Len(H) + 1] = y] = Append(H, y)
<1> DEFINE s == Append(H, x)
           t == Append(H, y)
           u == [s EXCEPT ![Len(H) + 1] = y]
<1>1. /\ s \in Seq(S) /\ Len(s) = Len(H) + 1 /\ s[Len(H) + 1] = x /\ Len(H) \in Nat
      /\ \A i \in 1 .. Len(H) : s[i] = H[i]
  OBVIOUS
<1>2. /\ t \in Seq(S) /\ Len(t) = Len(H) + 1 /\ t[Len(H) + 1] = y
      /\ \A i \in 1 .. Len(H) : t[i] = H[i]
  OBVIOUS
<1>3. s # <<>>
  BY <1>1
<1>4. DOMAIN s = 1 .. Len(H) + 1
  BY <1>1
<1> HIDE DEF s, t
<1>5. u \in [1 .. Len(H) + 1 -> S]
  BY <1>1, <1>4
<1>6. u \in Seq(S) /\ Len(u) = Len(H) + 1
  <2>1. Len(H) + 1 \in Nat
    BY <1>1
  <2> QED
    BY <1>5, <2>1, MakeSeq
<1>7. \A i \in 1 .. Len(u) : u[i] = t[i]
  BY <1>1, <1>2, <1>4, <1>6
<1> HIDE DEF u
<1>8. u = t
  BY <1>2, <1>6, <1>7, SameSeq
<1> QED
  BY <1>1, <1>3, <1>8 DEF s, t, u

RowType == [bits: Seq(0 .. 1), syncs: Nat]

LEMMA RowOfIs ==
  ASSUME NEW b, Good(b), NEW r \in RowIndexes(b)
  PROVE  /\ RowOf(b, r) \in RowType
         /\ RowOf(b, r) = [bits |-> RowOf(b, r).bits, syncs |-> b.syncs_before_row[r]]
         /\ RowOf(b, r).syncs = b.syncs_before_row[r]
         /\ RowOf(b, r).bits \in Seq(0 .. 1)
         /\ Len(RowOf(b, r).bits) = b.bits_per_row[r] /\ b.bits_per_row[r] \in Nat
         /\ \A i \in 1 .. b.bits_per_row[r] : RowOf(b, r).bits[i] = b.bb[Index(r, i - 1)]
<1> DEFINE n == b.bits_per_row[r]
           f == [i \in 1 .. n |-> b.bb[Index(r, i - 1)]]
<1>1. n \in Nat /\ b.syncs_before_row[r] \in Nat
  BY RowsAre
<1>2. RowOf(b, r) = [bits |-> f, syncs |-> b.syncs_before_row[r]]
  BY DEF RowOf
<1>3. f \in [1 .. n -> 0 .. 1]
  <2> SUFFICES ASSUME NEW i \in 1 .. n
               PROVE  b.bb[Index(r, i - 1)] \in 0 .. 1
    OBVIOUS
  <2>1. i - 1 \in 0 .. b.bits_per_row[r] - 1
    BY <1>1
  <2>2. Index(r, i - 1) \in AllBits
    BY <2>1, Chosen
  <2>3. b.bb \in [AllBits -> 0 .. 1]
    BY Fields DEF Good
  <2> QED
    BY <2>2, <2>3
<1>4. \A i \in 1 .. n : f[i] = b.bb[Index(r, i - 1)]
  OBVIOUS
<1> HIDE DEF f, n
<1>5. f \in Seq(0 .. 1) /\ Len(f) = n
  BY <1>1, <1>3, MakeSeq
<1> QED
  BY <1>1, <1>2, <1>4, <1>5 DEF n, RowType

\* The own ones of the first n rows, as a reader finds them.
Heads(b, n) == LET own == OwnUpTo(b, n) IN [i \in 1 .. Len(own) |-> RowOf(b, own[i])]

LEMMA HeadsType ==
  ASSUME NEW b, Good(b), NEW n \in 0 .. b.num_rows
  PROVE  /\ Heads(b, n) \in Seq(RowType) /\ Len(Heads(b, n)) = Len(OwnUpTo(b, n))
         /\ Len(Heads(b, n)) \in Nat
         /\ \A i \in 1 .. Len(OwnUpTo(b, n)) : Heads(b, n)[i] = RowOf(b, OwnUpTo(b, n)[i])
<1> DEFINE own == OwnUpTo(b, n)
<1>1. n \in 0 .. BITBUF_ROWS /\ RowIndexes(b) = 0 .. b.num_rows - 1 /\ b.num_rows \in Nat
  BY Fields DEF Good
<1>2. own \in Seq(Nat) /\ \A i \in 1 .. Len(own) : own[i] \in 0 .. n - 1
  BY <1>1, OwnType
<1>3. Heads(b, n) = [i \in 1 .. Len(own) |-> RowOf(b, own[i])]
  BY DEF Heads
<1> HIDE DEF own
<1>4. \A i \in 1 .. Len(own) : own[i] \in RowIndexes(b)
  BY <1>1, <1>2
<1>5. Heads(b, n) \in [1 .. Len(own) -> RowType]
  BY <1>3, <1>4, RowOfIs
<1>6. Len(own) \in Nat
  BY <1>2
<1>7. Heads(b, n) \in Seq(RowType) /\ Len(Heads(b, n)) = Len(own)
  BY <1>5, <1>6, MakeSeq
<1> QED
  BY <1>3, <1>6, <1>7 DEF own

LEMMA HeadsNext ==
  ASSUME NEW b, Good(b), NEW r \in RowIndexes(b)
  PROVE  Heads(b, r + 1) = IF Own(b, r) THEN Append(Heads(b, r), RowOf(b, r)) ELSE Heads(b, r)
<1>1. r \in Rows /\ r \in 0 .. b.num_rows /\ r + 1 \in 0 .. b.num_rows
      /\ r \in 0 .. BITBUF_ROWS
  BY RowsAre, Fields DEF Good, Rows
<1>2. OwnUpTo(b, r + 1) = NextOwn(b, OwnUpTo(b, r), r)
  BY <1>1, OwnStep
<1>3. CASE ~Own(b, r)
  BY <1>2, <1>3 DEF Heads, NextOwn
<1>4. CASE Own(b, r)
  <2> DEFINE s == OwnUpTo(b, r)
             t == OwnUpTo(b, r + 1)
             H == Heads(b, r)
             G == Heads(b, r + 1)
  <2>1. t = Append(s, r) /\ s \in Seq(Nat) /\ r \in Nat
    BY <1>1, <1>2, <1>4, OwnType, RowsAre DEF NextOwn
  <2>2. /\ H \in Seq(RowType) /\ Len(H) = Len(s)
        /\ \A i \in 1 .. Len(s) : H[i] = RowOf(b, s[i])
    BY <1>1, HeadsType
  <2>3. /\ G \in Seq(RowType) /\ Len(G) = Len(t)
        /\ \A i \in 1 .. Len(t) : G[i] = RowOf(b, t[i])
    BY <1>1, HeadsType
  <2> HIDE DEF s, t, H, G
  <2>4. /\ Len(s) \in Nat /\ Len(t) = Len(s) + 1 /\ t[Len(s) + 1] = r
        /\ \A i \in 1 .. Len(s) : t[i] = s[i]
    BY <2>1
  <2>5. RowOf(b, r) \in RowType
    BY RowOfIs
  <2> DEFINE A == Append(H, RowOf(b, r))
  <2>6. /\ A \in Seq(RowType) /\ Len(A) = Len(H) + 1 /\ A[Len(H) + 1] = RowOf(b, r)
        /\ \A i \in 1 .. Len(H) : A[i] = H[i]
    BY <2>2, <2>5
  <2> HIDE DEF A
  <2>7. ASSUME NEW i \in 1 .. Len(G)
        PROVE  G[i] = A[i]
    <3>1. i \in 1 .. Len(s) \/ i = Len(s) + 1
      BY <2>3, <2>4
    <3> QED
      BY <2>2, <2>3, <2>4, <2>6, <3>1
  <2>8. G = A
    BY <2>2, <2>3, <2>4, <2>6, <2>7, SameSeq
  <2> QED
    BY <1>4, <2>8 DEF A, G, H
<1> QED
  BY <1>3, <1>4

\* The row that is filled is own, so it is the last one a reader finds.
LEMMA LastIsOwn ==
  ASSUME NEW b, Good(b), b.num_rows > 0
  PROVE  LET row == CurrentRow(b)
         IN  /\ row \in RowIndexes(b) /\ row + 1 = b.num_rows /\ Own(b, row)
             /\ RowsOf(b) = Append(Heads(b, row), RowOf(b, row))
             /\ RowOf(b, row) \in RowType /\ Heads(b, row) \in Seq(RowType)
<1> DEFINE row == CurrentRow(b)
<1>1. /\ row \in RowIndexes(b) /\ row + 1 = b.num_rows /\ row \in Nat
      /\ b.bits_per_row \in [Rows -> Nat] /\ b.num_rows \in Nat
  BY Fields DEF Good
<1>2. Own(b, row)
  <2> SUFFICES ASSUME NEW q \in RowIndexes(b), q < row, EndRow(q, b.bits_per_row[q]) > row
               PROVE  FALSE
    BY DEF Own
  <2>1. EndRow(q, b.bits_per_row[q]) <= row
    BY <1>1 DEF Good, RowsOK
  <2>2. EndRow(q, b.bits_per_row[q]) \in Nat
    <3>1. q \in Nat /\ b.bits_per_row[q] \in Nat
      BY RowsAre
    <3> QED
      BY <3>1, EndRowOfMore
  <2> QED
    BY <1>1, <2>1, <2>2
<1>3. RowsOf(b) = Heads(b, row + 1)
  BY <1>1 DEF RowsOf, Heads, OwnRows
<1>4. Heads(b, row) \in Seq(RowType)
  <2>1. row \in 0 .. b.num_rows
    BY <1>1
  <2> QED
    BY <2>1, HeadsType
<1> HIDE DEF row
<1> QED
  BY <1>1, <1>2, <1>3, <1>4, HeadsNext, RowOfIs DEF row

\* Lengths decide which rows are own.
LEMMA HeadsSame ==
  ASSUME NEW b, Good(b), NEW c, Good(c),
         NEW n \in 0 .. b.num_rows, n <= c.num_rows,
         \A r \in 0 .. n - 1 : c.bits_per_row[r] = b.bits_per_row[r] /\ RowOf(c, r) = RowOf(b, r)
  PROVE  /\ Heads(c, n) = Heads(b, n)
         /\ \A r \in 0 .. n - 1 : Own(c, r) <=> Own(b, r)
<1>1. /\ n \in Nat /\ n \in 0 .. BITBUF_ROWS /\ b.num_rows \in Nat /\ c.num_rows \in Nat
      /\ RowIndexes(b) = 0 .. b.num_rows - 1 /\ RowIndexes(c) = 0 .. c.num_rows - 1
  BY Fields DEF Good
<1>2. ASSUME NEW r \in 0 .. n - 1
      PROVE  Own(c, r) <=> Own(b, r)
  <2>1. ASSUME NEW q, q < r
        PROVE  /\ q \in RowIndexes(b) => q \in 0 .. n - 1
               /\ q \in RowIndexes(c) => q \in 0 .. n - 1
               /\ q \in 0 .. n - 1 => q \in RowIndexes(b) /\ q \in RowIndexes(c)
    BY <1>1, <2>1
  <2> QED
    BY <2>1 DEF Own
<1>3. OwnUpTo(c, n) = OwnUpTo(b, n)
  BY <1>1, <1>2, OwnSame
<1>4. \A i \in 1 .. Len(OwnUpTo(b, n)) : OwnUpTo(b, n)[i] \in 0 .. n - 1
  BY <1>1, OwnType
<1>5. Heads(c, n) = Heads(b, n)
  BY <1>3, <1>4 DEF Heads
<1> QED
  BY <1>2, <1>5

LEMMA RowKept ==
  ASSUME NEW b, NEW c, NEW r, c.bits_per_row[r] = b.bits_per_row[r],
         c.syncs_before_row[r] = b.syncs_before_row[r], b.bits_per_row[r] \in Nat,
         \A j \in 0 .. b.bits_per_row[r] - 1 : c.bb[Index(r, j)] = b.bb[Index(r, j)]
  PROVE  RowOf(c, r) = RowOf(b, r)
<1> DEFINE n == b.bits_per_row[r]
<1>1. \A i \in 1 .. n : i - 1 \in 0 .. n - 1
  OBVIOUS
<1> QED
  BY <1>1 DEF RowOf

-----------------------------------------------------------------------------
(* Each call is a step of the sequence of rows.                             *)

StartedOf(s) == IF s = <<>> THEN <<Abstract!NoRow>> ELSE s

LEMMA StartedIs ==
  ASSUME NEW b, Good(b), Tidy(b)
  PROVE  LET w == WithRow(b)
         IN  /\ RowsOf(w) = StartedOf(RowsOf(b))
             /\ b.num_rows = 0 => RowsOf(b) = <<>> /\ CurrentRow(w) = 0 /\ Heads(w, 0) = <<>>
             /\ b.num_rows > 0 => w = b /\ RowsOf(b) # <<>>
<1> DEFINE w == WithRow(b)
<1>1. /\ Good(w) /\ w.num_rows > 0 /\ w.bits_per_row = b.bits_per_row
      /\ w.syncs_before_row = b.syncs_before_row /\ b.num_rows \in Nat
      /\ IF b.num_rows = 0 THEN w.num_rows = 1 ELSE w = b
  BY WithRowIs, Fields DEF Good
<1> HIDE DEF w
<1>2. CASE b.num_rows = 0
  <2>1. \A x : Heads(x, 0) = <<>>
    <3>1. \A x : OwnUpTo(x, 0) = <<>>
      BY OwnStep
    <3> QED
      BY <3>1 DEF Heads
  <2>2. RowsOf(b) = <<>>
    BY <1>2, <2>1 DEF RowsOf, Heads, OwnRows
  <2>3. CurrentRow(w) = 0
    BY <1>1, <1>2 DEF CurrentRow
  <2>4. 0 \in Rows /\ b.bits_per_row[0] = 0 /\ b.syncs_before_row[0] = 0
    BY <1>2, BufferAssumption DEF Good, RowsOK, Tidy, Rows
  <2>5. RowsOf(w) = Append(Heads(w, 0), RowOf(w, 0))
    BY <1>1, <2>3, LastIsOwn
  <2>6. RowOf(w, 0) = Abstract!NoRow
    BY <1>1, <2>4 DEF RowOf, Abstract!NoRow
  <2>7. RowsOf(w) = <<Abstract!NoRow>>
    <3>1. \A x : Append(<<>>, x) = <<x>>
      OBVIOUS
    <3> QED
      BY <2>1, <2>5, <2>6, <3>1
  <2> QED
    BY <1>2, <2>1, <2>2, <2>3, <2>7 DEF StartedOf, w
<1>3. CASE b.num_rows # 0
  <2>1. w = b /\ b.num_rows > 0
    BY <1>1, <1>3
  <2>2. RowsOf(b) # <<>>
    <3> DEFINE H == Heads(b, CurrentRow(b))
               R == RowOf(b, CurrentRow(b))
    <3>1. RowsOf(b) = Append(H, R) /\ H \in Seq(RowType) /\ R \in RowType
      BY <2>1, LastIsOwn
    <3> HIDE DEF H, R
    <3> QED
      BY <3>1
  <2> QED
    BY <1>3, <2>1, <2>2 DEF StartedOf, w
<1> QED
  BY <1>2, <1>3

\* What happens to the row that is filled happens to the last one.
LEMMA LastRowKept ==
  ASSUME NEW b, Good(b), Tidy(b), NEW c, Good(c), c.num_rows = WithRow(b).num_rows,
         \A r \in 0 .. CurrentRow(WithRow(b)) - 1 :
           /\ c.bits_per_row[r] = WithRow(b).bits_per_row[r]
           /\ RowOf(c, r) = RowOf(WithRow(b), r)
  PROVE  LET w   == WithRow(b)
             row == CurrentRow(w)
             H   == Heads(w, row)
         IN  /\ H \in Seq(RowType) /\ RowOf(w, row) \in RowType /\ RowOf(c, row) \in RowType
             /\ row \in RowIndexes(w) /\ row \in RowIndexes(c)
             /\ StartedOf(RowsOf(b)) = Append(H, RowOf(w, row))
             /\ RowsOf(c) = Append(H, RowOf(c, row))
             /\ H # <<>> => RowsOf(b) = Append(H, RowOf(w, row))
<1> DEFINE w == WithRow(b)
           row == CurrentRow(w)
           H == Heads(w, row)
<1>1. Good(w) /\ w.num_rows > 0
  BY WithRowGood
<1>2. /\ RowsOf(w) = StartedOf(RowsOf(b))
      /\ b.num_rows = 0 => row = 0 /\ Heads(w, 0) = <<>>
      /\ b.num_rows > 0 => w = b
  BY StartedIs
<1>3. c.num_rows = w.num_rows
  OBVIOUS
<1>4. \A r \in 0 .. row - 1 : c.bits_per_row[r] = w.bits_per_row[r] /\ RowOf(c, r) = RowOf(w, r)
  OBVIOUS
<1>5. b.num_rows \in Nat
  BY Fields DEF Good
<1> HIDE DEF w
<1>6. /\ row \in RowIndexes(w) /\ row + 1 = w.num_rows /\ row \in Nat
      /\ RowsOf(w) = Append(H, RowOf(w, row)) /\ RowOf(w, row) \in RowType /\ H \in Seq(RowType)
  BY <1>1, LastIsOwn, RowsAre
<1>7. CurrentRow(c) = row
  BY <1>3 DEF CurrentRow
<1>8. /\ row \in RowIndexes(c) /\ RowsOf(c) = Append(Heads(c, row), RowOf(c, row))
      /\ RowOf(c, row) \in RowType
  BY <1>1, <1>3, <1>7, LastIsOwn
<1>9. Heads(c, row) = H
  <2>1. row \in 0 .. w.num_rows /\ row <= c.num_rows
    BY <1>3, <1>6
  <2> HIDE DEF row
  <2> QED
    BY <1>1, <1>4, <2>1, HeadsSame
<1> QED
  BY <1>2, <1>5, <1>6, <1>8, <1>9 DEF w

LEMMA Primed == RowsOf(bits') = RowsOf(bits)'
BY DEF RowsOf, OwnRows, OwnUpTo, Own, RowOf, RowIndexes

\* Only the last row is changed.
LEMMA LastChanged ==
  ASSUME NEW H \in Seq(RowType), NEW R \in RowType, NEW Q \in RowType, NEW s, NEW t,
         StartedOf(s) = Append(H, R), t = Append(H, Q), H # <<>> => s = Append(H, R)
  PROVE  Len(t) = Len(StartedOf(s)) /\ \A i \in 1 .. Len(StartedOf(s)) - 1 : t[i] = s[i]
<1>1. /\ Len(Append(H, R)) = Len(H) + 1 /\ Len(Append(H, Q)) = Len(H) + 1 /\ Len(H) \in Nat
      /\ \A i \in 1 .. Len(H) : Append(H, R)[i] = H[i] /\ Append(H, Q)[i] = H[i]
      /\ Len(H) = 0 => H = <<>>
  OBVIOUS
<1>2. ASSUME NEW i \in 1 .. Len(StartedOf(s)) - 1
      PROVE  t[i] = s[i]
  <2>1. i \in 1 .. Len(H)
    BY <1>1
  <2>2. H # <<>>
    BY <1>1, <2>1
  <2>3. s = Append(H, R)
    BY <2>2
  <2>4. Append(H, Q)[i] = H[i] /\ Append(H, R)[i] = H[i]
    BY <1>1, <2>1
  <2> QED
    BY <2>3, <2>4
<1> QED
  BY <1>1, <1>2

LEMMA LoseStep ==
  ASSUME NEW H \in Seq(RowType), NEW R \in RowType, NEW Q \in RowType, truncated',
         StartedOf(RowsOf(bits)) = Append(H, R), RowsOf(bits') = Append(H, Q),
         H # <<>> => RowsOf(bits) = Append(H, R)
  PROVE  Abstract!Lose
<1>1. /\ Len(RowsOf(bits')) = Len(StartedOf(RowsOf(bits)))
      /\ \A i \in 1 .. Len(StartedOf(RowsOf(bits))) - 1 : RowsOf(bits')[i] = RowsOf(bits)[i]
  BY LastChanged
<1> QED
  BY <1>1, Primed DEF Abstract!Lose, Abstract!Last, Abstract!Started, StartedOf

\* The changed row may be compared field by field.
LEMMA SameRow ==
  ASSUME NEW R \in RowType, NEW bitsOf \in Seq(0 .. 1), NEW n \in Nat
  PROVE  /\ [R EXCEPT !.bits = bitsOf] = [bits |-> bitsOf, syncs |-> R.syncs]
         /\ [R EXCEPT !.syncs = n] = [bits |-> R.bits, syncs |-> n]
BY DEF RowType

LEMMA StoreRow ==
  ASSUME NEW w, Good(w), w.num_rows > 0, ~NoMoreBits(w), NEW bit \in 0 .. 1
  PROVE  LET row == CurrentRow(w)
             c   == StoreBit(w, bit)
         IN  /\ Good(c) /\ c.num_rows = w.num_rows
             /\ \A r \in 0 .. row - 1 : /\ c.bits_per_row[r] = w.bits_per_row[r]
                                      /\ RowOf(c, r) = RowOf(w, r)
             /\ Clean(w) => RowOf(c, row) = [RowOf(w, row) EXCEPT !.bits = Append(@, bit)]
<1> DEFINE row == CurrentRow(w)
           n == w.bits_per_row[row]
           at == Index(row, n)
           c == StoreBit(w, bit)
           R == RowOf(w, row)
           Q == RowOf(c, row)
<1>1. /\ Good(c) /\ c.num_rows = w.num_rows
      /\ c.bits_per_row = [w.bits_per_row EXCEPT ![row] = n + 1]
      /\ c.syncs_before_row = w.syncs_before_row
      /\ c.bb = [w.bb EXCEPT ![at] = IF bit = 1 THEN 1 ELSE @]
  BY StoreIs
<1>2. n \in Nat /\ at \in AllBits /\ ~Owned(w, at)
  BY StoreClean
<1>3. /\ row \in RowIndexes(w) /\ row \in Rows /\ row = w.num_rows - 1 /\ w.num_rows \in Nat
      /\ w.bits_per_row \in [Rows -> Nat] /\ w.bb \in [AllBits -> 0 .. 1]
      /\ RowIndexes(w) = 0 .. w.num_rows - 1 /\ RowIndexes(w) \subseteq Rows
  BY Fields DEF Good
<1>4. c.bits_per_row[row] = n + 1 /\ \A r \in Rows : r # row => c.bits_per_row[r] = w.bits_per_row[r]
  BY <1>1, <1>3
<1> HIDE DEF c
<1>5. ASSUME NEW r \in RowIndexes(w), NEW j \in 0 .. w.bits_per_row[r] - 1
      PROVE  c.bb[Index(r, j)] = w.bb[Index(r, j)]
  <2>1. Index(r, j) \in AllBits /\ Owned(w, Index(r, j))
    BY Chosen
  <2>2. Index(r, j) # at
    BY <1>2, <2>1
  <2> HIDE DEF at
  <2> QED
    BY <1>1, <1>3, <2>1, <2>2
<1>6. ASSUME NEW r \in 0 .. row - 1
      PROVE  c.bits_per_row[r] = w.bits_per_row[r] /\ RowOf(c, r) = RowOf(w, r)
  <2>1. r \in RowIndexes(w) /\ r # row /\ r \in Rows
    BY <1>3
  <2>2. w.bits_per_row[r] \in Nat
    BY <2>1, RowsAre
  <2>3. c.bits_per_row[r] = w.bits_per_row[r]
    BY <1>4, <2>1
  <2>4. c.syncs_before_row[r] = w.syncs_before_row[r]
    BY <1>1
  <2>5. \A j \in 0 .. w.bits_per_row[r] - 1 : c.bb[Index(r, j)] = w.bb[Index(r, j)]
    BY <1>5, <2>1
  <2>6. RowOf(c, r) = RowOf(w, r)
    BY <2>2, <2>3, <2>4, <2>5, RowKept
  <2> QED
    BY <2>3, <2>6
<1>7. /\ R \in RowType /\ R = [bits |-> R.bits, syncs |-> w.syncs_before_row[row]]
      /\ R.bits \in Seq(0 .. 1) /\ Len(R.bits) = n
      /\ \A i \in 1 .. n : R.bits[i] = w.bb[Index(row, i - 1)]
  BY <1>3, RowOfIs
<1>8. /\ Q = [bits |-> Q.bits, syncs |-> c.syncs_before_row[row]]
      /\ Q.bits \in Seq(0 .. 1) /\ Len(Q.bits) = n + 1
      /\ \A i \in 1 .. n + 1 : Q.bits[i] = c.bb[Index(row, i - 1)]
  <2>1. row \in RowIndexes(c)
    BY <1>1, <1>3 DEF RowIndexes
  <2>2. c.bits_per_row[row] = n + 1 /\ n + 1 \in Nat
    BY <1>2, <1>4
  <2>4. Good(c)
    BY <1>1
  <2> HIDE DEF row, n, Q
  <2>3. /\ Q = [bits |-> Q.bits, syncs |-> c.syncs_before_row[row]]
        /\ Q.bits \in Seq(0 .. 1) /\ Len(Q.bits) = c.bits_per_row[row]
        /\ \A i \in 1 .. c.bits_per_row[row] : Q.bits[i] = c.bb[Index(row, i - 1)]
    BY <2>1, <2>4, RowOfIs DEF Q
  <2> QED
    BY <2>2, <2>3
<1>9. ASSUME Clean(w)
      PROVE  Q = [R EXCEPT !.bits = Append(@, bit)]
  <2> DEFINE A == Append(R.bits, bit)
  <2> HIDE DEF R, Q, row, n
  <2>1. /\ A \in Seq(0 .. 1) /\ Len(A) = n + 1 /\ A[n + 1] = bit
        /\ \A i \in 1 .. n : A[i] = R.bits[i]
    BY <1>7
  <2>2. c.bb[at] = bit
    <3>1. w.bb[at] = 0
      BY <1>2, <1>9 DEF Clean
    <3> HIDE DEF at
    <3> QED
      BY <1>1, <1>2, <1>3, <3>1
  <2> HIDE DEF A
  <2>3. ASSUME NEW i \in 1 .. n + 1
        PROVE  Q.bits[i] = A[i]
    <3>1. CASE i = n + 1
      <4>1. i - 1 = n
        BY <1>2, <3>1
      <4> QED
        BY <1>8, <2>1, <2>2, <3>1, <4>1
    <3>2. CASE i # n + 1
      <4>1. i \in 1 .. n /\ i - 1 \in 0 .. n - 1
        BY <1>2, <3>2
      <4>2. c.bb[Index(row, i - 1)] = w.bb[Index(row, i - 1)]
        BY <1>3, <1>5, <4>1 DEF n
      <4> QED
        BY <1>7, <1>8, <2>1, <4>1, <4>2
    <3> QED
      BY <3>1, <3>2
  <2>4. Q.bits = A
    BY <1>2, <1>8, <2>1, <2>3, SameSeq
  <2>5. [R EXCEPT !.bits = A] = [bits |-> A, syncs |-> R.syncs]
    BY <1>7, <2>1, SameRow
  <2>6. R.syncs = w.syncs_before_row[row] /\ c.syncs_before_row[row] = w.syncs_before_row[row]
    BY <1>1, <1>7
  <2>7. Q = [R EXCEPT !.bits = A]
    BY <1>8, <2>4, <2>5, <2>6
  <2> QED
    BY <2>7 DEF A
<1> QED
  BY <1>1, <1>6, <1>9 DEF c

LEMMA AddBitStep ==
  ASSUME RowsInv, NEW bit \in 0 .. 1, AddBit(bit)
  PROVE  Abstract!AddBit(bit) \/ Abstract!Lose
<1> DEFINE w == WithRow(bits)
           row == CurrentRow(w)
           H == Heads(w, row)
           R == RowOf(w, row)
           Q == RowOf(bits', row)
<1>1. Good(bits) /\ Tidy(bits) /\ Good(w) /\ w.num_rows > 0
  BY WithRowGood DEF RowsInv, IInv, TypeOK, Good
<1>2. /\ bits' = IF NoMoreBits(w) THEN w ELSE StoreBit(w, bit)
      /\ truncated' = (truncated \/ NoMoreBits(w)) /\ truncated \in BOOLEAN
  BY DEF AddBit, bitbuffer_add_bit, RowsInv, IInv, TypeOK
<1>3. ~truncated => Clean(w)
  BY <1>1, WithRowClean DEF RowsInv
<1>4. /\ Good(bits') /\ bits'.num_rows = w.num_rows
      /\ \A r \in 0 .. row - 1 : /\ bits'.bits_per_row[r] = w.bits_per_row[r]
                               /\ RowOf(bits', r) = RowOf(w, r)
      /\ ~truncated' => Q = [R EXCEPT !.bits = Append(@, bit)]
  <2> HIDE DEF w
  <2> QED
    BY <1>1, <1>2, <1>3, StoreRow, ZenonT(40)
<1>5. /\ H \in Seq(RowType) /\ R \in RowType /\ Q \in RowType
      /\ StartedOf(RowsOf(bits)) = Append(H, R) /\ RowsOf(bits') = Append(H, Q)
      /\ H # <<>> => RowsOf(bits) = Append(H, R)
  BY <1>1, <1>4, LastRowKept
<1> HIDE DEF H, R, Q, w
<1>6. CASE truncated'
  BY <1>5, <1>6, LoseStep
<1>7. CASE ~truncated'
  <2> DEFINE s == StartedOf(RowsOf(bits))
  <2>1. Q = [R EXCEPT !.bits = Append(@, bit)] /\ truncated' = truncated
    BY <1>2, <1>4, <1>7
  <2>2. s = Append(H, R)
    BY <1>5
  <2>3. Len(s) = Len(H) + 1 /\ s[Len(s)] = R /\ [s EXCEPT ![Len(s)] = Q] = Append(H, Q)
    BY <1>5, <2>2, ReplaceLast
  <2> HIDE DEF s
  <2>4. RowsOf(bits') = [s EXCEPT ![Len(s)].bits = Append(@, bit)]
    BY <1>5, <2>1, <2>3
  <2> QED
    BY <2>1, <2>4, Primed DEF Abstract!AddBit, Abstract!Last, Abstract!Started, StartedOf, s
<1> QED
  BY <1>6, <1>7

\* A row that is started comes behind all others, and starts empty.
LEMMA NewRow ==
  ASSUME NEW b, Good(b), Tidy(b), ~NoMoreRows(WithRow(b)), NEW c, Good(c),
         c.num_rows = WithRow(b).free_row + 1,
         c.bits_per_row = WithRow(b).bits_per_row, c.bb = WithRow(b).bb,
         \A r \in 0 .. WithRow(b).free_row - 1 :
           c.syncs_before_row[r] = WithRow(b).syncs_before_row[r]
  PROVE  LET f == WithRow(b).free_row
             N == [bits |-> <<>>, syncs |-> c.syncs_before_row[f]]
         IN  /\ RowsOf(c) = Append(StartedOf(RowsOf(b)), N) /\ N \in RowType
             /\ StartedOf(RowsOf(b)) \in Seq(RowType)
             /\ f \in Rows /\ f >= WithRow(b).num_rows
<1> DEFINE w == WithRow(b)
           row == CurrentRow(w)
           f == w.free_row
           N == [bits |-> <<>>, syncs |-> c.syncs_before_row[f]]
<1>1. Good(w) /\ Tidy(w) /\ w.num_rows > 0 /\ RowsOf(w) = StartedOf(RowsOf(b))
  BY WithRowGood, WithRowTidy, StartedIs
<1>2. /\ c.num_rows = f + 1 /\ c.bits_per_row = w.bits_per_row /\ c.bb = w.bb
      /\ \A r \in 0 .. f - 1 : c.syncs_before_row[r] = w.syncs_before_row[r]
      /\ ~NoMoreRows(w)
  OBVIOUS
<1> HIDE DEF w
<1>3. /\ row \in RowIndexes(w) /\ row = w.num_rows - 1 /\ row \in Nat /\ w.num_rows \in Nat
      /\ f \in Nat /\ f < BITBUF_ROWS /\ w.num_rows <= f /\ f \in Rows
      /\ RowIndexes(w) = 0 .. w.num_rows - 1 /\ Rows = 0 .. BITBUF_ROWS - 1 /\ BITBUF_ROWS \in Nat
      /\ w.bits_per_row \in [Rows -> Nat]
  BY <1>1, <1>2, Fields, SMTT(40) DEF Good, RowsOK, NoMoreRows, Rows
<1>4. RowsOf(w) = Append(Heads(w, row), RowOf(w, row)) /\ Own(w, row)
      /\ RowsOf(w) \in Seq(RowType)
  <2>1. /\ RowsOf(w) = Append(Heads(w, row), RowOf(w, row)) /\ Own(w, row)
        /\ Heads(w, row) \in Seq(RowType) /\ RowOf(w, row) \in RowType
    BY <1>1, LastIsOwn
  <2> QED
    BY <2>1, ReplaceLast
<1>5. CurrentRow(c) = f /\ RowIndexes(c) = 0 .. f
  BY <1>2, <1>3 DEF CurrentRow, RowIndexes
<1>6. RowsOf(c) = Append(Heads(c, f), RowOf(c, f)) /\ RowOf(c, f) \in RowType
  <2>1. c.num_rows > 0
    BY <1>2, <1>3
  <2> HIDE DEF f
  <2> QED
    BY <1>5, <2>1, LastIsOwn
<1>7. \A r \in 0 .. row : /\ c.bits_per_row[r] = w.bits_per_row[r]
                         /\ RowOf(c, r) = RowOf(w, r)
  <2> SUFFICES ASSUME NEW r \in 0 .. row
               PROVE  RowOf(c, r) = RowOf(w, r)
    BY <1>2
  <2>1. r \in 0 .. f - 1 /\ r \in Rows
    BY <1>3
  <2>2. w.bits_per_row[r] \in Nat /\ c.syncs_before_row[r] = w.syncs_before_row[r]
    BY <1>2, <1>3, <2>1
  <2> QED
    BY <1>2, <2>2, RowKept
<1>8. Heads(c, row + 1) = RowsOf(w)
  <2> DEFINE n == row + 1
  <2>1. n \in 0 .. w.num_rows /\ n <= c.num_rows /\ 0 .. n - 1 = 0 .. row /\ n = w.num_rows
    BY <1>2, <1>3
  <2> HIDE DEF n, row
  <2>2. Heads(c, n) = Heads(w, n)
    <3>1. \A r \in 0 .. n - 1 : c.bits_per_row[r] = w.bits_per_row[r] /\ RowOf(c, r) = RowOf(w, r)
      BY <1>7, <2>1
    <3>2. Good(w)
      BY <1>1
    <3> QED
      BY <2>1, <3>1, <3>2, HeadsSame
  <2>3. Heads(w, n) = RowsOf(w)
    BY <2>1 DEF RowsOf, Heads, OwnRows
  <2> QED
    BY <2>2, <2>3 DEF n
<1>9. OwnUpTo(c, f) = OwnUpTo(c, row + 1)
  <2> DEFINE n == w.bits_per_row[row]
  <2>1. EndRow(row, n) = f
    BY <1>1, <1>3 DEF Tidy
  <2>2. row \in RowIndexes(c) /\ c.bits_per_row[row] = n
    BY <1>2, <1>3, <1>5
  <2>3. \A r \in row + 1 .. f - 1 : ~Own(c, r)
    <3> SUFFICES ASSUME NEW r \in row + 1 .. f - 1
                 PROVE  \E q \in RowIndexes(c) : q < r /\ EndRow(q, c.bits_per_row[q]) > r
      BY DEF Own
    <3>1. row < r /\ f > r
      BY <1>3
    <3> QED
      BY <2>1, <2>2, <3>1
  <2>4. f \in 0 .. BITBUF_ROWS /\ row + 1 \in 0 .. f
    BY <1>3
  <2> HIDE DEF f, row
  <2> QED
    BY <2>3, <2>4, OwnSkipped
<1>10. Heads(c, f) = RowsOf(w)
  BY <1>8, <1>9 DEF Heads
<1>11. RowOf(c, f) = N
  <2>1. c.bits_per_row[f] = 0
    BY <1>1, <1>2, <1>3 DEF Good, RowsOK
  <2> QED
    BY <2>1 DEF RowOf
<1> QED
  BY <1>1, <1>3, <1>4, <1>6, <1>10, <1>11 DEF w

\* A row that is given up.
LEMMA GivenUp ==
  ASSUME NEW b, Good(b), NoMoreRows(WithRow(b)), NEW len \in Nat
  PROVE  LET w   == WithRow(b)
             c   == bitbuffer_add_row(b, len)
         IN  /\ Good(c) /\ c.num_rows = w.num_rows
             /\ \A r \in 0 .. CurrentRow(w) - 1 : /\ c.bits_per_row[r] = w.bits_per_row[r]
                                                /\ RowOf(c, r) = RowOf(w, r)
<1> DEFINE w == WithRow(b)
           c == bitbuffer_add_row(b, len)
           row == CurrentRow(w)
<1>1. /\ Good(w) /\ Good(c) /\ w.num_rows > 0 /\ c.num_rows = w.num_rows
      /\ c.bits_per_row = [w.bits_per_row EXCEPT ![row] = 0]
      /\ c.syncs_before_row = w.syncs_before_row /\ c.bb = w.bb
  BY WithRowGood, AddRowIs
<1> HIDE DEF w, c
<1>2. /\ row = w.num_rows - 1 /\ w.bits_per_row \in [Rows -> Nat] /\ w.num_rows \in Nat
      /\ RowIndexes(w) = 0 .. w.num_rows - 1 /\ RowIndexes(w) \subseteq Rows
  BY <1>1, Fields DEF Good
<1>3. ASSUME NEW r \in 0 .. row - 1
      PROVE  c.bits_per_row[r] = w.bits_per_row[r] /\ RowOf(c, r) = RowOf(w, r)
  <2>1. r \in Rows /\ r # row
    BY <1>2
  <2>2. c.bits_per_row[r] = w.bits_per_row[r] /\ w.bits_per_row[r] \in Nat
    BY <1>1, <1>2, <2>1
  <2> QED
    BY <1>1, <2>2, RowKept
<1> QED
  BY <1>1, <1>3 DEF w, c

LEMMA AddRowStep ==
  ASSUME RowsInv, AddRow
  PROVE  Abstract!AddRow \/ Abstract!Lose
<1> DEFINE w == WithRow(bits)
           c == bitbuffer_add_row(bits, 1)
           row == CurrentRow(w)
           H == Heads(w, row)
           R == RowOf(w, row)
           Q == RowOf(c, row)
<1>1. Good(bits) /\ Tidy(bits) /\ truncated \in BOOLEAN
  BY DEF RowsInv, IInv, TypeOK, Good
<1>2. bits' = c /\ truncated' = (truncated \/ NoMoreRows(w))
  BY DEF AddRow
<1>3. CASE NoMoreRows(w)
  <2>1. /\ Good(c) /\ c.num_rows = w.num_rows
        /\ \A r \in 0 .. row - 1 : /\ c.bits_per_row[r] = w.bits_per_row[r]
                                 /\ RowOf(c, r) = RowOf(w, r)
    BY <1>1, <1>3, GivenUp
  <2>2. /\ H \in Seq(RowType) /\ R \in RowType /\ Q \in RowType
        /\ StartedOf(RowsOf(bits)) = Append(H, R) /\ RowsOf(c) = Append(H, Q)
        /\ H # <<>> => RowsOf(bits) = Append(H, R)
    BY <1>1, <2>1, LastRowKept
  <2> HIDE DEF H, R, Q
  <2> QED
    BY <1>2, <1>3, <2>2, LoseStep
<1>4. CASE ~NoMoreRows(w)
  <2> DEFINE f == w.free_row
  <2>1. /\ Good(c) /\ c.bb = w.bb /\ c.syncs_before_row = w.syncs_before_row
        /\ c.num_rows = f + 1 /\ c.bits_per_row = w.bits_per_row
    BY <1>1, <1>4, AddRowIs
  <2>2. /\ RowsOf(c) = Append(StartedOf(RowsOf(bits)), [bits |-> <<>>, syncs |-> c.syncs_before_row[f]])
        /\ f \in Rows /\ f >= w.num_rows
    BY <1>1, <1>4, <2>1, NewRow
  <2>3. c.syncs_before_row[f] = 0
    BY <1>1, <2>1, <2>2, WithRowTidy DEF Tidy
  <2>4. truncated' = truncated
    BY <1>1, <1>2, <1>4
  <2>5. RowsOf(bits') = Append(StartedOf(RowsOf(bits)), Abstract!NoRow)
    BY <1>2, <2>2, <2>3 DEF Abstract!NoRow
  <2> QED
    BY <2>4, <2>5, Primed DEF Abstract!AddRow, Abstract!Started, StartedOf
<1> QED
  BY <1>3, <1>4

LEMMA AddSyncStep ==
  ASSUME RowsInv, AddSync
  PROVE  Abstract!AddSync \/ Abstract!Lose
<1> DEFINE w == WithRow(bits)
           b == IF SyncEndsRow(bits) THEN bitbuffer_add_row(bits, 1) ELSE w
           c == bitbuffer_add_sync(bits, 1)
           row == CurrentRow(w)
           n == w.bits_per_row[row]
           H == Heads(w, row)
           R == RowOf(w, row)
           Q == RowOf(c, row)
           s == StartedOf(RowsOf(bits))
<1>1. Good(bits) /\ Tidy(bits) /\ truncated \in BOOLEAN /\ Good(w) /\ w.num_rows > 0
  BY WithRowGood DEF RowsInv, IInv, TypeOK, Good
<1>2. bits' = c /\ truncated' = (truncated \/ (SyncEndsRow(bits) /\ NoMoreRows(w)))
  BY DEF AddSync
<1>3. /\ Good(b) /\ b.num_rows > 0 /\ Good(c) /\ c.num_rows = b.num_rows
      /\ c.bits_per_row = b.bits_per_row /\ c.bb = b.bb
      /\ c.syncs_before_row = [b.syncs_before_row EXCEPT ![CurrentRow(b)] = @ + 1]
  BY <1>1, AddSyncIs
<1>4. SyncEndsRow(bits) <=> n > 0
  BY DEF SyncEndsRow
<1>5. ASSUME NEW x, Good(x), x.num_rows = w.num_rows,
             \A r \in 0 .. row - 1 : /\ x.bits_per_row[r] = w.bits_per_row[r]
                                  /\ RowOf(x, r) = RowOf(w, r)
      PROVE  /\ H \in Seq(RowType) /\ R \in RowType /\ RowOf(x, row) \in RowType
             /\ s = Append(H, R) /\ RowsOf(x) = Append(H, RowOf(x, row))
             /\ H # <<>> => RowsOf(bits) = Append(H, R)
  BY <1>1, <1>5, LastRowKept
<1>6. /\ row \in RowIndexes(w) /\ row = w.num_rows - 1 /\ row \in Nat /\ w.num_rows \in Nat
      /\ n \in Nat /\ row \in Rows /\ RowIndexes(w) = 0 .. w.num_rows - 1
      /\ RowIndexes(w) \subseteq Rows
  BY <1>1, Fields DEF Good
\* The parts of the last row that a sync leaves alone.
<1>7. ASSUME b.num_rows = w.num_rows
      PROVE  /\ \A r \in 0 .. row - 1 : RowOf(c, r) = RowOf(b, r)
             /\ RowOf(c, row).bits = RowOf(b, row).bits
             /\ c.syncs_before_row[row] = b.syncs_before_row[row] + 1
  <2>1. CurrentRow(b) = row /\ b.syncs_before_row \in [Rows -> Nat]
    BY <1>3, <1>7, Fields DEF Good, CurrentRow
  <2>2. ASSUME NEW r \in 0 .. row - 1
        PROVE  RowOf(c, r) = RowOf(b, r)
    <3>1. r # row /\ r \in Rows
      BY <1>6
    <3>2. c.syncs_before_row[r] = b.syncs_before_row[r]
      BY <1>3, <2>1, <3>1
    <3> QED
      BY <1>3, <3>2 DEF RowOf
  <2>3. RowOf(c, row).bits = RowOf(b, row).bits
    BY <1>3 DEF RowOf
  <2> QED
    BY <1>3, <1>6, <2>1, <2>2, <2>3
<1> HIDE DEF b, c, w
<1>8. CASE n > 0 /\ NoMoreRows(w)
  <2>1. /\ b.num_rows = w.num_rows
        /\ \A r \in 0 .. row - 1 : /\ b.bits_per_row[r] = w.bits_per_row[r]
                                 /\ RowOf(b, r) = RowOf(w, r)
    BY <1>1, <1>4, <1>8, GivenUp DEF b, w
  <2>2. \A r \in 0 .. row - 1 : /\ c.bits_per_row[r] = w.bits_per_row[r]
                              /\ RowOf(c, r) = RowOf(w, r)
    BY <1>3, <1>7, <2>1
  <2>3. /\ H \in Seq(RowType) /\ R \in RowType /\ RowOf(c, row) \in RowType
        /\ s = Append(H, R) /\ RowsOf(c) = Append(H, RowOf(c, row))
        /\ H # <<>> => RowsOf(bits) = Append(H, R)
    BY <1>3, <1>5, <2>1, <2>2
  <2> HIDE DEF H, R
  <2> QED
    BY <1>2, <1>4, <1>8, <2>3, LoseStep
<1>9. CASE n > 0 /\ ~NoMoreRows(w)
  <2> DEFINE f == w.free_row
  <2>1. /\ Good(b) /\ b.bb = w.bb /\ b.syncs_before_row = w.syncs_before_row
        /\ b.num_rows = f + 1 /\ b.bits_per_row = w.bits_per_row
    BY <1>1, <1>4, <1>9, AddRowIs DEF b, w
  <2>2. f \in Nat /\ f < BITBUF_ROWS /\ f >= w.num_rows
    BY <1>1, <1>9, Fields DEF Good, RowsOK, NoMoreRows
  <2>3. f \in Rows /\ CurrentRow(b) = f /\ b.syncs_before_row \in [Rows -> Nat]
    <3>1. b.syncs_before_row \in [Rows -> Nat]
      BY <1>3, Fields DEF Good
    <3>2. CurrentRow(b) = f
      BY <2>1, <2>2 DEF CurrentRow
    <3>3. f \in Rows
      BY <2>2, BufferAssumption DEF Rows
    <3> QED
      BY <3>1, <3>2, <3>3
  <2>4. c.syncs_before_row[f] = b.syncs_before_row[f] + 1
        /\ \A r \in 0 .. f - 1 : c.syncs_before_row[r] = b.syncs_before_row[r]
    <3>1. \A r \in 0 .. f - 1 : r # f /\ r \in Rows
      BY <2>2, BufferAssumption DEF Rows
    <3> QED
      BY <1>3, <2>3, <3>1
  <2>5. c.syncs_before_row[f] = 1
    BY <1>1, <2>1, <2>2, <2>3, <2>4, WithRowTidy DEF Tidy, w
  <2>6. RowsOf(c) = Append(s, [bits |-> <<>>, syncs |-> c.syncs_before_row[f]])
    <3>1. /\ ~NoMoreRows(w) /\ Good(c) /\ c.num_rows = f + 1
          /\ c.bits_per_row = w.bits_per_row /\ c.bb = w.bb
          /\ \A r \in 0 .. f - 1 : c.syncs_before_row[r] = w.syncs_before_row[r]
      BY <1>3, <1>9, <2>1, <2>4
    <3> QED
      BY <1>1, <3>1, NewRow DEF w
  <2>7. RowsOf(bits') = Append(s, [Abstract!NoRow EXCEPT !.syncs = 1])
    BY <1>2, <2>5, <2>6 DEF Abstract!NoRow
  <2>8. truncated' = truncated
    BY <1>1, <1>2, <1>9
  <2>9. s[Len(s)].bits # <<>>
    <3>1. \A r \in 0 .. row - 1 : /\ w.bits_per_row[r] = w.bits_per_row[r]
                                /\ RowOf(w, r) = RowOf(w, r)
      OBVIOUS
    <3>2. H \in Seq(RowType) /\ R \in RowType /\ s = Append(H, R)
      BY <1>1, <1>5, <3>1
    <3>3. Len(R.bits) = n
      BY <1>1, <1>6, RowOfIs
    <3> HIDE DEF H, R, s, n
    <3>4. s[Len(s)] = R
      BY <3>2, ReplaceLast
    <3> QED
      BY <1>9, <3>3, <3>4
  <2> HIDE DEF s
  <2> QED
    BY <2>7, <2>8, <2>9, Primed DEF Abstract!AddSync, Abstract!Last, Abstract!Started, StartedOf, s
<1>10. CASE ~(n > 0)
  <2>1. b = w
    BY <1>4, <1>10 DEF b, w
  <2>2. \A r \in 0 .. row - 1 : /\ c.bits_per_row[r] = w.bits_per_row[r]
                              /\ RowOf(c, r) = RowOf(w, r)
    BY <1>3, <1>7, <2>1
  <2>3. /\ H \in Seq(RowType) /\ R \in RowType /\ Q \in RowType
        /\ s = Append(H, R) /\ RowsOf(c) = Append(H, Q)
    BY <1>3, <1>5, <2>1, <2>2
  <2>4. /\ R = [bits |-> R.bits, syncs |-> w.syncs_before_row[row]]
        /\ R.syncs = w.syncs_before_row[row] /\ Len(R.bits) = n /\ R.bits \in Seq(0 .. 1)
    BY <1>1, <1>6, RowOfIs
  <2>5. Q = [bits |-> Q.bits, syncs |-> w.syncs_before_row[row] + 1] /\ Q.bits = R.bits
    <3>1. c.syncs_before_row[row] = w.syncs_before_row[row] + 1 /\ Q.bits = R.bits
      BY <1>7, <2>1
    <3> QED
      BY <3>1 DEF RowOf
  <2>6. truncated' = truncated
    BY <1>1, <1>2, <1>4, <1>10
  <2> HIDE DEF H, R, Q, s, n
  <2>7. R.bits = <<>>
    BY <1>6, <1>10, <2>4
  <2>8. Q = [R EXCEPT !.syncs = @ + 1]
    BY <2>4, <2>5
  <2>9. Len(s) = Len(H) + 1 /\ s[Len(s)] = R /\ [s EXCEPT ![Len(s)] = Q] = Append(H, Q)
    BY <2>3, ReplaceLast
  <2>10. RowsOf(bits') = [s EXCEPT ![Len(s)].syncs = @ + 1]
    BY <1>2, <2>3, <2>8, <2>9
  <2> QED
    BY <2>6, <2>7, <2>9, <2>10, Primed
      DEF Abstract!AddSync, Abstract!Last, Abstract!Started, StartedOf, s
<1> QED
  BY <1>8, <1>9, <1>10

\* The row that is given a width is cut, or continued with the clear memory behind it.
LEMMA WidthRow ==
  ASSUME NEW b, Good(b), NEW width \in Nat
  PROVE  LET w   == WithRow(b)
             row == CurrentRow(w)
             c   == bitbuffer_set_width(b, width)
             R   == RowOf(w, row)
         IN  /\ Good(c) /\ c.num_rows = w.num_rows
             /\ \A r \in 0 .. row - 1 : /\ c.bits_per_row[r] = w.bits_per_row[r]
                                      /\ RowOf(c, r) = RowOf(w, r)
             /\ Clean(w) /\ width <= RemainingBits(w) =>
                  RowOf(c, row) = [R EXCEPT !.bits = [i \in 1 .. width |->
                                     IF i <= Len(R.bits) THEN R.bits[i] ELSE 0]]
<1> DEFINE w == WithRow(b)
           row == CurrentRow(w)
           old == w.bits_per_row[row]
           new == IF width > RemainingBits(w) THEN RemainingBits(w) ELSE width
           c == bitbuffer_set_width(b, width)
           R == RowOf(w, row)
           Q == RowOf(c, row)
<1>1. /\ Good(w) /\ Good(c) /\ c.num_rows = w.num_rows /\ new \in Nat /\ w.num_rows > 0
      /\ c.bits_per_row = [w.bits_per_row EXCEPT ![row] = new]
      /\ c.syncs_before_row = w.syncs_before_row
      /\ \A k \in AllBits :
           c.bb[k] = IF old > new /\ \E j \in new .. BitsToByte(old) - 1 : k = Index(row, j)
                       THEN 0 ELSE w.bb[k]
  BY WithRowGood, SetWidthIs
<1>2. Clean(w) /\ width <= RemainingBits(w) => new = width /\ Clean(w)
  <2> DEFINE m == RemainingBits(w)
  <2>1. m \in Int
    <3>1. w.num_rows \in Nat /\ BITBUF_ROWS \in Nat
      BY <1>1, Fields DEF Good
    <3> DEFINE k == BITBUF_ROWS - w.num_rows + 1
    <3>2. k \in Int /\ RowBits \in Int /\ m = k * RowBits
      BY <3>1, RowBitsType DEF RemainingBits
    <3> HIDE DEF k, m
    <3> QED
      BY <3>2
  <2>2. width > m <=> ~(width <= m)
    <3> HIDE DEF m
    <3> QED
      BY <2>1
  <2> HIDE DEF w
  <2> QED
    BY <2>2
<1> HIDE DEF w, c, new
<1>3. /\ row \in RowIndexes(w) /\ row \in Rows /\ old \in Nat /\ w.bits_per_row \in [Rows -> Nat]
      /\ row = w.num_rows - 1 /\ w.num_rows \in Nat /\ row \in Nat
      /\ RowIndexes(w) = 0 .. w.num_rows - 1 /\ RowIndexes(w) \subseteq Rows
  BY <1>1, Fields DEF Good
<1>4. /\ c.bits_per_row[row] = new
      /\ \A r \in Rows : r # row => c.bits_per_row[r] = w.bits_per_row[r]
  BY <1>1, <1>3
<1>5. BitsToByte(old) \in Nat
  <2> DEFINE n == old
  <2>1. n \in Nat /\ row \in Nat
    BY <1>3
  <2> HIDE DEF n
  <2>2. BitsToByte(n) \in Nat
    BY <2>1, RowExtent
  <2> QED
    BY <2>2 DEF n
<1>6. ASSUME NEW r \in RowIndexes(w), NEW j \in 0 .. w.bits_per_row[r] - 1, r # row \/ j < new
      PROVE  c.bb[Index(r, j)] = w.bb[Index(r, j)]
  <2>1. Index(r, j) \in AllBits
    BY <1>1, Chosen
  <2>2. ASSUME NEW i \in new .. BitsToByte(old) - 1, Index(r, j) = Index(row, i)
        PROVE  FALSE
    <3>1. i \in 0 .. BitsToByte(w.bits_per_row[row]) - 1
      BY <1>1, <1>5
    <3>2. row = r /\ i = j
      BY <1>1, <1>3, <2>2, <3>1, Apart, SMTT(40)
    <3> QED
      BY <1>1, <1>5, <1>6, <3>2
  <2> QED
    BY <1>1, <2>1, <2>2
<1>7. ASSUME NEW r \in 0 .. row - 1
      PROVE  c.bits_per_row[r] = w.bits_per_row[r] /\ RowOf(c, r) = RowOf(w, r)
  <2>1. r \in RowIndexes(w) /\ r # row /\ r \in Rows
    BY <1>3
  <2>2. w.bits_per_row[r] \in Nat /\ c.bits_per_row[r] = w.bits_per_row[r]
    BY <1>3, <1>4, <2>1
  <2>3. \A j \in 0 .. w.bits_per_row[r] - 1 : c.bb[Index(r, j)] = w.bb[Index(r, j)]
    BY <1>6, <2>1
  <2>4. c.syncs_before_row[r] = w.syncs_before_row[r]
    BY <1>1
  <2>5. RowOf(c, r) = RowOf(w, r)
    BY <2>2, <2>3, <2>4, RowKept
  <2> QED
    BY <2>2, <2>5
<1>8. ASSUME Clean(w), new = width
      PROVE  Q = [R EXCEPT !.bits = [i \in 1 .. width |->
                                      IF i <= Len(R.bits) THEN R.bits[i] ELSE 0]]
  <2> DEFINE A == [i \in 1 .. width |-> IF i <= Len(R.bits) THEN R.bits[i] ELSE 0]
             B == [i \in 1 .. width |-> c.bb[Index(row, i - 1)]]
  <2>1. /\ R \in RowType /\ R.syncs = w.syncs_before_row[row]
        /\ R = [bits |-> R.bits, syncs |-> w.syncs_before_row[row]]
        /\ Len(R.bits) = old /\ \A i \in 1 .. old : R.bits[i] = w.bb[Index(row, i - 1)]
    BY <1>1, <1>3, RowOfIs
  <2>2. Q = [bits |-> B, syncs |-> w.syncs_before_row[row]]
    BY <1>1, <1>4, <1>8 DEF RowOf
  <2>3. ASSUME NEW i \in 1 .. width
        PROVE  B[i] = A[i]
    <3> DEFINE k == Index(row, i - 1)
    <3>1. i - 1 \in 0 .. new - 1 /\ i \in Nat
      BY <1>8
    <3>2. CASE i <= old
      <4>1. i - 1 \in 0 .. w.bits_per_row[row] - 1 /\ i - 1 < new /\ i \in 1 .. old
        BY <1>1, <1>3, <3>1, <3>2
      <4>2. c.bb[k] = w.bb[k]
        BY <1>3, <1>6, <4>1
      <4>3. R.bits[i] = w.bb[k]
        BY <2>1, <4>1
      <4>4. A[i] = R.bits[i]
        BY <2>1, <3>2
      <4>5. B[i] = c.bb[k]
        OBVIOUS
      <4> QED
        BY <4>2, <4>3, <4>4, <4>5
    <3>3. CASE ~(i <= old)
      <4>1. i - 1 \in old .. new - 1 /\ old < new
        BY <1>1, <1>3, <3>1, <3>3
      <4>2. \A r \in RowIndexes(w) : w.bits_per_row[r] <= c.bits_per_row[r]
        <5> SUFFICES ASSUME NEW r \in RowIndexes(w)
                     PROVE  w.bits_per_row[r] <= c.bits_per_row[r]
          OBVIOUS
        <5>1. CASE r = row
          BY <1>1, <1>3, <1>4, <4>1, <5>1
        <5>2. CASE r # row
          <6>1. w.bits_per_row[r] \in Nat /\ r \in Rows
            BY <1>3
          <6> QED
            BY <1>4, <5>2, <6>1
        <5> QED
          BY <5>1, <5>2
      <4>3. i - 1 \in w.bits_per_row[row] .. c.bits_per_row[row] - 1 /\ w.num_rows <= c.num_rows
        BY <1>1, <1>3, <1>4, <4>1
      <4>4. k \in AllBits /\ ~Owned(w, k)
        BY <1>1, <1>3, <4>2, <4>3, FreshUnowned
      <4>5. w.bb[k] = 0
        BY <1>8, <4>4 DEF Clean
      <4> HIDE DEF k
      <4>6. c.bb[k] = 0
        BY <1>1, <4>4, <4>5
      <4>7. B[i] = c.bb[k] /\ A[i] = 0
        BY <2>1, <3>3 DEF k
      <4> QED
        BY <4>6, <4>7
    <3> QED
      BY <3>2, <3>3
  <2>4. A = B
    BY <2>3
  <2> HIDE DEF A, B, Q, R
  <2>5. [R EXCEPT !.bits = A] = [bits |-> A, syncs |-> w.syncs_before_row[row]]
    BY <2>1
  <2>6. Q = [R EXCEPT !.bits = A]
    BY <2>2, <2>4, <2>5
  <2> QED
    BY <2>6 DEF A
<1> QED
  BY <1>1, <1>2, <1>7, <1>8 DEF c, w

LEMMA SetWidthStep ==
  ASSUME RowsInv, NEW width \in Widths, SetWidth(width)
  PROVE  Abstract!SetWidth(width) \/ Abstract!Lose
<1> DEFINE w == WithRow(bits)
           row == CurrentRow(w)
           c == bitbuffer_set_width(bits, width)
           H == Heads(w, row)
           R == RowOf(w, row)
           Q == RowOf(c, row)
           s == StartedOf(RowsOf(bits))
           cut == [i \in 1 .. width |-> IF i <= Len(R.bits) THEN R.bits[i] ELSE 0]
<1>1. Good(bits) /\ Tidy(bits) /\ truncated \in BOOLEAN /\ Good(w) /\ w.num_rows > 0
      /\ width \in Nat
  BY WithRowGood, CallsAssumption DEF RowsInv, IInv, TypeOK, Good
<1>2. bits' = c /\ truncated' = (truncated \/ width > RemainingBits(w))
  BY DEF SetWidth
<1>3. ~truncated => Clean(w)
  BY <1>1, WithRowClean DEF RowsInv
<1>4. /\ Good(c) /\ c.num_rows = w.num_rows
      /\ \A r \in 0 .. row - 1 : /\ c.bits_per_row[r] = w.bits_per_row[r]
                               /\ RowOf(c, r) = RowOf(w, r)
      /\ Clean(w) /\ width <= RemainingBits(w) => Q = [R EXCEPT !.bits = cut]
  BY <1>1, WidthRow
<1>5. /\ H \in Seq(RowType) /\ R \in RowType /\ Q \in RowType
      /\ s = Append(H, R) /\ RowsOf(c) = Append(H, Q)
      /\ H # <<>> => RowsOf(bits) = Append(H, R)
  BY <1>1, <1>4, LastRowKept
<1>6. CASE truncated'
  <2> HIDE DEF H, R, Q, w, c
  <2> QED
    BY <1>2, <1>5, <1>6, LoseStep
<1>7. CASE ~truncated'
  <2>1. ~(width > RemainingBits(w)) /\ truncated' = truncated /\ ~truncated
    BY <1>1, <1>2, <1>7
  <2>2. width <= RemainingBits(w)
    <3>1. RemainingBits(w) \in Int
      <4>1. w.num_rows \in Nat /\ BITBUF_ROWS \in Nat
        BY <1>1, Fields DEF Good
      <4> DEFINE k == BITBUF_ROWS - w.num_rows + 1
      <4>2. k \in Int /\ RowBits \in Int /\ RemainingBits(w) = k * RowBits
        BY <4>1, RowBitsType DEF RemainingBits
      <4> HIDE DEF k
      <4> QED
        BY <4>2
    <3> DEFINE m == RemainingBits(w)
    <3> HIDE DEF m
    <3> QED
      BY <1>1, <2>1, <3>1 DEF m
  <2>3. Q = [R EXCEPT !.bits = cut]
    BY <1>3, <1>4, <2>1, <2>2
  <2> HIDE DEF H, Q, w, c, s
  <2>4. Len(s) = Len(H) + 1 /\ s[Len(s)] = R /\ [s EXCEPT ![Len(s)] = Q] = Append(H, Q)
    BY <1>5, ReplaceLast
  <2>5. RowsOf(bits') = [s EXCEPT ![Len(s)] = [R EXCEPT !.bits = cut]]
    BY <1>2, <1>5, <2>3, <2>4
  <2> HIDE DEF R
  <2>6. RowsOf(bits') = [s EXCEPT ![Len(s)].bits =
                           [i \in 1 .. width |-> IF i <= Len(s[Len(s)].bits)
                                                   THEN s[Len(s)].bits[i] ELSE 0]]
    BY <2>4, <2>5
  <2> QED
    BY <2>1, <2>6, Primed DEF Abstract!SetWidth, Abstract!Last, Abstract!Started, StartedOf, s
<1> QED
  BY <1>6, <1>7

\* The rows s with the numbers own become t, with the bits that c has where b had theirs.
Rewritten(b, c, own, s, t) ==
  /\ Len(s) \in Nat
  /\ t = [r \in 1 .. Len(s) |-> t[r]]
  /\ \A r \in 1 .. Len(s) :
       /\ own[r] \in RowIndexes(b) /\ Len(s[r].bits) = b.bits_per_row[own[r]]
       /\ Len(s[r].bits) \in Nat
       /\ \A i \in 1 .. Len(s[r].bits) : s[r].bits[i] = b.bb[Index(own[r], i - 1)]
       /\ t[r] = [s[r] EXCEPT !.bits =
                     [i \in 1 .. Len(s[r].bits) |-> c.bb[Index(own[r], i - 1)]]]

\* A transformation changes the bits of each row and nothing else.
LEMMA TransformedRows ==
  ASSUME NEW b, Good(b), NEW c, Good(c), SameRows(b, c)
  PROVE  Rewritten(b, c, OwnRows(b), RowsOf(b), RowsOf(c))
<1> DEFINE s == RowsOf(b)
           t == RowsOf(c)
           own == OwnRows(b)
           N == b.num_rows
<1>1. /\ N \in 0 .. BITBUF_ROWS /\ N \in Nat /\ N \in 0 .. N /\ RowIndexes(b) = 0 .. N - 1
      /\ c.num_rows = N /\ c.bits_per_row = b.bits_per_row
      /\ c.syncs_before_row = b.syncs_before_row
  BY Fields DEF Good, SameRows
<1>2. /\ s = Heads(b, N) /\ own = OwnUpTo(b, N)
  BY DEF RowsOf, Heads, OwnRows
<1>3. OwnRows(c) = own
  <2>1. \A r \in 0 .. N - 1 : Own(c, r) <=> Own(b, r)
    BY <1>1 DEF Own, RowIndexes
  <2>2. OwnUpTo(c, N) = OwnUpTo(b, N)
    BY <1>1, <2>1, OwnSame
  <2> QED
    BY <1>1, <2>2 DEF OwnRows
<1>4. own \in Seq(Nat) /\ \A i \in 1 .. Len(own) : own[i] \in 0 .. N - 1
  <2> HIDE DEF N
  <2> QED
    BY <1>1, <1>2, OwnType
<1>5. /\ s \in Seq(RowType) /\ Len(s) = Len(own) /\ Len(s) \in Nat
      /\ \A r \in 1 .. Len(own) : s[r] = RowOf(b, own[r])
  <2>1. N \in 0 .. b.num_rows
    BY <1>1
  <2> HIDE DEF N
  <2>2. /\ Heads(b, N) \in Seq(RowType) /\ Len(Heads(b, N)) = Len(OwnUpTo(b, N))
        /\ Len(Heads(b, N)) \in Nat
        /\ \A i \in 1 .. Len(OwnUpTo(b, N)) : Heads(b, N)[i] = RowOf(b, OwnUpTo(b, N)[i])
    BY <2>1, HeadsType
  <2> HIDE DEF s, own
  <2> QED
    BY <1>2, <2>2
<1>6. t = [r \in 1 .. Len(own) |-> RowOf(c, own[r])]
  BY <1>3 DEF RowsOf
<1> HIDE DEF s, t, own, N
<1>7. t = [r \in 1 .. Len(s) |-> t[r]] /\ \A r \in 1 .. Len(s) : t[r] = RowOf(c, own[r])
  BY <1>5, <1>6
<1>8. ASSUME NEW r \in 1 .. Len(s)
      PROVE  /\ own[r] \in RowIndexes(b) /\ Len(s[r].bits) = b.bits_per_row[own[r]]
             /\ Len(s[r].bits) \in Nat
             /\ \A i \in 1 .. Len(s[r].bits) : s[r].bits[i] = b.bb[Index(own[r], i - 1)]
             /\ t[r] = [s[r] EXCEPT !.bits =
                           [i \in 1 .. Len(s[r].bits) |-> c.bb[Index(own[r], i - 1)]]]
  <2> DEFINE q == own[r]
             R == s[r]
             B == [i \in 1 .. b.bits_per_row[q] |-> c.bb[Index(q, i - 1)]]
  <2>1. q \in RowIndexes(b)
    BY <1>1, <1>4, <1>5
  <2>2. R = RowOf(b, q) /\ t[r] = RowOf(c, q)
    BY <1>5, <1>7
  <2> HIDE DEF q, R
  <2>3. /\ RowOf(b, q) \in RowType /\ RowOf(b, q).syncs = b.syncs_before_row[q]
        /\ Len(RowOf(b, q).bits) = b.bits_per_row[q] /\ b.bits_per_row[q] \in Nat
        /\ \A i \in 1 .. b.bits_per_row[q] : RowOf(b, q).bits[i] = b.bb[Index(q, i - 1)]
    BY <2>1, RowOfIs
  <2>4. RowOf(c, q) = [bits |-> B, syncs |-> b.syncs_before_row[q]]
    BY <1>1 DEF RowOf
  <2> HIDE DEF B
  <2>5. [R EXCEPT !.bits = B] = [bits |-> B, syncs |-> b.syncs_before_row[q]]
    BY <2>2, <2>3 DEF RowType
  <2>6. t[r] = [R EXCEPT !.bits = B]
    BY <2>2, <2>4, <2>5
  <2>7. B = [i \in 1 .. Len(R.bits) |-> c.bb[Index(q, i - 1)]]
    BY <2>2, <2>3 DEF B
  <2> QED
    BY <2>1, <2>2, <2>3, <2>6, <2>7 DEF q, R
<1> QED
  BY <1>5, <1>7, <1>8 DEF s, t, own, Rewritten

\* What the three transformations make of rows s.
LevelOf(s, r, i) == IF i = 0 THEN 0 ELSE s[r].bits[i]

Inverted(s) == [r \in 1 .. Len(s) |-> [s[r] EXCEPT !.bits =
  [i \in 1 .. Len(s[r].bits) |-> IF s[r].bits[i] = 0 THEN 1 ELSE 0]]]

Marked(s) == [r \in 1 .. Len(s) |-> [s[r] EXCEPT !.bits =
  [i \in 1 .. Len(s[r].bits) |-> IF LevelOf(s, r, i) # LevelOf(s, r, i - 1) THEN 1 ELSE 0]]]

Spaced(s) == [r \in 1 .. Len(s) |-> [s[r] EXCEPT !.bits =
  [i \in 1 .. Len(s[r].bits) |-> IF ~(LevelOf(s, r, i) # LevelOf(s, r, i - 1)) THEN 1 ELSE 0]]]

LEMMA EachBit ==
  ASSUME NEW b, Good(b),
         NEW c \in {bitbuffer_invert(b), bitbuffer_nrzm_decode(b), bitbuffer_nrzs_decode(b)}
  PROVE  \/ RowsOf(c) = Inverted(RowsOf(b))
         \/ RowsOf(c) = Marked(RowsOf(b))
         \/ RowsOf(c) = Spaced(RowsOf(b))
<1> DEFINE s == RowsOf(b)
           t == RowsOf(c)
           own == OwnRows(b)
           lev(r, i) == LevelOf(s, r, i)
<1>1. Good(b)
  OBVIOUS
<1>2. Good(c) /\ SameRows(b, c)
  BY <1>1, InvertIs, NrzmIs, NrzsIs
<1>3. Rewritten(b, c, own, s, t)
  BY <1>1, <1>2, TransformedRows
<1> HIDE DEF s, t, own
\* The bit before a bit in the buffer is the one before it in its row.
<1>5. ASSUME NEW r \in 1 .. Len(s), NEW i \in 1 .. Len(s[r].bits)
      PROVE  /\ own[r] \in RowIndexes(b) /\ i - 1 \in 0 .. b.bits_per_row[own[r]] - 1
             /\ b.bb[Index(own[r], i - 1)] = s[r].bits[i]
             /\ lev(r, i) = s[r].bits[i]
             /\ Before(b, own[r], i - 1) = lev(r, i - 1)
             /\ s[r].bits[i] \in 0 .. 1
  <2>1. /\ own[r] \in RowIndexes(b) /\ Len(s[r].bits) = b.bits_per_row[own[r]]
        /\ Len(s[r].bits) \in Nat
        /\ \A j \in 1 .. Len(s[r].bits) : s[r].bits[j] = b.bb[Index(own[r], j - 1)]
    BY <1>3 DEF Rewritten
  <2>2. i - 1 \in 0 .. b.bits_per_row[own[r]] - 1 /\ i # 0
    BY <2>1
  <2>3. b.bb[Index(own[r], i - 1)] \in 0 .. 1
    <3>1. Index(own[r], i - 1) \in AllBits
      BY <1>1, <2>1, <2>2, Chosen
    <3> QED
      BY <1>1, <3>1, Fields DEF Good
  <2>4. Before(b, own[r], i - 1) = lev(r, i - 1)
    <3>1. CASE i - 1 = 0
      BY <3>1 DEF Before, LevelOf
    <3>2. CASE i - 1 # 0
      <4>1. i - 1 \in 1 .. Len(s[r].bits)
        BY <2>1, <3>2
      <4> QED
        BY <2>1, <3>2, <4>1 DEF Before, LevelOf
    <3> QED
      BY <3>1, <3>2
  <2> QED
    BY <2>1, <2>2, <2>3, <2>4 DEF LevelOf
\* It is enough to look at each bit.
<1>6. ASSUME NEW F, \A r \in 1 .. Len(s) : \A i \in 1 .. Len(s[r].bits) :
               c.bb[Index(own[r], i - 1)] = F[<<r, i>>]
      PROVE  t = [r \in 1 .. Len(s) |-> [s[r] EXCEPT !.bits =
                    [i \in 1 .. Len(s[r].bits) |-> F[<<r, i>>]]]]
  <2>1. ASSUME NEW r \in 1 .. Len(s)
        PROVE  t[r] = [s[r] EXCEPT !.bits = [i \in 1 .. Len(s[r].bits) |-> F[<<r, i>>]]]
    <3>1. [i \in 1 .. Len(s[r].bits) |-> c.bb[Index(own[r], i - 1)]]
            = [i \in 1 .. Len(s[r].bits) |-> F[<<r, i>>]]
      BY <1>6
    <3> QED
      BY <1>3, <3>1 DEF Rewritten
  <2> QED
    BY <1>3, <2>1 DEF Rewritten
<1> DEFINE P == (1 .. Len(s)) \X Nat
<1>0. ASSUME NEW r \in 1 .. Len(s), NEW i \in 1 .. Len(s[r].bits)
      PROVE  <<r, i>> \in P
  BY <1>3 DEF Rewritten
<1>7. CASE c = bitbuffer_invert(b)
  <2> DEFINE F == [p \in P |-> IF s[p[1]].bits[p[2]] = 0 THEN 1 ELSE 0]
  <2>1. ASSUME NEW r \in 1 .. Len(s), NEW i \in 1 .. Len(s[r].bits)
        PROVE  c.bb[Index(own[r], i - 1)] = F[<<r, i>>]
    <3>1. c.bb[Index(own[r], i - 1)] = 1 - b.bb[Index(own[r], i - 1)]
      BY <1>1, <1>5, <1>7, InvertIs
    <3>2. F[<<r, i>>] = IF s[r].bits[i] = 0 THEN 1 ELSE 0
      BY <1>0
    <3> QED
      BY <1>5, <3>1, <3>2
  <2> HIDE DEF P, F
  <2>2. t = [r \in 1 .. Len(s) |-> [s[r] EXCEPT !.bits =
               [i \in 1 .. Len(s[r].bits) |-> F[<<r, i>>]]]]
    BY <1>6, <2>1
  <2>3. \A r \in 1 .. Len(s) : [i \in 1 .. Len(s[r].bits) |-> F[<<r, i>>]]
          = [i \in 1 .. Len(s[r].bits) |-> IF s[r].bits[i] = 0 THEN 1 ELSE 0]
    BY <1>0 DEF F
  <2>4. t = [r \in 1 .. Len(s) |-> [s[r] EXCEPT !.bits =
               [i \in 1 .. Len(s[r].bits) |-> IF s[r].bits[i] = 0 THEN 1 ELSE 0]]]
    BY <2>2, <2>3
  <2> QED
    BY <2>4 DEF s, t, Inverted
<1>8. CASE c = bitbuffer_nrzm_decode(b)
  <2> DEFINE F == [p \in P |-> IF lev(p[1], p[2]) # lev(p[1], p[2] - 1) THEN 1 ELSE 0]
  <2>1. ASSUME NEW r \in 1 .. Len(s), NEW i \in 1 .. Len(s[r].bits)
        PROVE  c.bb[Index(own[r], i - 1)] = F[<<r, i>>]
    <3>1. c.bb[Index(own[r], i - 1)] =
            IF b.bb[Index(own[r], i - 1)] # Before(b, own[r], i - 1) THEN 1 ELSE 0
      BY <1>1, <1>5, <1>8, NrzmIs
    <3>2. F[<<r, i>>] = IF lev(r, i) # lev(r, i - 1) THEN 1 ELSE 0
      BY <1>0
    <3> HIDE DEF lev, F
    <3> QED
      BY <1>5, <3>1, <3>2
  <2> HIDE DEF P, F
  <2>2. t = [r \in 1 .. Len(s) |-> [s[r] EXCEPT !.bits =
               [i \in 1 .. Len(s[r].bits) |-> F[<<r, i>>]]]]
    BY <1>6, <2>1
  <2>3. \A r \in 1 .. Len(s) : [i \in 1 .. Len(s[r].bits) |-> F[<<r, i>>]]
          = [i \in 1 .. Len(s[r].bits) |-> IF lev(r, i) # lev(r, i - 1) THEN 1 ELSE 0]
    BY <1>0 DEF F
  <2>4. t = [r \in 1 .. Len(s) |-> [s[r] EXCEPT !.bits =
               [i \in 1 .. Len(s[r].bits) |-> IF lev(r, i) # lev(r, i - 1) THEN 1 ELSE 0]]]
    BY <2>2, <2>3
  <2> QED
    BY <2>4 DEF s, t, Marked
<1>9. CASE c = bitbuffer_nrzs_decode(b)
  <2> DEFINE F == [p \in P |-> IF ~(lev(p[1], p[2]) # lev(p[1], p[2] - 1)) THEN 1 ELSE 0]
  <2>1. ASSUME NEW r \in 1 .. Len(s), NEW i \in 1 .. Len(s[r].bits)
        PROVE  c.bb[Index(own[r], i - 1)] = F[<<r, i>>]
    <3>1. c.bb[Index(own[r], i - 1)] =
            IF b.bb[Index(own[r], i - 1)] = Before(b, own[r], i - 1) THEN 1 ELSE 0
      BY <1>1, <1>5, <1>9, NrzsIs
    <3>2. F[<<r, i>>] = IF ~(lev(r, i) # lev(r, i - 1)) THEN 1 ELSE 0
      BY <1>0
    <3> HIDE DEF lev, F
    <3> QED
      BY <1>5, <3>1, <3>2
  <2> HIDE DEF P, F
  <2>2. t = [r \in 1 .. Len(s) |-> [s[r] EXCEPT !.bits =
               [i \in 1 .. Len(s[r].bits) |-> F[<<r, i>>]]]]
    BY <1>6, <2>1
  <2>3. \A r \in 1 .. Len(s) : [i \in 1 .. Len(s[r].bits) |-> F[<<r, i>>]]
          = [i \in 1 .. Len(s[r].bits) |-> IF ~(lev(r, i) # lev(r, i - 1)) THEN 1 ELSE 0]
    BY <1>0 DEF F
  <2>4. t = [r \in 1 .. Len(s) |-> [s[r] EXCEPT !.bits =
               [i \in 1 .. Len(s[r].bits) |-> IF ~(lev(r, i) # lev(r, i - 1)) THEN 1 ELSE 0]]]
    BY <2>2, <2>3
  <2> QED
    BY <2>4 DEF s, t, Spaced
<1> QED
  BY <1>7, <1>8, <1>9

LEMMA TransformStep ==
  ASSUME RowsInv, Transform
  PROVE  Abstract!Invert \/ Abstract!Mark \/ Abstract!Space
<1>1. /\ Good(bits) /\ truncated' = truncated
      /\ bits' \in {bitbuffer_invert(bits), bitbuffer_nrzm_decode(bits), bitbuffer_nrzs_decode(bits)}
  BY DEF RowsInv, IInv, TypeOK, Good, Transform
<1>2. \/ RowsOf(bits') = Inverted(RowsOf(bits))
      \/ RowsOf(bits') = Marked(RowsOf(bits))
      \/ RowsOf(bits') = Spaced(RowsOf(bits))
  BY <1>1, EachBit
<1>3. CASE RowsOf(bits') = Inverted(RowsOf(bits))
  BY <1>1, <1>3, Primed DEF Abstract!Invert, Abstract!Transform, Inverted
<1>4. CASE RowsOf(bits') = Marked(RowsOf(bits))
  BY <1>1, <1>4, Primed
    DEF Abstract!Mark, Abstract!Transform, Abstract!Changes, Abstract!Level, Marked, LevelOf
<1>5. CASE RowsOf(bits') = Spaced(RowsOf(bits))
  BY <1>1, <1>5, Primed
    DEF Abstract!Space, Abstract!Transform, Abstract!Changes, Abstract!Level, Spaced, LevelOf
<1> QED
  BY <1>2, <1>3, <1>4, <1>5

\* A buffer is a sequence of rows: what was added is there, in order, also in rows that
\* spill over the next ones, a full buffer damages no row but the last, and a
\* transformation changes every bit of every row once, and nothing else.
THEOREM BufferImplementsRows == Spec => ImplementsRows
<1>1. Init => Abstract!Init
  <2> SUFFICES ASSUME Init
               PROVE  RowsOf(bits) = <<>> /\ truncated = FALSE
    BY DEF Abstract!Init
  <2>1. OwnUpTo(bits, 0) = <<>>
    BY OwnStep
  <2> QED
    BY <2>1 DEF Init, bitbuffer_clear, RowsOf, OwnRows
<1>2. RowsInv /\ [Next]_vars => [Abstract!Next]_<<RowsOf(bits), truncated>>
  <2> SUFFICES ASSUME RowsInv, [Next]_vars
               PROVE  Abstract!Next \/ UNCHANGED <<RowsOf(bits), truncated>>
    OBVIOUS
  <2>1. CASE \E bit \in 0 .. 1 : AddBit(bit)
    BY <2>1, AddBitStep DEF Abstract!Next
  <2>2. CASE AddRow
    BY <2>2, AddRowStep DEF Abstract!Next
  <2>3. CASE AddSync
    BY <2>3, AddSyncStep DEF Abstract!Next
  <2>4. CASE \E width \in Widths : SetWidth(width)
    BY <2>4, SetWidthStep DEF Abstract!Next
  <2>5. CASE Transform
    BY <2>5, TransformStep DEF Abstract!Next
  <2>6. CASE Clear
    <3>1. RowsOf(bits') = <<>>
      <4>1. OwnUpTo(bits', 0) = <<>>
        BY OwnStep
      <4>2. bits'.num_rows = 0
        BY <2>6 DEF Clear, bitbuffer_clear
      <4> QED
        BY <4>1, <4>2 DEF RowsOf, OwnRows
    <3>2. Abstract!Clear
      BY <2>6, <3>1, Primed DEF Clear, Abstract!Clear
    <3> QED
      BY <3>2 DEF Abstract!Next
  <2>7. CASE Deliver \/ UNCHANGED vars
    <3>1. bits' = bits /\ truncated' = truncated
      BY <2>7 DEF Deliver, vars
    <3>2. RowsOf(bits)' = RowsOf(bits)
      BY <3>1, Primed
    <3> QED
      BY <3>1, <3>2
  <2> QED
    BY <2>1, <2>2, <2>3, <2>4, <2>5, <2>6, <2>7 DEF Next
<1> QED
  BY RowsInit, RowsStep, <1>1, <1>2, PTL DEF Spec, ImplementsRows, Abstract!Spec

-----------------------------------------------------------------------------
(* What a decoder finds repeated.                                           *)

\* The own rows come in their order.
LEMMA OwnAscend ==
  ASSUME NEW b, NEW n \in 0 .. BITBUF_ROWS
  PROVE  \A i, j \in 1 .. Len(OwnUpTo(b, n)) : i < j => OwnUpTo(b, n)[i] < OwnUpTo(b, n)[j]
<1> DEFINE Up(s) == \A i, j \in 1 .. Len(s) : i < j => s[i] < s[j]
           T == {k \in 0 .. BITBUF_ROWS : ~Up(OwnUpTo(b, k))}
<1>0. BITBUF_ROWS \in Nat
  BY BufferAssumption
<1>1. SUFFICES ASSUME T # {}
               PROVE  FALSE
  OBVIOUS
<1>2. PICK x \in T : \A y \in T : x <= y
  <2>1. T \subseteq Nat
    OBVIOUS
  <2> HIDE DEF T
  <2> QED
    BY <1>1, <2>1, LeastOf
<1>3. x \in 0 .. BITBUF_ROWS /\ ~Up(OwnUpTo(b, x))
  OBVIOUS
<1>4. x # 0
  <2>1. Up(<<>>)
    OBVIOUS
  <2> HIDE DEF Up
  <2> QED
    BY <1>3, <2>1, OwnStep
<1>5. x - 1 \in Rows /\ x - 1 \in 0 .. BITBUF_ROWS /\ x - 1 \notin T /\ (x - 1) + 1 = x
  BY <1>0, <1>2, <1>3, <1>4 DEF Rows
<1> DEFINE p == x - 1
           s == OwnUpTo(b, p)
<1>6. Up(s) /\ s \in Seq(Nat) /\ \A i \in 1 .. Len(s) : s[i] \in 0 .. p - 1
  <2>1. Up(s)
    BY <1>5
  <2> HIDE DEF Up
  <2> QED
    BY <1>5, <2>1, OwnType
<1>7. OwnUpTo(b, x) = NextOwn(b, s, p)
  BY <1>5, OwnStep
<1>8. p \in Nat
  BY <1>3, <1>4
<1> HIDE DEF s, p
<1>9. Up(Append(s, p))
  <2> DEFINE t == Append(s, p)
  <2>1. /\ Len(t) = Len(s) + 1 /\ t[Len(s) + 1] = p /\ Len(s) \in Nat
        /\ \A i \in 1 .. Len(s) : t[i] = s[i]
    BY <1>6, <1>8
  <2> HIDE DEF t
  <2>2. ASSUME NEW i \in 1 .. Len(t), NEW j \in 1 .. Len(t), i < j
        PROVE  t[i] < t[j]
    <3>1. i \in 1 .. Len(s) /\ t[i] = s[i] /\ s[i] \in Nat /\ s[i] < p
      BY <1>6, <1>8, <2>1, <2>2
    <3>2. CASE j = Len(s) + 1
      BY <2>1, <3>1, <3>2
    <3>3. CASE j # Len(s) + 1
      <4>1. j \in 1 .. Len(s)
        BY <2>1, <3>3
      <4> QED
        BY <1>6, <2>1, <2>2, <3>1, <4>1
    <3> QED
      BY <3>2, <3>3
  <2> QED
    BY <2>2 DEF t
<1> HIDE DEF Up
<1> QED
  BY <1>3, <1>6, <1>7, <1>9 DEF NextOwn

\* Every own row is among them.
LEMMA OwnComplete ==
  ASSUME NEW b, NEW n \in 0 .. BITBUF_ROWS, NEW r \in 0 .. n - 1, Own(b, r)
  PROVE  \E i \in 1 .. Len(OwnUpTo(b, n)) : OwnUpTo(b, n)[i] = r
<1> DEFINE Has(s) == \E i \in 1 .. Len(s) : s[i] = r
           T == {k \in r + 1 .. BITBUF_ROWS : ~Has(OwnUpTo(b, k))}
<1>0. BITBUF_ROWS \in Nat /\ r \in Nat /\ n \in r + 1 .. BITBUF_ROWS /\ r + 1 <= BITBUF_ROWS
  BY BufferAssumption
<1>1. SUFFICES ASSUME T # {}
               PROVE  FALSE
  BY <1>0
<1>2. PICK x \in T : \A y \in T : x <= y
  <2>1. T \subseteq Nat
    BY <1>0
  <2> HIDE DEF T
  <2> QED
    BY <1>1, <2>1, LeastOf
<1>3. x \in r + 1 .. BITBUF_ROWS /\ ~Has(OwnUpTo(b, x)) /\ x \in Nat
  BY <1>0
<1> DEFINE p == x - 1
           s == OwnUpTo(b, p)
<1>4. p \in Rows /\ p + 1 = x /\ p \in 0 .. BITBUF_ROWS /\ p \in Nat
  BY <1>0, <1>3 DEF Rows
<1>5. OwnUpTo(b, x) = NextOwn(b, s, p) /\ s \in Seq(Nat)
  <2> HIDE DEF p
  <2> QED
    BY <1>4, OwnStep, OwnType
<1>6. CASE p = r
  <2>1. OwnUpTo(b, x) = Append(s, r)
    BY <1>5, <1>6 DEF NextOwn
  <2> HIDE DEF s
  <2>2. Append(s, r)[Len(s) + 1] = r /\ Len(s) + 1 \in 1 .. Len(Append(s, r))
    BY <1>5
  <2>3. Has(Append(s, r))
    BY <2>2
  <2> QED
    BY <1>3, <2>1, <2>3
<1>7. CASE p # r
  <2>1. p \in r + 1 .. BITBUF_ROWS /\ p < x
    BY <1>0, <1>3, <1>7
  <2>2. Has(s)
    <3>1. ~(p \in T)
      BY <1>2, <1>3, <2>1
    <3> HIDE DEF Has
    <3> QED
      BY <2>1, <3>1
  <2> HIDE DEF s, p
  <2>3. PICK i \in 1 .. Len(s) : s[i] = r
    BY <2>2
  <2>4. Append(s, p)[i] = r /\ i \in 1 .. Len(Append(s, p))
    BY <1>4, <1>5, <2>3
  <2>5. Has(NextOwn(b, s, p))
    BY <2>2, <2>4 DEF NextOwn
  <2> HIDE DEF Has
  <2> QED
    BY <1>3, <1>5, <2>5
<1> QED
  BY <1>6, <1>7

\* A row that is not own has no bits.
LEMMA EmptyUnlessOwn ==
  ASSUME NEW b, Good(b), NEW r \in RowIndexes(b), b.bits_per_row[r] > 0
  PROVE  Own(b, r)
<1> SUFFICES ASSUME NEW q \in RowIndexes(b), q < r, EndRow(q, b.bits_per_row[q]) > r
             PROVE  FALSE
  BY DEF Own
<1>1. EndRow(q, b.bits_per_row[q]) <= r
  BY DEF Good, RowsOK
<1>2. EndRow(q, b.bits_per_row[q]) \in Nat /\ r \in Nat
  BY RowsAre, EndRowOfMore
<1> QED
  BY <1>1, <1>2

\* Rows that are compared in whole bytes are the same rows, since their unused bits are 0.
LEMMA SameRowsCompared ==
  ASSUME NEW b, Good(b), Clean(b), NEW r \in RowIndexes(b), NEW q \in RowIndexes(b)
  PROVE  bitbuffer_compare_rows(b, r, q, 0) <=> RowOf(b, r).bits = RowOf(b, q).bits
<1> DEFINE n == b.bits_per_row[r]
           s == RowOf(b, r).bits
           t == RowOf(b, q).bits
<1>1. /\ n \in Nat /\ b.bits_per_row[q] \in Nat
      /\ s \in Seq(0 .. 1) /\ Len(s) = n /\ t \in Seq(0 .. 1) /\ Len(t) = b.bits_per_row[q]
      /\ \A i \in 1 .. n : s[i] = b.bb[Index(r, i - 1)]
      /\ \A i \in 1 .. b.bits_per_row[q] : t[i] = b.bb[Index(q, i - 1)]
  BY RowOfIs
<1>2. BitsToByte(n) \in Nat /\ n <= BitsToByte(n)
  BY <1>1, RowExtent
<1>3. bitbuffer_compare_rows(b, r, q, 0) <=>
        n = b.bits_per_row[q] /\ \A i \in 0 .. BitsToByte(n) - 1 : b.bb[Index(r, i)] = b.bb[Index(q, i)]
  BY DEF bitbuffer_compare_rows, SameBytes, SameBits, BitAt
<1>4. ASSUME n = b.bits_per_row[q], NEW i \in n .. BitsToByte(n) - 1
      PROVE  b.bb[Index(r, i)] = 0 /\ b.bb[Index(q, i)] = 0
  <2>1. Index(r, i) \in AllBits /\ ~Owned(b, Index(r, i))
    BY UnusedUnowned
  <2>2. Index(q, i) \in AllBits /\ ~Owned(b, Index(q, i))
    BY <1>4, UnusedUnowned
  <2> QED
    BY <2>1, <2>2 DEF Clean
<1> HIDE DEF s, t, n
<1>5. ASSUME n = b.bits_per_row[q],
             \A i \in 0 .. BitsToByte(n) - 1 : b.bb[Index(r, i)] = b.bb[Index(q, i)]
      PROVE  s = t
  <2>1. ASSUME NEW i \in 1 .. n
        PROVE  s[i] = t[i]
    <3>1. i - 1 \in 0 .. BitsToByte(n) - 1
      BY <1>1, <1>2
    <3> QED
      BY <1>1, <1>5, <3>1
  <2> QED
    BY <1>1, <1>5, <2>1, SameSeq
<1>6. ASSUME s = t, NEW i \in 0 .. BitsToByte(n) - 1
      PROVE  n = b.bits_per_row[q] /\ b.bb[Index(r, i)] = b.bb[Index(q, i)]
  <2>1. n = b.bits_per_row[q]
    BY <1>1, <1>6
  <2>2. CASE i < n
    <3>1. i + 1 \in 1 .. n /\ (i + 1) - 1 = i
      BY <1>1, <1>2, <2>2
    <3>2. s[i + 1] = b.bb[Index(r, i)]
      BY <1>1, <3>1
    <3>3. t[i + 1] = b.bb[Index(q, i)]
      BY <1>1, <2>1, <3>1
    <3> QED
      BY <1>6, <2>1, <3>2, <3>3
  <2>3. CASE ~(i < n)
    <3>1. i \in n .. BitsToByte(n) - 1
      BY <1>1, <1>2, <2>3
    <3> QED
      BY <1>4, <2>1, <3>1
  <2> QED
    BY <2>2, <2>3
<1>7. s = t => n = b.bits_per_row[q]
  BY <1>1
<1> QED
  BY <1>3, <1>5, <1>6, <1>7 DEF s, t

\* Two rows with the same first n bits.
SamePrefix(s, t, n) == Len(t) >= n /\ SubSeq(s, 1, n) = SubSeq(t, 1, n)

LEMMA SubSeqIs ==
  ASSUME NEW S, NEW s \in Seq(S), NEW n \in Nat, n <= Len(s)
  PROVE  /\ SubSeq(s, 1, n) \in Seq(S) /\ Len(SubSeq(s, 1, n)) = n
         /\ \A i \in 1 .. n : SubSeq(s, 1, n)[i] = s[i]
OBVIOUS

LEMMA PrefixCompared ==
  ASSUME NEW b, Good(b), NEW r \in RowIndexes(b), NEW q \in RowIndexes(b),
         NEW n \in Nat \ {0}, b.bits_per_row[r] >= n
  PROVE  bitbuffer_compare_rows(b, r, q, n) <=> SamePrefix(RowOf(b, r).bits, RowOf(b, q).bits, n)
<1> DEFINE s == RowOf(b, r).bits
           t == RowOf(b, q).bits
           u == SubSeq(s, 1, n)
           v == SubSeq(t, 1, n)
<1>1. /\ b.bits_per_row[r] \in Nat /\ b.bits_per_row[q] \in Nat
      /\ s \in Seq(0 .. 1) /\ Len(s) = b.bits_per_row[r]
      /\ t \in Seq(0 .. 1) /\ Len(t) = b.bits_per_row[q]
      /\ \A i \in 1 .. b.bits_per_row[r] : s[i] = b.bb[Index(r, i - 1)]
      /\ \A i \in 1 .. b.bits_per_row[q] : t[i] = b.bb[Index(q, i - 1)]
  BY RowOfIs
<1>2. SamePrefix(s, t, n) <=> Len(t) >= n /\ u = v
  BY DEF SamePrefix
<1>3. CASE b.bits_per_row[q] < n
  <2>1. b.bits_per_row[r] # b.bits_per_row[q]
    BY <1>1, <1>3
  <2>2. ~bitbuffer_compare_rows(b, r, q, n)
    BY <1>3, <2>1 DEF bitbuffer_compare_rows
  <2> HIDE DEF s, t
  <2>3. ~SamePrefix(s, t, n)
    BY <1>1, <1>2, <1>3
  <2> QED
    BY <2>2, <2>3 DEF s, t
<1>4. CASE ~(b.bits_per_row[q] < n)
  <2>1. bitbuffer_compare_rows(b, r, q, n) <=>
          \A i \in 0 .. n - 1 : b.bb[Index(r, i)] = b.bb[Index(q, i)]
    BY <1>1, <1>4 DEF bitbuffer_compare_rows, SameBits, BitAt
  <2> HIDE DEF s, t
  <2>2. /\ u \in Seq(0 .. 1) /\ Len(u) = n /\ v \in Seq(0 .. 1) /\ Len(v) = n
        /\ \A i \in 1 .. n : u[i] = s[i] /\ v[i] = t[i]
    BY <1>1, <1>4, SubSeqIs
  <2> HIDE DEF u, v
  <2>3. ASSUME NEW i \in 1 .. n
        PROVE  u[i] = b.bb[Index(r, i - 1)] /\ v[i] = b.bb[Index(q, i - 1)]
    <3>1. i \in 1 .. b.bits_per_row[r] /\ i \in 1 .. b.bits_per_row[q]
      BY <1>1, <1>4
    <3>2. u[i] = s[i] /\ v[i] = t[i]
      BY <2>2
    <3> QED
      BY <1>1, <3>1, <3>2
  <2>4. u = v <=> \A i \in 1 .. n : b.bb[Index(r, i - 1)] = b.bb[Index(q, i - 1)]
    <3>1. ASSUME \A i \in 1 .. n : b.bb[Index(r, i - 1)] = b.bb[Index(q, i - 1)]
          PROVE  u = v
      BY <2>2, <2>3, <3>1, SameSeq
    <3> QED
      BY <2>3, <3>1
  <2>5. (\A i \in 1 .. n : b.bb[Index(r, i - 1)] = b.bb[Index(q, i - 1)]) <=>
          \A i \in 0 .. n - 1 : b.bb[Index(r, i)] = b.bb[Index(q, i)]
    <3>1. ASSUME \A i \in 1 .. n : b.bb[Index(r, i - 1)] = b.bb[Index(q, i - 1)],
                 NEW i \in 0 .. n - 1
          PROVE  b.bb[Index(r, i)] = b.bb[Index(q, i)]
      <4>1. i + 1 \in 1 .. n /\ (i + 1) - 1 = i
        OBVIOUS
      <4> QED
        BY <3>1, <4>1
    <3>2. ASSUME \A i \in 0 .. n - 1 : b.bb[Index(r, i)] = b.bb[Index(q, i)],
                 NEW i \in 1 .. n
          PROVE  b.bb[Index(r, i - 1)] = b.bb[Index(q, i - 1)]
      <4>1. i - 1 \in 0 .. n - 1
        OBVIOUS
      <4> QED
        BY <3>2, <4>1
    <3> QED
      BY <3>1, <3>2
  <2> QED
    BY <1>1, <1>2, <1>4, <2>1, <2>4, <2>5 DEF s, t
<1> QED
  BY <1>1, <1>3, <1>4

\* A set of rows that are all own has as many elements as they have places.
LEMMA CountPlaces ==
  ASSUME NEW N \in Nat, NEW own, NEW A,
         \A i, j \in 1 .. N : own[i] = own[j] => i = j,
         \A r \in A : \E i \in 1 .. N : own[i] = r
  PROVE  Cardinality(A) = Cardinality({i \in 1 .. N : own[i] \in A})
<1> DEFINE B == {i \in 1 .. N : own[i] \in A}
           f == [i \in B |-> own[i]]
<1>1. f \in [B -> A] /\ \A i \in B : f[i] = own[i]
  OBVIOUS
<1>2. IsFiniteSet(B)
  <2>1. B \subseteq 1 .. N /\ IsFiniteSet(1 .. N)
    BY FS_Interval
  <2> HIDE DEF B
  <2> QED
    BY <2>1, FS_Subset
<1>3. \A r \in A : \E i \in B : own[i] = r
  OBVIOUS
<1>4. \A i, j \in B : own[i] = own[j] => i = j
  OBVIOUS
<1> HIDE DEF f, B
<1>5. f \in Bijection(B, A)
  <2>1. f \in Injection(B, A)
    BY <1>1, <1>4 DEF Injection, IsInjective
  <2>2. f \in Surjection(B, A)
    BY <1>1, <1>3 DEF Surjection
  <2> QED
    BY <2>1, <2>2 DEF Bijection
<1>6. ExistsBijection(B, A)
  BY <1>5 DEF ExistsBijection
<1>7. Cardinality(A) = Cardinality(B)
  BY <1>2, <1>6, FS_Bijection
<1> QED
  BY <1>7 DEF B

\* The place from 1 to N whose row is the first in T.
PlaceOf(own, N, T) == {i \in 1 .. N : own[i] \in T /\ \A j \in 1 .. i - 1 : own[j] \notin T}

\* The first of the rows in T is the one at the first place whose row is in T.
LEMMA FirstPlace ==
  ASSUME NEW N \in Nat, NEW own, NEW M \in Nat, NEW T, T \subseteq 0 .. M - 1, NEW found,
         \A i \in 1 .. N : own[i] \in Nat,
         \A i, j \in 1 .. N : i < j => own[i] < own[j],
         \A r \in T : \E i \in 1 .. N : own[i] = r,
         T = {} => found = -1,
         T # {} => found \in T /\ \A r \in T : found <= r
  PROVE  /\ PlaceOf(own, N, T) = {i \in 1 .. N : own[i] = found}
         /\ found = -1 <=> PlaceOf(own, N, T) = {}
<1> DEFINE first == {i \in 1 .. N : own[i] \in T /\ \A j \in 1 .. i - 1 : own[j] \notin T}
           at == {i \in 1 .. N : own[i] = found}
<1>0. SUFFICES first = at /\ (found = -1 <=> first = {})
  BY DEF PlaceOf
<1>1. CASE T = {}
  <2>1. at = {}
    <3>1. \A i \in 1 .. N : own[i] # -1
      OBVIOUS
    <3> QED
      BY <1>1, <3>1
  <2> QED
    BY <1>1, <2>1
<1>2. CASE T # {}
  <2>1. found \in T /\ found \in Nat /\ \A r \in T : found <= r /\ r \in Nat
    BY <1>2
  <2>2. PICK x \in 1 .. N : own[x] = found
    BY <2>1
  <2>3. x \in first
    <3>1. ASSUME NEW j \in 1 .. x - 1
          PROVE  own[j] \notin T
      <4>1. j \in 1 .. N /\ j < x
        BY <2>2
      <4>2. own[j] < found /\ own[j] \in Nat
        BY <2>2, <4>1
      <4> QED
        BY <2>1, <4>2
    <3> QED
      BY <2>1, <2>2, <3>1
  <2>4. ASSUME NEW i \in first
        PROVE  own[i] = found
    <3>1. i \in 1 .. N /\ own[i] \in T /\ \A j \in 1 .. i - 1 : own[j] \notin T
      OBVIOUS
    <3>2. ~(x < i)
      <4>1. x < i => x \in 1 .. i - 1
        BY <2>2, <3>1
      <4> QED
        BY <2>1, <2>2, <3>1, <4>1
    <3>3. ~(i < x)
      <4>1. i < x => own[i] < found
        BY <2>2, <3>1
      <4> QED
        BY <2>1, <3>1, <4>1
    <3>4. i = x
      BY <2>2, <3>1, <3>2, <3>3
    <3> QED
      BY <2>2, <3>4
  <2>5. ASSUME NEW i \in at
        PROVE  i = x
    <3>1. i \in 1 .. N /\ own[i] = own[x]
      BY <2>2
    <3>2. ~(i < x) /\ ~(x < i)
      <4>1. i < x => own[i] < own[x]
        BY <2>2, <3>1
      <4>2. x < i => own[x] < own[i]
        BY <2>2, <3>1
      <4> QED
        BY <2>1, <2>2, <3>1, <4>1, <4>2
    <3> QED
      BY <2>2, <3>1, <3>2
  <2>6. first \subseteq at /\ at \subseteq first /\ first # {}
    <3>1. first \subseteq 1 .. N /\ at \subseteq 1 .. N
      OBVIOUS
    <3> HIDE DEF first
    <3>2. first \subseteq at
      BY <2>4, <3>1
    <3> HIDE DEF at
    <3> QED
      BY <2>3, <2>5, <3>2
  <2>7. found # -1
    BY <2>1
  <2> HIDE DEF first, at
  <2> QED
    BY <2>6, <2>7 DEF first, at
<1> QED
  BY <1>1, <1>2

\* The rows that are long enough and like enough others.
Fits(b, k, n, max) ==
  {r \in RowIndexes(b) : b.bits_per_row[r] >= n /\ bitbuffer_count_repeats(b, r, max) >= k}

LEMMA FoundIs ==
  ASSUME NEW b, Good(b), NEW k, NEW n, NEW max
  PROVE  LET found == FindRepeated(b, k, n, max)
             T == Fits(b, k, n, max)
         IN  /\ T = {} => found = -1
             /\ T # {} => found \in T /\ \A r \in T : found <= r
<1> DEFINE T == Fits(b, k, n, max)
           M == b.num_rows
           Fit(i) == b.bits_per_row[i] >= n /\ bitbuffer_count_repeats(b, i, max) >= k
           first == FirstOf(M, Fit)
<1>1. M \in Nat /\ RowIndexes(b) = 0 .. M - 1
  BY Fields DEF Good, RowIndexes
<1>2. FindRepeated(b, k, n, max) = IF first = M THEN -1 ELSE first
  BY DEF FindRepeated
<1>3. \A i : i \in T <=> i \in 0 .. M - 1 /\ Fit(i)
  BY <1>1 DEF Fits
<1>4. first = IF \E i \in 0 .. M - 1 : Fit(i)
                THEN CHOOSE i \in 0 .. M - 1 : Fit(i) /\ \A j \in 0 .. i - 1 : ~Fit(j)
                ELSE M
  BY DEF FirstOf
<1> HIDE DEF first, T, Fit, M
<1>5. CASE T = {}
  <2>1. first = M
    BY <1>3, <1>4, <1>5
  <2> QED
    BY <1>2, <1>5, <2>1 DEF T
<1>6. CASE T # {}
  <2>1. T \subseteq Nat /\ \A i \in T : i \in 0 .. M - 1
    BY <1>1, <1>3
  <2>2. PICK x \in T : \A y \in T : x <= y
    BY <1>6, <2>1, LeastOf
  <2>3. ASSUME NEW j \in 0 .. x - 1
        PROVE  ~Fit(j)
    <3>1. x \in 0 .. M - 1
      BY <2>1, <2>2
    <3>2. j \in 0 .. M - 1 /\ ~(x <= j)
      BY <1>1, <3>1
    <3> QED
      BY <1>3, <2>2, <3>2
  <2>4. x \in 0 .. M - 1 /\ Fit(x)
    BY <1>3, <2>2
  <2>5. first \in 0 .. M - 1 /\ Fit(first) /\ \A j \in 0 .. first - 1 : ~Fit(j)
    <3>1. first = CHOOSE i \in 0 .. M - 1 : Fit(i) /\ \A j \in 0 .. i - 1 : ~Fit(j)
      BY <1>4, <2>4
    <3> QED
      BY <2>3, <2>4, <3>1
  <2>6. first \in T /\ first # M
    BY <1>1, <1>3, <2>5
  <2>7. ASSUME NEW r \in T
        PROVE  first <= r
    <3>1. r < first => r \in 0 .. first - 1
      BY <1>1, <2>1, <2>5
    <3>2. ~(r < first)
      BY <1>3, <2>5, <3>1
    <3> QED
      BY <1>1, <2>1, <2>5, <3>2
  <2> QED
    BY <1>2, <1>6, <2>6, <2>7 DEF T
<1> QED
  BY <1>5, <1>6 DEF T

\* The facts about the own rows together.
LEMMA OwnRowsAre ==
  ASSUME NEW b, Good(b)
  PROVE  LET own == OwnRows(b)
         IN  /\ Len(own) \in Nat /\ DOMAIN own = 1 .. Len(own)
             /\ \A i \in 1 .. Len(own) : own[i] \in RowIndexes(b) /\ own[i] \in Nat
             /\ \A i, j \in 1 .. Len(own) : i < j => own[i] < own[j]
             /\ \A i, j \in 1 .. Len(own) : own[i] = own[j] => i = j
             /\ \A r \in RowIndexes(b) :
                  b.bits_per_row[r] > 0 => \E i \in 1 .. Len(own) : own[i] = r
<1> DEFINE own == OwnRows(b)
           N == Len(own)
<1>1. b.num_rows \in 0 .. BITBUF_ROWS /\ b.num_rows \in Nat /\ RowIndexes(b) = 0 .. b.num_rows - 1
  BY Fields, BufferAssumption DEF Good, RowIndexes
<1>2. own \in Seq(Nat) /\ \A i \in 1 .. N : own[i] \in RowIndexes(b)
  BY <1>1, OwnType DEF OwnRows
<1>3. \A i, j \in 1 .. N : i < j => own[i] < own[j]
  BY <1>1, OwnAscend DEF OwnRows
<1>4. ASSUME NEW r \in RowIndexes(b), b.bits_per_row[r] > 0
      PROVE  \E i \in 1 .. N : own[i] = r
  <2>1. Own(b, r)
    BY <1>4, EmptyUnlessOwn
  <2> QED
    BY <1>1, <2>1, OwnComplete DEF OwnRows
<1> HIDE DEF own
<1>5. N \in Nat /\ DOMAIN own = 1 .. N /\ \A i \in 1 .. N : own[i] \in Nat
  BY <1>2
<1>6. ASSUME NEW i \in 1 .. N, NEW j \in 1 .. N, own[i] = own[j]
      PROVE  i = j
  <2>1. ~(i < j) /\ ~(j < i)
    BY <1>3, <1>5, <1>6
  <2> QED
    BY <2>1
<1> QED
  BY <1>2, <1>3, <1>4, <1>5, <1>6 DEF own

FirstOnes(N, F) == {i \in 1 .. N : i \in F /\ \A j \in 1 .. i - 1 : j \notin F}

Repeated(b, own, k, n, Like) ==
  {i \in 1 .. Len(own) : /\ b.bits_per_row[own[i]] >= n
                         /\ Cardinality({j \in 1 .. Len(own) : <<i, j>> \in Like}) >= k}

\* What is counted for a row of n or more bits are the own rows like it; Like is how the
\* rows are compared.
LEMMA RepeatsAre ==
  ASSUME NEW b, Good(b), NEW k, NEW n \in Nat \ {0}, NEW max \in {0, n},
         NEW Like, 
         \A i, j \in 1 .. Len(OwnRows(b)) :
           b.bits_per_row[OwnRows(b)[i]] >= n =>
             (bitbuffer_compare_rows(b, OwnRows(b)[i], OwnRows(b)[j], max) <=> <<i, j>> \in Like)
  PROVE  FoundIn(FindRepeated(b, k, n, max), OwnRows(b),
                 FirstOnes(Len(OwnRows(b)), Repeated(b, OwnRows(b), k, n, Like)))
<1> DEFINE own == OwnRows(b)
           N == Len(own)
           T == Fits(b, k, n, max)
           F == {i \in 1 .. N : /\ b.bits_per_row[own[i]] >= n
                               /\ Cardinality({j \in 1 .. N : <<i, j>> \in Like}) >= k}
           found == FindRepeated(b, k, n, max)
<1>1. /\ N \in Nat /\ DOMAIN own = 1 .. N
      /\ \A i \in 1 .. N : own[i] \in RowIndexes(b) /\ own[i] \in Nat
      /\ \A i, j \in 1 .. N : i < j => own[i] < own[j]
      /\ \A i, j \in 1 .. N : own[i] = own[j] => i = j
      /\ \A r \in RowIndexes(b) : b.bits_per_row[r] > 0 => \E i \in 1 .. N : own[i] = r
  BY OwnRowsAre
<1>2. /\ T = {} => found = -1
      /\ T # {} => found \in T /\ \A r \in T : found <= r
  BY FoundIs
<1>3. \A r \in RowIndexes(b) : b.bits_per_row[r] \in Nat
  BY RowsAre
<1>4. \A i, j \in 1 .. N : b.bits_per_row[own[i]] >= n =>
        (bitbuffer_compare_rows(b, own[i], own[j], max) <=> <<i, j>> \in Like)
  OBVIOUS
<1>5. T = {r \in RowIndexes(b) : b.bits_per_row[r] >= n /\ bitbuffer_count_repeats(b, r, max) >= k}
  BY DEF Fits
<1>6. RowIndexes(b) = 0 .. b.num_rows - 1 /\ b.num_rows \in Nat
  BY Fields DEF Good, RowIndexes
<1> HIDE DEF T, own, found, N
<1>7. ASSUME NEW i \in 1 .. N
      PROVE  i \in F <=> own[i] \in T
  <2>1. CASE ~(b.bits_per_row[own[i]] >= n)
    BY <1>5, <2>1
  <2>2. CASE b.bits_per_row[own[i]] >= n
    <3> DEFINE A == {q \in RowIndexes(b) : bitbuffer_compare_rows(b, own[i], q, max)}
    <3>1. bitbuffer_count_repeats(b, own[i], max) = Cardinality(A)
      BY DEF bitbuffer_count_repeats
    <3>2. ASSUME NEW r \in A
          PROVE  \E j \in 1 .. N : own[j] = r
      <4>1. r \in RowIndexes(b) /\ bitbuffer_compare_rows(b, own[i], r, max)
        OBVIOUS
      <4>2. b.bits_per_row[r] > 0
        <5>1. max = 0 \/ max = n
          OBVIOUS
        <5>2. b.bits_per_row[own[i]] = b.bits_per_row[r] \/ ~(b.bits_per_row[r] < n)
          BY <4>1, <5>1 DEF bitbuffer_compare_rows
        <5> QED
          BY <1>1, <1>3, <2>2, <4>1, <5>2
      <4> QED
        BY <1>1, <4>1, <4>2
    <3>3. {j \in 1 .. N : own[j] \in A} = {j \in 1 .. N : <<i, j>> \in Like}
      BY <1>1, <1>4, <2>2
    <3> HIDE DEF A
    <3>4. Cardinality(A) = Cardinality({j \in 1 .. N : own[j] \in A})
      BY <1>1, <3>2, CountPlaces
    <3>5. own[i] \in T <=> Cardinality(A) >= k
      BY <1>1, <1>5, <2>2, <3>1
    <3>6. i \in F <=> Cardinality({j \in 1 .. N : <<i, j>> \in Like}) >= k
      BY <2>2
    <3> QED
      BY <3>3, <3>4, <3>5, <3>6
  <2> QED
    BY <2>1, <2>2
<1> DEFINE first == {i \in 1 .. N : i \in F /\ \A j \in 1 .. i - 1 : j \notin F}
           other == {i \in 1 .. N : own[i] \in T /\ \A j \in 1 .. i - 1 : own[j] \notin T}
<1> HIDE DEF F
<1>8. first = other
  <2>1. \A i \in 1 .. N : \A j \in 1 .. i - 1 : j \in 1 .. N
    BY <1>1
  <2> QED
    BY <1>7, <2>1
<1>9. \A r \in T : r \in 0 .. b.num_rows - 1 /\ \E i \in 1 .. N : own[i] = r
  <2>1. \A r \in T : r \in RowIndexes(b) /\ b.bits_per_row[r] >= n
    BY <1>5
  <2>2. \A r \in T : b.bits_per_row[r] > 0
    BY <1>3, <2>1
  <2> QED
    BY <1>1, <1>6, <2>1, <2>2
<1>10. T \subseteq 0 .. b.num_rows - 1
  BY <1>9
<1>11. /\ PlaceOf(own, N, T) = {i \in 1 .. N : own[i] = found}
       /\ found = -1 <=> PlaceOf(own, N, T) = {}
  <2>1. /\ b.num_rows \in Nat
        /\ \A i \in 1 .. N : own[i] \in Nat
        /\ \A i, j \in 1 .. N : i < j => own[i] < own[j]
        /\ \A r \in T : \E i \in 1 .. N : own[i] = r
    BY <1>1, <1>6, <1>9
  <2> HIDE DEF first, other
  <2> QED
    BY <1>1, <1>2, <1>10, <2>1, FirstPlace, ZenonT(40)
<1>13. other = PlaceOf(own, N, T)
  BY DEF PlaceOf
<1> HIDE DEF first, other
<1>12. FoundIn(found, own, first)
  BY <1>1, <1>8, <1>11, <1>13 DEF FoundIn
<1> QED
  BY <1>12 DEF found, own, first, F, N, Repeated, FirstOnes

\* The row that a decoder takes for a repeated message is the first of at least k rows
\* with the same n or more bits, or the same first n bits, whatever was added and
\* transformed, for any size of the buffer, although whole bytes are compared, rows
\* spill, and indexes have no row of their own.
THEOREM BufferRepeatsFound == Spec => []RepeatsFound
<1>1. RowsInv => RepeatsFound
  <2> DEFINE b == bits
             own == OwnRows(bits)
             rs == [i \in DOMAIN own |-> RowOf(bits, own[i])]
             N == Len(own)
  <2> SUFFICES ASSUME RowsInv, ~truncated, NEW k \in 2 .. BITBUF_ROWS, NEW n \in 1 .. RowBits + 1
               PROVE  /\ FoundIn(bitbuffer_find_repeated_row(bits, k, n), own,
                                 FirstLike(rs, k, n, LAMBDA r, q : r = q))
                      /\ FoundIn(bitbuffer_find_repeated_prefix(bits, k, n), own,
                                 FirstLike(rs, k, n,
                                   LAMBDA r, q : Len(q) >= n /\ SubSeq(r, 1, n) = SubSeq(q, 1, n)))
    BY DEF RepeatsFound
  <2>1. Good(bits) /\ Clean(bits)
    BY DEF RowsInv, IInv, TypeOK, Good
  <2>2. n \in Nat \ {0} /\ 0 \in {0, n} /\ n \in {0, n}
    OBVIOUS
  <2>3. /\ N \in Nat /\ DOMAIN own = 1 .. N /\ DOMAIN rs = 1 .. N
        /\ \A i \in 1 .. N : own[i] \in RowIndexes(bits) /\ rs[i] = RowOf(bits, own[i])
    BY <2>1, OwnRowsAre
  <2>4. \A i \in 1 .. N : Len(rs[i].bits) = bits.bits_per_row[own[i]]
    BY <2>1, <2>3, RowOfIs
  <2>5. /\ bitbuffer_find_repeated_row(bits, k, n) = FindRepeated(bits, k, n, 0)
        /\ bitbuffer_find_repeated_prefix(bits, k, n) = FindRepeated(bits, k, n, n)
    BY DEF bitbuffer_find_repeated_row, bitbuffer_find_repeated_prefix
  <2> HIDE DEF rs
  <2>6. FoundIn(FindRepeated(bits, k, n, 0), own, FirstLike(rs, k, n, LAMBDA r, q : r = q))
    <3> DEFINE Like == {p \in (1 .. N) \X (1 .. N) : rs[p[1]].bits = rs[p[2]].bits}
               F == {i \in 1 .. N : /\ bits.bits_per_row[own[i]] >= n
                                   /\ Cardinality({j \in 1 .. N : <<i, j>> \in Like}) >= k}
    <3>1. \A i, j \in 1 .. N : <<i, j>> \in Like <=> rs[i].bits = rs[j].bits
      OBVIOUS
    <3>2. \A i, j \in 1 .. N : 
            bitbuffer_compare_rows(bits, own[i], own[j], 0) <=> rs[i].bits = rs[j].bits
      BY <2>1, <2>3, SameRowsCompared
    <3> HIDE DEF Like, own
    <3>3. FoundIn(FindRepeated(bits, k, n, 0), own, FirstOnes(N, Repeated(bits, own, k, n, Like)))
      <4>1. \A i, j \in 1 .. N : bits.bits_per_row[own[i]] >= n =>
              (bitbuffer_compare_rows(bits, own[i], own[j], 0) <=> <<i, j>> \in Like)
        BY <3>1, <3>2
      <4>2. SUFFICES FoundIn(FindRepeated(bits, k, n, 0), OwnRows(bits),
                             FirstOnes(Len(OwnRows(bits)), Repeated(bits, OwnRows(bits), k, n, Like)))
        BY DEF own
      <4> QED
        BY <2>1, <2>2, <4>1, RepeatsAre DEF own
    <3>6. /\ F = Repeated(bits, own, k, n, Like)
          /\ FirstOnes(N, F) = {i \in 1 .. N : i \in F /\ \A j \in 1 .. i - 1 : j \notin F}
      BY DEF Repeated, FirstOnes
    <3>4. ASSUME NEW i \in 1 .. N
          PROVE  i \in F <=> /\ Len(rs[i].bits) >= n
                            /\ Cardinality({j \in 1 .. N : rs[i].bits = rs[j].bits}) >= k
      <4>1. {j \in 1 .. N : <<i, j>> \in Like} = {j \in 1 .. N : rs[i].bits = rs[j].bits}
        BY <3>1
      <4> QED
        BY <2>4, <4>1
    <3> HIDE DEF F
    <3>5. FirstLike(rs, k, n, LAMBDA r, q : r = q) =
            {i \in 1 .. N : i \in F /\ \A j \in 1 .. i - 1 : j \notin F}
      <4>1. FirstLike(rs, k, n, LAMBDA r, q : r = q) =
              {i \in 1 .. N :
                 /\ /\ Len(rs[i].bits) >= n
                    /\ Cardinality({j \in 1 .. N : rs[i].bits = rs[j].bits}) >= k
                 /\ \A h \in 1 .. i - 1 :
                      ~ (/\ Len(rs[h].bits) >= n
                         /\ Cardinality({j \in 1 .. N : rs[h].bits = rs[j].bits}) >= k)}
        BY <2>3 DEF FirstLike
      <4>2. \A i \in 1 .. N : \A j \in 1 .. i - 1 : j \in 1 .. N
        BY <2>3
      <4> QED
        BY <3>4, <4>1, <4>2
    <3> QED
      BY <3>3, <3>5, <3>6
  <2>7. FoundIn(FindRepeated(bits, k, n, n), own,
                FirstLike(rs, k, n, LAMBDA r, q : Len(q) >= n /\ SubSeq(r, 1, n) = SubSeq(q, 1, n)))
    <3> DEFINE Like == {p \in (1 .. N) \X (1 .. N) : SamePrefix(rs[p[1]].bits, rs[p[2]].bits, n)}
               F == {i \in 1 .. N : /\ bits.bits_per_row[own[i]] >= n
                                   /\ Cardinality({j \in 1 .. N : <<i, j>> \in Like}) >= k}
    <3>1. \A i, j \in 1 .. N : <<i, j>> \in Like <=> SamePrefix(rs[i].bits, rs[j].bits, n)
      OBVIOUS
    <3>2. \A i, j \in 1 .. N : bits.bits_per_row[own[i]] >= n =>
            (bitbuffer_compare_rows(bits, own[i], own[j], n) <=>
               SamePrefix(rs[i].bits, rs[j].bits, n))
      BY <2>1, <2>2, <2>3, PrefixCompared
    <3> HIDE DEF Like, own
    <3>3. FoundIn(FindRepeated(bits, k, n, n), own, FirstOnes(N, Repeated(bits, own, k, n, Like)))
      <4>1. \A i, j \in 1 .. N : bits.bits_per_row[own[i]] >= n =>
              (bitbuffer_compare_rows(bits, own[i], own[j], n) <=> <<i, j>> \in Like)
        BY <3>1, <3>2
      <4>2. SUFFICES FoundIn(FindRepeated(bits, k, n, n), OwnRows(bits),
                             FirstOnes(Len(OwnRows(bits)), Repeated(bits, OwnRows(bits), k, n, Like)))
        BY DEF own
      <4> QED
        BY <2>1, <2>2, <4>1, RepeatsAre DEF own
    <3>6. /\ F = Repeated(bits, own, k, n, Like)
          /\ FirstOnes(N, F) = {i \in 1 .. N : i \in F /\ \A j \in 1 .. i - 1 : j \notin F}
      BY DEF Repeated, FirstOnes
    <3>4. ASSUME NEW i \in 1 .. N
          PROVE  i \in F <=> /\ Len(rs[i].bits) >= n
                            /\ Cardinality({j \in 1 .. N : SamePrefix(rs[i].bits, rs[j].bits, n)}) >= k
      <4>1. {j \in 1 .. N : <<i, j>> \in Like} =
              {j \in 1 .. N : SamePrefix(rs[i].bits, rs[j].bits, n)}
        BY <3>1
      <4> QED
        BY <2>4, <4>1
    <3> HIDE DEF F
    <3>5. FirstLike(rs, k, n, LAMBDA r, q : Len(q) >= n /\ SubSeq(r, 1, n) = SubSeq(q, 1, n)) =
            {i \in 1 .. N : i \in F /\ \A j \in 1 .. i - 1 : j \notin F}
      <4>1. FirstLike(rs, k, n, LAMBDA r, q : Len(q) >= n /\ SubSeq(r, 1, n) = SubSeq(q, 1, n)) =
              {i \in 1 .. N :
                 /\ /\ Len(rs[i].bits) >= n
                    /\ Cardinality({j \in 1 .. N : SamePrefix(rs[i].bits, rs[j].bits, n)}) >= k
                 /\ \A h \in 1 .. i - 1 :
                      ~ (/\ Len(rs[h].bits) >= n
                         /\ Cardinality({j \in 1 .. N : SamePrefix(rs[h].bits, rs[j].bits, n)}) >= k)}
        BY <2>3 DEF FirstLike, SamePrefix
      <4>2. \A i \in 1 .. N : \A j \in 1 .. i - 1 : j \in 1 .. N
        BY <2>3
      <4> QED
        BY <3>4, <4>1, <4>2
    <3> QED
      BY <3>3, <3>5, <3>6
  <2> QED
    BY <2>5, <2>6, <2>7
<1> QED
  BY RowsInit, RowsStep, <1>1, PTL DEF Spec

-----------------------------------------------------------------------------
(* The checksums of bit_util.c.  Recursions: g[k] comes of g[k - 1].        *)

LEMMA UpTo ==
  ASSUME NEW N \in Nat, NEW T, 0 \in T,
         \A k \in Nat : k < N /\ k \in T => k + 1 \in T
  PROVE  \A k \in 0 .. N : k \in T
<1> DEFINE W == {k \in 0 .. N : k \notin T}
<1>1. SUFFICES ASSUME W # {}
               PROVE  FALSE
  OBVIOUS
<1>2. PICK x \in W : \A y \in W : x <= y
  <2>1. W \subseteq Nat
    OBVIOUS
  <2> HIDE DEF W
  <2> QED
    BY <1>1, <2>1, LeastOf
<1>3. x \in 1 .. N /\ x \notin T
  OBVIOUS
<1>4. x - 1 \in Nat /\ x - 1 < N /\ x - 1 \notin W /\ x - 1 \in 0 .. N /\ (x - 1) + 1 = x
  BY <1>2, <1>3
<1>5. x - 1 \in T
  BY <1>4
<1> QED
  BY <1>3, <1>4, <1>5

\* g starts with x, and F[k] makes its k-th value of the one before.
Recurs(g, x, F, N) == g = [k \in 0 .. N |-> IF k = 0 THEN x ELSE F[k][g[k - 1]]]

LEMMA RecursAt ==
  ASSUME NEW g, NEW x, NEW F, NEW N \in Nat, Recurs(g, x, F, N)
  PROVE  g[0] = x /\ \A k \in 1 .. N : g[k] = F[k][g[k - 1]]
<1>1. g = [k \in 0 .. N |-> IF k = 0 THEN x ELSE F[k][g[k - 1]]]
  BY DEF Recurs
<1>2. \A k \in 0 .. N : g[k] = IF k = 0 THEN x ELSE F[k][g[k - 1]]
  BY <1>1
<1>3. 0 \in 0 .. N /\ \A k \in 1 .. N : k \in 0 .. N /\ k # 0
  OBVIOUS
<1> QED
  BY <1>2, <1>3

\* Such a g exists; its values lie where F leads.
LEMMA Iterates ==
  ASSUME NEW N \in Nat, NEW S, NEW F, NEW x, x \in S[0],
         \A k \in 1 .. N : \A t \in S[k - 1] : F[k][t] \in S[k]
  PROVE  \E g : Recurs(g, x, F, N) /\ \A k \in 0 .. N : g[k] \in S[k]
<1> DEFINE P(g, k) == Recurs(g, x, F, k) /\ \A i \in 0 .. k : g[i] \in S[i]
           T == {k \in 0 .. N : \E g : P(g, k)}
<1>1. 0 \in T
  <2> DEFINE g == [k \in 0 .. 0 |-> x]
  <2>1. g = [k \in 0 .. 0 |-> IF k = 0 THEN x ELSE F[k][g[k - 1]]]
    <3>1. \A k \in 0 .. 0 : k = 0
      OBVIOUS
    <3> QED
      BY <3>1, Zenon
  <2>2. Recurs(g, x, F, 0)
    BY <2>1, Zenon DEF Recurs
  <2>3. \A i \in 0 .. 0 : g[i] \in S[i]
    <3>1. \A i \in 0 .. 0 : i = 0
      OBVIOUS
    <3> QED
      BY <3>1
  <2>4. P(g, 0)
    BY <2>2, <2>3
  <2> HIDE DEF g
  <2> QED
    BY <2>4
<1>2. ASSUME NEW k \in Nat, k < N, k \in T
      PROVE  k + 1 \in T
  <2>1. PICK g : P(g, k)
    BY <1>2
  <2> DEFINE h == [i \in 0 .. k + 1 |-> IF i <= k THEN g[i] ELSE F[k + 1][g[k]]]
  <2>2. g[0] = x /\ \A i \in 1 .. k : g[i] = F[i][g[i - 1]]
    BY <2>1, RecursAt
  <2>3. /\ \A i \in 0 .. k : h[i] = g[i]
        /\ h[k + 1] = F[k + 1][g[k]]
    OBVIOUS
  <2>4. h[0] = x
    BY <2>2, <2>3
  <2>5. ASSUME NEW i \in 1 .. k + 1
        PROVE  h[i] = F[i][h[i - 1]]
    <3>1. CASE i <= k
      <4>1. i \in 1 .. k /\ i \in 0 .. k /\ i - 1 \in 0 .. k
        BY <3>1
      <4> QED
        BY <2>2, <2>3, <4>1
    <3>2. CASE ~(i <= k)
      <4>1. i = k + 1 /\ i - 1 = k /\ k \in 0 .. k
        BY <3>2
      <4> QED
        BY <2>3, <4>1
    <3> QED
      BY <3>1, <3>2
  <2>6. h = [i \in 0 .. k + 1 |-> IF i = 0 THEN x ELSE F[i][h[i - 1]]]
    <3>1. \A i \in 0 .. k + 1 : h[i] = IF i = 0 THEN x ELSE F[i][h[i - 1]]
      <4>1. \A i \in 0 .. k + 1 : i # 0 => i \in 1 .. k + 1
        OBVIOUS
      <4> HIDE DEF h
      <4> QED
        BY <2>4, <2>5, <4>1
    <3>2. h = [i \in 0 .. k + 1 |-> h[i]]
      BY Zenon
    <3> HIDE DEF h
    <3> QED
      BY <3>1, <3>2, Zenon
  <2>7. \A i \in 0 .. k + 1 : h[i] \in S[i]
    <3>1. \A i \in 0 .. k + 1 : i \in 0 .. k \/ i = k + 1
      OBVIOUS
    <3>2. k \in 0 .. k /\ k + 1 \in 1 .. N /\ (k + 1) - 1 = k
      BY <1>2
    <3>3. g[k] \in S[k]
      BY <2>1, <3>2
    <3>4. F[k + 1][g[k]] \in S[k + 1]
      BY <3>2, <3>3
    <3>5. \A i \in 0 .. k : g[i] \in S[i]
      BY <2>1
    <3> HIDE DEF h
    <3> QED
      BY <2>3, <3>1, <3>4, <3>5
  <2> HIDE DEF h
  <2>8. P(h, k + 1)
    BY <2>6, <2>7, Zenon DEF Recurs
  <2>9. k + 1 \in 0 .. N
    BY <1>2
  <2> QED
    BY <2>8, <2>9
<1> HIDE DEF T
<1>3. \A k \in 0 .. N : k \in T
  BY <1>1, <1>2, UpTo
<1>4. N \in T
  BY <1>3
<1> QED
  BY <1>4 DEF T

-----------------------------------------------------------------------------
(* Registers and what is shifted through them.                              *)

\* A register of w bits.
Regs(w) == [1 .. w -> 0 .. 1]

LEMMA RegIs ==
  ASSUME NEW w \in Nat, NEW r \in Regs(w)
  PROVE  /\ DOMAIN r = 1 .. w /\ r \in Seq(0 .. 1) /\ Len(r) = w
         /\ \A i \in 1 .. w : r[i] \in 0 .. 1
BY DEF Regs

LEMMA SeqReg ==
  ASSUME NEW s \in Seq(0 .. 1)
  PROVE  s \in Regs(Len(s)) /\ Len(s) \in Nat
<1>1. s \in [1 .. Len(s) -> 0 .. 1] /\ Len(s) \in Nat
  OBVIOUS
<1> QED
  BY <1>1 DEF Regs

LEMMA JoinReg ==
  ASSUME NEW a \in Nat, NEW b \in Nat, NEW p \in Regs(a), NEW z \in Regs(b)
  PROVE  /\ p \o z \in Regs(a + b)
         /\ \A i \in 1 .. a + b : (p \o z)[i] = IF i <= a THEN p[i] ELSE z[i - a]
<1>1. p \in Seq(0 .. 1) /\ Len(p) = a /\ z \in Seq(0 .. 1) /\ Len(z) = b
  BY RegIs
<1>2. /\ p \o z \in Seq(0 .. 1) /\ Len(p \o z) = Len(p) + Len(z)
      /\ \A i \in 1 .. Len(p) + Len(z) : (p \o z)[i] = IF i <= Len(p) THEN p[i] ELSE z[i - Len(p)]
  BY <1>1, ConcatProperties, Zenon
<1>3. p \o z \in Regs(a + b)
  BY <1>1, <1>2, SeqReg
<1> QED
  BY <1>1, <1>2, <1>3

LEMMA SameReg ==
  ASSUME NEW w \in Nat, NEW r \in Regs(w), NEW s \in Regs(w), \A i \in 1 .. w : r[i] = s[i]
  PROVE  r = s
BY DEF Regs

LEMMA ZerosIs ==
  ASSUME NEW w \in Nat
  PROVE  Zeros(w) \in Regs(w) /\ \A i \in 1 .. w : Zeros(w)[i] = 0
BY DEF Zeros, Regs

LEMMA XorIs ==
  ASSUME NEW w \in Nat, NEW r \in Regs(w), NEW s \in Regs(w)
  PROVE  /\ Xor(r, s) \in Regs(w)
         /\ \A i \in 1 .. w : Xor(r, s)[i] = IF r[i] = s[i] THEN 0 ELSE 1
<1>1. \A i \in 1 .. w : r[i] \in 0 .. 1 /\ s[i] \in 0 .. 1
  BY DEF Regs
<1>2. \A a, b \in 0 .. 1 : (a + b) % 2 = (IF a = b THEN 0 ELSE 1) /\ (a + b) % 2 \in 0 .. 1
  OBVIOUS
<1>3. Xor(r, s) = [i \in 1 .. w |-> (r[i] + s[i]) % 2]
  BY DEF Xor, Regs
<1> QED
  BY <1>1, <1>2, <1>3 DEF Regs

LEMMA LeftIs ==
  ASSUME NEW w \in Nat \ {0}, NEW r \in Regs(w)
  PROVE  /\ Left(r) \in Regs(w)
         /\ \A i \in 1 .. w : Left(r)[i] = IF i < w THEN r[i + 1] ELSE 0
<1>1. r \in Seq(0 .. 1) /\ Len(r) = w
  BY RegIs
<1>2. Tail(r) \in Seq(0 .. 1) /\ Len(Tail(r)) = w - 1 /\ \A i \in 1 .. w - 1 : Tail(r)[i] = r[i + 1]
  BY <1>1
<1> DEFINE t == Tail(r)
<1> HIDE DEF t
<1>3. /\ Append(t, 0) \in Seq(0 .. 1) /\ Len(Append(t, 0)) = w
      /\ \A i \in 1 .. w - 1 : Append(t, 0)[i] = t[i]
      /\ Append(t, 0)[w] = 0
  BY <1>2 DEF t
<1>4. Left(r) = Append(t, 0)
  BY DEF Left, t
<1>5. Append(t, 0) \in Regs(w)
  BY <1>3, SeqReg
<1> QED
  BY <1>2, <1>3, <1>4, <1>5 DEF t

LEMMA RollIs ==
  ASSUME NEW w \in Nat \ {0}, NEW r \in Regs(w), NEW g \in Regs(w)
  PROVE  /\ RollLeft(r, g) \in Regs(w)
         /\ \A i \in 1 .. w :
              LET next == IF i < w THEN r[i + 1] ELSE 0
              IN  RollLeft(r, g)[i] = IF r[1] = 1 THEN IF next = g[i] THEN 0 ELSE 1 ELSE next
<1>1. Left(r) \in Regs(w) /\ \A i \in 1 .. w : Left(r)[i] = IF i < w THEN r[i + 1] ELSE 0
  BY LeftIs
<1>2. Head(r) = r[1]
  OBVIOUS
<1>3. /\ Xor(Left(r), g) \in Regs(w)
      /\ \A i \in 1 .. w : Xor(Left(r), g)[i] = IF Left(r)[i] = g[i] THEN 0 ELSE 1
  BY <1>1, XorIs
<1>4. CASE r[1] = 1
  <2>1. RollLeft(r, g) = Xor(Left(r), g)
    BY <1>2, <1>4 DEF RollLeft
  <2> QED
    BY <1>1, <1>3, <1>4, <2>1
<1>5. CASE r[1] # 1
  <2>1. RollLeft(r, g) = Left(r)
    BY <1>2, <1>5 DEF RollLeft
  <2> QED
    BY <1>1, <1>5, <2>1
<1> QED
  BY <1>4, <1>5

-----------------------------------------------------------------------------
(* A remainder by single bits: each is added to the top, and one rolls out.  *)

Fed(r, bit) == [r EXCEPT ![1] = IF @ = bit THEN 0 ELSE 1]

Serial(s, w, g, x, b, n) ==
  /\ w \in Nat \ {0} /\ g \in Regs(w) /\ n \in Nat /\ \A i \in 1 .. n : b[i] \in 0 .. 1
  /\ s \in [0 .. n -> Regs(w)] /\ s[0] = x
  /\ \A i \in 1 .. n : s[i] = RollLeft(Fed(s[i - 1], b[i]), g)

LEMMA FedIs ==
  ASSUME NEW w \in Nat \ {0}, NEW r \in Regs(w), NEW bit \in 0 .. 1
  PROVE  /\ Fed(r, bit) \in Regs(w)
         /\ \A i \in 1 .. w : Fed(r, bit)[i] = IF i = 1 /\ bit = 1 THEN 1 - r[1] ELSE r[i]
<1>1. \A i \in 1 .. w : r[i] \in 0 .. 1
  BY DEF Regs
<1>2. 1 \in 1 .. w
  OBVIOUS
<1> QED
  BY <1>1, <1>2 DEF Fed, Regs

LEMMA SerialExists ==
  ASSUME NEW w \in Nat \ {0}, NEW g \in Regs(w), NEW x \in Regs(w), NEW n \in Nat,
         NEW b, \A i \in 1 .. n : b[i] \in 0 .. 1
  PROVE  \E s : Serial(s, w, g, x, b, n)
<1> DEFINE F == [k \in 1 .. n |-> [r \in Regs(w) |-> RollLeft(Fed(r, b[k]), g)]]
           S == [k \in 0 .. n |-> Regs(w)]
<1>1. ASSUME NEW k \in 1 .. n, NEW t \in S[k - 1]
      PROVE  F[k][t] \in S[k]
  <2>1. k \in 0 .. n /\ k - 1 \in 0 .. n /\ t \in Regs(w)
    BY <1>1
  <2>2. Fed(t, b[k]) \in Regs(w)
    BY <2>1, FedIs
  <2>3. RollLeft(Fed(t, b[k]), g) \in Regs(w)
    BY <2>2, RollIs
  <2> QED
    BY <2>1, <2>3
<1>2. x \in S[0]
  OBVIOUS
<1>3. \A k \in 1 .. n : \A t \in Regs(w) : F[k][t] = RollLeft(Fed(t, b[k]), g)
  OBVIOUS
<1>4. \A k \in 0 .. n : S[k] = Regs(w)
  OBVIOUS
<1> HIDE DEF F, S
<1>5. PICK s : Recurs(s, x, F, n) /\ \A k \in 0 .. n : s[k] \in S[k]
  BY <1>1, <1>2, Iterates
<1>6. s[0] = x /\ \A k \in 1 .. n : s[k] = F[k][s[k - 1]]
  BY <1>5, RecursAt
<1>7. \A k \in 0 .. n : s[k] \in Regs(w)
  BY <1>4, <1>5
<1>8. s \in [0 .. n -> Regs(w)]
  <2>1. s = [k \in 0 .. n |-> IF k = 0 THEN x ELSE F[k][s[k - 1]]]
    BY <1>5 DEF Recurs
  <2>2. DOMAIN s = 0 .. n /\ s = [k \in DOMAIN s |-> s[k]]
    BY <2>1
  <2> QED
    BY <1>7, <2>2
<1>9. \A k \in 1 .. n : s[k] = RollLeft(Fed(s[k - 1], b[k]), g)
  <2>1. \A k \in 1 .. n : k - 1 \in 0 .. n
    OBVIOUS
  <2> QED
    BY <1>3, <1>6, <1>7, <2>1
<1> QED
  BY <1>6, <1>8, <1>9 DEF Serial

\* Rolling is linear.
LEMMA RollXor ==
  ASSUME NEW w \in Nat \ {0}, NEW g \in Regs(w), NEW r \in Regs(w), NEW s \in Regs(w)
  PROVE  RollLeft(Xor(r, s), g) = Xor(RollLeft(r, g), RollLeft(s, g))
<1> DEFINE u == Xor(r, s)
           l == RollLeft(u, g)
           p == RollLeft(r, g)
           q == RollLeft(s, g)
           z == Xor(p, q)
<1>1. u \in Regs(w) /\ \A i \in 1 .. w : u[i] = IF r[i] = s[i] THEN 0 ELSE 1
  BY XorIs
<1> HIDE DEF u
<1>2. l \in Regs(w) /\ \A i \in 1 .. w :
        LET next == IF i < w THEN u[i + 1] ELSE 0
        IN  l[i] = IF u[1] = 1 THEN IF next = g[i] THEN 0 ELSE 1 ELSE next
  BY <1>1, RollIs
<1>3. p \in Regs(w) /\ \A i \in 1 .. w :
        LET next == IF i < w THEN r[i + 1] ELSE 0
        IN  p[i] = IF r[1] = 1 THEN IF next = g[i] THEN 0 ELSE 1 ELSE next
  BY RollIs
<1>4. q \in Regs(w) /\ \A i \in 1 .. w :
        LET next == IF i < w THEN s[i + 1] ELSE 0
        IN  q[i] = IF s[1] = 1 THEN IF next = g[i] THEN 0 ELSE 1 ELSE next
  BY RollIs
<1> HIDE DEF l, p, q
<1>5. z \in Regs(w) /\ \A i \in 1 .. w : z[i] = IF p[i] = q[i] THEN 0 ELSE 1
  BY <1>3, <1>4, XorIs
<1> HIDE DEF z
<1>6. \A i \in 1 .. w : r[i] \in 0 .. 1 /\ s[i] \in 0 .. 1 /\ g[i] \in 0 .. 1
  BY DEF Regs
<1>7. ASSUME NEW i \in 1 .. w
      PROVE  l[i] = z[i]
  <2>1. 1 \in 1 .. w /\ (i < w => i + 1 \in 1 .. w)
    OBVIOUS
  <2>2. u[1] = (IF r[1] = s[1] THEN 0 ELSE 1) /\ r[1] \in 0 .. 1 /\ s[1] \in 0 .. 1 /\ g[i] \in 0 .. 1
    BY <1>1, <1>6, <2>1
  <2>3. CASE i < w
    <3>1. u[i + 1] = (IF r[i + 1] = s[i + 1] THEN 0 ELSE 1) /\ r[i + 1] \in 0 .. 1 /\ s[i + 1] \in 0 .. 1
      BY <1>1, <1>6, <2>1, <2>3
    <3>2. /\ l[i] = IF u[1] = 1 THEN IF u[i + 1] = g[i] THEN 0 ELSE 1 ELSE u[i + 1]
          /\ p[i] = IF r[1] = 1 THEN IF r[i + 1] = g[i] THEN 0 ELSE 1 ELSE r[i + 1]
          /\ q[i] = IF s[1] = 1 THEN IF s[i + 1] = g[i] THEN 0 ELSE 1 ELSE s[i + 1]
      BY <1>2, <1>3, <1>4, <2>3
    <3> QED
      BY <1>5, <2>2, <3>1, <3>2
  <2>4. CASE ~(i < w)
    <3>2. /\ l[i] = IF u[1] = 1 THEN IF 0 = g[i] THEN 0 ELSE 1 ELSE 0
          /\ p[i] = IF r[1] = 1 THEN IF 0 = g[i] THEN 0 ELSE 1 ELSE 0
          /\ q[i] = IF s[1] = 1 THEN IF 0 = g[i] THEN 0 ELSE 1 ELSE 0
      BY <1>2, <1>3, <1>4, <2>4
    <3> QED
      BY <1>5, <2>2, <3>2
  <2> QED
    BY <2>3, <2>4
<1>8. l = z
  BY <1>2, <1>5, <1>7, SameReg
<1> QED
  BY <1>8 DEF l, z, u, p, q

LEMMA FedXor ==
  ASSUME NEW w \in Nat \ {0}, NEW r \in Regs(w), NEW s \in Regs(w), NEW a \in 0 .. 1, NEW c \in 0 .. 1
  PROVE  Fed(Xor(r, s), IF a = c THEN 0 ELSE 1) = Xor(Fed(r, a), Fed(s, c))
<1> DEFINE d == IF a = c THEN 0 ELSE 1
           u == Xor(r, s)
           l == Fed(u, d)
           p == Fed(r, a)
           q == Fed(s, c)
           z == Xor(p, q)
<1>1. u \in Regs(w) /\ \A i \in 1 .. w : u[i] = IF r[i] = s[i] THEN 0 ELSE 1
  BY XorIs
<1>d. d \in 0 .. 1 /\ d = (IF a = c THEN 0 ELSE 1)
  OBVIOUS
<1> HIDE DEF u, d
<1>2. l \in Regs(w) /\ \A i \in 1 .. w : l[i] = IF i = 1 /\ d = 1 THEN 1 - u[1] ELSE u[i]
  BY <1>1, <1>d, FedIs
<1>3. p \in Regs(w) /\ \A i \in 1 .. w : p[i] = IF i = 1 /\ a = 1 THEN 1 - r[1] ELSE r[i]
  BY FedIs
<1>4. q \in Regs(w) /\ \A i \in 1 .. w : q[i] = IF i = 1 /\ c = 1 THEN 1 - s[1] ELSE s[i]
  BY FedIs
<1> HIDE DEF l, p, q
<1>5. z \in Regs(w) /\ \A i \in 1 .. w : z[i] = IF p[i] = q[i] THEN 0 ELSE 1
  BY <1>3, <1>4, XorIs
<1> HIDE DEF z
<1>6. \A i \in 1 .. w : r[i] \in 0 .. 1 /\ s[i] \in 0 .. 1
  BY DEF Regs
<1>7. \A i \in 1 .. w : l[i] = z[i]
  BY <1>1, <1>d, <1>2, <1>3, <1>4, <1>5, <1>6
<1>8. l = z
  BY <1>2, <1>5, <1>7, SameReg
<1> QED
  BY <1>8 DEF l, z, u, p, q, d

\* Two remainders add up to that of the sum.
LEMMA SerialXor ==
  ASSUME NEW w, NEW g, NEW x, NEW y, NEW n, NEW a, NEW c, NEW s, NEW t,
         Serial(s, w, g, x, a, n), Serial(t, w, g, y, c, n)
  PROVE  Serial([i \in 0 .. n |-> Xor(s[i], t[i])], w, g, Xor(x, y),
                [i \in 1 .. n |-> IF a[i] = c[i] THEN 0 ELSE 1], n)
<1> DEFINE u == [i \in 0 .. n |-> Xor(s[i], t[i])]
           e == [i \in 1 .. n |-> IF a[i] = c[i] THEN 0 ELSE 1]
<1>0. /\ w \in Nat \ {0} /\ g \in Regs(w) /\ n \in Nat
      /\ \A i \in 1 .. n : a[i] \in 0 .. 1 /\ c[i] \in 0 .. 1
  BY DEF Serial
<1>6. \A i \in 1 .. n : e[i] \in 0 .. 1 /\ e[i] = IF a[i] = c[i] THEN 0 ELSE 1
  OBVIOUS
<1> HIDE DEF e
<1>1. /\ s \in [0 .. n -> Regs(w)] /\ s[0] = x /\ t \in [0 .. n -> Regs(w)] /\ t[0] = y
      /\ \A i \in 1 .. n : s[i] = RollLeft(Fed(s[i - 1], a[i]), g)
      /\ \A i \in 1 .. n : t[i] = RollLeft(Fed(t[i - 1], c[i]), g)
  BY DEF Serial
<1>2. \A i \in 0 .. n : Xor(s[i], t[i]) \in Regs(w)
  BY <1>0, <1>1, XorIs
<1>3. u \in [0 .. n -> Regs(w)] /\ u[0] = Xor(x, y)
  BY <1>0, <1>1, <1>2
<1>4. ASSUME NEW i \in 1 .. n
      PROVE  u[i] = RollLeft(Fed(u[i - 1], e[i]), g)
  <2>1. i - 1 \in 0 .. n /\ i \in 0 .. n
    BY <1>0
  <2>2. s[i - 1] \in Regs(w) /\ t[i - 1] \in Regs(w) /\ a[i] \in 0 .. 1 /\ c[i] \in 0 .. 1
    BY <1>0, <1>1, <2>1
  <2>3. Fed(s[i - 1], a[i]) \in Regs(w) /\ Fed(t[i - 1], c[i]) \in Regs(w)
    BY <1>0, <2>2, FedIs
  <2>4. Fed(Xor(s[i - 1], t[i - 1]), e[i]) = Xor(Fed(s[i - 1], a[i]), Fed(t[i - 1], c[i]))
    BY <1>0, <1>6, <2>2, FedXor
  <2>5. RollLeft(Xor(Fed(s[i - 1], a[i]), Fed(t[i - 1], c[i])), g) = Xor(s[i], t[i])
    BY <1>0, <1>1, <2>3, RollXor
  <2>6. u[i] = Xor(s[i], t[i]) /\ u[i - 1] = Xor(s[i - 1], t[i - 1])
    BY <2>1
  <2> HIDE DEF u
  <2> QED
    BY <2>4, <2>5, <2>6
<1> HIDE DEF u
<1>5. Serial(u, w, g, Xor(x, y), e, n)
  BY <1>0, <1>3, <1>4, <1>6 DEF Serial
<1> QED
  BY <1>5 DEF u, e

LEMMA ZeroSerial ==
  ASSUME NEW w, NEW g, NEW n, NEW s, Serial(s, w, g, Zeros(w), Zeros(n), n)
  PROVE  s[n] = Zeros(w)
<1> DEFINE T == {i \in 0 .. n : s[i] = Zeros(w)}
           z == Zeros(w)
<1>0. w \in Nat \ {0} /\ g \in Regs(w) /\ n \in Nat
  BY DEF Serial
<1>1. s[0] = z /\ \A i \in 1 .. n : s[i] = RollLeft(Fed(s[i - 1], 0), g)
  BY <1>0, ZerosIs DEF Serial
<1>2. z \in Regs(w) /\ \A i \in 1 .. w : z[i] = 0
  BY <1>0, ZerosIs
<1>3. RollLeft(Fed(z, 0), g) = z
  <2> DEFINE f == Fed(z, 0)
  <2>1. f \in Regs(w) /\ \A i \in 1 .. w : f[i] = 0
    BY <1>0, <1>2, FedIs
  <2> HIDE DEF f, z
  <2>2. /\ RollLeft(f, g) \in Regs(w)
        /\ \A i \in 1 .. w :
             LET next == IF i < w THEN f[i + 1] ELSE 0
             IN  RollLeft(f, g)[i] = IF f[1] = 1 THEN IF next = g[i] THEN 0 ELSE 1 ELSE next
    BY <1>0, <2>1, RollIs
  <2>3. \A i \in 1 .. w : RollLeft(f, g)[i] = 0
    BY <1>0, <2>1, <2>2
  <2> QED
    BY <1>0, <1>2, <2>2, <2>3, SameReg DEF f
<1> HIDE DEF z
<1>4. 0 \in T
  BY <1>0, <1>1 DEF z
<1>5. ASSUME NEW k \in Nat, k < n, k \in T
      PROVE  k + 1 \in T
  <2>1. k + 1 \in 1 .. n /\ (k + 1) - 1 = k
    BY <1>0, <1>5
  <2> QED
    BY <1>0, <1>1, <1>3, <1>5, <2>1 DEF z
<1> HIDE DEF T
<1>6. n \in T
  <2>1. \A i \in 0 .. n : i \in T
    BY <1>0, <1>4, <1>5, UpTo
  <2> QED
    BY <1>0, <2>1
<1> QED
  BY <1>6 DEF T

\* Only one register can roll to 0: nothing is lost, as the polynomial ends with a 1.
LEMMA RollsNonzero ==
  ASSUME NEW w \in Nat \ {0}, NEW g \in Regs(w), g[w] = 1, NEW r \in Regs(w), r # Zeros(w)
  PROVE  RollLeft(r, g) # Zeros(w)
<1> DEFINE l == RollLeft(r, g)
<1>1. l \in Regs(w) /\ \A i \in 1 .. w :
        LET next == IF i < w THEN r[i + 1] ELSE 0
        IN  l[i] = IF r[1] = 1 THEN IF next = g[i] THEN 0 ELSE 1 ELSE next
  BY RollIs
<1> HIDE DEF l
<1>2. PICK k \in 1 .. w : r[k] # 0
  BY ZerosIs, SameReg
<1>3. r[k] = 1
  BY <1>2 DEF Regs
<1>4. w \in 1 .. w /\ ~(w < w)
  OBVIOUS
<1>5. CASE r[1] = 1
  <2>1. l[w] = 1
    BY <1>1, <1>4, <1>5
  <2> QED
    BY <1>4, <2>1, ZerosIs DEF l
<1>6. CASE r[1] # 1
  <2>1. k - 1 \in 1 .. w /\ k - 1 < w /\ (k - 1) + 1 = k
    BY <1>3, <1>6
  <2>2. l[k - 1] = 1
    BY <1>1, <1>3, <1>6, <2>1
  <2> QED
    BY <2>1, <2>2, ZerosIs DEF l
<1> QED
  BY <1>5, <1>6

LEMMA SerialNonzero ==
  ASSUME NEW w, NEW g, NEW n, NEW x, NEW s, Serial(s, w, g, x, Zeros(n), n),
         g[w] = 1, x # Zeros(w)
  PROVE  s[n] # Zeros(w)
<1> DEFINE T == {i \in 0 .. n : s[i] # Zeros(w)}
<1>0. w \in Nat \ {0} /\ g \in Regs(w) /\ n \in Nat
  BY DEF Serial
<1>1. s \in [0 .. n -> Regs(w)] /\ s[0] = x /\ \A i \in 1 .. n : s[i] = RollLeft(Fed(s[i - 1], 0), g)
  BY <1>0, ZerosIs DEF Serial
<1>2. 0 \in T
  BY <1>0, <1>1
<1>3. ASSUME NEW k \in Nat, k < n, k \in T
      PROVE  k + 1 \in T
  <2>1. k + 1 \in 1 .. n /\ (k + 1) - 1 = k /\ k \in 0 .. n /\ k + 1 \in 0 .. n
    BY <1>0, <1>3
  <2>2. s[k] \in Regs(w) /\ s[k] # Zeros(w)
    BY <1>1, <1>3, <2>1
  <2>3. Fed(s[k], 0) = s[k]
    <3>1. Fed(s[k], 0) \in Regs(w) /\ \A i \in 1 .. w : Fed(s[k], 0)[i] = s[k][i]
      BY <1>0, <2>2, FedIs
    <3> QED
      BY <1>0, <2>2, <3>1, SameReg
  <2>4. RollLeft(s[k], g) # Zeros(w)
    BY <1>0, <2>2, RollsNonzero
  <2> QED
    BY <1>1, <2>1, <2>3, <2>4
<1> HIDE DEF T
<1>4. n \in T
  <2>1. \A i \in 0 .. n : i \in T
    BY <1>0, <1>2, <1>3, UpTo
  <2> QED
    BY <1>0, <2>1
<1> QED
  BY <1>4 DEF T

\* Up to w bits can be added to the register at once, before anything rolls out.
Load(b, n, w) == [i \in 1 .. w |-> IF i <= n THEN b[i] ELSE 0]

LEMMA Loaded ==
  ASSUME NEW w, NEW g, NEW x, NEW n, NEW b, NEW s, Serial(s, w, g, x, b, n), n <= w,
         NEW t, Serial(t, w, g, Xor(x, Load(b, n, w)), Zeros(n), n)
  PROVE  s[n] = t[n]
<1> DEFINE v == Load(b, n, w)
<1>a. /\ w \in Nat \ {0} /\ g \in Regs(w) /\ n \in Nat /\ n \in 0 .. w
      /\ \A i \in 1 .. n : b[i] \in 0 .. 1
  BY DEF Serial
<1>b. v \in Regs(w) /\ \A i \in 1 .. w : v[i] = IF i <= n THEN b[i] ELSE 0
  BY <1>a DEF Load, Regs
<1> HIDE DEF v
<1> DEFINE Rest(i) == [p \in 1 .. w |-> IF p + i <= w THEN v[p + i] ELSE 0]
           T == {i \in 0 .. n : t[i] = Xor(s[i], Rest(i))}
<1>1. /\ s \in [0 .. n -> Regs(w)] /\ s[0] = x
      /\ \A i \in 1 .. n : s[i] = RollLeft(Fed(s[i - 1], b[i]), g)
      /\ t \in [0 .. n -> Regs(w)] /\ t[0] = Xor(x, v)
      /\ \A i \in 1 .. n : t[i] = RollLeft(Fed(t[i - 1], 0), g)
  BY <1>a, ZerosIs DEF Serial, v
<1>0. \A i \in 1 .. w : v[i] \in 0 .. 1
  BY <1>b DEF Regs
<1>2. ASSUME NEW i \in 0 .. n
      PROVE  /\ Rest(i) \in Regs(w)
             /\ \A p \in 1 .. w : Rest(i)[p] = IF p + i <= w THEN v[p + i] ELSE 0
  <2>1. \A p \in 1 .. w : p + i <= w => p + i \in 1 .. w
    BY <1>a
  <2> QED
    BY <1>0, <2>1 DEF Regs
<1> HIDE DEF Rest
<1>3. 0 \in T
  <2>1. Rest(0) \in Regs(w) /\ \A p \in 1 .. w : Rest(0)[p] = v[p]
    BY <1>a, <1>2
  <2>2. Rest(0) = v
    BY <1>a, <1>b, <2>1, SameReg
  <2> QED
    BY <1>a, <1>1, <2>2
<1>4. ASSUME NEW k \in Nat, k < n, k \in T
      PROVE  k + 1 \in T
  <2>1. k + 1 \in 1 .. n /\ (k + 1) - 1 = k /\ k \in 0 .. n /\ k + 1 \in 0 .. n /\ k + 1 \in 1 .. w
    BY <1>a, <1>4
  <2> DEFINE q == Rest(k)
             m == Rest(k + 1)
             bit == b[k + 1]
             f == Fed(q, bit)
             e == s[k]
  <2>2. q \in Regs(w) /\ \A p \in 1 .. w : q[p] = IF p + k <= w THEN v[p + k] ELSE 0
    BY <1>2, <2>1
  <2>3. m \in Regs(w) /\ \A p \in 1 .. w : m[p] = IF p + k + 1 <= w THEN v[p + k + 1] ELSE 0
    BY <1>2, <2>1
  <2>4. bit \in 0 .. 1 /\ v[k + 1] = bit
    BY <1>a, <1>b, <2>1
  <2>5. e \in Regs(w) /\ s[k + 1] = RollLeft(Fed(e, bit), g) /\ t[k] = Xor(e, q)
        /\ t[k + 1] = RollLeft(Fed(Xor(e, q), 0), g)
    BY <1>1, <1>4, <2>1
  <2> HIDE DEF q, m, bit, e
  <2>6. f \in Regs(w) /\ \A p \in 1 .. w : f[p] = IF p = 1 /\ bit = 1 THEN 1 - q[1] ELSE q[p]
    BY <1>a, <2>2, <2>4, FedIs
  <2> HIDE DEF f
  <2>7. RollLeft(f, g) = m
    <3>1. /\ RollLeft(f, g) \in Regs(w)
          /\ \A i \in 1 .. w :
               LET next == IF i < w THEN f[i + 1] ELSE 0
               IN  RollLeft(f, g)[i] = IF f[1] = 1 THEN IF next = g[i] THEN 0 ELSE 1 ELSE next
      BY <1>a, <2>6, RollIs
    <3>2. f[1] = 0
      <4>1. 1 \in 1 .. w /\ 1 + k <= w /\ 1 + k = k + 1
        BY <1>a, <2>1
      <4>2. q[1] = bit
        BY <2>2, <2>4, <4>1
      <4> QED
        BY <2>4, <2>6, <4>1, <4>2
    <3>3. ASSUME NEW i \in 1 .. w
          PROVE  RollLeft(f, g)[i] = m[i]
      <4>1. RollLeft(f, g)[i] = IF i < w THEN f[i + 1] ELSE 0
        BY <3>1, <3>2
      <4>2. CASE i < w
        <5>1. i + 1 \in 1 .. w /\ i + 1 # 1 /\ (i + 1) + k = i + k + 1
          BY <1>a, <4>2
        <5>2. f[i + 1] = q[i + 1]
          BY <2>6, <5>1
        <5> QED
          BY <2>2, <2>3, <4>1, <4>2, <5>1, <5>2
      <4>3. CASE ~(i < w)
        <5>1. ~(i + k + 1 <= w)
          BY <1>a, <2>1, <4>3
        <5> QED
          BY <1>a, <2>3, <4>1, <4>3, <5>1
      <4> QED
        BY <4>2, <4>3
    <3> QED
      BY <1>a, <2>3, <3>1, <3>3, SameReg
  <2>8. Fed(Xor(e, q), 0) = Xor(Fed(e, bit), f)
    <3>1. (IF bit = bit THEN 0 ELSE 1) = 0
      OBVIOUS
    <3> QED
      BY <1>a, <2>2, <2>4, <2>5, <3>1, FedXor DEF f
  <2>9. Fed(e, bit) \in Regs(w)
    BY <1>a, <2>4, <2>5, FedIs
  <2>10. t[k + 1] = Xor(s[k + 1], m)
    BY <2>5, <2>6, <2>7, <2>8, <2>9, <1>a, RollXor
  <2> QED
    BY <2>1, <2>10 DEF m
<1> HIDE DEF T
<1>5. n \in T
  <2>1. \A i \in 0 .. n : i \in T
    BY <1>a, <1>3, <1>4, UpTo
  <2> QED
    BY <1>a, <2>1
<1>6. t[n] = Xor(s[n], Rest(n))
  BY <1>5 DEF T
<1>7. Rest(n) = Zeros(w)
  <2>1. \A p \in 1 .. w : Rest(n)[p] = 0
    <3>1. n \in 0 .. n /\ \A p \in 1 .. w : p + n <= w => p + n \in 1 .. w /\ ~(p + n <= n)
      BY <1>a
    <3> QED
      BY <1>a, <1>b, <1>2, <3>1
  <2> QED
    BY <1>a, <1>2, <2>1, ZerosIs, SameReg
<1>8. s[n] \in Regs(w)
  BY <1>a, <1>1
<1>9. Xor(s[n], Zeros(w)) = s[n]
  <2>1. Xor(s[n], Zeros(w)) \in Regs(w) /\ \A i \in 1 .. w : Xor(s[n], Zeros(w))[i] = IF s[n][i] = 0 THEN 0 ELSE 1
    BY <1>a, <1>8, ZerosIs, XorIs
  <2>2. \A i \in 1 .. w : s[n][i] \in 0 .. 1
    BY <1>a, <1>8, RegIs
  <2> QED
    BY <1>a, <1>8, <2>1, <2>2, SameReg
<1> QED
  BY <1>6, <1>7, <1>9

-----------------------------------------------------------------------------
(* Folds.  A fold takes the greatest index of a set last; what it computes  *)
(* for the whole sequence is built up over its beginnings.                  *)

LEMMA Beginnings ==
  ASSUME NEW n \in Nat
  PROVE  /\ 1 .. 0 = {}
         /\ \A k \in 1 .. n : /\ 1 .. k # {} /\ Max(1 .. k) = k /\ (1 .. k) \ {k} = 1 .. (k - 1)
                              /\ 1 .. k \in SUBSET (1 .. n)
         /\ 1 .. 0 \in SUBSET (1 .. n)
<1>1. ASSUME NEW k \in 1 .. n
      PROVE  Max(1 .. k) = k
  <2>1. k \in 1 .. k /\ \A y \in 1 .. k : k >= y
    OBVIOUS
  <2>2. \A x \in 1 .. k : (\A y \in 1 .. k : x >= y) => x = k
    BY <2>1
  <2> QED
    BY <2>1, <2>2 DEF Max
<1> QED
  BY <1>1

\* The greatest of a set of indexes.
LEMMA MaxOf ==
  ASSUME NEW n \in Nat, NEW s \in SUBSET (1 .. n), s # {}
  PROVE  Max(s) \in s /\ \A y \in s : y <= Max(s)
<1> DEFINE R == {n - x : x \in s}
<1>0. PICK z \in s : TRUE
  OBVIOUS
<1>1. R \subseteq Nat /\ n - z \in R
  OBVIOUS
<1> HIDE DEF R
<1>2. PICK m \in R : \A y \in R : m <= y
  BY <1>1, LeastOf
<1>3. PICK x \in s : m = n - x
  BY <1>2 DEF R
<1>4. \A y \in s : n - y \in R
  BY DEF R
<1>5. \A y \in s : y <= x
  BY <1>2, <1>3, <1>4
<1>6. \E u \in s : \A y \in s : u >= y
  BY <1>5
<1>7. Max(s) = CHOOSE u \in s : \A y \in s : u >= y
  BY DEF Max
<1> QED
  BY <1>6, <1>7

\* f[s] is the fold over the indexes s, with F[k] as the step of index k.
Folds(f, base, F, n) ==
  f = [s \in SUBSET (1 .. n) |-> IF s = {} THEN base ELSE F[Max(s)][f[s \ {Max(s)}]]]

\* What a fold chooses exists.
LEMMA FoldExists ==
  ASSUME NEW n \in Nat, NEW A, NEW base \in A, NEW F,
         \A k \in 1 .. n : \A a \in A : F[k][a] \in A
  PROVE  \E f : /\ Folds(f, base, F, n)
                /\ \A s \in SUBSET (1 .. n) : f[s] \in A
<1> DEFINE D == SUBSET (1 .. n)
           G(s) == [k \in 1 .. n |-> [a \in A |-> IF k \in s THEN F[k][a] ELSE a]]
           S == [k \in 0 .. n |-> A]
           P(s, h) == /\ h[0] = base
                      /\ \A k \in 1 .. n : h[k] = IF k \in s THEN F[k][h[k - 1]] ELSE h[k - 1]
                      /\ \A k \in 0 .. n : h[k] \in A
           H(s) == CHOOSE h : P(s, h)
           f == [s \in D |-> H(s)[n]]
<1>1. ASSUME NEW s \in D
      PROVE  P(s, H(s))
  <2>1. \A k \in 1 .. n : \A a \in A : G(s)[k][a] = IF k \in s THEN F[k][a] ELSE a
    OBVIOUS
  <2>2. \A k \in 0 .. n : S[k] = A
    OBVIOUS
  <2>3. \A k \in 1 .. n : k \in 0 .. n /\ k - 1 \in 0 .. n
    OBVIOUS
  <2>4. base \in S[0]
    OBVIOUS
  <2> HIDE DEF G, S
  <2>5. ASSUME NEW k \in 1 .. n, NEW t \in S[k - 1]
        PROVE  G(s)[k][t] \in S[k]
    BY <2>1, <2>2, <2>3
  <2>6. PICK h : Recurs(h, base, G(s), n) /\ \A k \in 0 .. n : h[k] \in S[k]
    BY <2>4, <2>5, Iterates
  <2>7. h[0] = base /\ \A k \in 1 .. n : h[k] = G(s)[k][h[k - 1]]
    BY <2>6, RecursAt
  <2>8. P(s, h)
    BY <2>1, <2>2, <2>3, <2>6, <2>7
  <2> HIDE DEF P
  <2> QED
    BY <2>8
<1> HIDE DEF H
<1>2. ASSUME NEW s \in D, s # {}
      PROVE  f[s] = F[Max(s)][f[s \ {Max(s)}]]
  <2> DEFINE m == Max(s)
             u == s \ {m}
             h == H(s)
             g == H(u)
             B == {k \in 0 .. m - 1 : h[k] = g[k]}
             C == {k \in 0 .. n - m : h[m + k] = h[m]}
             E == {k \in 0 .. n - m : g[m + k] = g[m - 1]}
  <2>1. m \in s /\ m \in 1 .. n /\ \A y \in s : y <= m
    BY <1>2, MaxOf
  <2> HIDE DEF m
  <2>2. u \in D /\ P(s, h) /\ P(u, g)
    BY <1>1
  <2>3. 0 \in B
    BY <2>1, <2>2
  <2>4. ASSUME NEW k \in Nat, k < m - 1, k \in B
        PROVE  k + 1 \in B
    <3>1. k + 1 \in 1 .. n /\ (k + 1) - 1 = k /\ (k + 1 \in s <=> k + 1 \in u) /\ k + 1 \in 0 .. m - 1
      BY <2>1, <2>4
    <3> QED
      BY <2>2, <2>4, <3>1
  <2>5. 0 \in C /\ 0 \in E
    <3>1. m + 0 = m /\ 0 \in 0 .. n - m /\ m \notin u
      BY <2>1
    <3>2. g[m] = g[m - 1]
      BY <2>1, <2>2, <3>1
    <3> QED
      BY <3>1, <3>2
  <2>6. ASSUME NEW k \in Nat, k < n - m
        PROVE  (k \in C => k + 1 \in C) /\ (k \in E => k + 1 \in E)
    <3>1. /\ m + (k + 1) \in 1 .. n /\ (m + (k + 1)) - 1 = m + k /\ m + (k + 1) \notin s
          /\ m + (k + 1) \notin u /\ k + 1 \in 0 .. n - m
      BY <2>1, <2>6
    <3> QED
      BY <2>2, <3>1
  <2>7. m - 1 \in Nat /\ n - m \in Nat
    BY <2>1
  <2> HIDE DEF B, C, E
  <2>8. \A k \in 0 .. m - 1 : k \in B
    BY <2>3, <2>4, <2>7, UpTo
  <2>9. \A k \in 0 .. n - m : k \in C
    BY <2>5, <2>6, <2>7, UpTo
  <2>10. \A k \in 0 .. n - m : k \in E
    BY <2>5, <2>6, <2>7, UpTo
  <2>11. m - 1 \in 0 .. m - 1 /\ n - m \in 0 .. n - m /\ m + (n - m) = n
    BY <2>1
  <2>12. h[m - 1] = g[m - 1] /\ h[n] = h[m] /\ g[n] = g[m - 1]
    <3>1. m - 1 \in B /\ n - m \in C /\ n - m \in E
      BY <2>8, <2>9, <2>10, <2>11
    <3>2. h[m + (n - m)] = h[m] /\ g[m + (n - m)] = g[m - 1]
      BY <3>1 DEF C, E
    <3>3. h[m - 1] = g[m - 1]
      BY <3>1 DEF B
    <3> HIDE DEF h, g
    <3> QED
      BY <2>11, <3>2, <3>3
  <2>13. h[m] = F[m][h[m - 1]]
    BY <2>1, <2>2
  <2>14. f[s] = h[n] /\ f[u] = g[n]
    BY <2>2
  <2> HIDE DEF h, g, f, P
  <2>15. f[s] = F[m][f[u]]
    BY <2>12, <2>13, <2>14
  <2> QED
    BY <2>15 DEF u, m
<1>3. f[{}] = base
  <2> DEFINE h == H({})
             B == {k \in 0 .. n : h[k] = base}
  <2>1. P({}, h)
    BY <1>1
  <2>2. 0 \in B
    BY <2>1
  <2>3. ASSUME NEW k \in Nat, k < n, k \in B
        PROVE  k + 1 \in B
    <3>1. k + 1 \in 1 .. n /\ (k + 1) - 1 = k /\ k + 1 \in 0 .. n
      BY <2>3
    <3> QED
      BY <2>1, <2>3, <3>1
  <2> HIDE DEF B
  <2>4. \A k \in 0 .. n : k \in B
    BY <2>2, <2>3, UpTo
  <2>5. h[n] = base
    BY <2>4 DEF B
  <2> QED
    BY <2>5
<1>4. \A s \in D : f[s] \in A
  <2>1. \A s \in D : n \in 0 .. n /\ H(s)[n] \in A
    BY <1>1
  <2> QED
    BY <2>1
<1>5. f = [s \in D |-> f[s]]
  OBVIOUS
<1> HIDE DEF f
<1>6. \A s \in D : f[s] = IF s = {} THEN base ELSE F[Max(s)][f[s \ {Max(s)}]]
  BY <1>2, <1>3
<1>7. f = [s \in D |-> IF s = {} THEN base ELSE F[Max(s)][f[s \ {Max(s)}]]]
  BY <1>5, <1>6, Zenon
<1> QED
  BY <1>4, <1>7 DEF Folds

\* Eight steps without new bits.
Rolled(r, g) == FoldLeft(LAMBDA s, bit : RollLeft(s, g), r, Zeros(8))

LEMMA RolledFold ==
  ASSUME NEW w \in Nat \ {0}, NEW g \in Regs(w), NEW x \in Regs(w)
  PROVE  \E c : /\ Rolled(x, g) = c[1 .. 8] /\ c[1 .. 0] = x
                /\ \A k \in 1 .. 8 : c[1 .. k] = RollLeft(c[1 .. (k - 1)], g)
<1> DEFINE D == SUBSET (1 .. 8)
           A == Regs(w)
           Q(f) == f = [u \in D |-> IF u = {} THEN x ELSE RollLeft(f[u \ {Max(u)}], g)]
           F == [k \in 1 .. 8 |-> [r \in A |-> RollLeft(r, g)]]
           c == CHOOSE f : Q(f)
<1>1. 8 \in Nat
  OBVIOUS
<1>2. \A k \in 1 .. 8 : \A r \in A : RollLeft(r, g) \in A
  BY RollIs
<1>3. \A k \in 1 .. 8 : \A r \in A : F[k][r] = RollLeft(r, g) /\ F[k][r] \in A
  BY <1>2
<1>4. x \in A
  OBVIOUS
<1> HIDE DEF F, A
<1>5. PICK f : Folds(f, x, F, 8) /\ \A u \in D : f[u] \in A
  BY <1>1, <1>3, <1>4, FoldExists
<1>6. \A u \in D : u # {} => F[Max(u)][f[u \ {Max(u)}]] = RollLeft(f[u \ {Max(u)}], g)
  <2>1. \A u \in D : u # {} => Max(u) \in 1 .. 8 /\ u \ {Max(u)} \in D
    BY <1>1, MaxOf
  <2> QED
    BY <1>3, <1>5, <2>1
<1>7. Q(f)
  BY <1>5, <1>6, Zenon DEF Folds
<1>8. Q(c)
  BY <1>7, Zenon
<1>9. Rolled(x, g) = c[1 .. 8]
  <2>1. Rolled(x, g) = (CHOOSE h : h = [u \in SUBSET DOMAIN Zeros(8) |->
                  IF u = {} THEN x ELSE RollLeft(h[u \ {Max(u)}], g)])[DOMAIN Zeros(8)]
    BY Zenon DEF Rolled, FoldLeft, MapThenFoldSet
  <2>2. DOMAIN Zeros(8) = 1 .. 8
    BY DEF Zeros
  <2> QED
    BY <2>1, <2>2, Zenon
<1> HIDE DEF c
<1>10. \A u \in D : c[u] = IF u = {} THEN x ELSE RollLeft(c[u \ {Max(u)}], g)
  BY <1>8, Zenon
<1> HIDE DEF Q
<1>11. /\ 1 .. 0 = {} /\ 1 .. 0 \in D
       /\ \A k \in 1 .. 8 : /\ 1 .. k # {} /\ Max(1 .. k) = k /\ (1 .. k) \ {k} = 1 .. (k - 1)
                            /\ 1 .. k \in D
  BY <1>1, Beginnings
<1> HIDE DEF D
<1>12. c[1 .. 0] = x
  BY <1>10, <1>11, Zenon
<1>13. ASSUME NEW k \in 1 .. 8
       PROVE  c[1 .. k] = RollLeft(c[1 .. (k - 1)], g)
  <2>1. 1 .. k # {} /\ Max(1 .. k) = k /\ (1 .. k) \ {k} = 1 .. (k - 1) /\ 1 .. k \in D
    BY <1>11, Zenon
  <2> QED
    BY <1>10, <2>1, Zenon
<1> QED
  BY <1>9, <1>12, <1>13

LEMMA RolledIs ==
  ASSUME NEW w, NEW g, NEW x \in Regs(w), NEW t, Serial(t, w, g, x, Zeros(8), 8)
  PROVE  Rolled(x, g) = t[8]
<1>1. w \in Nat \ {0} /\ g \in Regs(w)
  BY DEF Serial
<1>2. PICK c : /\ Rolled(x, g) = c[1 .. 8] /\ c[1 .. 0] = x
               /\ \A k \in 1 .. 8 : c[1 .. k] = RollLeft(c[1 .. (k - 1)], g)
  BY <1>1, RolledFold
<1> DEFINE T == {k \in 0 .. 8 : c[1 .. k] = t[k]}
<1>3. t \in [0 .. 8 -> Regs(w)] /\ t[0] = x /\ \A i \in 1 .. 8 : t[i] = RollLeft(Fed(t[i - 1], 0), g)
  BY ZerosIs DEF Serial
<1>4. \A r \in Regs(w) : Fed(r, 0) = r
  <2>1. \A r \in Regs(w) : Fed(r, 0) \in Regs(w) /\ \A i \in 1 .. w : Fed(r, 0)[i] = r[i]
    BY <1>1, FedIs
  <2> QED
    BY <1>1, <2>1, SameReg
<1>5. 0 \in T
  BY <1>2, <1>3
<1>6. ASSUME NEW k \in Nat, k < 8, k \in T
      PROVE  k + 1 \in T
  <2>1. k + 1 \in 1 .. 8 /\ (k + 1) - 1 = k /\ k \in 0 .. 8 /\ k + 1 \in 0 .. 8
    BY <1>6
  <2>2. t[k + 1] = RollLeft(t[k], g)
    BY <1>3, <1>4, <2>1
  <2>3. c[1 .. (k + 1)] = RollLeft(c[1 .. k], g)
    BY <1>2, <2>1
  <2> QED
    BY <1>6, <2>1, <2>2, <2>3
<1> HIDE DEF T
<1>7. \A k \in 0 .. 8 : k \in T
  <2>1. 8 \in Nat
    OBVIOUS
  <2> QED
    BY <1>5, <1>6, <2>1, UpTo
<1>8. 8 \in T
  BY <1>7
<1> QED
  BY <1>2, <1>8 DEF T

-----------------------------------------------------------------------------
(* Bytes added to a register as a whole.                                    *)

LEMMA SerialPart ==
  ASSUME NEW w, NEW g, NEW x, NEW n, NEW b, NEW s, Serial(s, w, g, x, b, n),
         NEW k \in Nat, NEW l \in Nat, k + l <= n
  PROVE  /\ Serial([i \in 0 .. l |-> s[k + i]], w, g, s[k], [i \in 1 .. l |-> b[k + i]], l)
         /\ s[k] \in Regs(w)
<1> DEFINE t == [i \in 0 .. l |-> s[k + i]]
           c == [i \in 1 .. l |-> b[k + i]]
<1>1. /\ w \in Nat \ {0} /\ g \in Regs(w) /\ n \in Nat /\ \A i \in 1 .. n : b[i] \in 0 .. 1
      /\ s \in [0 .. n -> Regs(w)] /\ \A i \in 1 .. n : s[i] = RollLeft(Fed(s[i - 1], b[i]), g)
  BY DEF Serial
<1>2. \A i \in 0 .. l : k + i \in 0 .. n
  BY <1>1
<1>3. t \in [0 .. l -> Regs(w)] /\ t[0] = s[k] /\ s[k] \in Regs(w)
  BY <1>1, <1>2
<1>4. ASSUME NEW i \in 1 .. l
      PROVE  t[i] = RollLeft(Fed(t[i - 1], c[i]), g) /\ c[i] \in 0 .. 1
  <2>1. k + i \in 1 .. n /\ (k + i) - 1 = k + (i - 1) /\ i - 1 \in 0 .. l /\ i \in 0 .. l
    BY <1>1
  <2>2. t[i] = s[k + i] /\ t[i - 1] = s[(k + i) - 1] /\ c[i] = b[k + i]
    BY <2>1
  <2> HIDE DEF t, c
  <2> QED
    BY <1>1, <2>1, <2>2
<1> HIDE DEF t, c
<1>5. Serial(t, w, g, s[k], c, l)
  BY <1>1, <1>3, <1>4 DEF Serial
<1> QED
  BY <1>3, <1>5 DEF t, c

LEMMA SubSeqAt ==
  ASSUME NEW S, NEW s \in Seq(S), NEW a \in 1 .. Len(s), NEW z \in 1 .. Len(s), a <= z + 1
  PROVE  /\ SubSeq(s, a, z) \in Seq(S) /\ Len(SubSeq(s, a, z)) = (z - a) + 1
         /\ \A i \in 1 .. (z - a) + 1 : SubSeq(s, a, z)[i] = s[(a + i) - 1]
OBVIOUS

LEMMA BytesAre ==
  ASSUME NEW m \in Seq(0 .. 1), NEW N \in Nat, Len(m) = 8 * N
  PROVE  /\ DOMAIN Bytes(m) = 1 .. N
         /\ \A k \in 1 .. N : /\ Bytes(m)[k] \in Regs(8)
                              /\ \A i \in 1 .. 8 : Bytes(m)[k][i] = m[8 * (k - 1) + i]
<1>1. Len(m) \div 8 = N
  OBVIOUS
<1>2. Bytes(m) = [k \in 1 .. N |-> SubSeq(m, 8 * k - 7, 8 * k)]
  BY <1>1 DEF Bytes
<1>3. ASSUME NEW k \in 1 .. N
      PROVE  /\ Bytes(m)[k] \in Regs(8)
             /\ \A i \in 1 .. 8 : Bytes(m)[k][i] = m[8 * (k - 1) + i]
  <2> DEFINE a == 8 * k - 7
             z == 8 * k
  <2>1. a \in 1 .. Len(m) /\ z \in 1 .. Len(m) /\ (z - a) + 1 = 8 /\ \A i \in 1 .. 8 : (a + i) - 1 = 8 * (k - 1) + i
    OBVIOUS
  <2>2. Bytes(m)[k] = SubSeq(m, a, z)
    BY <1>2
  <2> HIDE DEF a, z
  <2>3. /\ SubSeq(m, a, z) \in Seq(0 .. 1) /\ Len(SubSeq(m, a, z)) = 8
        /\ \A i \in 1 .. 8 : SubSeq(m, a, z)[i] = m[(a + i) - 1]
    <3>1. /\ SubSeq(m, a, z) \in Seq(0 .. 1) /\ Len(SubSeq(m, a, z)) = (z - a) + 1
          /\ \A i \in 1 .. (z - a) + 1 : SubSeq(m, a, z)[i] = m[(a + i) - 1]
      <4>1. a \in 1 .. Len(m) /\ z \in 1 .. Len(m) /\ a <= z + 1
        BY <2>1
      <4> QED
        BY <4>1, SubSeqAt, Zenon
    <3> QED
      BY <2>1, <3>1
  <2>4. SubSeq(m, a, z) \in Regs(8)
    BY <2>3, SeqReg
  <2> QED
    BY <2>1, <2>2, <2>3, <2>4
<1> QED
  BY <1>2, <1>3

\* The bytes of a message at the top of a register.
Placed(m, w) ==
  [k \in 1 .. Len(m) \div 8 |-> Load([i \in 1 .. 8 |-> m[8 * (k - 1) + i]], 8, w)]

ByteSteps(h, x, P, g, N) ==
  h[0] = x /\ \A k \in 1 .. N : h[k] = Rolled(Xor(h[k - 1], P[k]), g)

LEMMA PlacedIs ==
  ASSUME NEW m \in Seq(0 .. 1), NEW N \in Nat, Len(m) = 8 * N, NEW w \in Nat, w >= 8
  PROVE  /\ DOMAIN Placed(m, w) = 1 .. N
         /\ \A k \in 1 .. N : /\ Placed(m, w)[k] = Load([i \in 1 .. 8 |-> m[8 * (k - 1) + i]], 8, w)
                              /\ Placed(m, w)[k] \in Regs(w)
                              /\ \A i \in 1 .. w : Placed(m, w)[k][i] = IF i <= 8 THEN m[8 * (k - 1) + i] ELSE 0
<1>1. Len(m) \div 8 = N
  OBVIOUS
<1>2. ASSUME NEW k \in 1 .. N
      PROVE  LET l == Load([i \in 1 .. 8 |-> m[8 * (k - 1) + i]], 8, w)
             IN  l \in Regs(w) /\ \A i \in 1 .. w : l[i] = IF i <= 8 THEN m[8 * (k - 1) + i] ELSE 0
  <2>1. \A i \in 1 .. 8 : 8 * (k - 1) + i \in 1 .. Len(m)
    OBVIOUS
  <2>2. \A i \in 1 .. 8 : m[8 * (k - 1) + i] \in 0 .. 1
    BY <2>1
  <2>3. \A i \in 1 .. w : i <= 8 => i \in 1 .. 8
    OBVIOUS
  <2> QED
    BY <2>2, <2>3, SMTT(40) DEF Load, Regs
<1>3. DOMAIN Placed(m, w) = 1 .. N
  BY <1>1 DEF Placed
<1>4. \A k \in 1 .. N : Placed(m, w)[k] = Load([i \in 1 .. 8 |-> m[8 * (k - 1) + i]], 8, w)
  BY <1>1 DEF Placed
<1> QED
  <2> SUFFICES ASSUME NEW k \in 1 .. N
               PROVE  /\ Placed(m, w)[k] = Load([i \in 1 .. 8 |-> m[8 * (k - 1) + i]], 8, w)
                      /\ Placed(m, w)[k] \in Regs(w)
                      /\ \A i \in 1 .. w : Placed(m, w)[k][i] = IF i <= 8 THEN m[8 * (k - 1) + i] ELSE 0
    BY <1>3, Zenon
  <2> DEFINE l == Load([i \in 1 .. 8 |-> m[8 * (k - 1) + i]], 8, w)
  <2>1. l \in Regs(w) /\ \A i \in 1 .. w : l[i] = IF i <= 8 THEN m[8 * (k - 1) + i] ELSE 0
    BY <1>2, Zenon
  <2>2. Placed(m, w)[k] = l
    BY <1>4, Zenon
  <2> HIDE DEF l
  <2>3. Placed(m, w)[k] \in Regs(w) /\ \A i \in 1 .. w : Placed(m, w)[k][i] = IF i <= 8 THEN m[8 * (k - 1) + i] ELSE 0
    BY <2>1, <2>2, Zenon
  <2> QED
    BY <2>2, <2>3 DEF l

LEMMA ByteIsPlaced ==
  ASSUME NEW m \in Seq(0 .. 1), NEW N \in Nat, Len(m) = 8 * N, NEW k \in 1 .. N
  PROVE  Bytes(m)[k] = Placed(m, 8)[k] /\ Bytes(m)[k] \o Zeros(8) = Placed(m, 16)[k]
<1> DEFINE p == Bytes(m)[k]
           z == Zeros(8)
           q == Placed(m, 8)[k]
           r == Placed(m, 16)[k]
<1>1. p \in Regs(8) /\ \A i \in 1 .. 8 : p[i] = m[8 * (k - 1) + i]
  BY BytesAre
<1>2. z \in Regs(8) /\ \A i \in 1 .. 8 : z[i] = 0
  BY ZerosIs
<1>3. q \in Regs(8) /\ \A i \in 1 .. 8 : q[i] = m[8 * (k - 1) + i]
  <2>1. 8 \in Nat /\ 8 >= 8 /\ \A i \in 1 .. 8 : i <= 8
    OBVIOUS
  <2>2. PICK w \in Nat : w = 8
    BY <2>1
  <2>3. /\ Placed(m, w)[k] \in Regs(w)
        /\ \A i \in 1 .. w : Placed(m, w)[k][i] = IF i <= 8 THEN m[8 * (k - 1) + i] ELSE 0
    <3>1. w >= 8
      BY <2>2
    <3> QED
      BY <3>1, PlacedIs
  <2> QED
    BY <2>1, <2>2, <2>3
<1>4. r \in Regs(16) /\ \A i \in 1 .. 16 : r[i] = IF i <= 8 THEN m[8 * (k - 1) + i] ELSE 0
  <2>1. 16 \in Nat /\ 16 >= 8
    OBVIOUS
  <2> QED
    BY <2>1, PlacedIs
<1> HIDE DEF p, z, q, r
<1>5. 8 \in Nat /\ 16 \in Nat /\ 8 + 8 = 16
  OBVIOUS
<1>6. p = q
  <2>1. \A i \in 1 .. 8 : p[i] = q[i]
    BY <1>1, <1>3
  <2> QED
    BY <1>1, <1>3, <1>5, <2>1, SameReg
<1>7. p \o z = r
  <2>1. /\ p \o z \in Regs(8 + 8)
        /\ \A i \in 1 .. 8 + 8 : (p \o z)[i] = IF i <= 8 THEN p[i] ELSE z[i - 8]
    BY <1>1, <1>2, <1>5, JoinReg, Zenon
  <2>2. \A i \in 1 .. 16 : (i <= 8 => i \in 1 .. 8) /\ (~(i <= 8) => i - 8 \in 1 .. 8)
    OBVIOUS
  <2> DEFINE u == p \o z
  <2>3. u \in Regs(16) /\ \A i \in 1 .. 16 : u[i] = IF i <= 8 THEN p[i] ELSE z[i - 8]
    BY <1>5, <2>1
  <2> HIDE DEF u
  <2>4. ASSUME NEW i \in 1 .. 16
        PROVE  u[i] = r[i]
    <3>1. CASE i <= 8
      <4>1. i \in 1 .. 8
        BY <2>2, <3>1
      <4>2. p[i] = m[8 * (k - 1) + i]
        BY <1>1, <4>1
      <4>3. u[i] = p[i] /\ r[i] = m[8 * (k - 1) + i]
        BY <1>4, <2>3, <3>1
      <4> QED
        BY <4>2, <4>3
    <3>2. CASE ~(i <= 8)
      BY <1>2, <1>4, <2>2, <2>3, <3>2
    <3> QED
      BY <3>1, <3>2
  <2>5. u = r
    BY <1>4, <1>5, <2>3, <2>4, SameReg
  <2> QED
    BY <2>5 DEF u
<1> QED
  BY <1>6, <1>7 DEF p, z, q, r

\* Bytes added to the register as a whole do the same as their bits one by one.
LEMMA Bytewise ==
  ASSUME NEW m \in Seq(0 .. 1), NEW N \in Nat, Len(m) = 8 * N, NEW w, w >= 8, NEW g, NEW x,
         NEW h, ByteSteps(h, x, Placed(m, w), g, N), NEW s, Serial(s, w, g, x, m, 8 * N)
  PROVE  \A k \in 0 .. N : h[k] = s[8 * k]
<1> DEFINE T == {k \in 0 .. N : h[k] = s[8 * k]}
<1>1. /\ s[0] = x /\ 8 * 0 = 0 /\ w \in Nat \ {0} /\ g \in Regs(w)
      /\ \A i \in 1 .. 8 * N : m[i] \in 0 .. 1
  BY DEF Serial
<1>0. /\ h[0] = x
      /\ \A k \in 1 .. N : h[k] = Rolled(Xor(h[k - 1], Load([i \in 1 .. 8 |-> m[8 * (k - 1) + i]], 8, w)), g)
  <2>1. \A k \in 1 .. N : Placed(m, w)[k] = Load([i \in 1 .. 8 |-> m[8 * (k - 1) + i]], 8, w)
    <3>1. w \in Nat
      BY <1>1
    <3> QED
      BY <3>1, PlacedIs, Zenon
  <2>2. h[0] = x /\ \A k \in 1 .. N : h[k] = Rolled(Xor(h[k - 1], Placed(m, w)[k]), g)
    BY Zenon DEF ByteSteps
  <2> QED
    BY <2>1, <2>2, Zenon
<1>2. 0 \in T
  BY <1>0, <1>1
<1>3. ASSUME NEW k \in Nat, k < N, k \in T
      PROVE  k + 1 \in T
  <2> DEFINE q == [i \in 0 .. 8 |-> s[8 * k + i]]
             b == [i \in 1 .. 8 |-> m[8 * k + i]]
             v == Load(b, 8, w)
             e == s[8 * k]
  <2>1. 8 * k \in Nat /\ 8 * N \in Nat /\ 8 * k + 8 <= 8 * N /\ 8 \in Nat
    BY <1>3
  <2>2. Serial(q, w, g, e, b, 8) /\ e \in Regs(w)
    BY <2>1, SerialPart, Zenon
  <2>3. k + 1 \in 1 .. N /\ (k + 1) - 1 = k /\ k + 1 \in 0 .. N
    BY <1>3
  <2>4. \A i \in 1 .. 8 : b[i] \in 0 .. 1
    <3>1. \A i \in 1 .. 8 : 8 * k + i \in 1 .. 8 * N
      BY <1>3
    <3> QED
      BY <1>1, <3>1
  <2>5. q[8] = s[8 * (k + 1)]
    <3>1. 8 * k + 8 = 8 * (k + 1) /\ 8 \in 0 .. 8
      OBVIOUS
    <3>2. q[8] = s[8 * k + 8]
      BY <3>1
    <3> QED
      BY <3>1, <3>2
  <2>6. v \in Regs(w)
    <3>1. \A i \in 1 .. w : i <= 8 => i \in 1 .. 8
      BY <1>1
    <3> HIDE DEF b
    <3> QED
      BY <2>4, <3>1 DEF Load, Regs
  <2>7. h[k + 1] = Rolled(Xor(e, v), g)
    BY <1>0, <1>3, <2>3, Zenon
  <2> HIDE DEF q, b, v
  <2>8. Xor(e, v) \in Regs(w)
    BY <1>1, <2>2, <2>6, XorIs
  <2>9. PICK t : Serial(t, w, g, Xor(e, v), Zeros(8), 8)
    <3>1. \A i \in 1 .. 8 : Zeros(8)[i] \in 0 .. 1
      BY <2>1, ZerosIs
    <3> QED
      BY <1>1, <2>1, <2>8, <3>1, SerialExists
  <2>10. q[8] = t[8]
    BY <2>2, <2>9, Loaded DEF v
  <2>11. Rolled(Xor(e, v), g) = t[8]
    BY <2>8, <2>9, RolledIs
  <2> QED
    BY <2>3, <2>5, <2>7, <2>10, <2>11
<1> HIDE DEF T
<1>4. \A k \in 0 .. N : k \in T
  BY <1>2, <1>3, UpTo
<1> QED
  BY <1>4 DEF T

LEMMA RolledReg ==
  ASSUME NEW w \in Nat \ {0}, NEW g \in Regs(w), NEW x \in Regs(w)
  PROVE  Rolled(x, g) \in Regs(w)
<1>1. 8 \in Nat /\ 8 \in 0 .. 8 /\ \A i \in 1 .. 8 : Zeros(8)[i] \in 0 .. 1
  BY ZerosIs
<1>2. PICK t : Serial(t, w, g, x, Zeros(8), 8)
  BY <1>1, SerialExists
<1>3. t[8] \in Regs(w)
  BY <1>1, <1>2 DEF Serial
<1>4. Rolled(x, g) = t[8]
  BY <1>1, <1>2, RolledIs
<1> QED
  BY <1>3, <1>4

LEMMA Crc8Fold ==
  ASSUME NEW m \in Seq(0 .. 1), NEW N \in Nat, Len(m) = 8 * N, NEW g \in Regs(8), NEW x \in Regs(8)
  PROVE  \E h : ByteSteps(h, x, Placed(m, 8), g, N) /\ crc8(m, g, x) = h[N]
<1> DEFINE D == SUBSET (1 .. N)
           A == Regs(8)
           Q(f) == f = [u \in D |-> IF u = {} THEN x ELSE Rolled(Xor(f[u \ {Max(u)}], Bytes(m)[Max(u)]), g)]
           F == [k \in 1 .. N |-> [r \in A |-> Rolled(Xor(r, Bytes(m)[k]), g)]]
           c == CHOOSE f : Q(f)
<1>1. N \in Nat
  OBVIOUS
<1>2. \A k \in 1 .. N : \A r \in A : Rolled(Xor(r, Bytes(m)[k]), g) \in A
  <2>0. 8 \in Nat /\ 8 \in Nat \ {0} /\ 8 >= 8
    OBVIOUS
  <2> SUFFICES ASSUME NEW k \in 1 .. N, NEW r \in A
               PROVE  Rolled(Xor(r, Bytes(m)[k]), g) \in A
    OBVIOUS
  <2>1. Placed(m, 8)[k] \in Regs(8)
    BY <2>0, PlacedIs, Zenon
  <2>4. Bytes(m)[k] \in Regs(8)
    BY <2>1, ByteIsPlaced
  <2>2. Xor(r, Bytes(m)[k]) \in Regs(8)
    BY <2>0, <2>4, XorIs
  <2>3. Rolled(Xor(r, Bytes(m)[k]), g) \in Regs(8)
    BY <2>0, <2>2, RolledReg
  <2> QED
    BY <2>3
<1>3. \A k \in 1 .. N : \A r \in A : F[k][r] = Rolled(Xor(r, Bytes(m)[k]), g) /\ F[k][r] \in A
  BY <1>2
<1>4. x \in A
  OBVIOUS
<1> HIDE DEF F, A
<1>5. PICK f : Folds(f, x, F, N) /\ \A u \in D : f[u] \in A
  BY <1>1, <1>3, <1>4, FoldExists
<1>6. \A u \in D : u # {} => F[Max(u)][f[u \ {Max(u)}]] = Rolled(Xor(f[u \ {Max(u)}], Bytes(m)[Max(u)]), g)
  <2>1. \A u \in D : u # {} => Max(u) \in 1 .. N /\ u \ {Max(u)} \in D
    BY <1>1, MaxOf
  <2> QED
    BY <1>3, <1>5, <2>1
<1>7. Q(f)
  BY <1>5, <1>6, Zenon DEF Folds
<1>8. Q(c)
  BY <1>7, Zenon
<1>9. crc8(m, g, x) = c[1 .. N]
  <2>1. crc8(m, g, x) = (CHOOSE h : h = [u \in SUBSET DOMAIN Bytes(m) |->
                  IF u = {} THEN x ELSE Rolled(Xor(h[u \ {Max(u)}], Bytes(m)[Max(u)]), g)])[DOMAIN Bytes(m)]
    BY Zenon DEF crc8, Remainder, Rolled, FoldLeft, MapThenFoldSet
  <2>2. DOMAIN Bytes(m) = 1 .. N
    BY BytesAre
  <2> QED
    BY <2>1, <2>2, Zenon
<1> HIDE DEF c
<1>10. \A u \in D : c[u] = IF u = {} THEN x ELSE Rolled(Xor(c[u \ {Max(u)}], Bytes(m)[Max(u)]), g)
  BY <1>8, Zenon
<1> HIDE DEF Q
<1>11. /\ 1 .. 0 = {} /\ 1 .. 0 \in D
       /\ \A k \in 1 .. N : /\ 1 .. k # {} /\ Max(1 .. k) = k /\ (1 .. k) \ {k} = 1 .. (k - 1)
                            /\ 1 .. k \in D
  BY <1>1, Beginnings
<1> HIDE DEF D
<1>12. c[1 .. 0] = x
  BY <1>10, <1>11, Zenon
<1>13. ASSUME NEW k \in 1 .. N
       PROVE  c[1 .. k] = Rolled(Xor(c[1 .. (k - 1)], Bytes(m)[k]), g)
  <2>1. 1 .. k # {} /\ Max(1 .. k) = k /\ (1 .. k) \ {k} = 1 .. (k - 1) /\ 1 .. k \in D
    BY <1>11, Zenon
  <2> QED
    BY <1>10, <2>1, Zenon
<1> DEFINE h == [k \in 0 .. N |-> c[1 .. k]]
<1>14. \A k \in 0 .. N : h[k] = c[1 .. k]
  OBVIOUS
<1> HIDE DEF h
<1>15. 0 \in 0 .. N /\ N \in 0 .. N /\ \A k \in 1 .. N : k \in 0 .. N /\ k - 1 \in 0 .. N
  BY <1>1
<1>16. h[0] = x /\ crc8(m, g, x) = h[N]
  BY <1>9, <1>12, <1>14, <1>15, Zenon
<1>17. ASSUME NEW k \in 1 .. N
       PROVE  h[k] = Rolled(Xor(h[k - 1], Bytes(m)[k]), g)
  <2>1. h[k] = c[1 .. k] /\ h[k - 1] = c[1 .. (k - 1)]
    BY <1>14, <1>15, Zenon
  <2> QED
    BY <1>13, <2>1, Zenon
<1>18. ByteSteps(h, x, Placed(m, 8), g, N)
  BY <1>16, <1>17, ByteIsPlaced DEF ByteSteps
<1> QED
  BY <1>16, <1>18

LEMMA Crc16Fold ==
  ASSUME NEW m \in Seq(0 .. 1), NEW N \in Nat, Len(m) = 8 * N, NEW g \in Regs(16), NEW x \in Regs(16)
  PROVE  \E h : ByteSteps(h, x, Placed(m, 16), g, N) /\ crc16(m, g, x) = h[N]
<1> DEFINE D == SUBSET (1 .. N)
           A == Regs(16)
           Q(f) == f = [u \in D |-> IF u = {} THEN x ELSE Rolled(Xor(f[u \ {Max(u)}], Bytes(m)[Max(u)] \o Zeros(8)), g)]
           F == [k \in 1 .. N |-> [r \in A |-> Rolled(Xor(r, Bytes(m)[k] \o Zeros(8)), g)]]
           c == CHOOSE f : Q(f)
<1>1. N \in Nat
  OBVIOUS
<1>2. \A k \in 1 .. N : \A r \in A : Rolled(Xor(r, Bytes(m)[k] \o Zeros(8)), g) \in A
  <2>0. 16 \in Nat /\ 16 \in Nat \ {0} /\ 16 >= 8
    OBVIOUS
  <2> SUFFICES ASSUME NEW k \in 1 .. N, NEW r \in A
               PROVE  Rolled(Xor(r, Bytes(m)[k] \o Zeros(8)), g) \in A
    OBVIOUS
  <2>1. Placed(m, 16)[k] \in Regs(16)
    BY <2>0, PlacedIs, Zenon
  <2>4. Bytes(m)[k] \o Zeros(8) \in Regs(16)
    BY <2>1, ByteIsPlaced
  <2>2. Xor(r, Bytes(m)[k] \o Zeros(8)) \in Regs(16)
    BY <2>0, <2>4, XorIs
  <2>3. Rolled(Xor(r, Bytes(m)[k] \o Zeros(8)), g) \in Regs(16)
    BY <2>0, <2>2, RolledReg
  <2> QED
    BY <2>3
<1>3. \A k \in 1 .. N : \A r \in A : F[k][r] = Rolled(Xor(r, Bytes(m)[k] \o Zeros(8)), g) /\ F[k][r] \in A
  BY <1>2
<1>4. x \in A
  OBVIOUS
<1> HIDE DEF F, A
<1>5. PICK f : Folds(f, x, F, N) /\ \A u \in D : f[u] \in A
  BY <1>1, <1>3, <1>4, FoldExists
<1>6. \A u \in D : u # {} => F[Max(u)][f[u \ {Max(u)}]] = Rolled(Xor(f[u \ {Max(u)}], Bytes(m)[Max(u)] \o Zeros(8)), g)
  <2>1. \A u \in D : u # {} => Max(u) \in 1 .. N /\ u \ {Max(u)} \in D
    BY <1>1, MaxOf
  <2> QED
    BY <1>3, <1>5, <2>1
<1>7. Q(f)
  BY <1>5, <1>6, Zenon DEF Folds
<1>8. Q(c)
  BY <1>7, Zenon
<1>9. crc16(m, g, x) = c[1 .. N]
  <2>1. crc16(m, g, x) = (CHOOSE h : h = [u \in SUBSET DOMAIN Bytes(m) |->
                  IF u = {} THEN x ELSE Rolled(Xor(h[u \ {Max(u)}], Bytes(m)[Max(u)] \o Zeros(8)), g)])[DOMAIN Bytes(m)]
    BY Zenon DEF crc16, Remainder, Rolled, FoldLeft, MapThenFoldSet
  <2>2. DOMAIN Bytes(m) = 1 .. N
    BY BytesAre
  <2> QED
    BY <2>1, <2>2, Zenon
<1> HIDE DEF c
<1>10. \A u \in D : c[u] = IF u = {} THEN x ELSE Rolled(Xor(c[u \ {Max(u)}], Bytes(m)[Max(u)] \o Zeros(8)), g)
  BY <1>8, Zenon
<1> HIDE DEF Q
<1>11. /\ 1 .. 0 = {} /\ 1 .. 0 \in D
       /\ \A k \in 1 .. N : /\ 1 .. k # {} /\ Max(1 .. k) = k /\ (1 .. k) \ {k} = 1 .. (k - 1)
                            /\ 1 .. k \in D
  BY <1>1, Beginnings
<1> HIDE DEF D
<1>12. c[1 .. 0] = x
  BY <1>10, <1>11, Zenon
<1>13. ASSUME NEW k \in 1 .. N
       PROVE  c[1 .. k] = Rolled(Xor(c[1 .. (k - 1)], Bytes(m)[k] \o Zeros(8)), g)
  <2>1. 1 .. k # {} /\ Max(1 .. k) = k /\ (1 .. k) \ {k} = 1 .. (k - 1) /\ 1 .. k \in D
    BY <1>11, Zenon
  <2> QED
    BY <1>10, <2>1, Zenon
<1> DEFINE h == [k \in 0 .. N |-> c[1 .. k]]
<1>14. \A k \in 0 .. N : h[k] = c[1 .. k]
  OBVIOUS
<1> HIDE DEF h
<1>15. 0 \in 0 .. N /\ N \in 0 .. N /\ \A k \in 1 .. N : k \in 0 .. N /\ k - 1 \in 0 .. N
  BY <1>1
<1>16. h[0] = x /\ crc16(m, g, x) = h[N]
  BY <1>9, <1>12, <1>14, <1>15, Zenon
<1>17. ASSUME NEW k \in 1 .. N
       PROVE  h[k] = Rolled(Xor(h[k - 1], Bytes(m)[k] \o Zeros(8)), g)
  <2>1. h[k] = c[1 .. k] /\ h[k - 1] = c[1 .. (k - 1)]
    BY <1>14, <1>15, Zenon
  <2> QED
    BY <1>13, <2>1, Zenon
<1>18. ByteSteps(h, x, Placed(m, 16), g, N)
  BY <1>16, <1>17, ByteIsPlaced DEF ByteSteps
<1> QED
  BY <1>16, <1>18

LEMMA ShortFold ==
  ASSUME NEW m \in Seq(0 .. 1), NEW N \in Nat, Len(m) = 8 * N, NEW g \in Regs(8), NEW x \in Regs(8)
  PROVE  \E h : ByteSteps(h, x, Placed(m, 8), g, N) /\ Remainder(m, x, LAMBDA byte : byte, LAMBDA reg : RollLeft(reg, g)) = h[N]
<1> DEFINE D == SUBSET (1 .. N)
           A == Regs(8)
           Q(f) == f = [u \in D |-> IF u = {} THEN x ELSE Rolled(Xor(f[u \ {Max(u)}], Bytes(m)[Max(u)]), g)]
           F == [k \in 1 .. N |-> [r \in A |-> Rolled(Xor(r, Bytes(m)[k]), g)]]
           c == CHOOSE f : Q(f)
<1>1. N \in Nat
  OBVIOUS
<1>2. \A k \in 1 .. N : \A r \in A : Rolled(Xor(r, Bytes(m)[k]), g) \in A
  <2>0. 8 \in Nat /\ 8 \in Nat \ {0} /\ 8 >= 8
    OBVIOUS
  <2> SUFFICES ASSUME NEW k \in 1 .. N, NEW r \in A
               PROVE  Rolled(Xor(r, Bytes(m)[k]), g) \in A
    OBVIOUS
  <2>1. Placed(m, 8)[k] \in Regs(8)
    BY <2>0, PlacedIs, Zenon
  <2>4. Bytes(m)[k] \in Regs(8)
    BY <2>1, ByteIsPlaced
  <2>2. Xor(r, Bytes(m)[k]) \in Regs(8)
    BY <2>0, <2>4, XorIs
  <2>3. Rolled(Xor(r, Bytes(m)[k]), g) \in Regs(8)
    BY <2>0, <2>2, RolledReg
  <2> QED
    BY <2>3
<1>3. \A k \in 1 .. N : \A r \in A : F[k][r] = Rolled(Xor(r, Bytes(m)[k]), g) /\ F[k][r] \in A
  BY <1>2
<1>4. x \in A
  OBVIOUS
<1> HIDE DEF F, A
<1>5. PICK f : Folds(f, x, F, N) /\ \A u \in D : f[u] \in A
  BY <1>1, <1>3, <1>4, FoldExists
<1>6. \A u \in D : u # {} => F[Max(u)][f[u \ {Max(u)}]] = Rolled(Xor(f[u \ {Max(u)}], Bytes(m)[Max(u)]), g)
  <2>1. \A u \in D : u # {} => Max(u) \in 1 .. N /\ u \ {Max(u)} \in D
    BY <1>1, MaxOf
  <2> QED
    BY <1>3, <1>5, <2>1
<1>7. Q(f)
  BY <1>5, <1>6, Zenon DEF Folds
<1>8. Q(c)
  BY <1>7, Zenon
<1>9. Remainder(m, x, LAMBDA byte : byte, LAMBDA reg : RollLeft(reg, g)) = c[1 .. N]
  <2>1. Remainder(m, x, LAMBDA byte : byte, LAMBDA reg : RollLeft(reg, g)) = (CHOOSE h : h = [u \in SUBSET DOMAIN Bytes(m) |->
                  IF u = {} THEN x ELSE Rolled(Xor(h[u \ {Max(u)}], Bytes(m)[Max(u)]), g)])[DOMAIN Bytes(m)]
    BY Zenon DEF Remainder, Rolled, FoldLeft, MapThenFoldSet
  <2>2. DOMAIN Bytes(m) = 1 .. N
    BY BytesAre
  <2> QED
    BY <2>1, <2>2, Zenon
<1> HIDE DEF c
<1>10. \A u \in D : c[u] = IF u = {} THEN x ELSE Rolled(Xor(c[u \ {Max(u)}], Bytes(m)[Max(u)]), g)
  BY <1>8, Zenon
<1> HIDE DEF Q
<1>11. /\ 1 .. 0 = {} /\ 1 .. 0 \in D
       /\ \A k \in 1 .. N : /\ 1 .. k # {} /\ Max(1 .. k) = k /\ (1 .. k) \ {k} = 1 .. (k - 1)
                            /\ 1 .. k \in D
  BY <1>1, Beginnings
<1> HIDE DEF D
<1>12. c[1 .. 0] = x
  BY <1>10, <1>11, Zenon
<1>13. ASSUME NEW k \in 1 .. N
       PROVE  c[1 .. k] = Rolled(Xor(c[1 .. (k - 1)], Bytes(m)[k]), g)
  <2>1. 1 .. k # {} /\ Max(1 .. k) = k /\ (1 .. k) \ {k} = 1 .. (k - 1) /\ 1 .. k \in D
    BY <1>11, Zenon
  <2> QED
    BY <1>10, <2>1, Zenon
<1> DEFINE h == [k \in 0 .. N |-> c[1 .. k]]
<1>14. \A k \in 0 .. N : h[k] = c[1 .. k]
  OBVIOUS
<1> HIDE DEF h
<1>15. 0 \in 0 .. N /\ N \in 0 .. N /\ \A k \in 1 .. N : k \in 0 .. N /\ k - 1 \in 0 .. N
  BY <1>1
<1>16. h[0] = x /\ Remainder(m, x, LAMBDA byte : byte, LAMBDA reg : RollLeft(reg, g)) = h[N]
  BY <1>9, <1>12, <1>14, <1>15, Zenon
<1>17. ASSUME NEW k \in 1 .. N
       PROVE  h[k] = Rolled(Xor(h[k - 1], Bytes(m)[k]), g)
  <2>1. h[k] = c[1 .. k] /\ h[k - 1] = c[1 .. (k - 1)]
    BY <1>14, <1>15, Zenon
  <2> QED
    BY <1>13, <2>1, Zenon
<1>18. ByteSteps(h, x, Placed(m, 8), g, N)
  BY <1>16, <1>17, ByteIsPlaced DEF ByteSteps
<1> QED
  BY <1>16, <1>18

LEMMA Crc8Serial ==
  ASSUME NEW m \in Seq(0 .. 1), NEW N \in Nat, Len(m) = 8 * N, NEW g, NEW x \in Regs(8),
         NEW s, Serial(s, 8, g, x, m, 8 * N)
  PROVE  crc8(m, g, x) = s[8 * N]
<1>0. g \in Regs(8) /\ 8 >= 8
  BY DEF Serial
<1>1. PICK h : ByteSteps(h, x, Placed(m, 8), g, N) /\ crc8(m, g, x) = h[N]
  BY <1>0, Crc8Fold
<1>2. \A k \in 0 .. N : h[k] = s[8 * k]
  BY <1>0, <1>1, Bytewise
<1> QED
  BY <1>1, <1>2

LEMMA Crc16Serial ==
  ASSUME NEW m \in Seq(0 .. 1), NEW N \in Nat, Len(m) = 8 * N, NEW g, NEW x \in Regs(16),
         NEW s, Serial(s, 16, g, x, m, 8 * N)
  PROVE  crc16(m, g, x) = s[8 * N]
<1>0. g \in Regs(16) /\ 16 >= 8
  BY DEF Serial
<1>1. PICK h : ByteSteps(h, x, Placed(m, 16), g, N) /\ crc16(m, g, x) = h[N]
  BY <1>0, Crc16Fold
<1>2. \A k \in 0 .. N : h[k] = s[8 * k]
  BY <1>0, <1>1, Bytewise
<1> QED
  BY <1>1, <1>2

LEMMA ShortSerial ==
  ASSUME NEW m \in Seq(0 .. 1), NEW N \in Nat, Len(m) = 8 * N, NEW g, NEW x \in Regs(8),
         NEW s, Serial(s, 8, g, x, m, 8 * N)
  PROVE  Remainder(m, x, LAMBDA byte : byte, LAMBDA reg : RollLeft(reg, g)) = s[8 * N]
<1>0. g \in Regs(8) /\ 8 >= 8
  BY DEF Serial
<1>1. PICK h : ByteSteps(h, x, Placed(m, 8), g, N) /\ Remainder(m, x, LAMBDA byte : byte, LAMBDA reg : RollLeft(reg, g)) = h[N]
  BY <1>0, ShortFold
<1>2. \A k \in 0 .. N : h[k] = s[8 * k]
  BY <1>0, <1>1, Bytewise
<1> QED
  BY <1>1, <1>2

-----------------------------------------------------------------------------
(* Where messages differ, and remainders fed to their own register.         *)

LEMMA XorSame ==
  ASSUME NEW w \in Nat, NEW r \in Regs(w)
  PROVE  Xor(r, r) = Zeros(w)
<1>1. Xor(r, r) \in Regs(w) /\ \A i \in 1 .. w : Xor(r, r)[i] = 0
  BY XorIs
<1>2. Zeros(w) \in Regs(w) /\ \A i \in 1 .. w : Zeros(w)[i] = 0
  BY ZerosIs
<1> QED
  BY <1>1, <1>2, SameReg

LEMMA XorZero ==
  ASSUME NEW w \in Nat, NEW r \in Regs(w)
  PROVE  Xor(Zeros(w), r) = r
<1>1. Zeros(w) \in Regs(w) /\ \A i \in 1 .. w : Zeros(w)[i] = 0
  BY ZerosIs
<1>2. Xor(Zeros(w), r) \in Regs(w) /\ \A i \in 1 .. w : Xor(Zeros(w), r)[i] = IF Zeros(w)[i] = r[i] THEN 0 ELSE 1
  BY <1>1, XorIs
<1>3. \A i \in 1 .. w : r[i] \in 0 .. 1
  BY RegIs
<1>4. \A i \in 1 .. w : Xor(Zeros(w), r)[i] = r[i]
  BY <1>1, <1>2, <1>3
<1> QED
  BY <1>2, <1>4, SameReg

\* A register stays zero through the zeros from bit k + 1 on, and anything else stays
\* something else.
LEMMA SerialZeros ==
  ASSUME NEW w, NEW g, NEW x, NEW n, NEW b, NEW s, Serial(s, w, g, x, b, n),
         NEW k \in Nat, NEW l \in Nat, k + l <= n, \A i \in 1 .. l : b[k + i] = 0
  PROVE  /\ s[k] = Zeros(w) => s[k + l] = Zeros(w)
         /\ g[w] = 1 /\ s[k] # Zeros(w) => s[k + l] # Zeros(w)
<1> DEFINE t == [i \in 0 .. l |-> s[k + i]]
           c == [i \in 1 .. l |-> b[k + i]]
<1>1. Serial(t, w, g, s[k], c, l)
  BY SerialPart
<1>2. c = Zeros(l)
  BY DEF Zeros
<1>3. t[l] = s[k + l]
  OBVIOUS
<1> HIDE DEF t, c
<1>4. Serial(t, w, g, s[k], Zeros(l), l)
  BY <1>1, <1>2
<1>5. s[k] = Zeros(w) => t[l] = Zeros(w)
  <2> HAVE s[k] = Zeros(w)
  <2>1. Serial(t, w, g, Zeros(w), Zeros(l), l)
    BY <1>4
  <2> QED
    BY <2>1, ZeroSerial
<1>6. g[w] = 1 /\ s[k] # Zeros(w) => t[l] # Zeros(w)
  BY <1>4, SerialNonzero
<1> QED
  BY <1>3, <1>5, <1>6

\* c are the l bits of b behind bit k.
Slice(c, b, k, l) == \A i \in 1 .. l : c[i] = b[k + i]

\* Added at once to register k, they roll to register k + l.
LoadRolls(s, w, g, k, c, l) ==
  /\ Load(c, l, w) \in Regs(w)
  /\ \E t : Serial(t, w, g, Xor(s[k], Load(c, l, w)), Zeros(l), l) /\ s[k + l] = t[l]

\* The next l bits, up to the width of the register, added at once.
LEMMA SerialLoad ==
  ASSUME NEW w, NEW g, NEW x, NEW n, NEW b, NEW s, Serial(s, w, g, x, b, n),
         NEW k \in Nat, NEW l \in Nat, k + l <= n, l <= w,
         NEW c, Slice(c, b, k, l)
  PROVE  LoadRolls(s, w, g, k, c, l)
<1> DEFINE q == [i \in 0 .. l |-> s[k + i]]
           d == [i \in 1 .. l |-> b[k + i]]
           v == Load(d, l, w)
<1>1. Serial(q, w, g, s[k], d, l) /\ s[k] \in Regs(w)
  BY SerialPart
<1>2. q[l] = s[k + l]
  OBVIOUS
<1>c. \A i \in 1 .. l : c[i] = d[i]
  BY DEF Slice
<1> HIDE DEF q, d
<1>3. w \in Nat \ {0} /\ g \in Regs(w) /\ \A i \in 1 .. l : d[i] \in 0 .. 1
  BY <1>1 DEF Serial
<1>0. \A i \in 1 .. w : i <= l => i \in 1 .. l
  BY <1>3
<1>4. v \in Regs(w) /\ Load(c, l, w) = v
  <2>1. v \in Regs(w)
    BY <1>3, <1>0 DEF Load, Regs
  <2>2. Load(c, l, w) = v
    BY <1>c, <1>0 DEF Load
  <2> QED
    BY <2>1, <2>2
<1> HIDE DEF v
<1>5. Xor(s[k], v) \in Regs(w)
  BY <1>1, <1>3, <1>4, XorIs
<1>6. \A i \in 1 .. l : Zeros(l)[i] \in 0 .. 1
  BY ZerosIs
<1>7. PICK t : Serial(t, w, g, Xor(s[k], v), Zeros(l), l)
  BY <1>3, <1>5, <1>6, SerialExists
<1>8. q[l] = t[l]
  BY <1>1, <1>7, Loaded DEF v
<1> QED
  BY <1>2, <1>4, <1>7, <1>8 DEF LoadRolls

\* Two messages that differ only in w successive bits leave different remainders.
LEMMA BurstRemains ==
  ASSUME NEW w, NEW g, NEW x, NEW n, NEW a, NEW c, NEW s, NEW t,
         Serial(s, w, g, x, a, n), Serial(t, w, g, x, c, n), g[w] = 1,
         NEW j \in 1 .. n, a[j] # c[j],
         NEW k \in Nat, \A i \in 1 .. n : a[i] # c[i] => i \in k + 1 .. k + w
  PROVE  s[n] # t[n]
<1> DEFINE u == [i \in 0 .. n |-> Xor(s[i], t[i])]
           e == [i \in 1 .. n |-> IF a[i] = c[i] THEN 0 ELSE 1]
           l == IF k + w <= n THEN w ELSE n - k
<1>1. /\ w \in Nat \ {0} /\ g \in Regs(w) /\ n \in Nat /\ x \in Regs(w)
      /\ s \in [0 .. n -> Regs(w)] /\ t \in [0 .. n -> Regs(w)]
  <2>1. /\ w \in Nat \ {0} /\ g \in Regs(w) /\ n \in Nat
        /\ s \in [0 .. n -> Regs(w)] /\ t \in [0 .. n -> Regs(w)] /\ s[0] = x
    BY DEF Serial
  <2>2. 0 \in 0 .. n
    BY <2>1
  <2> QED
    BY <2>1, <2>2
<1>2. Serial(u, w, g, Xor(x, x), e, n)
  BY SerialXor
<1>3. \A i \in 1 .. n : e[i] = IF a[i] = c[i] THEN 0 ELSE 1
  OBVIOUS
<1>4. u[0] = Xor(x, x) /\ u[n] = Xor(s[n], t[n])
  BY <1>1, <1>2 DEF Serial
<1>5. l \in Nat /\ l <= w /\ k + l <= n /\ j - k \in 1 .. l /\ k + (j - k) = j
  BY <1>1
<1>6. k <= n /\ k + l + (n - (k + l)) = n /\ n - (k + l) \in Nat /\ 0 + k = k
  BY <1>1, <1>5
<1> HIDE DEF u, e
<1>7. u[0] = Zeros(w)
  BY <1>1, <1>4, XorSame
<1>8. u[k] = Zeros(w)
  <2>1. \A i \in 1 .. k : e[0 + i] = 0
    BY <1>1, <1>3, <1>6
  <2>2. u[0 + k] = Zeros(w)
    BY <1>2, <1>6, <1>7, <2>1, SerialZeros
  <2> QED
    BY <1>6, <2>2
<1>9. \A i \in 1 .. n - (k + l) : e[(k + l) + i] = 0
  BY <1>1, <1>3, <1>5
<1> HIDE DEF l
<1>10. u[k + l] # Zeros(w)
  <2> DEFINE b == [i \in 1 .. l |-> e[k + i]]
             v == Load(b, l, w)
  <2>0. Slice(b, e, k, l) /\ b[j - k] = 1
    BY <1>3, <1>5 DEF Slice
  <2> HIDE DEF b
  <2>r. LoadRolls(u, w, g, k, b, l)
    BY <1>2, <1>5, <2>0, SerialLoad
  <2>1. v \in Regs(w)
    BY <2>r DEF LoadRolls
  <2>2. PICK z : Serial(z, w, g, Xor(u[k], v), Zeros(l), l) /\ u[k + l] = z[l]
    BY <2>r DEF LoadRolls
  <2>3. v[j - k] = 1
    <3>2. j - k \in 1 .. w /\ j - k <= l
      BY <1>1, <1>5
    <3> QED
      BY <2>0, <3>2 DEF Load
  <2> HIDE DEF v
  <2>4. v # Zeros(w)
    <3>1. j - k \in 1 .. w
      BY <1>1, <1>5
    <3>2. Zeros(w)[j - k] = 0
      BY <1>1, <3>1, ZerosIs
    <3> QED
      BY <2>3, <3>2
  <2>5. Xor(u[k], v) = v
    BY <1>1, <1>8, <2>1, XorZero
  <2>6. Serial(z, w, g, v, Zeros(l), l)
    BY <2>2, <2>5
  <2>7. z[l] # Zeros(w)
    BY <2>4, <2>6, SerialNonzero
  <2> QED
    BY <2>2, <2>7
<1>11. u[n] # Zeros(w)
  <2> DEFINE p == k + l
             q == n - p
  <2>1. p \in Nat /\ q \in Nat /\ p + q <= n /\ p + q = n
    BY <1>1, <1>5, <1>6
  <2>2. u[p] # Zeros(w) /\ \A i \in 1 .. q : e[p + i] = 0
    BY <1>9, <1>10
  <2> HIDE DEF p, q
  <2>3. u[p + q] # Zeros(w)
    BY <1>2, <2>1, <2>2, SerialZeros
  <2> QED
    BY <2>1, <2>3
<1>12. n \in 0 .. n /\ s[n] \in Regs(w)
  BY <1>1
<1> QED
  BY <1>1, <1>4, <1>11, <1>12, XorSame

\* A remainder that is fed to its own register leaves zero.
LEMMA OwnRemainder ==
  ASSUME NEW w, NEW g, NEW x, NEW n, NEW b, NEW s, Serial(s, w, g, x, b, n),
         NEW k \in Nat, n = k + w, Slice(s[k], b, k, w)
  PROVE  s[n] = Zeros(w)
<1> DEFINE c == [i \in 1 .. w |-> b[k + i]]
<1>1. w \in Nat \ {0} /\ w \in Nat /\ n \in Nat /\ k \in 0 .. n /\ s \in [0 .. n -> Regs(w)]
  BY DEF Serial
<1>2. s[k] \in Regs(w)
  BY <1>1
<1>3. PICK l \in Nat : l = w
  BY <1>1
<1>4. k + l <= n /\ l <= w /\ k + l = n
  BY <1>1, <1>3
<1>5. \A i \in 1 .. l : c[i] = b[k + i] /\ c[i] = s[k][i]
  BY <1>3 DEF Slice
<1> DEFINE v == Load(c, l, w)
<1>r. LoadRolls(s, w, g, k, c, l)
  <2>1. Slice(c, b, k, l)
    BY <1>5 DEF Slice
  <2> HIDE DEF c
  <2> QED
    BY <1>4, <2>1, SerialLoad
<1> HIDE DEF c
<1>6. v \in Regs(w)
  BY <1>r DEF LoadRolls
<1>7. PICK t : Serial(t, w, g, Xor(s[k], v), Zeros(l), l) /\ s[k + l] = t[l]
  BY <1>r DEF LoadRolls
<1>8. \A i \in 1 .. w : v[i] = s[k][i]
  BY <1>3, <1>5 DEF Load
<1> HIDE DEF v
<1>9. v = s[k]
  BY <1>1, <1>2, <1>6, <1>8, SameReg
<1>10. Xor(s[k], v) = Zeros(w)
  BY <1>1, <1>2, <1>9, XorSame
<1>11. Serial(t, w, g, Zeros(w), Zeros(l), l)
  BY <1>7, <1>10
<1>12. t[l] = Zeros(w)
  BY <1>11, ZeroSerial
<1> QED
  BY <1>4, <1>7, <1>12

-----------------------------------------------------------------------------
(* crc4 and crc7 keep their register in the top bits of a byte.             *)

LEMMA TopIs ==
  ASSUME NEW w \in 1 .. 8, NEW r \in Regs(w)
  PROVE  /\ InTopBits(r) \in Regs(8)
         /\ \A i \in 1 .. 8 : InTopBits(r)[i] = IF i <= w THEN r[i] ELSE 0
<1> DEFINE z == Zeros(8 - w)
<1>1. w \in Nat /\ 8 - w \in Nat /\ w + (8 - w) = 8 /\ \A i \in 1 .. 8 : ~(i <= w) => i - w \in 1 .. 8 - w
  OBVIOUS
<1>2. z \in Regs(8 - w) /\ \A i \in 1 .. 8 - w : z[i] = 0
  BY <1>1, ZerosIs
<1>3. InTopBits(r) = r \o z
  <2>1. Len(r) = w
    BY <1>1, RegIs
  <2> QED
    BY <2>1 DEF InTopBits
<1> HIDE DEF z
<1>4. PICK v \in Nat : v = 8 - w
  BY <1>1
<1>5. z \in Regs(v)
  BY <1>2, <1>4
<1>6. /\ r \o z \in Regs(w + v)
      /\ \A i \in 1 .. w + v : (r \o z)[i] = IF i <= w THEN r[i] ELSE z[i - w]
  BY <1>1, <1>5, JoinReg
<1>7. w + v = 8
  BY <1>1, <1>4
<1> QED
  BY <1>1, <1>2, <1>3, <1>6, <1>7

LEMMA TopStep ==
  ASSUME NEW w \in 1 .. 8, NEW g \in Regs(w), NEW r \in Regs(w), NEW bit \in 0 .. 1
  PROVE  RollLeft(Fed(InTopBits(r), bit), InTopBits(g)) = InTopBits(RollLeft(Fed(r, bit), g))
<1> DEFINE f == Fed(r, bit)
           l == RollLeft(f, g)
           tr == InTopBits(r)
           tg == InTopBits(g)
           tf == Fed(tr, bit)
           tl == InTopBits(l)
           q == RollLeft(tf, tg)
<1>0. w \in Nat \ {0} /\ 8 \in Nat \ {0} /\ 8 \in Nat /\ \A i \in 1 .. w : i \in 1 .. 8
  OBVIOUS
<1>1. tr \in Regs(8) /\ \A i \in 1 .. 8 : tr[i] = IF i <= w THEN r[i] ELSE 0
  BY TopIs
<1>2. tg \in Regs(8) /\ \A i \in 1 .. 8 : tg[i] = IF i <= w THEN g[i] ELSE 0
  BY TopIs
<1>3. f \in Regs(w) /\ \A i \in 1 .. w : f[i] = IF i = 1 /\ bit = 1 THEN 1 - r[1] ELSE r[i]
  BY <1>0, FedIs
<1> HIDE DEF f, tr, tg
<1>4. l \in Regs(w) /\ \A i \in 1 .. w :
         LET next == IF i < w THEN f[i + 1] ELSE 0
         IN  l[i] = IF f[1] = 1 THEN IF next = g[i] THEN 0 ELSE 1 ELSE next
  BY <1>0, <1>3, RollIs
<1> HIDE DEF l
<1>5. tl \in Regs(8) /\ \A i \in 1 .. 8 : tl[i] = IF i <= w THEN l[i] ELSE 0
  BY <1>4, TopIs
<1>6. tf \in Regs(8) /\ \A i \in 1 .. 8 : tf[i] = IF i = 1 /\ bit = 1 THEN 1 - tr[1] ELSE tr[i]
  BY <1>0, <1>1, FedIs
<1> HIDE DEF tl, tf
<1>7. q \in Regs(8) /\ \A i \in 1 .. 8 :
         LET next == IF i < 8 THEN tf[i + 1] ELSE 0
         IN  q[i] = IF tf[1] = 1 THEN IF next = tg[i] THEN 0 ELSE 1 ELSE next
  BY <1>0, <1>2, <1>6, RollIs
<1> HIDE DEF q
<1>8. \A i \in 1 .. 8 : tf[i] = IF i <= w THEN f[i] ELSE 0
  <2>1. 1 <= w
    OBVIOUS
  <2> QED
    BY <1>1, <1>3, <1>6, <2>1
<1>9. ASSUME NEW i \in 1 .. 8
      PROVE  q[i] = tl[i]
  <2>1. tf[1] = f[1]
    BY <1>0, <1>8
  <2>2. q[i] = LET next == IF i < 8 THEN tf[i + 1] ELSE 0
               IN  IF tf[1] = 1 THEN IF next = tg[i] THEN 0 ELSE 1 ELSE next
    BY <1>7
  <2>3. CASE i < w
    <3>1. i + 1 \in 1 .. 8 /\ i + 1 <= w /\ i < 8 /\ i <= w /\ i \in 1 .. w
      BY <2>3
    <3>2. tf[i + 1] = f[i + 1] /\ tg[i] = g[i] /\ tl[i] = l[i]
      BY <1>2, <1>5, <1>8, <3>1
    <3>3. l[i] = IF f[1] = 1 THEN IF f[i + 1] = g[i] THEN 0 ELSE 1 ELSE f[i + 1]
      BY <1>4, <2>3, <3>1
    <3> QED
      BY <2>1, <2>2, <3>1, <3>2, <3>3
  <2>4. CASE i = w
    <3>1. i <= w /\ i \in 1 .. w /\ (i < 8 => i + 1 \in 1 .. 8 /\ ~(i + 1 <= w))
      BY <2>4
    <3>2. tg[i] = g[i] /\ tl[i] = l[i] /\ (i < 8 => tf[i + 1] = 0)
      BY <1>2, <1>5, <1>8, <3>1
    <3>3. l[i] = IF f[1] = 1 THEN IF 0 = g[i] THEN 0 ELSE 1 ELSE 0
      BY <1>4, <2>4, <3>1
    <3> QED
      BY <2>1, <2>2, <3>1, <3>2, <3>3
  <2>5. CASE i > w
    <3>1. ~(i <= w) /\ (i < 8 => i + 1 \in 1 .. 8 /\ ~(i + 1 <= w))
      BY <2>5
    <3>2. tg[i] = 0 /\ tl[i] = 0 /\ (i < 8 => tf[i + 1] = 0)
      BY <1>2, <1>5, <1>8, <3>1
    <3> QED
      BY <2>1, <2>2, <3>1, <3>2
  <2> QED
    BY <2>3, <2>4, <2>5
<1>10. q = tl
  BY <1>0, <1>5, <1>7, <1>9, SameReg
<1> QED
  BY <1>10 DEF q, tl, tf, tr, tg, l, f

LEMMA ShortCrcSerial ==
  ASSUME NEW m \in Seq(0 .. 1), NEW N \in Nat, Len(m) = 8 * N, NEW w \in 1 .. 8, NEW g, NEW x \in Regs(w),
         NEW s, Serial(s, w, g, x, m, 8 * N)
  PROVE  ShortCrc(m, g, x) = s[8 * N]
<1> DEFINE n == 8 * N
           y == InTopBits(x)
           h == InTopBits(g)
           R == Remainder(m, y, LAMBDA byte : byte, LAMBDA reg : RollLeft(reg, h))
<1>1. /\ w \in Nat \ {0} /\ g \in Regs(w) /\ n \in Nat /\ \A i \in 1 .. n : m[i] \in 0 .. 1
      /\ s \in [0 .. n -> Regs(w)] /\ s[0] = x
      /\ \A i \in 1 .. n : s[i] = RollLeft(Fed(s[i - 1], m[i]), g)
  BY DEF Serial
<1>2. h \in Regs(8) /\ y \in Regs(8) /\ 8 \in Nat \ {0}
  BY <1>1, TopIs
<1>3. PICK t : Serial(t, 8, h, y, m, n)
  BY <1>1, <1>2, SerialExists
<1>4. R = t[n]
  BY <1>2, <1>3, ShortSerial, ZenonT(40)
<1>5. InTopBits(s[n]) = t[n]
  <2> DEFINE B == {i \in 0 .. n : InTopBits(s[i]) = t[i]}
  <2>1. /\ t[0] = y
        /\ \A i \in 1 .. n : t[i] = RollLeft(Fed(t[i - 1], m[i]), h)
    BY <1>3 DEF Serial
  <2>2. 0 \in B
    BY <1>1, <2>1
  <2>3. ASSUME NEW k \in Nat, k < n, k \in B
        PROVE  k + 1 \in B
    <3>1. k + 1 \in 1 .. n /\ (k + 1) - 1 = k /\ k \in 0 .. n /\ k + 1 \in 0 .. n
      BY <1>1, <2>3
    <3>2. s[k] \in Regs(w) /\ m[k + 1] \in 0 .. 1 /\ s[k + 1] = RollLeft(Fed(s[k], m[k + 1]), g)
      BY <1>1, <3>1
    <3>3. t[k + 1] = RollLeft(Fed(InTopBits(s[k]), m[k + 1]), h)
      BY <2>1, <2>3, <3>1
    <3>4. RollLeft(Fed(InTopBits(s[k]), m[k + 1]), InTopBits(g)) = InTopBits(RollLeft(Fed(s[k], m[k + 1]), g))
      BY <1>1, <3>2, TopStep, Zenon
    <3> QED
      BY <3>1, <3>2, <3>3, <3>4
  <2> HIDE DEF B
  <2>4. \A i \in 0 .. n : i \in B
    BY <1>1, <2>2, <2>3, UpTo
  <2>5. n \in B
    BY <1>1, <2>4
  <2> QED
    BY <2>5 DEF B
<1>6. s[n] \in Regs(w)
  BY <1>1
<1>7. ShortCrc(m, g, x) = SubSeq(R, 1, Len(g))
  BY Zenon DEF ShortCrc
<1>8. Len(g) = w
  BY <1>1, RegIs
<1> HIDE DEF R, n
<1> DEFINE q == InTopBits(s[n])
<1>9. q \in Regs(8) /\ \A i \in 1 .. 8 : q[i] = IF i <= w THEN s[n][i] ELSE 0
  BY <1>6, TopIs
<1> HIDE DEF q
<1>10. q \in Seq(0 .. 1) /\ Len(q) = 8
  BY <1>9, RegIs
<1>11. SubSeq(q, 1, w) \in Seq(0 .. 1) /\ Len(SubSeq(q, 1, w)) = w /\ \A i \in 1 .. w : SubSeq(q, 1, w)[i] = q[i]
  <2>1. 1 \in 1 .. 8 /\ w \in 1 .. 8 /\ 1 <= w + 1 /\ (w - 1) + 1 = w /\ \A i \in 1 .. w : (1 + i) - 1 = i
    OBVIOUS
  <2>2. /\ SubSeq(q, 1, w) \in Seq(0 .. 1) /\ Len(SubSeq(q, 1, w)) = (w - 1) + 1
        /\ \A i \in 1 .. (w - 1) + 1 : SubSeq(q, 1, w)[i] = q[(1 + i) - 1]
    <3>1. 1 \in 1 .. Len(q) /\ w \in 1 .. Len(q)
      BY <1>10, <2>1
    <3> QED
      BY <1>10, <2>1, <3>1, SubSeqAt, ZenonT(40)
  <2> QED
    BY <2>1, <2>2
<1>12. SubSeq(q, 1, w) \in Regs(w)
  BY <1>11, SeqReg
<1>13. \A i \in 1 .. w : SubSeq(q, 1, w)[i] = s[n][i]
  BY <1>9, <1>11
<1>14. SubSeq(q, 1, w) = s[n]
  BY <1>1, <1>6, <1>12, <1>13, SameReg
<1> QED
  BY <1>4, <1>5, <1>7, <1>8, <1>14 DEF q, n

-----------------------------------------------------------------------------
(* The remainder as mathematics defines it.                                 *)

\* The remainder that a polynomial leaves, its exponents in the bits of a register.
Register(p, w) == [i \in 1 .. w |-> IF w - i \in p THEN 1 ELSE 0]

LEMMA RegisterIs ==
  ASSUME NEW w \in Nat, NEW p
  PROVE  /\ Register(p, w) \in Regs(w)
         /\ \A i \in 1 .. w : Register(p, w)[i] = IF w - i \in p THEN 1 ELSE 0
BY DEF Register, Regs

LEMMA ExponentsAre ==
  ASSUME NEW w \in Nat, NEW g \in Regs(w)
  PROVE  /\ Exponents(g) \in SUBSET (0 .. w - 1)
         /\ \A i \in 1 .. w : w - i \in Exponents(g) <=> g[i] = 1
<1>1. Len(g) = w /\ DOMAIN g = 1 .. w
  BY RegIs
<1>2. Exponents(g) = {w - i : i \in {k \in 1 .. w : g[k] = 1}}
  BY <1>1 DEF Exponents
<1>3. \A i, k \in 1 .. w : w - i = w - k => i = k
  OBVIOUS
<1> QED
  BY <1>2, <1>3

Step(p, g, w, bit) ==
  SymDiff(TimesX(p, Exponents(g), w), IF bit = 1 THEN Exponents(g) ELSE {})

\* Multiplied by x and reduced: what the register does.
LEMMA StepRolls ==
  ASSUME NEW w \in Nat \ {0}, NEW g \in Regs(w), NEW p \in SUBSET (0 .. w - 1), NEW bit \in 0 .. 1
  PROVE  /\ Step(p, g, w, bit) \in SUBSET (0 .. w - 1)
         /\ Register(Step(p, g, w, bit), w) = RollLeft(Fed(Register(p, w), bit), g)
<1> DEFINE e == Exponents(g)
           t == TimesX(p, e, w)
           d == IF bit = 1 THEN e ELSE {}
           z == SymDiff(t, d)
           r == Register(p, w)
           f == Fed(r, bit)
           l == RollLeft(f, g)
           q == Register(z, w)
<1>1. e \in SUBSET (0 .. w - 1) /\ \A i \in 1 .. w : w - i \in e <=> g[i] = 1
  BY ExponentsAre
<1>2. r \in Regs(w) /\ \A i \in 1 .. w : r[i] = IF w - i \in p THEN 1 ELSE 0
  BY RegisterIs
<1> HIDE DEF e, r
<1>3. f \in Regs(w) /\ \A i \in 1 .. w : f[i] = IF i = 1 /\ bit = 1 THEN 1 - r[1] ELSE r[i]
  BY <1>2, FedIs
<1> HIDE DEF f
<1>4. l \in Regs(w) /\ \A i \in 1 .. w :
         LET next == IF i < w THEN f[i + 1] ELSE 0
         IN  l[i] = IF f[1] = 1 THEN IF next = g[i] THEN 0 ELSE 1 ELSE next
  BY <1>3, RollIs
<1> HIDE DEF l
<1>5. \A k \in Int : k \in t <=> /\ k # w
                                 /\ ~(k - 1 \in p <=> w - 1 \in p /\ k \in e)
  <2> DEFINE u == {k + 1 : k \in p}
  <2>1. \A k \in Int : k \in u <=> k - 1 \in p
    OBVIOUS
  <2>2. w \notin e
    BY <1>1
  <2>3. t = IF w \in u THEN SymDiff(u \ {w}, e) ELSE u
    BY DEF TimesX
  <2>4. w \in u <=> w - 1 \in p
    BY <2>1
  <2> HIDE DEF u, t
  <2>5. CASE w - 1 \in p
    BY <2>1, <2>2, <2>3, <2>4, <2>5 DEF SymDiff
  <2>6. CASE w - 1 \notin p
    BY <2>1, <2>3, <2>4, <2>6
  <2> QED
    BY <2>5, <2>6
<1>6. t \subseteq 0 .. w - 1
  <2>1. t \subseteq Int
    <3> DEFINE u == {k + 1 : k \in p}
    <3>1. t = IF w \in u THEN SymDiff(u \ {w}, e) ELSE u
      BY DEF TimesX
    <3>2. u \subseteq Int /\ e \subseteq Int
      BY <1>1
    <3> HIDE DEF u, t
    <3> QED
      BY <3>1, <3>2 DEF SymDiff
  <2> HIDE DEF t
  <2> QED
    BY <1>1, <1>5, <2>1
<1> HIDE DEF t
<1>7. d \subseteq 0 .. w - 1 /\ \A k \in Int : k \in d <=> bit = 1 /\ k \in e
  BY <1>1
<1> HIDE DEF d
<1>8. z \subseteq 0 .. w - 1 /\ \A k \in Int : k \in z <=> ~(k \in t <=> k \in d)
  BY <1>6, <1>7 DEF SymDiff
<1> HIDE DEF z
<1>9. q \in Regs(w) /\ \A i \in 1 .. w : q[i] = IF w - i \in z THEN 1 ELSE 0
  BY RegisterIs
<1> HIDE DEF q
<1>10. f[1] = 1 <=> ~(w - 1 \in p <=> bit = 1)
  <2>1. r[1] = IF w - 1 \in p THEN 1 ELSE 0
    BY <1>2
  <2> QED
    BY <1>3, <2>1
<1>11. ASSUME NEW i \in 1 .. w
       PROVE  q[i] = l[i]
  <2> DEFINE k == w - i
  <2>1. k \in 0 .. w - 1 /\ k \in Int /\ k # w /\ (k \in e <=> g[i] = 1) /\ g[i] \in 0 .. 1
    BY <1>1, RegIs
  <2>2. k \in z <=> ~(~(k - 1 \in p <=> w - 1 \in p /\ k \in e) <=> bit = 1 /\ k \in e)
    BY <1>5, <1>7, <1>8, <2>1
  <2>3. q[i] = IF k \in z THEN 1 ELSE 0
    BY <1>9
  <2>4. CASE i < w
    <3>1. i + 1 \in 1 .. w /\ i + 1 # 1 /\ w - (i + 1) = k - 1
      BY <2>4
    <3>2. f[i + 1] = IF k - 1 \in p THEN 1 ELSE 0
      BY <1>2, <1>3, <3>1
    <3>3. l[i] = IF f[1] = 1 THEN IF f[i + 1] = g[i] THEN 0 ELSE 1 ELSE f[i + 1]
      BY <1>4, <2>4
    <3> HIDE DEF k
    <3> QED
      BY <1>10, <2>1, <2>2, <2>3, <3>2, <3>3
  <2>5. CASE ~(i < w)
    <3>1. k = 0 /\ k - 1 \notin p
      BY <2>5
    <3>3. l[i] = IF f[1] = 1 THEN IF 0 = g[i] THEN 0 ELSE 1 ELSE 0
      BY <1>4, <2>5
    <3> HIDE DEF k
    <3> QED
      BY <1>10, <2>1, <2>2, <2>3, <3>1, <3>3
  <2> QED
    BY <2>4, <2>5
<1>12. q = l
  BY <1>4, <1>9, <1>11, SameReg
<1> QED
  BY <1>8, <1>12 DEF q, l, f, r, z, t, d, e, Step

TermSteps(h, g, w, bs, n) == h[0] = {} /\ \A k \in 1 .. n : h[k] = Step(h[k - 1], g, w, bs[k])

LEMMA ModuloFold ==
  ASSUME NEW w \in Nat \ {0}, NEW g \in Regs(w), NEW n \in Nat, NEW bs, DOMAIN bs = 1 .. n,
         \A i \in 1 .. n : bs[i] \in 0 .. 1
  PROVE  \E h : TermSteps(h, g, w, bs, n) /\ Modulo(bs, g, g) = Register(h[n], w)
<1> DEFINE D == SUBSET (1 .. n)
           A == SUBSET (0 .. w - 1)
           Q(f) == f = [u \in D |-> IF u = {} THEN {} ELSE Step(f[u \ {Max(u)}], g, w, bs[Max(u)])]
           F == [k \in 1 .. n |-> [r \in A |-> Step(r, g, w, bs[k])]]
           c == CHOOSE f : Q(f)
<1>0. Len(g) = w
  BY RegIs
<1>1. n \in Nat
  OBVIOUS
<1>2. \A k \in 1 .. n : \A r \in A : Step(r, g, w, bs[k]) \in A
  <2>1. \A k \in 1 .. n : bs[k] \in 0 .. 1
    OBVIOUS
  <2> QED
    BY <2>1, StepRolls
<1>3. \A k \in 1 .. n : \A r \in A : F[k][r] = Step(r, g, w, bs[k]) /\ F[k][r] \in A
  BY <1>2
<1>4. {} \in A
  OBVIOUS
<1> HIDE DEF F, A
<1>5. PICK f : Folds(f, {}, F, n) /\ \A u \in D : f[u] \in A
  BY <1>1, <1>3, <1>4, FoldExists
<1>6. \A u \in D : u # {} => F[Max(u)][f[u \ {Max(u)}]] = Step(f[u \ {Max(u)}], g, w, bs[Max(u)])
  <2>1. \A u \in D : u # {} => Max(u) \in 1 .. n /\ u \ {Max(u)} \in D
    BY <1>1, MaxOf
  <2> QED
    BY <1>3, <1>5, <2>1
<1>7. Q(f)
  BY <1>5, <1>6, Zenon DEF Folds
<1>8. Q(c)
  BY <1>7, Zenon
<1>9. Modulo(bs, g, g) = Register(c[1 .. n], w)
  <2>1. Modulo(bs, g, g) = Register((CHOOSE h : h = [u \in SUBSET DOMAIN bs |->
                  IF u = {} THEN {} ELSE Step(h[u \ {Max(u)}], g, Len(g), bs[Max(u)])])[DOMAIN bs], Len(g))
    BY Zenon DEF Modulo, Register, Step, FoldLeft, MapThenFoldSet
  <2>2. DOMAIN bs = 1 .. n
    OBVIOUS
  <2> QED
    <3>1. Modulo(bs, g, g) = Register((CHOOSE h : h = [u \in SUBSET DOMAIN bs |->
                  IF u = {} THEN {} ELSE Step(h[u \ {Max(u)}], g, w, bs[Max(u)])])[DOMAIN bs], w)
      BY <1>0, <2>1
    <3> QED
      BY <2>2, <3>1, Zenon
<1> HIDE DEF c
<1>10. \A u \in D : c[u] = IF u = {} THEN {} ELSE Step(c[u \ {Max(u)}], g, w, bs[Max(u)])
  BY <1>8, Zenon
<1> HIDE DEF Q
<1>11. /\ 1 .. 0 = {} /\ 1 .. 0 \in D
       /\ \A k \in 1 .. n : /\ 1 .. k # {} /\ Max(1 .. k) = k /\ (1 .. k) \ {k} = 1 .. (k - 1)
                            /\ 1 .. k \in D
  BY <1>1, Beginnings
<1> HIDE DEF D
<1>12. c[1 .. 0] = {}
  BY <1>10, <1>11, Zenon
<1>13. ASSUME NEW k \in 1 .. n
       PROVE  c[1 .. k] = Step(c[1 .. (k - 1)], g, w, bs[k])
  <2>1. 1 .. k # {} /\ Max(1 .. k) = k /\ (1 .. k) \ {k} = 1 .. (k - 1) /\ 1 .. k \in D
    BY <1>11, Zenon
  <2> QED
    BY <1>10, <2>1, Zenon
<1> DEFINE h == [k \in 0 .. n |-> c[1 .. k]]
<1>14. \A k \in 0 .. n : h[k] = c[1 .. k]
  OBVIOUS
<1> HIDE DEF h
<1>15. 0 \in 0 .. n /\ n \in 0 .. n /\ \A k \in 1 .. n : k \in 0 .. n /\ k - 1 \in 0 .. n
  BY <1>1
<1>16. h[0] = {} /\ Modulo(bs, g, g) = Register(h[n], w)
  BY <1>9, <1>12, <1>14, <1>15, Zenon
<1>17. ASSUME NEW k \in 1 .. n
       PROVE  h[k] = Step(h[k - 1], g, w, bs[k])
  <2>1. h[k] = c[1 .. k] /\ h[k - 1] = c[1 .. (k - 1)]
    BY <1>14, <1>15, Zenon
  <2> QED
    BY <1>13, <2>1, Zenon
<1>18. TermSteps(h, g, w, bs, n)
  BY <1>16, <1>17 DEF TermSteps
<1> QED
  BY <1>16, <1>18

LEMMA ModuloSerial ==
  ASSUME NEW w, NEW g, NEW n, NEW bs, DOMAIN bs = 1 .. n, NEW s, Serial(s, w, g, Zeros(w), bs, n)
  PROVE  Modulo(bs, g, g) = s[n]
<1>1. /\ w \in Nat \ {0} /\ g \in Regs(w) /\ n \in Nat /\ \A i \in 1 .. n : bs[i] \in 0 .. 1
      /\ s[0] = Zeros(w) /\ \A i \in 1 .. n : s[i] = RollLeft(Fed(s[i - 1], bs[i]), g)
  BY DEF Serial
<1>2. PICK h : TermSteps(h, g, w, bs, n) /\ Modulo(bs, g, g) = Register(h[n], w)
  BY <1>1, ModuloFold
<1>3. h[0] = {} /\ \A k \in 1 .. n : h[k] = Step(h[k - 1], g, w, bs[k])
  BY <1>2 DEF TermSteps
<1> DEFINE B == {k \in 0 .. n : Register(h[k], w) = s[k] /\ h[k] \in SUBSET (0 .. w - 1)}
<1>4. 0 \in B
  <2>1. Register({}, w) = Zeros(w)
    BY DEF Register, Zeros
  <2> QED
    <3>1. 0 \in 0 .. n /\ h[0] \in SUBSET (0 .. w - 1)
      BY <1>1, <1>3
    <3>2. Register(h[0], w) = s[0]
      BY <1>1, <1>3, <2>1, Zenon
    <3> QED
      BY <3>1, <3>2
<1>5. ASSUME NEW k \in Nat, k < n, k \in B
      PROVE  k + 1 \in B
  <2>1. k + 1 \in 1 .. n /\ (k + 1) - 1 = k /\ k + 1 \in 0 .. n
    BY <1>1, <1>5
  <2> DEFINE p == h[k]
             q == h[k + 1]
             c == bs[k + 1]
  <2>2. p \in SUBSET (0 .. w - 1) /\ Register(p, w) = s[k] /\ c \in 0 .. 1
    BY <1>1, <1>5, <2>1
  <2>3. q = Step(p, g, w, c) /\ s[k + 1] = RollLeft(Fed(s[k], c), g)
    <3>1. /\ h[k + 1] = Step(h[(k + 1) - 1], g, w, bs[k + 1])
          /\ s[k + 1] = RollLeft(Fed(s[(k + 1) - 1], bs[k + 1]), g)
      BY <1>1, <1>3, <2>1, Zenon
    <3> QED
      BY <2>1, <3>1, Zenon
  <2> HIDE DEF p, q, c
  <2>4. q \in SUBSET (0 .. w - 1) /\ Register(q, w) = s[k + 1]
    BY <1>1, <2>2, <2>3, StepRolls
  <2> QED
    BY <2>1, <2>4 DEF q
<1> HIDE DEF B
<1>6. \A k \in 0 .. n : k \in B
  BY <1>1, <1>4, <1>5, UpTo
<1>7. n \in B
  BY <1>1, <1>6
<1> QED
  BY <1>2, <1>7 DEF B

\* The first bits of c are the sums of those of b and x.
Added(c, b, x, w, n) ==
  \A i \in 1 .. n : c[i] = IF i <= w THEN (b[i] + x[i]) % 2 ELSE b[i]

\* An initial value added to the first bits does what it does in the register.
LEMMA InitAdded ==
  ASSUME NEW w, NEW g, NEW x \in Regs(w), NEW n, w <= n, NEW b, NEW c, NEW s, NEW t,
         Serial(s, w, g, x, b, n), Serial(t, w, g, Zeros(w), c, n),
         Added(c, b, x, w, n)
  PROVE  s[n] = t[n]
<1> DEFINE u == [i \in 0 .. n |-> Xor(s[i], t[i])]
           e == [i \in 1 .. n |-> IF b[i] = c[i] THEN 0 ELSE 1]
           y == Xor(x, Zeros(w))
<1>1. /\ w \in Nat \ {0} /\ g \in Regs(w) /\ n \in Nat /\ \A i \in 1 .. n : b[i] \in 0 .. 1
      /\ s \in [0 .. n -> Regs(w)] /\ t \in [0 .. n -> Regs(w)]
  BY DEF Serial
<1>2. Serial(u, w, g, y, e, n)
  BY SerialXor
<1>3. /\ \A i \in 1 .. w : e[i] = x[i]
      /\ \A i \in 1 .. n : i > w => e[i] = 0
  <2>1. \A i \in 1 .. w : i \in 1 .. n /\ i <= w
    BY <1>1
  <2>2. \A i \in 1 .. w : x[i] \in 0 .. 1
    BY <1>1, RegIs
  <2>3. \A p, q \in 0 .. 1 : (IF p = (p + q) % 2 THEN 0 ELSE 1) = q
    OBVIOUS
  <2>4. ASSUME NEW i \in 1 .. w
        PROVE  e[i] = x[i]
    <3>1. c[i] = (b[i] + x[i]) % 2 /\ i \in 1 .. n
      BY <2>1 DEF Added
    <3>2. e[i] = IF b[i] = (b[i] + x[i]) % 2 THEN 0 ELSE 1
      BY <3>1
    <3>3. b[i] \in 0 .. 1 /\ x[i] \in 0 .. 1
      BY <1>1, <2>2, <3>1
    <3> HIDE DEF e
    <3> QED
      BY <2>3, <3>2, <3>3, Zenon
  <2>5. \A i \in 1 .. n : i > w => c[i] = b[i]
    <3>1. \A i \in 1 .. n : i > w => ~(i <= w)
      BY <1>1
    <3> QED
      BY <3>1 DEF Added
  <2> QED
    BY <2>4, <2>5
<1>4. u[0] = y /\ u[n] = Xor(s[n], t[n])
  BY <1>1, <1>2 DEF Serial
<1> HIDE DEF u, e, y
<1>5. u[w] = Zeros(w)
  <2>1. PICK l \in Nat : l = w
    BY <1>1
  <2>0. PICK k \in Nat : k = 0
    OBVIOUS
  <2>2. k + l <= n /\ l <= w /\ k + l = w
    BY <1>1, <2>0, <2>1
  <2>3. Slice(e, e, k, l)
    BY <2>0, <2>1 DEF Slice
  <2>r. LoadRolls(u, w, g, k, e, l)
    BY <1>2, <2>2, <2>3, SerialLoad
  <2> DEFINE v == Load(e, l, w)
  <2>4. v \in Regs(w)
    BY <2>r DEF LoadRolls
  <2>5. PICK z : Serial(z, w, g, Xor(u[k], v), Zeros(l), l) /\ u[k + l] = z[l]
    BY <2>r DEF LoadRolls
  <2>6. \A i \in 1 .. w : v[i] = x[i]
    BY <1>3, <2>1 DEF Load
  <2> HIDE DEF v
  <2>7. v = x
    BY <1>1, <2>4, <2>6, SameReg
  <2>8. u[k] = x
    <3>1. Zeros(w) \in Regs(w) /\ \A i \in 1 .. w : Zeros(w)[i] = 0
      BY <1>1, ZerosIs
    <3>2. Xor(x, Zeros(w)) \in Regs(w) /\ \A i \in 1 .. w : Xor(x, Zeros(w))[i] = IF x[i] = 0 THEN 0 ELSE 1
      BY <1>1, <3>1, XorIs
    <3>3. \A i \in 1 .. w : x[i] \in 0 .. 1
      BY <1>1, RegIs
    <3>4. \A i \in 1 .. w : Xor(x, Zeros(w))[i] = x[i]
      BY <3>2, <3>3
    <3>5. Xor(x, Zeros(w)) = x
      BY <1>1, <3>2, <3>4, SameReg
    <3> QED
      BY <1>4, <2>0, <3>5 DEF y
  <2>9. Xor(u[k], v) = Zeros(w)
    BY <1>1, <2>7, <2>8, XorSame
  <2>10. Serial(z, w, g, Zeros(w), Zeros(l), l)
    BY <2>5, <2>9
  <2>11. z[l] = Zeros(w)
    BY <2>10, ZeroSerial
  <2> QED
    BY <2>2, <2>5, <2>11
<1>6. u[n] = Zeros(w)
  <2>1. PICK l \in Nat : l = n - w
    BY <1>1
  <2>2. PICK k \in Nat : k = w
    BY <1>1
  <2>3. k + l <= n /\ k + l = n /\ u[k] = Zeros(w)
    BY <1>1, <1>5, <2>1, <2>2
  <2>4. \A i \in 1 .. l : e[k + i] = 0
    BY <1>1, <1>3, <2>1, <2>2
  <2>5. u[k + l] = Zeros(w)
    BY <1>2, <2>3, <2>4, SerialZeros
  <2> QED
    BY <2>3, <2>5
<1>7. n \in 0 .. n /\ s[n] \in Regs(w) /\ t[n] \in Regs(w)
  BY <1>1
<1>8. \A i \in 1 .. w : s[n][i] = t[n][i]
  <2>1. \A i \in 1 .. w : Xor(s[n], t[n])[i] = IF s[n][i] = t[n][i] THEN 0 ELSE 1
    BY <1>1, <1>7, XorIs
  <2>2. \A i \in 1 .. w : Zeros(w)[i] = 0
    BY <1>1, ZerosIs
  <2> QED
    BY <1>4, <1>6, <2>1, <2>2
<1> QED
  BY <1>1, <1>7, <1>8, SameReg

LEMMA CrcSerial ==
  ASSUME NEW w, NEW g, NEW x \in Regs(w), NEW m \in Seq(0 .. 1), w <= Len(m),
         NEW s, Serial(s, w, g, x, m, Len(m))
  PROVE  Crc(m, g, x) = s[Len(m)]
<1> DEFINE n == Len(m)
           c == [i \in DOMAIN m |-> IF i <= Len(x) THEN (m[i] + x[i]) % 2 ELSE m[i]]
<1>1. w \in Nat \ {0} /\ g \in Regs(w) /\ n \in Nat /\ \A i \in 1 .. n : m[i] \in 0 .. 1
  BY DEF Serial
<1>2. Len(x) = w /\ DOMAIN m = 1 .. n /\ \A i \in 1 .. w : x[i] \in 0 .. 1
  BY <1>1, RegIs
<1>3. DOMAIN c = 1 .. n /\ \A i \in 1 .. n : c[i] = IF i <= w THEN (m[i] + x[i]) % 2 ELSE m[i]
  BY <1>2
<1>4. Crc(m, g, x) = Modulo(c, g, g)
  BY DEF Crc
<1> HIDE DEF n, c
<1>5. \A i \in 1 .. n : c[i] \in 0 .. 1
  <2>1. \A p, q \in 0 .. 1 : (p + q) % 2 \in 0 .. 1
    OBVIOUS
  <2>2. \A i \in 1 .. n : i <= w => i \in 1 .. w
    BY <1>1
  <2> QED
    BY <1>1, <1>2, <1>3, <2>1, <2>2
<1>6. Zeros(w) \in Regs(w)
  BY <1>1, ZerosIs
<1>7. PICK t : Serial(t, w, g, Zeros(w), c, n)
  BY <1>1, <1>5, <1>6, SerialExists
<1>8. Modulo(c, g, g) = t[n]
  BY <1>3, <1>7, ModuloSerial
<1>9. s[n] = t[n]
  <2>1. w <= n /\ Serial(s, w, g, x, m, n) /\ Added(c, m, x, w, n)
    BY <1>3 DEF n, Added
  <2> QED
    BY <1>7, <2>1, InitAdded
<1> QED
  BY <1>4, <1>8, <1>9 DEF n

-----------------------------------------------------------------------------
(* What the checksums find, whatever the message.                           *)

WholeBytes == {m \in Seq(0 .. 1) : Len(m) % 8 = 0}

\* Two messages of the same size that differ, but only in `width' successive bits.
BurstApart(m, r, width) ==
  /\ Len(m) = Len(r) /\ m # r
  /\ \E k \in Nat : \A i \in DOMAIN m : m[i] # r[i] => i \in k + 1 .. k + width

LEMMA BytesInWhole ==
  ASSUME NEW m \in WholeBytes
  PROVE  /\ m \in Seq(0 .. 1) /\ Len(m) \in Nat
         /\ \E N \in Nat : Len(m) = 8 * N
<1>1. m \in Seq(0 .. 1) /\ Len(m) \in Nat /\ Len(m) % 8 = 0
  BY DEF WholeBytes
<1>2. Len(m) \div 8 \in Nat /\ Len(m) = 8 * (Len(m) \div 8)
  BY <1>1
<1> QED
  BY <1>1, <1>2

LEMMA MessageSerial ==
  ASSUME NEW w \in Nat \ {0}, NEW g \in Regs(w), NEW x \in Regs(w), NEW m \in Seq(0 .. 1)
  PROVE  \E s : Serial(s, w, g, x, m, Len(m))
<1>1. Len(m) \in Nat /\ \A i \in 1 .. Len(m) : m[i] \in 0 .. 1
  OBVIOUS
<1> QED
  BY <1>1, SerialExists

LEMMA BurstSerial ==
  ASSUME NEW w, NEW g, g[w] = 1, NEW x, NEW m \in WholeBytes, NEW r \in WholeBytes, BurstApart(m, r, w),
         NEW s, Serial(s, w, g, x, m, Len(m)), NEW t, Serial(t, w, g, x, r, Len(r))
  PROVE  s[Len(m)] # t[Len(r)]
<1> DEFINE n == Len(m)
<1>1. n = Len(r) /\ n \in Nat /\ m # r /\ m \in Seq(0 .. 1) /\ r \in Seq(0 .. 1) /\ DOMAIN m = 1 .. n
  BY DEF BurstApart, WholeBytes
<1>2. PICK j \in 1 .. n : m[j] # r[j]
  BY <1>1
<1>3. PICK k \in Nat : \A i \in 1 .. n : m[i] # r[i] => i \in k + 1 .. k + w
  BY <1>1 DEF BurstApart
<1>4. Serial(s, w, g, x, m, n) /\ Serial(t, w, g, x, r, n)
  BY <1>1
<1> HIDE DEF n
<1>5. s[n] # t[n]
  BY <1>2, <1>3, <1>4, BurstRemains
<1> QED
  BY <1>1, <1>5 DEF n

\* crc4 and crc7 (bit_util.c) find every error that lies within as many successive bits as
\* they have themselves, in whatever message.
THEOREM ShortCrcFindsBursts ==
  ASSUME NEW w \in 1 .. 8,
         NEW polynomial \in Regs(w), polynomial[w] = 1, NEW init \in Regs(w),
         NEW m \in WholeBytes, NEW r \in WholeBytes, BurstApart(m, r, w)
  PROVE  ShortCrc(m, polynomial, init) # ShortCrc(r, polynomial, init)
<1>0. w \in Nat \ {0}
  OBVIOUS
<1>1. /\ m \in Seq(0 .. 1) /\ \E N \in Nat : Len(m) = 8 * N
      /\ r \in Seq(0 .. 1) /\ \E N \in Nat : Len(r) = 8 * N
  BY BytesInWhole
<1>2. PICK M \in Nat : Len(m) = 8 * M
  BY <1>1
<1>3. PICK R \in Nat : Len(r) = 8 * R
  BY <1>1
<1>4. PICK s : Serial(s, w, polynomial, init, m, Len(m))
  BY <1>0, <1>1, MessageSerial
<1>5. PICK t : Serial(t, w, polynomial, init, r, Len(r))
  BY <1>0, <1>1, MessageSerial
<1>6. ShortCrc(m, polynomial, init) = s[Len(m)]
  <2>1. Serial(s, w, polynomial, init, m, 8 * M)
    BY <1>2, <1>4
  <2>2. ShortCrc(m, polynomial, init) = s[8 * M]
    BY <1>1, <1>2, <2>1, ShortCrcSerial
  <2> QED
    BY <1>2, <2>2
<1>7. ShortCrc(r, polynomial, init) = t[Len(r)]
  <2>1. Serial(t, w, polynomial, init, r, 8 * R)
    BY <1>3, <1>5
  <2>2. ShortCrc(r, polynomial, init) = t[8 * R]
    BY <1>1, <1>3, <2>1, ShortCrcSerial
  <2> QED
    BY <1>3, <2>2
<1> QED
  BY <1>4, <1>5, <1>6, <1>7, BurstSerial, Zenon

\* crc8 (bit_util.c) finds every error that lies within eight successive bits, in whatever
\* message, with every polynomial that ends with a 1 and from every initial value.
THEOREM Crc8FindsBursts ==
  ASSUME NEW polynomial \in Regs(8), polynomial[8] = 1, NEW init \in Regs(8),
         NEW m \in WholeBytes, NEW r \in WholeBytes, BurstApart(m, r, 8)
  PROVE  crc8(m, polynomial, init) # crc8(r, polynomial, init)
<1>0. 8 \in Nat \ {0}
  OBVIOUS
<1>1. /\ m \in Seq(0 .. 1) /\ \E N \in Nat : Len(m) = 8 * N
      /\ r \in Seq(0 .. 1) /\ \E N \in Nat : Len(r) = 8 * N
  BY BytesInWhole
<1>2. PICK M \in Nat : Len(m) = 8 * M
  BY <1>1
<1>3. PICK R \in Nat : Len(r) = 8 * R
  BY <1>1
<1>4. PICK s : Serial(s, 8, polynomial, init, m, Len(m))
  BY <1>0, <1>1, MessageSerial
<1>5. PICK t : Serial(t, 8, polynomial, init, r, Len(r))
  BY <1>0, <1>1, MessageSerial
<1>6. crc8(m, polynomial, init) = s[Len(m)]
  <2>1. Serial(s, 8, polynomial, init, m, 8 * M)
    BY <1>2, <1>4
  <2>2. crc8(m, polynomial, init) = s[8 * M]
    BY <1>1, <1>2, <2>1, Crc8Serial
  <2> QED
    BY <1>2, <2>2
<1>7. crc8(r, polynomial, init) = t[Len(r)]
  <2>1. Serial(t, 8, polynomial, init, r, 8 * R)
    BY <1>3, <1>5
  <2>2. crc8(r, polynomial, init) = t[8 * R]
    BY <1>1, <1>3, <2>1, Crc8Serial
  <2> QED
    BY <1>3, <2>2
<1> QED
  BY <1>4, <1>5, <1>6, <1>7, BurstSerial, Zenon

\* crc16 (bit_util.c) finds every error that lies within sixteen successive bits.
THEOREM Crc16FindsBursts ==
  ASSUME NEW polynomial \in Regs(16), polynomial[16] = 1, NEW init \in Regs(16),
         NEW m \in WholeBytes, NEW r \in WholeBytes, BurstApart(m, r, 16)
  PROVE  crc16(m, polynomial, init) # crc16(r, polynomial, init)
<1>0. 16 \in Nat \ {0}
  OBVIOUS
<1>1. /\ m \in Seq(0 .. 1) /\ \E N \in Nat : Len(m) = 8 * N
      /\ r \in Seq(0 .. 1) /\ \E N \in Nat : Len(r) = 8 * N
  BY BytesInWhole
<1>2. PICK M \in Nat : Len(m) = 8 * M
  BY <1>1
<1>3. PICK R \in Nat : Len(r) = 8 * R
  BY <1>1
<1>4. PICK s : Serial(s, 16, polynomial, init, m, Len(m))
  BY <1>0, <1>1, MessageSerial
<1>5. PICK t : Serial(t, 16, polynomial, init, r, Len(r))
  BY <1>0, <1>1, MessageSerial
<1>6. crc16(m, polynomial, init) = s[Len(m)]
  <2>1. Serial(s, 16, polynomial, init, m, 8 * M)
    BY <1>2, <1>4
  <2>2. crc16(m, polynomial, init) = s[8 * M]
    BY <1>1, <1>2, <2>1, Crc16Serial
  <2> QED
    BY <1>2, <2>2
<1>7. crc16(r, polynomial, init) = t[Len(r)]
  <2>1. Serial(t, 16, polynomial, init, r, 8 * R)
    BY <1>3, <1>5
  <2>2. crc16(r, polynomial, init) = t[8 * R]
    BY <1>1, <1>3, <2>1, Crc16Serial
  <2> QED
    BY <1>3, <2>2
<1> QED
  BY <1>4, <1>5, <1>6, <1>7, BurstSerial, Zenon

\* The registers of crc4 and crc7, fed a byte at a time, compute the remainder that the
\* mathematics of cyclic codes defines, in the top bits of a byte.
THEOREM ShortCrcIsRemainder ==
  ASSUME NEW w \in 1 .. 8,
         NEW polynomial \in Regs(w), NEW init \in Regs(w),
         NEW m \in WholeBytes, m # <<>>
  PROVE  ShortCrc(m, polynomial, init) = Crc(m, polynomial, init)
<1>0. w \in Nat \ {0}
  OBVIOUS
<1>1. /\ m \in Seq(0 .. 1) /\ \E N \in Nat : Len(m) = 8 * N
  BY BytesInWhole
<1>2. PICK M \in Nat : Len(m) = 8 * M
  BY <1>1
<1>3. w <= Len(m)
  BY <1>1, <1>2
<1>4. PICK s : Serial(s, w, polynomial, init, m, Len(m))
  BY <1>0, <1>1, MessageSerial
<1>6. ShortCrc(m, polynomial, init) = s[Len(m)]
  <2>1. Serial(s, w, polynomial, init, m, 8 * M)
    BY <1>2, <1>4
  <2>2. ShortCrc(m, polynomial, init) = s[8 * M]
    BY <1>1, <1>2, <2>1, ShortCrcSerial
  <2> QED
    BY <1>2, <2>2
<1>7. Crc(m, polynomial, init) = s[Len(m)]
  BY <1>1, <1>3, <1>4, CrcSerial, Zenon
<1> QED
  BY <1>6, <1>7

\* crc8 computes the remainder of the message times x^8, the initial value added to its
\* first byte; of no message at all it returns the initial value.
THEOREM Crc8IsRemainder ==
  ASSUME NEW polynomial \in Regs(8), NEW init \in Regs(8),
         NEW m \in WholeBytes, m # <<>>
  PROVE  crc8(m, polynomial, init) = Crc(m, polynomial, init)
<1>0. 8 \in Nat \ {0}
  OBVIOUS
<1>1. /\ m \in Seq(0 .. 1) /\ \E N \in Nat : Len(m) = 8 * N
  BY BytesInWhole
<1>2. PICK M \in Nat : Len(m) = 8 * M
  BY <1>1
<1>3. 8 <= Len(m)
  BY <1>1, <1>2
<1>4. PICK s : Serial(s, 8, polynomial, init, m, Len(m))
  BY <1>0, <1>1, MessageSerial
<1>6. crc8(m, polynomial, init) = s[Len(m)]
  <2>1. Serial(s, 8, polynomial, init, m, 8 * M)
    BY <1>2, <1>4
  <2>2. crc8(m, polynomial, init) = s[8 * M]
    BY <1>1, <1>2, <2>1, Crc8Serial
  <2> QED
    BY <1>2, <2>2
<1>7. Crc(m, polynomial, init) = s[Len(m)]
  BY <1>1, <1>3, <1>4, CrcSerial, Zenon
<1> QED
  BY <1>6, <1>7

\* crc16 computes the remainder of the message times x^16 if the message has the two bytes
\* that the initial value is added to.
THEOREM Crc16IsRemainder ==
  ASSUME NEW polynomial \in Regs(16), NEW init \in Regs(16),
         NEW m \in WholeBytes, Len(m) >= 16
  PROVE  crc16(m, polynomial, init) = Crc(m, polynomial, init)
<1>0. 16 \in Nat \ {0}
  OBVIOUS
<1>1. /\ m \in Seq(0 .. 1) /\ \E N \in Nat : Len(m) = 8 * N
  BY BytesInWhole
<1>2. PICK M \in Nat : Len(m) = 8 * M
  BY <1>1
<1>3. 16 <= Len(m)
  BY <1>1, <1>2
<1>4. PICK s : Serial(s, 16, polynomial, init, m, Len(m))
  BY <1>0, <1>1, MessageSerial
<1>6. crc16(m, polynomial, init) = s[Len(m)]
  <2>1. Serial(s, 16, polynomial, init, m, 8 * M)
    BY <1>2, <1>4
  <2>2. crc16(m, polynomial, init) = s[8 * M]
    BY <1>1, <1>2, <2>1, Crc16Serial
  <2> QED
    BY <1>2, <2>2
<1>7. Crc(m, polynomial, init) = s[Len(m)]
  BY <1>1, <1>3, <1>4, CrcSerial, Zenon
<1> QED
  BY <1>6, <1>7

\* Decoders that run crc8 over a message and the checksum behind it may ask for 0: what was
\* sent with its own checksum leaves nothing.
THEOREM Crc8OfOwnIsZero ==
  ASSUME NEW polynomial \in Regs(8), NEW init \in Regs(8), NEW m \in WholeBytes
  PROVE  crc8(m \o crc8(m, polynomial, init), polynomial, init) = Zeros(8)
<1>0. 8 \in Nat \ {0}
  OBVIOUS
<1>1. /\ m \in Seq(0 .. 1) /\ Len(m) \in Nat /\ \E N \in Nat : Len(m) = 8 * N
  BY BytesInWhole
<1>2. PICK M \in Nat : Len(m) = 8 * M
  BY <1>1
<1>3. PICK p : Serial(p, 8, polynomial, init, m, 8 * M)
  BY <1>0, <1>1, <1>2, MessageSerial
<1> DEFINE c == crc8(m, polynomial, init)
           a == m \o c
<1>4. c = p[8 * M]
  BY <1>1, <1>2, <1>3, Crc8Serial
<1>5. c \in Regs(8)
  <2>1. p \in [0 .. 8 * M -> Regs(8)] /\ 8 * M \in 0 .. 8 * M
    BY <1>3 DEF Serial
  <2> QED
    BY <1>4, <2>1
<1>6. c \in Seq(0 .. 1) /\ Len(c) = 8
  BY <1>0, <1>5, RegIs
<1> HIDE DEF c
<1>7. /\ a \in Seq(0 .. 1) /\ Len(a) = Len(m) + Len(c)
      /\ \A i \in 1 .. Len(m) + Len(c) : a[i] = IF i <= Len(m) THEN m[i] ELSE c[i - Len(m)]
  BY <1>1, <1>6, ConcatProperties, Zenon
<1> HIDE DEF a
<1>8. PICK A \in Nat : Len(a) = 8 * A
  <2>1. Len(a) = 8 * (M + 8 \div 8)
    BY <1>2, <1>6, <1>7
  <2> QED
    BY <2>1
<1>9. PICK s : Serial(s, 8, polynomial, init, a, Len(a))
  BY <1>0, <1>7, MessageSerial
<1>10. crc8(a, polynomial, init) = s[Len(a)]
  <2>1. Serial(s, 8, polynomial, init, a, 8 * A)
    BY <1>8, <1>9
  <2>2. crc8(a, polynomial, init) = s[8 * A]
    BY <1>7, <1>8, <2>1, Crc8Serial
  <2> QED
    BY <1>8, <2>2
<1>11. s[Len(m)] = c
  <2>1. s \in [0 .. Len(a) -> Regs(8)] /\ s[0] = init /\ \A i \in 1 .. Len(a) : s[i] = RollLeft(Fed(s[i - 1], a[i]), polynomial)
    BY <1>9 DEF Serial
  <2>2. p[0] = init /\ \A i \in 1 .. Len(m) : p[i] = RollLeft(Fed(p[i - 1], m[i]), polynomial)
    BY <1>2, <1>3 DEF Serial
  <2> DEFINE B == {i \in 0 .. Len(m) : s[i] = p[i]}
  <2>3. 0 \in B
    BY <1>1, <2>1, <2>2
  <2>4. ASSUME NEW k \in Nat, k < Len(m), k \in B
        PROVE  k + 1 \in B
    <3>1. k + 1 \in 1 .. Len(m) /\ k + 1 \in 1 .. Len(a) /\ (k + 1) - 1 = k /\ k + 1 \in 0 .. Len(m)
      BY <1>1, <1>6, <1>7, <2>4
    <3>2. a[k + 1] = m[k + 1] /\ s[k] = p[k]
      BY <1>1, <1>6, <1>7, <2>4, <3>1
    <3>3. s[k + 1] = RollLeft(Fed(s[k], a[k + 1]), polynomial)
      BY <2>1, <3>1
    <3>4. p[k + 1] = RollLeft(Fed(p[k], m[k + 1]), polynomial)
      BY <2>2, <3>1
    <3>5. s[k + 1] = p[k + 1]
      BY <3>2, <3>3, <3>4
    <3> QED
      BY <3>1, <3>5
  <2> HIDE DEF B
  <2>5. \A i \in 0 .. Len(m) : i \in B
    BY <1>1, <2>3, <2>4, UpTo
  <2>6. Len(m) \in B
    BY <1>1, <2>5
  <2>7. s[Len(m)] = p[Len(m)]
    BY <2>6 DEF B
  <2> QED
    BY <1>2, <1>4, <2>7
<1>12. \A i \in 1 .. 8 : a[Len(m) + i] = s[Len(m)][i]
  <2> SUFFICES ASSUME NEW i \in 1 .. 8
               PROVE  a[Len(m) + i] = s[Len(m)][i]
    OBVIOUS
  <2>1. Len(m) + i \in 1 .. Len(m) + Len(c) /\ ~(Len(m) + i <= Len(m)) /\ (Len(m) + i) - Len(m) = i
    BY <1>1, <1>6
  <2>2. a[Len(m) + i] = c[i]
    BY <1>7, <2>1
  <2> QED
    BY <1>11, <2>2
<1>13. s[Len(a)] = Zeros(8)
  <2>1. Len(a) = Len(m) + 8
    BY <1>6, <1>7
  <2> QED
    <3>1. Slice(s[Len(m)], a, Len(m), 8)
      BY <1>12 DEF Slice
    <3> QED
      BY <1>1, <1>9, <2>1, <3>1, OwnRemainder
<1> QED
  BY <1>10, <1>13 DEF a, c

\* A message with its own crc16 behind it leaves 0 when crc16 runs over both.
THEOREM Crc16OfOwnIsZero ==
  ASSUME NEW polynomial \in Regs(16), NEW init \in Regs(16), NEW m \in WholeBytes
  PROVE  crc16(m \o crc16(m, polynomial, init), polynomial, init) = Zeros(16)
<1>0. 16 \in Nat \ {0}
  OBVIOUS
<1>1. /\ m \in Seq(0 .. 1) /\ Len(m) \in Nat /\ \E N \in Nat : Len(m) = 8 * N
  BY BytesInWhole
<1>2. PICK M \in Nat : Len(m) = 8 * M
  BY <1>1
<1>3. PICK p : Serial(p, 16, polynomial, init, m, 8 * M)
  BY <1>0, <1>1, <1>2, MessageSerial
<1> DEFINE c == crc16(m, polynomial, init)
           a == m \o c
<1>4. c = p[8 * M]
  BY <1>1, <1>2, <1>3, Crc16Serial
<1>5. c \in Regs(16)
  <2>1. p \in [0 .. 8 * M -> Regs(16)] /\ 8 * M \in 0 .. 8 * M
    BY <1>3 DEF Serial
  <2> QED
    BY <1>4, <2>1
<1>6. c \in Seq(0 .. 1) /\ Len(c) = 16
  BY <1>0, <1>5, RegIs
<1> HIDE DEF c
<1>7. /\ a \in Seq(0 .. 1) /\ Len(a) = Len(m) + Len(c)
      /\ \A i \in 1 .. Len(m) + Len(c) : a[i] = IF i <= Len(m) THEN m[i] ELSE c[i - Len(m)]
  BY <1>1, <1>6, ConcatProperties, Zenon
<1> HIDE DEF a
<1>8. PICK A \in Nat : Len(a) = 8 * A
  <2>1. Len(a) = 8 * (M + 16 \div 8)
    BY <1>2, <1>6, <1>7
  <2> QED
    BY <2>1
<1>9. PICK s : Serial(s, 16, polynomial, init, a, Len(a))
  BY <1>0, <1>7, MessageSerial
<1>10. crc16(a, polynomial, init) = s[Len(a)]
  <2>1. Serial(s, 16, polynomial, init, a, 8 * A)
    BY <1>8, <1>9
  <2>2. crc16(a, polynomial, init) = s[8 * A]
    BY <1>7, <1>8, <2>1, Crc16Serial
  <2> QED
    BY <1>8, <2>2
<1>11. s[Len(m)] = c
  <2>1. s \in [0 .. Len(a) -> Regs(16)] /\ s[0] = init /\ \A i \in 1 .. Len(a) : s[i] = RollLeft(Fed(s[i - 1], a[i]), polynomial)
    BY <1>9 DEF Serial
  <2>2. p[0] = init /\ \A i \in 1 .. Len(m) : p[i] = RollLeft(Fed(p[i - 1], m[i]), polynomial)
    BY <1>2, <1>3 DEF Serial
  <2> DEFINE B == {i \in 0 .. Len(m) : s[i] = p[i]}
  <2>3. 0 \in B
    BY <1>1, <2>1, <2>2
  <2>4. ASSUME NEW k \in Nat, k < Len(m), k \in B
        PROVE  k + 1 \in B
    <3>1. k + 1 \in 1 .. Len(m) /\ k + 1 \in 1 .. Len(a) /\ (k + 1) - 1 = k /\ k + 1 \in 0 .. Len(m)
      BY <1>1, <1>6, <1>7, <2>4
    <3>2. a[k + 1] = m[k + 1] /\ s[k] = p[k]
      BY <1>1, <1>6, <1>7, <2>4, <3>1
    <3>3. s[k + 1] = RollLeft(Fed(s[k], a[k + 1]), polynomial)
      BY <2>1, <3>1
    <3>4. p[k + 1] = RollLeft(Fed(p[k], m[k + 1]), polynomial)
      BY <2>2, <3>1
    <3>5. s[k + 1] = p[k + 1]
      BY <3>2, <3>3, <3>4
    <3> QED
      BY <3>1, <3>5
  <2> HIDE DEF B
  <2>5. \A i \in 0 .. Len(m) : i \in B
    BY <1>1, <2>3, <2>4, UpTo
  <2>6. Len(m) \in B
    BY <1>1, <2>5
  <2>7. s[Len(m)] = p[Len(m)]
    BY <2>6 DEF B
  <2> QED
    BY <1>2, <1>4, <2>7
<1>12. \A i \in 1 .. 16 : a[Len(m) + i] = s[Len(m)][i]
  <2> SUFFICES ASSUME NEW i \in 1 .. 16
               PROVE  a[Len(m) + i] = s[Len(m)][i]
    OBVIOUS
  <2>1. Len(m) + i \in 1 .. Len(m) + Len(c) /\ ~(Len(m) + i <= Len(m)) /\ (Len(m) + i) - Len(m) = i
    BY <1>1, <1>6
  <2>2. a[Len(m) + i] = c[i]
    BY <1>7, <2>1
  <2> QED
    BY <1>11, <2>2
<1>13. s[Len(a)] = Zeros(16)
  <2>1. Len(a) = Len(m) + 16
    BY <1>6, <1>7
  <2> QED
    <3>1. Slice(s[Len(m)], a, Len(m), 16)
      BY <1>12 DEF Slice
    <3> QED
      BY <1>1, <1>9, <2>1, <3>1, OwnRemainder
<1> QED
  BY <1>10, <1>13 DEF a, c

-----------------------------------------------------------------------------
(* Bytes with the least significant bit first.                              *)

LEMMA BlockBound ==
  ASSUME NEW n \in Nat, NEW k \in Nat, NEW j \in 1 .. k, NEW i \in 1 .. n
  PROVE  n * (j - 1) + i \in 1 .. n * k /\ n * (k + 1) = n * k + n /\ n * k \in Nat
<1>1. n * (j - 1) + n = n * j
  OBVIOUS
<1>2. n * j <= n * k
  <2>1. k - j \in Nat /\ k = j + (k - j)
    OBVIOUS
  <2>2. n * (k - j) \in Nat
    BY <2>1
  <2>3. n * k = n * j + n * (k - j)
    BY <2>1
  <2> QED
    BY <2>2, <2>3
<1>3. n * (j - 1) \in Nat
  OBVIOUS
<1> QED
  BY <1>1, <1>2, <1>3

\* Blocks q of n elements, the first k of which make t.
Joined(t, q, n, k, S) ==
  /\ t \in Seq(S) /\ Len(t) = n * k
  /\ \A j \in 1 .. k : \A i \in 1 .. n : t[n * (j - 1) + i] = q[j][i]

LEMMA JoinNext ==
  ASSUME NEW S, NEW n \in Nat, NEW k \in Nat, NEW q, NEW t, Joined(t, q, n, k, S),
         q[k + 1] \in Seq(S), Len(q[k + 1]) = n
  PROVE  Joined(t \o q[k + 1], q, n, k + 1, S)
<1> DEFINE b == q[k + 1]
           u == t \o b
<1>0. b \in Seq(S) /\ Len(b) = n
  OBVIOUS
<1>1. t \in Seq(S) /\ Len(t) = n * k /\ \A j \in 1 .. k : \A i \in 1 .. n : t[n * (j - 1) + i] = q[j][i]
  BY DEF Joined
<1> HIDE DEF b
<1>2. /\ u \in Seq(S) /\ Len(u) = Len(t) + Len(b)
      /\ \A i \in 1 .. Len(t) + Len(b) : u[i] = IF i <= Len(t) THEN t[i] ELSE b[i - Len(t)]
  BY <1>0, <1>1, ConcatProperties, Zenon
<1> HIDE DEF u
<1>3. n * (k + 1) = n * k + n /\ n * k \in Nat
  OBVIOUS
<1>4. ASSUME NEW j \in 1 .. k + 1, NEW i \in 1 .. n
      PROVE  u[n * (j - 1) + i] = q[j][i]
  <2> DEFINE p == n * (j - 1) + i
  <2>1. CASE j \in 1 .. k
    <3>1. p \in 1 .. n * k
      BY <2>1, BlockBound
    <3>2. t[p] = q[j][i]
      BY <1>1, <2>1
    <3> HIDE DEF p
    <3>3. u[p] = t[p]
      BY <1>0, <1>1, <1>2, <1>3, <3>1
    <3> QED
      BY <3>2, <3>3 DEF p
  <2>2. CASE j = k + 1
    <3>1. p = n * k + i
      BY <2>2
    <3> HIDE DEF p
    <3>2. p \in 1 .. Len(t) + Len(b) /\ ~(p <= Len(t)) /\ p - Len(t) = i
      BY <1>0, <1>1, <1>3, <3>1
    <3>3. u[p] = b[i]
      BY <1>2, <3>2
    <3> QED
      BY <2>2, <3>3 DEF b, p
  <2> QED
    BY <2>1, <2>2
<1>5. Len(u) = n * (k + 1)
  BY <1>0, <1>1, <1>2, <1>3
<1> QED
  BY <1>2, <1>4, <1>5 DEF Joined, u, b

\* What FlattenSeq makes of blocks of one size.
LEMMA FlattenBlocks ==
  ASSUME NEW S, NEW n \in Nat, NEW N \in Nat, NEW q, q = [k \in 1 .. N |-> q[k]],
         \A k \in 1 .. N : q[k] \in Seq(S) /\ Len(q[k]) = n
  PROVE  Joined(FlattenSeq(q), q, n, N, S)
<1>0. q \in [1 .. N -> Seq(S)]
  OBVIOUS
<1>1. q \in Seq(Seq(S)) /\ Len(q) = N
  BY <1>0
<1>2. CASE N = 0
  <2>1. FlattenSeq(q) = q
    BY <1>1, <1>2 DEF FlattenSeq
  <2>2. q = <<>>
    BY <1>1, <1>2
  <2>3. q \in Seq(S) /\ Len(q) = n * N /\ 1 .. N = {}
    BY <1>2, <2>2
  <2> QED
    BY <2>1, <2>3 DEF Joined
<1>3. CASE N # 0
  <2> DEFINE Q(f) == f = [i \in 1 .. N |-> IF i = 1 THEN q[i] ELSE f[i - 1] \o q[i]]
             f == CHOOSE f : Q(f)
             F == [k \in 1 .. N |-> [t \in Seq(S) |-> IF k = 1 THEN q[k] ELSE t \o q[k]]]
             A == [k \in 0 .. N |-> Seq(S)]
  <2>1. FlattenSeq(q) = f[N]
    BY <1>1, <1>3 DEF FlattenSeq
  <2>2. \A k \in 1 .. N : \A t \in Seq(S) : F[k][t] = (IF k = 1 THEN q[k] ELSE t \o q[k]) /\ F[k][t] \in Seq(S)
    OBVIOUS
  <2>3. \A k \in 0 .. N : A[k] = Seq(S)
    OBVIOUS
  <2>4. <<>> \in A[0]
    OBVIOUS
  <2>5. \A k \in 1 .. N : k \in 0 .. N /\ k - 1 \in 0 .. N
    OBVIOUS
  <2> HIDE DEF F, A
  <2>6. ASSUME NEW k \in 1 .. N, NEW t \in A[k - 1]
        PROVE  F[k][t] \in A[k]
    BY <2>2, <2>3, <2>5
  <2>7. PICK g : Recurs(g, <<>>, F, N) /\ \A k \in 0 .. N : g[k] \in A[k]
    BY <2>4, <2>6, Iterates
  <2>8. \A k \in 1 .. N : g[k] = IF k = 1 THEN q[k] ELSE g[k - 1] \o q[k]
    <3>1. \A k \in 1 .. N : g[k] = F[k][g[k - 1]]
      BY <2>7, RecursAt
    <3>2. \A k \in 1 .. N : g[k - 1] \in Seq(S)
      BY <2>3, <2>5, <2>7
    <3> QED
      BY <2>2, <3>1, <3>2
  <2> DEFINE h == [k \in 1 .. N |-> g[k]]
  <2>9. Q(h)
    <3>1. \A k \in 1 .. N : h[k] = g[k]
      OBVIOUS
    <3>2. \A k \in 1 .. N : k # 1 => k - 1 \in 1 .. N
      OBVIOUS
    <3>3. h = [i \in 1 .. N |-> h[i]]
      OBVIOUS
    <3> HIDE DEF h
    <3>4. \A k \in 1 .. N : h[k] = IF k = 1 THEN q[k] ELSE h[k - 1] \o q[k]
      BY <2>8, <3>1, <3>2
    <3> QED
      BY <3>3, <3>4, Zenon
  <2> HIDE DEF h
  <2>10. Q(f)
    BY <2>9, Zenon
  <2> HIDE DEF f
  <2>11. \A k \in 1 .. N : f[k] = IF k = 1 THEN q[k] ELSE f[k - 1] \o q[k]
    BY <2>10, Zenon
  <2> HIDE DEF Q
  <2> DEFINE B == {k \in 0 .. N : k # 0 => Joined(f[k], q, n, k, S)}
  <2>12. 0 \in B
    OBVIOUS
  <2>13. ASSUME NEW k \in Nat, k < N, k \in B
         PROVE  k + 1 \in B
    <3>1. k + 1 \in 1 .. N /\ (k + 1) - 1 = k /\ k + 1 \in 0 .. N
      BY <2>13
    <3>2. q[k + 1] \in Seq(S) /\ Len(q[k + 1]) = n
      BY <3>1
    <3>3. CASE k = 0
      <4>1. f[1] = q[1] /\ k + 1 = 1
        BY <2>11, <3>1, <3>3
      <4>2. \A j \in 1 .. 1 : \A i \in 1 .. n : j = 1 /\ n * (j - 1) + i = i
        OBVIOUS
      <4>3. Joined(f[1], q, n, 1, S)
        BY <3>2, <4>1, <4>2 DEF Joined
      <4> QED
        BY <3>1, <4>1, <4>3
    <3>4. CASE k # 0
      <4>1. Joined(f[k], q, n, k, S)
        BY <2>13, <3>4
      <4>2. f[k + 1] = f[k] \o q[k + 1]
        <5>1. k + 1 # 1
          BY <3>4
        <5>2. f[k + 1] = f[(k + 1) - 1] \o q[k + 1]
          BY <2>11, <3>1, <5>1, Zenon
        <5> QED
          BY <3>1, <5>2, Zenon
      <4>3. Joined(f[k + 1], q, n, k + 1, S)
        BY <3>2, <4>1, <4>2, JoinNext
      <4> QED
        BY <3>1, <4>3
    <3> QED
      BY <3>3, <3>4
  <2> HIDE DEF B
  <2>14. \A k \in 0 .. N : k \in B
    BY <2>12, <2>13, UpTo
  <2>15. N \in B
    BY <2>14
  <2> QED
    BY <1>3, <2>1, <2>15 DEF B
<1> QED
  BY <1>2, <1>3

LEMMA ReverseIs ==
  ASSUME NEW w \in Nat, NEW r \in Regs(w)
  PROVE  /\ Reverse(r) \in Regs(w)
         /\ \A i \in 1 .. w : Reverse(r)[i] = r[(w - i) + 1]
<1>1. Len(r) = w /\ \A i \in 1 .. w : r[i] \in 0 .. 1 /\ (w - i) + 1 \in 1 .. w
  BY RegIs
<1> QED
  BY <1>1 DEF Reverse, Regs

LEMMA ReverseTwice ==
  ASSUME NEW w \in Nat, NEW r \in Regs(w)
  PROVE  Reverse(Reverse(r)) = r
<1> DEFINE q == Reverse(r)
<1>1. q \in Regs(w) /\ \A i \in 1 .. w : q[i] = r[(w - i) + 1]
  BY ReverseIs
<1> HIDE DEF q
<1>2. Reverse(q) \in Regs(w) /\ \A i \in 1 .. w : Reverse(q)[i] = q[(w - i) + 1]
  BY <1>1, ReverseIs
<1>3. \A i \in 1 .. w : (w - i) + 1 \in 1 .. w /\ (w - ((w - i) + 1)) + 1 = i
  OBVIOUS
<1>4. \A i \in 1 .. w : Reverse(q)[i] = r[i]
  BY <1>1, <1>2, <1>3
<1> QED
  BY <1>2, <1>4, SameReg DEF q

\* Every block of n bits in a sequence of N such blocks.
BlockOf(m, n, k) == SubSeq(m, n * (k - 1) + 1, n * k)

LEMMA BlockIs ==
  ASSUME NEW m \in Seq(0 .. 1), NEW n \in Nat \ {0}, NEW N \in Nat, Len(m) = n * N, NEW k \in 1 .. N
  PROVE  /\ BlockOf(m, n, k) \in Regs(n)
         /\ \A i \in 1 .. n : BlockOf(m, n, k)[i] = m[n * (k - 1) + i]
<1> DEFINE a == n * (k - 1) + 1
           z == n * k
<1>1. n * (k - 1) \in Nat /\ n * k = n * (k - 1) + n
  OBVIOUS
<1>2. n * (k - 1) + n \in 1 .. n * N
  BY BlockBound
<1>3. /\ a \in 1 .. Len(m) /\ z \in 1 .. Len(m) /\ a <= z + 1 /\ (z - a) + 1 = n
      /\ \A i \in 1 .. n : (a + i) - 1 = n * (k - 1) + i
  BY <1>1, <1>2
<1> HIDE DEF a, z
<1>4. /\ SubSeq(m, a, z) \in Seq(0 .. 1) /\ Len(SubSeq(m, a, z)) = (z - a) + 1
      /\ \A i \in 1 .. (z - a) + 1 : SubSeq(m, a, z)[i] = m[(a + i) - 1]
  BY <1>3, SubSeqAt, Zenon
<1>5. BlockOf(m, n, k) = SubSeq(m, a, z)
  BY DEF BlockOf, a, z
<1>6. SubSeq(m, a, z) \in Regs(n)
  BY <1>3, <1>4, SeqReg
<1> QED
  BY <1>3, <1>4, <1>5, <1>6

\* Each block of n bits turned round.
Turned(m, n) == FlattenSeq([k \in 1 .. Len(m) \div n |-> Reverse(BlockOf(m, n, k))])

LEMMA TurnedIs ==
  ASSUME NEW m \in Seq(0 .. 1), NEW n \in Nat \ {0}, NEW N \in Nat, Len(m) = n * N
  PROVE  /\ Turned(m, n) \in Seq(0 .. 1) /\ Len(Turned(m, n)) = n * N
         /\ \A k \in 1 .. N : \A i \in 1 .. n : Turned(m, n)[n * (k - 1) + i] = m[n * (k - 1) + ((n - i) + 1)]
<1> DEFINE q == [k \in 1 .. N |-> Reverse(BlockOf(m, n, k))]
           t == FlattenSeq(q)
<1>1. Len(m) \div n = N
  BY DivUnique
<1>2. Turned(m, n) = t
  BY <1>1 DEF Turned
<1>3. ASSUME NEW k \in 1 .. N
      PROVE  /\ q[k] \in Seq(0 .. 1) /\ Len(q[k]) = n
             /\ \A i \in 1 .. n : q[k][i] = m[n * (k - 1) + ((n - i) + 1)]
  <2> DEFINE b == BlockOf(m, n, k)
  <2>1. b \in Regs(n) /\ \A i \in 1 .. n : b[i] = m[n * (k - 1) + i]
    BY BlockIs
  <2>2. q[k] = Reverse(b)
    OBVIOUS
  <2> HIDE DEF b, q
  <2>3. Reverse(b) \in Regs(n) /\ \A i \in 1 .. n : Reverse(b)[i] = b[(n - i) + 1]
    BY <2>1, ReverseIs
  <2>4. \A i \in 1 .. n : (n - i) + 1 \in 1 .. n
    OBVIOUS
  <2> QED
    BY <2>1, <2>2, <2>3, <2>4, RegIs
<1>4. q = [k \in 1 .. N |-> q[k]]
  OBVIOUS
<1> HIDE DEF q
<1>5. Joined(t, q, n, N, 0 .. 1)
  BY <1>3, <1>4, FlattenBlocks
<1> HIDE DEF t
<1>6. t \in Seq(0 .. 1) /\ Len(t) = n * N /\ \A k \in 1 .. N : \A i \in 1 .. n : t[n * (k - 1) + i] = q[k][i]
  BY <1>5 DEF Joined
<1> QED
  BY <1>2, <1>3, <1>6

LEMMA LsbFirstIs ==
  ASSUME NEW m \in WholeBytes
  PROVE  LsbFirst(m) = Turned(m, 8) /\ reflect_bytes(m) = Turned(m, 8)
<1>1. PICK N \in Nat : Len(m) = 8 * N
  BY BytesInWhole
<1>2. Len(m) \div 8 = N
  BY <1>1
<1> DEFINE q == [k \in 1 .. N |-> Reverse(BlockOf(m, 8, k))]
<1>3. Turned(m, 8) = FlattenSeq(q)
  BY <1>2 DEF Turned
<1>4. LsbFirst(m) = FlattenSeq(q)
  <2>1. Blocks(m, 8) = [k \in 1 .. N |-> BlockOf(m, 8, k)]
    BY <1>2 DEF Blocks, BlockOf
  <2>2. LsbFirst(m) = FlattenSeq([k \in DOMAIN Blocks(m, 8) |-> Reverse(Blocks(m, 8)[k])])
    BY Zenon DEF LsbFirst, EachBlock
  <2>3. [k \in DOMAIN Blocks(m, 8) |-> Reverse(Blocks(m, 8)[k])] = q
    BY <2>1
  <2> QED
    BY <2>2, <2>3
<1>5. reflect_bytes(m) = FlattenSeq(q)
  <2>0. \A k \in 1 .. N : 8 * k - 7 = 8 * (k - 1) + 1
    OBVIOUS
  <2>1. Bytes(m) = [k \in 1 .. N |-> BlockOf(m, 8, k)]
    BY <1>2, <2>0 DEF Bytes, BlockOf
  <2>2. reflect_bytes(m) = FlattenSeq([k \in DOMAIN Bytes(m) |-> Reverse(Bytes(m)[k])])
    BY Zenon DEF reflect_bytes, OfEach, reverse8
  <2>3. [k \in DOMAIN Bytes(m) |-> Reverse(Bytes(m)[k])] = q
    BY <2>1
  <2> QED
    BY <2>2, <2>3
<1> QED
  BY <1>3, <1>4, <1>5

\* Every position in blocks of n is one in a block.
LEMMA InBlock ==
  ASSUME NEW n \in Nat \ {0}, NEW N \in Nat, NEW p \in 1 .. n * N
  PROVE  \E k \in 1 .. N : \E i \in 1 .. n : p = n * (k - 1) + i
<1> DEFINE d == (p - 1) \div n
           m == (p - 1) % n
<1>1. n * N \in Nat /\ p - 1 \in Nat
  OBVIOUS
<1>2. p - 1 = n * d + m /\ d \in Nat /\ m \in 0 .. n - 1
  BY <1>1
<1> HIDE DEF d, m
<1>3. d < N
  <2> SUFFICES ASSUME ~(d < N)
               PROVE  FALSE
    OBVIOUS
  <2>1. d - N \in Nat /\ n * (d - N) \in Nat /\ n * d = n * N + n * (d - N)
    BY <1>2
  <2> QED
    BY <1>1, <1>2, <2>1
<1>4. d + 1 \in 1 .. N /\ m + 1 \in 1 .. n /\ (d + 1) - 1 = d
  BY <1>2, <1>3
<1>5. p = n * ((d + 1) - 1) + (m + 1)
  BY <1>1, <1>2, <1>4
<1> QED
  BY <1>4, <1>5

LEMMA SameBlocks ==
  ASSUME NEW n \in Nat \ {0}, NEW N \in Nat, NEW a \in Seq(0 .. 1), NEW b \in Seq(0 .. 1),
         Len(a) = n * N, Len(b) = n * N,
         \A k \in 1 .. N : \A i \in 1 .. n : a[n * (k - 1) + i] = b[n * (k - 1) + i]
  PROVE  a = b
<1>1. ASSUME NEW p \in 1 .. n * N
      PROVE  a[p] = b[p]
  <2>1. PICK k \in 1 .. N : \E i \in 1 .. n : p = n * (k - 1) + i
    BY InBlock
  <2>2. PICK i \in 1 .. n : p = n * (k - 1) + i
    BY <2>1
  <2> QED
    BY <2>2
<1> DEFINE l == n * N
<1>2. l \in Nat
  OBVIOUS
<1> HIDE DEF l
<1>3. a \in Regs(l) /\ b \in Regs(l) /\ \A p \in 1 .. l : a[p] = b[p]
  BY <1>1, SeqReg DEF l
<1> QED
  BY <1>2, <1>3, SameReg

LEMMA TurnedTwice ==
  ASSUME NEW m \in Seq(0 .. 1), NEW n \in Nat \ {0}, NEW N \in Nat, Len(m) = n * N
  PROVE  Turned(Turned(m, n), n) = m
<1> DEFINE t == Turned(m, n)
<1>1. /\ t \in Seq(0 .. 1) /\ Len(t) = n * N
      /\ \A k \in 1 .. N : \A i \in 1 .. n : t[n * (k - 1) + i] = m[n * (k - 1) + ((n - i) + 1)]
  BY TurnedIs
<1> HIDE DEF t
<1>2. /\ Turned(t, n) \in Seq(0 .. 1) /\ Len(Turned(t, n)) = n * N
      /\ \A k \in 1 .. N : \A i \in 1 .. n : Turned(t, n)[n * (k - 1) + i] = t[n * (k - 1) + ((n - i) + 1)]
  BY <1>1, TurnedIs
<1>3. ASSUME NEW k \in 1 .. N, NEW i \in 1 .. n
      PROVE  Turned(t, n)[n * (k - 1) + i] = m[n * (k - 1) + i]
  <2>1. (n - i) + 1 \in 1 .. n /\ (n - ((n - i) + 1)) + 1 = i
    OBVIOUS
  <2>2. t[n * (k - 1) + ((n - i) + 1)] = m[n * (k - 1) + ((n - ((n - i) + 1)) + 1)]
    BY <1>1, <2>1
  <2> QED
    BY <1>2, <2>1, <2>2
<1> QED
  BY <1>2, <1>3, SameBlocks DEF t

-----------------------------------------------------------------------------
(* Rolling to the right is rolling to the left in a mirror.                 *)

LEMMA RightIs ==
  ASSUME NEW w \in Nat \ {0}, NEW r \in Regs(w)
  PROVE  /\ Right(r) \in Regs(w)
         /\ \A i \in 1 .. w : Right(r)[i] = IF i > 1 THEN r[i - 1] ELSE 0
<1>1. r \in Seq(0 .. 1) /\ Len(r) = w
  BY RegIs
<1> DEFINE f == Front(r)
<1>2. f = SubSeq(r, 1, w - 1)
  BY <1>1 DEF Front
<1>3. f \in Seq(0 .. 1) /\ Len(f) = w - 1 /\ \A i \in 1 .. w - 1 : f[i] = r[i]
  BY <1>1, <1>2
<1> HIDE DEF f
<1> DEFINE o == <<0>>
           q == o \o f
<1>4. o \in Seq(0 .. 1) /\ Len(o) = 1 /\ o[1] = 0
  OBVIOUS
<1> HIDE DEF o
<1>5. /\ q \in Seq(0 .. 1) /\ Len(q) = Len(o) + Len(f)
      /\ \A i \in 1 .. Len(o) + Len(f) : q[i] = IF i <= Len(o) THEN o[i] ELSE f[i - Len(o)]
  BY <1>3, <1>4, ConcatProperties, Zenon
<1> HIDE DEF q
<1>6. Len(o) + Len(f) = w
  BY <1>3, <1>4
<1>7. q \in Regs(w) /\ \A i \in 1 .. w : q[i] = IF i <= 1 THEN o[i] ELSE f[i - 1]
  BY <1>4, <1>5, <1>6, SeqReg
<1>8. Right(r) = q
  BY DEF Right, f, o, q
<1>9. ASSUME NEW i \in 1 .. w
      PROVE  Right(r)[i] = IF i > 1 THEN r[i - 1] ELSE 0
  <2>1. Right(r)[i] = IF i <= 1 THEN o[i] ELSE f[i - 1]
    BY <1>7, <1>8
  <2>2. CASE i > 1
    <3>1. i - 1 \in 1 .. w - 1 /\ ~(i <= 1)
      BY <2>2
    <3> QED
      BY <1>3, <2>1, <2>2, <3>1
  <2>3. CASE ~(i > 1)
    <3>1. i = 1
      BY <2>3
    <3> QED
      BY <1>4, <2>1, <3>1
  <2> QED
    BY <2>2, <2>3
<1> QED
  BY <1>7, <1>8, <1>9

LEMMA RollRightIs ==
  ASSUME NEW w \in Nat \ {0}, NEW r \in Regs(w), NEW g \in Regs(w)
  PROVE  RollRight(Reverse(r), Reverse(g)) = Reverse(RollLeft(r, g))
<1> DEFINE rr == Reverse(r)
           rg == Reverse(g)
           l == RollLeft(r, g)
           rl == Reverse(l)
           t == Right(rr)
           z == RollRight(rr, rg)
<1>1. rr \in Regs(w) /\ \A i \in 1 .. w : rr[i] = r[(w - i) + 1]
  BY ReverseIs
<1>2. rg \in Regs(w) /\ \A i \in 1 .. w : rg[i] = g[(w - i) + 1]
  BY ReverseIs
<1>3. l \in Regs(w) /\ \A i \in 1 .. w :
        LET next == IF i < w THEN r[i + 1] ELSE 0
        IN  l[i] = IF r[1] = 1 THEN IF next = g[i] THEN 0 ELSE 1 ELSE next
  BY RollIs
<1> HIDE DEF rr, rg, l
<1>4. rl \in Regs(w) /\ \A i \in 1 .. w : rl[i] = l[(w - i) + 1]
  BY <1>3, ReverseIs
<1>5. t \in Regs(w) /\ \A i \in 1 .. w : t[i] = IF i > 1 THEN rr[i - 1] ELSE 0
  BY <1>1, RightIs
<1>6. Last(rr) = r[1]
  <2>1. Len(rr) = w
    BY <1>1, RegIs
  <2>2. Last(rr) = rr[w]
    BY <2>1 DEF Last
  <2>3. w \in 1 .. w /\ (w - w) + 1 = 1
    OBVIOUS
  <2> QED
    BY <1>1, <2>2, <2>3
<1>7. /\ Xor(t, rg) \in Regs(w)
      /\ \A i \in 1 .. w : Xor(t, rg)[i] = IF t[i] = rg[i] THEN 0 ELSE 1
  BY <1>2, <1>5, XorIs
<1>8. z = IF r[1] = 1 THEN Xor(t, rg) ELSE t
  BY <1>6 DEF RollRight
<1> HIDE DEF rl, t, z
<1>9. z \in Regs(w) /\ \A i \in 1 .. w : z[i] = IF r[1] = 1 THEN IF t[i] = rg[i] THEN 0 ELSE 1 ELSE t[i]
  BY <1>5, <1>7, <1>8
<1>10. ASSUME NEW i \in 1 .. w
       PROVE  z[i] = rl[i]
  <2> DEFINE j == (w - i) + 1
  <2>1. j \in 1 .. w /\ (i > 1 <=> j < w)
    OBVIOUS
  <2>2. t[i] = IF j < w THEN r[j + 1] ELSE 0
    <3>1. CASE i > 1
      <4>1. i - 1 \in 1 .. w /\ (w - (i - 1)) + 1 = j + 1
        BY <3>1
      <4> QED
        BY <1>1, <1>5, <2>1, <3>1, <4>1
    <3>2. CASE ~(i > 1)
      BY <1>5, <2>1, <3>2
    <3> QED
      BY <3>1, <3>2
  <2>3. rg[i] = g[j] /\ rl[i] = l[j]
    BY <1>2, <1>4
  <2> HIDE DEF j
  <2>4. l[j] = IF r[1] = 1 THEN IF t[i] = rg[i] THEN 0 ELSE 1 ELSE t[i]
    BY <1>3, <2>1, <2>2, <2>3
  <2> QED
    BY <1>9, <2>3, <2>4
<1>11. z = rl
  BY <1>4, <1>9, <1>10, SameReg
<1> QED
  BY <1>11 DEF z, rl, rr, rg, l

LEMMA ReverseXor ==
  ASSUME NEW w \in Nat, NEW r \in Regs(w), NEW s \in Regs(w)
  PROVE  Reverse(Xor(r, s)) = Xor(Reverse(r), Reverse(s))
<1> DEFINE p == Reverse(r)
           q == Reverse(s)
           u == Xor(r, s)
           v == Reverse(u)
           z == Xor(p, q)
<1>1. p \in Regs(w) /\ \A i \in 1 .. w : p[i] = r[(w - i) + 1]
  BY ReverseIs
<1>2. q \in Regs(w) /\ \A i \in 1 .. w : q[i] = s[(w - i) + 1]
  BY ReverseIs
<1>3. u \in Regs(w) /\ \A i \in 1 .. w : u[i] = IF r[i] = s[i] THEN 0 ELSE 1
  BY XorIs
<1> HIDE DEF p, q, u
<1>4. v \in Regs(w) /\ \A i \in 1 .. w : v[i] = u[(w - i) + 1]
  BY <1>3, ReverseIs
<1>5. z \in Regs(w) /\ \A i \in 1 .. w : z[i] = IF p[i] = q[i] THEN 0 ELSE 1
  BY <1>1, <1>2, XorIs
<1> HIDE DEF v, z
<1>6. \A i \in 1 .. w : (w - i) + 1 \in 1 .. w
  OBVIOUS
<1>7. \A i \in 1 .. w : v[i] = z[i]
  BY <1>1, <1>2, <1>3, <1>4, <1>5, <1>6
<1>8. v = z
  BY <1>4, <1>5, <1>7, SameReg
<1> QED
  BY <1>8 DEF v, z, u, p, q

RolledRight(r, g) == FoldLeft(LAMBDA s, bit : RollRight(s, g), r, Zeros(8))

\* RollRight of registers that are written the other way round.
LEMMA RollRightReg ==
  ASSUME NEW w \in Nat \ {0}, NEW g \in Regs(w), NEW r \in Regs(w)
  PROVE  RollRight(r, g) \in Regs(w)
<1> DEFINE p == Reverse(r)
           q == Reverse(g)
<1>1. p \in Regs(w) /\ q \in Regs(w) /\ Reverse(p) = r /\ Reverse(q) = g
  BY ReverseIs, ReverseTwice
<1> HIDE DEF p, q
<1>2. RollRight(Reverse(p), Reverse(q)) = Reverse(RollLeft(p, q))
  BY <1>1, RollRightIs
<1>3. RollLeft(p, q) \in Regs(w)
  BY <1>1, RollIs
<1>4. Reverse(RollLeft(p, q)) \in Regs(w)
  BY <1>3, ReverseIs
<1> QED
  BY <1>1, <1>2, <1>4

LEMMA RolledRightFold ==
  ASSUME NEW w \in Nat \ {0}, NEW g \in Regs(w), NEW x \in Regs(w)
  PROVE  \E c : /\ RolledRight(x, g) = c[1 .. 8] /\ c[1 .. 0] = x
                /\ \A k \in 1 .. 8 : c[1 .. k] = RollRight(c[1 .. (k - 1)], g)
<1> DEFINE D == SUBSET (1 .. 8)
           A == Regs(w)
           Q(f) == f = [u \in D |-> IF u = {} THEN x ELSE RollRight(f[u \ {Max(u)}], g)]
           F == [k \in 1 .. 8 |-> [r \in A |-> RollRight(r, g)]]
           c == CHOOSE f : Q(f)
<1>1. 8 \in Nat
  OBVIOUS
<1>2. \A k \in 1 .. 8 : \A r \in A : RollRight(r, g) \in A
  BY RollRightReg
<1>3. \A k \in 1 .. 8 : \A r \in A : F[k][r] = RollRight(r, g) /\ F[k][r] \in A
  BY <1>2
<1>4. x \in A
  OBVIOUS
<1> HIDE DEF F, A
<1>5. PICK f : Folds(f, x, F, 8) /\ \A u \in D : f[u] \in A
  BY <1>1, <1>3, <1>4, FoldExists
<1>6. \A u \in D : u # {} => F[Max(u)][f[u \ {Max(u)}]] = RollRight(f[u \ {Max(u)}], g)
  <2>1. \A u \in D : u # {} => Max(u) \in 1 .. 8 /\ u \ {Max(u)} \in D
    BY <1>1, MaxOf
  <2> QED
    BY <1>3, <1>5, <2>1
<1>7. Q(f)
  BY <1>5, <1>6, Zenon DEF Folds
<1>8. Q(c)
  BY <1>7, Zenon
<1>9. RolledRight(x, g) = c[1 .. 8]
  <2>1. RolledRight(x, g) = (CHOOSE h : h = [u \in SUBSET DOMAIN Zeros(8) |->
                  IF u = {} THEN x ELSE RollRight(h[u \ {Max(u)}], g)])[DOMAIN Zeros(8)]
    BY Zenon DEF RolledRight, FoldLeft, MapThenFoldSet
  <2>2. DOMAIN Zeros(8) = 1 .. 8
    BY DEF Zeros
  <2> QED
    BY <2>1, <2>2, Zenon
<1> HIDE DEF c
<1>10. \A u \in D : c[u] = IF u = {} THEN x ELSE RollRight(c[u \ {Max(u)}], g)
  BY <1>8, Zenon
<1> HIDE DEF Q
<1>11. /\ 1 .. 0 = {} /\ 1 .. 0 \in D
       /\ \A k \in 1 .. 8 : /\ 1 .. k # {} /\ Max(1 .. k) = k /\ (1 .. k) \ {k} = 1 .. (k - 1)
                            /\ 1 .. k \in D
  BY <1>1, Beginnings
<1> HIDE DEF D
<1>12. c[1 .. 0] = x
  BY <1>10, <1>11, Zenon
<1>13. ASSUME NEW k \in 1 .. 8
       PROVE  c[1 .. k] = RollRight(c[1 .. (k - 1)], g)
  <2>1. 1 .. k # {} /\ Max(1 .. k) = k /\ (1 .. k) \ {k} = 1 .. (k - 1) /\ 1 .. k \in D
    BY <1>11, Zenon
  <2> QED
    BY <1>10, <2>1, Zenon
<1> QED
  BY <1>9, <1>12, <1>13

LEMMA RolledMirror ==
  ASSUME NEW w \in Nat \ {0}, NEW g \in Regs(w), NEW x \in Regs(w)
  PROVE  RolledRight(Reverse(x), Reverse(g)) = Reverse(Rolled(x, g))
<1>1. Reverse(x) \in Regs(w) /\ Reverse(g) \in Regs(w)
  BY ReverseIs
<1>2. PICK c : /\ Rolled(x, g) = c[1 .. 8] /\ c[1 .. 0] = x
               /\ \A k \in 1 .. 8 : c[1 .. k] = RollLeft(c[1 .. (k - 1)], g)
  BY RolledFold
<1>3. PICK d : /\ RolledRight(Reverse(x), Reverse(g)) = d[1 .. 8] /\ d[1 .. 0] = Reverse(x)
               /\ \A k \in 1 .. 8 : d[1 .. k] = RollRight(d[1 .. (k - 1)], Reverse(g))
  BY <1>1, RolledRightFold
<1> DEFINE B == {k \in 0 .. 8 : c[1 .. k] \in Regs(w) /\ d[1 .. k] = Reverse(c[1 .. k])}
<1>4. 0 \in B
  BY <1>2, <1>3
<1>5. ASSUME NEW k \in Nat, k < 8, k \in B
      PROVE  k + 1 \in B
  <2>1. k + 1 \in 1 .. 8 /\ (k + 1) - 1 = k /\ k + 1 \in 0 .. 8
    BY <1>5
  <2>2. c[1 .. k] \in Regs(w) /\ d[1 .. k] = Reverse(c[1 .. k])
    BY <1>5
  <2>3. c[1 .. (k + 1)] = RollLeft(c[1 .. k], g)
    BY <1>2, <2>1
  <2>4. d[1 .. (k + 1)] = RollRight(d[1 .. k], Reverse(g))
    BY <1>3, <2>1
  <2>5. RollRight(Reverse(c[1 .. k]), Reverse(g)) = Reverse(RollLeft(c[1 .. k], g))
    BY <2>2, RollRightIs
  <2>6. RollLeft(c[1 .. k], g) \in Regs(w)
    BY <2>2, RollIs
  <2> QED
    BY <2>1, <2>2, <2>3, <2>4, <2>5, <2>6
<1> HIDE DEF B
<1>6. 8 \in Nat /\ 8 \in 0 .. 8
  OBVIOUS
<1>7. \A k \in 0 .. 8 : k \in B
  BY <1>4, <1>5, <1>6, UpTo
<1>8. 8 \in B
  BY <1>6, <1>7
<1> QED
  BY <1>2, <1>3, <1>8 DEF B

LEMMA RolledRightReg ==
  ASSUME NEW w \in Nat \ {0}, NEW g \in Regs(w), NEW r \in Regs(w)
  PROVE  RolledRight(r, g) \in Regs(w)
<1> DEFINE p == Reverse(r)
           q == Reverse(g)
<1>1. p \in Regs(w) /\ q \in Regs(w) /\ Reverse(p) = r /\ Reverse(q) = g
  BY ReverseIs, ReverseTwice
<1> HIDE DEF p, q
<1>2. RolledRight(Reverse(p), Reverse(q)) = Reverse(Rolled(p, q))
  BY <1>1, RolledMirror
<1>3. Rolled(p, q) \in Regs(w)
  BY <1>1, RolledReg
<1>4. Reverse(Rolled(p, q)) \in Regs(w)
  BY <1>3, ReverseIs
<1> QED
  BY <1>1, <1>2, <1>4

\* The bytes of a message at the bottom of a register.
AtBottom(m, w) == [k \in 1 .. Len(m) \div 8 |-> IF w = 8 THEN Bytes(m)[k] ELSE Zeros(8) \o Bytes(m)[k]]

RightSteps(h, x, P, g, N) ==
  h[0] = x /\ \A k \in 1 .. N : h[k] = RolledRight(Xor(h[k - 1], P[k]), g)

LEMMA AtBottomIs ==
  ASSUME NEW m \in Seq(0 .. 1), NEW N \in Nat, Len(m) = 8 * N, NEW k \in 1 .. N
  PROVE  /\ AtBottom(m, 8)[k] = Bytes(m)[k] /\ AtBottom(m, 16)[k] = Zeros(8) \o Bytes(m)[k]
         /\ AtBottom(m, 8)[k] \in Regs(8) /\ AtBottom(m, 16)[k] \in Regs(16)
         /\ Reverse(AtBottom(m, 8)[k]) = Placed(Turned(m, 8), 8)[k]
         /\ Reverse(AtBottom(m, 16)[k]) = Placed(Turned(m, 8), 16)[k]
<1> DEFINE p == Bytes(m)[k]
           z == Zeros(8)
           t == Turned(m, 8)
           q == Placed(t, 8)[k]
           r == Placed(t, 16)[k]
           a == AtBottom(m, 8)[k]
           c == AtBottom(m, 16)[k]
<1>1. p \in Regs(8) /\ \A i \in 1 .. 8 : p[i] = m[8 * (k - 1) + i]
  BY BytesAre
<1>2. z \in Regs(8) /\ \A i \in 1 .. 8 : z[i] = 0
  BY ZerosIs
<1>3. PICK n \in Nat \ {0} : n = 8
  OBVIOUS
<1>4. /\ t \in Seq(0 .. 1) /\ Len(t) = 8 * N
      /\ \A i \in 1 .. 8 : t[8 * (k - 1) + i] = m[8 * (k - 1) + ((8 - i) + 1)]
  <2>1. Len(m) = n * N
    BY <1>3
  <2>2. /\ Turned(m, n) \in Seq(0 .. 1) /\ Len(Turned(m, n)) = n * N
        /\ \A i \in 1 .. n : Turned(m, n)[n * (k - 1) + i] = m[n * (k - 1) + ((n - i) + 1)]
    BY <2>1, TurnedIs
  <2> QED
    BY <1>3, <2>2
<1>5. a = p /\ c = z \o p
  <2>1. Len(m) \div 8 = N
    OBVIOUS
  <2> QED
    BY <2>1 DEF AtBottom
<1> HIDE DEF p, z, t, a, c
<1>6. q = Bytes(t)[k] /\ r = Bytes(t)[k] \o Zeros(8)
  BY <1>4, ByteIsPlaced
<1>7. Bytes(t)[k] \in Regs(8) /\ \A i \in 1 .. 8 : Bytes(t)[k][i] = t[8 * (k - 1) + i]
  BY <1>4, BytesAre
<1> HIDE DEF q, r
<1>8. Bytes(t)[k] = Reverse(p)
  <2>1. Reverse(p) \in Regs(n) /\ \A i \in 1 .. n : Reverse(p)[i] = p[(n - i) + 1]
    BY <1>1, <1>3, ReverseIs
  <2>2. \A i \in 1 .. 8 : (8 - i) + 1 \in 1 .. 8
    OBVIOUS
  <2>3. \A i \in 1 .. n : Reverse(p)[i] = Bytes(t)[k][i]
    BY <1>1, <1>3, <1>4, <1>7, <2>1, <2>2, SMTT(40)
  <2> QED
    BY <1>3, <1>7, <2>1, <2>3, SameReg
<1>9. c \in Regs(16) /\ \A i \in 1 .. 16 : c[i] = IF i <= 8 THEN 0 ELSE p[i - 8]
  <2>0. n \in Nat /\ z \in Regs(n) /\ p \in Regs(n)
    BY <1>1, <1>2, <1>3
  <2>1. /\ z \o p \in Regs(n + n)
        /\ \A i \in 1 .. n + n : (z \o p)[i] = IF i <= n THEN z[i] ELSE p[i - n]
    BY <2>0, JoinReg, Zenon
  <2>2. n + n = 16
    BY <1>3
  <2>3. c \in Regs(16) /\ \A i \in 1 .. 16 : c[i] = IF i <= 8 THEN z[i] ELSE p[i - 8]
    BY <1>3, <1>5, <2>1, <2>2
  <2>4. \A i \in 1 .. 16 : i <= 8 => i \in 1 .. 8
    OBVIOUS
  <2> QED
    BY <1>2, <2>3, <2>4
<1>10. Reverse(c) = r
  <2> DEFINE s == Reverse(c)
  <2>1. s \in Regs(16) /\ \A i \in 1 .. 16 : s[i] = c[(16 - i) + 1]
    <3>1. 16 \in Nat
      OBVIOUS
    <3> QED
      BY <1>9, <3>1, ReverseIs
  <2>2. PICK y : y = Bytes(t)[k]
    OBVIOUS
  <2>0. n \in Nat /\ z \in Regs(n) /\ y \in Regs(n)
    BY <1>2, <1>3, <1>7, <2>2
  <2>3. /\ y \o z \in Regs(n + n)
        /\ \A i \in 1 .. n + n : (y \o z)[i] = IF i <= n THEN y[i] ELSE z[i - n]
    BY <2>0, JoinReg, Zenon
  <2>4. n + n = 16
    BY <1>3
  <2>5. r \in Regs(16) /\ \A i \in 1 .. 16 : r[i] = IF i <= 8 THEN y[i] ELSE z[i - 8]
    BY <1>3, <1>6, <2>2, <2>3, <2>4 DEF z
  <2>6. \A i \in 1 .. 8 : y[i] = p[(8 - i) + 1]
    <3>1. \A i \in 1 .. n : Reverse(p)[i] = p[(n - i) + 1]
      BY <1>1, <1>3, ReverseIs
    <3> QED
      BY <1>3, <1>8, <2>2, <3>1
  <2> HIDE DEF s
  <2>7. ASSUME NEW i \in 1 .. 16
        PROVE  s[i] = r[i]
    <3>1. (16 - i) + 1 \in 1 .. 16
      OBVIOUS
    <3>2. CASE i <= 8
      <4>1. i \in 1 .. 8 /\ ~((16 - i) + 1 <= 8) /\ ((16 - i) + 1) - 8 = (8 - i) + 1
        BY <3>2
      <4>2. r[i] = p[(8 - i) + 1]
        BY <2>5, <2>6, <3>2, <4>1, SMTT(40)
      <4>3. s[i] = p[((16 - i) + 1) - 8]
        BY <1>9, <2>1, <3>1, <4>1
      <4> QED
        BY <4>1, <4>2, <4>3
    <3>3. CASE ~(i <= 8)
      <4>1. i - 8 \in 1 .. 8 /\ (16 - i) + 1 <= 8
        BY <3>3
      <4>2. r[i] = 0
        BY <1>2, <2>5, <3>3, <4>1
      <4>3. s[i] = 0
        BY <1>9, <2>1, <3>1, <4>1
      <4> QED
        BY <4>2, <4>3
    <3> QED
      BY <3>2, <3>3
  <2>8. 16 \in Nat
    OBVIOUS
  <2>9. s = r
    BY <2>1, <2>5, <2>7, <2>8, SameReg
  <2> QED
    BY <2>9 DEF s
<1>11. Reverse(a) = q
  BY <1>5, <1>6, <1>8
<1> QED
  BY <1>1, <1>5, <1>9, <1>10, <1>11 DEF a, c, q, r, t, p, z

LEMMA RightFold8 ==
  ASSUME NEW m \in Seq(0 .. 1), NEW N \in Nat, Len(m) = 8 * N, NEW g \in Regs(8), NEW x \in Regs(8)
  PROVE  \E h : RightSteps(h, x, AtBottom(m, 8), g, N) /\ Remainder(m, x, LAMBDA byte : byte, LAMBDA reg : RollRight(reg, g)) = h[N]
<1> DEFINE D == SUBSET (1 .. N)
           A == Regs(8)
           Q(f) == f = [u \in D |-> IF u = {} THEN x ELSE RolledRight(Xor(f[u \ {Max(u)}], Bytes(m)[Max(u)]), g)]
           F == [k \in 1 .. N |-> [r \in A |-> RolledRight(Xor(r, Bytes(m)[k]), g)]]
           c == CHOOSE f : Q(f)
<1>1. N \in Nat
  OBVIOUS
<1>2. \A k \in 1 .. N : \A r \in A : RolledRight(Xor(r, Bytes(m)[k]), g) \in A
  <2>0. 8 \in Nat /\ 8 \in Nat \ {0}
    OBVIOUS
  <2> SUFFICES ASSUME NEW k \in 1 .. N, NEW r \in A
               PROVE  RolledRight(Xor(r, Bytes(m)[k]), g) \in A
    OBVIOUS
  <2>1. Bytes(m)[k] \in Regs(8)
    BY AtBottomIs
  <2>2. Xor(r, Bytes(m)[k]) \in Regs(8)
    BY <2>0, <2>1, XorIs
  <2>3. RolledRight(Xor(r, Bytes(m)[k]), g) \in Regs(8)
    BY <2>0, <2>2, RolledRightReg
  <2> QED
    BY <2>3
<1>3. \A k \in 1 .. N : \A r \in A : F[k][r] = RolledRight(Xor(r, Bytes(m)[k]), g) /\ F[k][r] \in A
  BY <1>2
<1>4. x \in A
  OBVIOUS
<1> HIDE DEF F, A
<1>5. PICK f : Folds(f, x, F, N) /\ \A u \in D : f[u] \in A
  BY <1>1, <1>3, <1>4, FoldExists
<1>6. \A u \in D : u # {} => F[Max(u)][f[u \ {Max(u)}]] = RolledRight(Xor(f[u \ {Max(u)}], Bytes(m)[Max(u)]), g)
  <2>1. \A u \in D : u # {} => Max(u) \in 1 .. N /\ u \ {Max(u)} \in D
    BY <1>1, MaxOf
  <2> QED
    BY <1>3, <1>5, <2>1
<1>7. Q(f)
  BY <1>5, <1>6, Zenon DEF Folds
<1>8. Q(c)
  BY <1>7, Zenon
<1>9. Remainder(m, x, LAMBDA byte : byte, LAMBDA reg : RollRight(reg, g)) = c[1 .. N]
  <2>1. Remainder(m, x, LAMBDA byte : byte, LAMBDA reg : RollRight(reg, g)) = (CHOOSE h : h = [u \in SUBSET DOMAIN Bytes(m) |->
                  IF u = {} THEN x ELSE RolledRight(Xor(h[u \ {Max(u)}], Bytes(m)[Max(u)]), g)])[DOMAIN Bytes(m)]
    BY Zenon DEF Remainder, RolledRight, FoldLeft, MapThenFoldSet
  <2>2. DOMAIN Bytes(m) = 1 .. N
    BY BytesAre
  <2> QED
    BY <2>1, <2>2, Zenon
<1> HIDE DEF c
<1>10. \A u \in D : c[u] = IF u = {} THEN x ELSE RolledRight(Xor(c[u \ {Max(u)}], Bytes(m)[Max(u)]), g)
  BY <1>8, Zenon
<1> HIDE DEF Q
<1>11. /\ 1 .. 0 = {} /\ 1 .. 0 \in D
       /\ \A k \in 1 .. N : /\ 1 .. k # {} /\ Max(1 .. k) = k /\ (1 .. k) \ {k} = 1 .. (k - 1)
                            /\ 1 .. k \in D
  BY <1>1, Beginnings
<1> HIDE DEF D
<1>12. c[1 .. 0] = x
  BY <1>10, <1>11, Zenon
<1>13. ASSUME NEW k \in 1 .. N
       PROVE  c[1 .. k] = RolledRight(Xor(c[1 .. (k - 1)], Bytes(m)[k]), g)
  <2>1. 1 .. k # {} /\ Max(1 .. k) = k /\ (1 .. k) \ {k} = 1 .. (k - 1) /\ 1 .. k \in D
    BY <1>11, Zenon
  <2> QED
    BY <1>10, <2>1, Zenon
<1> DEFINE h == [k \in 0 .. N |-> c[1 .. k]]
<1>14. \A k \in 0 .. N : h[k] = c[1 .. k]
  OBVIOUS
<1> HIDE DEF h
<1>15. 0 \in 0 .. N /\ N \in 0 .. N /\ \A k \in 1 .. N : k \in 0 .. N /\ k - 1 \in 0 .. N
  BY <1>1
<1>16. h[0] = x /\ Remainder(m, x, LAMBDA byte : byte, LAMBDA reg : RollRight(reg, g)) = h[N]
  BY <1>9, <1>12, <1>14, <1>15, Zenon
<1>17. ASSUME NEW k \in 1 .. N
       PROVE  h[k] = RolledRight(Xor(h[k - 1], Bytes(m)[k]), g)
  <2>1. h[k] = c[1 .. k] /\ h[k - 1] = c[1 .. (k - 1)]
    BY <1>14, <1>15, Zenon
  <2> QED
    BY <1>13, <2>1, Zenon
<1>18. RightSteps(h, x, AtBottom(m, 8), g, N)
  BY <1>16, <1>17, AtBottomIs DEF RightSteps
<1> QED
  BY <1>16, <1>18

LEMMA RightFold16 ==
  ASSUME NEW m \in Seq(0 .. 1), NEW N \in Nat, Len(m) = 8 * N, NEW g \in Regs(16), NEW x \in Regs(16)
  PROVE  \E h : RightSteps(h, x, AtBottom(m, 16), g, N) /\ crc16lsb(m, g, x) = h[N]
<1> DEFINE D == SUBSET (1 .. N)
           A == Regs(16)
           Q(f) == f = [u \in D |-> IF u = {} THEN x ELSE RolledRight(Xor(f[u \ {Max(u)}], Zeros(8) \o Bytes(m)[Max(u)]), g)]
           F == [k \in 1 .. N |-> [r \in A |-> RolledRight(Xor(r, Zeros(8) \o Bytes(m)[k]), g)]]
           c == CHOOSE f : Q(f)
<1>1. N \in Nat
  OBVIOUS
<1>2. \A k \in 1 .. N : \A r \in A : RolledRight(Xor(r, Zeros(8) \o Bytes(m)[k]), g) \in A
  <2>0. 16 \in Nat /\ 16 \in Nat \ {0}
    OBVIOUS
  <2> SUFFICES ASSUME NEW k \in 1 .. N, NEW r \in A
               PROVE  RolledRight(Xor(r, Zeros(8) \o Bytes(m)[k]), g) \in A
    OBVIOUS
  <2>1. Zeros(8) \o Bytes(m)[k] \in Regs(16)
    BY AtBottomIs
  <2>2. Xor(r, Zeros(8) \o Bytes(m)[k]) \in Regs(16)
    BY <2>0, <2>1, XorIs
  <2>3. RolledRight(Xor(r, Zeros(8) \o Bytes(m)[k]), g) \in Regs(16)
    BY <2>0, <2>2, RolledRightReg
  <2> QED
    BY <2>3
<1>3. \A k \in 1 .. N : \A r \in A : F[k][r] = RolledRight(Xor(r, Zeros(8) \o Bytes(m)[k]), g) /\ F[k][r] \in A
  BY <1>2
<1>4. x \in A
  OBVIOUS
<1> HIDE DEF F, A
<1>5. PICK f : Folds(f, x, F, N) /\ \A u \in D : f[u] \in A
  BY <1>1, <1>3, <1>4, FoldExists
<1>6. \A u \in D : u # {} => F[Max(u)][f[u \ {Max(u)}]] = RolledRight(Xor(f[u \ {Max(u)}], Zeros(8) \o Bytes(m)[Max(u)]), g)
  <2>1. \A u \in D : u # {} => Max(u) \in 1 .. N /\ u \ {Max(u)} \in D
    BY <1>1, MaxOf
  <2> QED
    BY <1>3, <1>5, <2>1
<1>7. Q(f)
  BY <1>5, <1>6, Zenon DEF Folds
<1>8. Q(c)
  BY <1>7, Zenon
<1>9. crc16lsb(m, g, x) = c[1 .. N]
  <2>1. crc16lsb(m, g, x) = (CHOOSE h : h = [u \in SUBSET DOMAIN Bytes(m) |->
                  IF u = {} THEN x ELSE RolledRight(Xor(h[u \ {Max(u)}], Zeros(8) \o Bytes(m)[Max(u)]), g)])[DOMAIN Bytes(m)]
    BY Zenon DEF crc16lsb, Remainder, RolledRight, FoldLeft, MapThenFoldSet
  <2>2. DOMAIN Bytes(m) = 1 .. N
    BY BytesAre
  <2> QED
    BY <2>1, <2>2, Zenon
<1> HIDE DEF c
<1>10. \A u \in D : c[u] = IF u = {} THEN x ELSE RolledRight(Xor(c[u \ {Max(u)}], Zeros(8) \o Bytes(m)[Max(u)]), g)
  BY <1>8, Zenon
<1> HIDE DEF Q
<1>11. /\ 1 .. 0 = {} /\ 1 .. 0 \in D
       /\ \A k \in 1 .. N : /\ 1 .. k # {} /\ Max(1 .. k) = k /\ (1 .. k) \ {k} = 1 .. (k - 1)
                            /\ 1 .. k \in D
  BY <1>1, Beginnings
<1> HIDE DEF D
<1>12. c[1 .. 0] = x
  BY <1>10, <1>11, Zenon
<1>13. ASSUME NEW k \in 1 .. N
       PROVE  c[1 .. k] = RolledRight(Xor(c[1 .. (k - 1)], Zeros(8) \o Bytes(m)[k]), g)
  <2>1. 1 .. k # {} /\ Max(1 .. k) = k /\ (1 .. k) \ {k} = 1 .. (k - 1) /\ 1 .. k \in D
    BY <1>11, Zenon
  <2> QED
    BY <1>10, <2>1, Zenon
<1> DEFINE h == [k \in 0 .. N |-> c[1 .. k]]
<1>14. \A k \in 0 .. N : h[k] = c[1 .. k]
  OBVIOUS
<1> HIDE DEF h
<1>15. 0 \in 0 .. N /\ N \in 0 .. N /\ \A k \in 1 .. N : k \in 0 .. N /\ k - 1 \in 0 .. N
  BY <1>1
<1>16. h[0] = x /\ crc16lsb(m, g, x) = h[N]
  BY <1>9, <1>12, <1>14, <1>15, Zenon
<1>17. ASSUME NEW k \in 1 .. N
       PROVE  h[k] = RolledRight(Xor(h[k - 1], Zeros(8) \o Bytes(m)[k]), g)
  <2>1. h[k] = c[1 .. k] /\ h[k - 1] = c[1 .. (k - 1)]
    BY <1>14, <1>15, Zenon
  <2> QED
    BY <1>13, <2>1, Zenon
<1>18. RightSteps(h, x, AtBottom(m, 16), g, N)
  BY <1>16, <1>17, AtBottomIs DEF RightSteps
<1> QED
  BY <1>16, <1>18

\* The registers P are the registers Q read from the other end.
Mirrors(P, Q, w, N) == \A k \in 1 .. N : P[k] \in Regs(w) /\ Reverse(P[k]) = Q[k]

LEMMA MirrorSteps ==
  ASSUME NEW w \in Nat \ {0}, NEW g \in Regs(w), NEW x \in Regs(w), NEW N \in Nat, NEW P, NEW Q,
         Mirrors(P, Q, w, N),
         NEW h, RightSteps(h, Reverse(x), P, Reverse(g), N)
  PROVE  \E q : ByteSteps(q, x, Q, g, N) /\ h[N] = Reverse(q[N])
<1> DEFINE q == [k \in 0 .. N |-> Reverse(h[k])]
           G == Reverse(g)
           X == Reverse(x)
<1>1. G \in Regs(w) /\ X \in Regs(w) /\ Reverse(G) = g /\ Reverse(X) = x
  BY ReverseIs, ReverseTwice
<1> HIDE DEF G, X
<1>m. \A k \in 1 .. N : P[k] \in Regs(w) /\ Reverse(P[k]) = Q[k]
  BY DEF Mirrors
<1>2. h[0] = X /\ \A k \in 1 .. N : h[k] = RolledRight(Xor(h[k - 1], P[k]), G)
  BY DEF RightSteps, G, X
<1> DEFINE B == {k \in 0 .. N : h[k] \in Regs(w)}
<1>3. 0 \in B
  BY <1>1, <1>2
<1>4. ASSUME NEW k \in Nat, k < N, k \in B
      PROVE  k + 1 \in B
  <2>1. k + 1 \in 1 .. N /\ (k + 1) - 1 = k /\ k + 1 \in 0 .. N
    BY <1>4
  <2>2. h[k + 1] = RolledRight(Xor(h[k], P[k + 1]), G)
    BY <1>2, <2>1
  <2>3. Xor(h[k], P[k + 1]) \in Regs(w)
    BY <1>4, <1>m, <2>1, XorIs
  <2>4. RolledRight(Xor(h[k], P[k + 1]), G) \in Regs(w)
    BY <1>1, <2>3, RolledRightReg
  <2> QED
    BY <2>1, <2>2, <2>4
<1> HIDE DEF B
<1>5. \A k \in 0 .. N : k \in B
  BY <1>3, <1>4, UpTo
<1>6. \A k \in 0 .. N : h[k] \in Regs(w)
  BY <1>5 DEF B
<1>7. \A k \in 0 .. N : q[k] = Reverse(h[k])
  OBVIOUS
<1> HIDE DEF q
<1>8. q[0] = x
  BY <1>1, <1>2, <1>7
<1>9. ASSUME NEW k \in 1 .. N
      PROVE  q[k] = Rolled(Xor(q[k - 1], Q[k]), g)
  <2> DEFINE e == h[k - 1]
             p == P[k]
             y == Xor(e, p)
             r == Reverse(y)
  <2>1. k \in 0 .. N /\ k - 1 \in 0 .. N
    OBVIOUS
  <2>2. e \in Regs(w) /\ p \in Regs(w) /\ q[k - 1] = Reverse(e) /\ q[k] = Reverse(h[k])
    BY <1>6, <1>7, <1>m, <2>1
  <2>3. h[k] = RolledRight(y, G)
    BY <1>2
  <2>4. Reverse(p) = Q[k]
    BY <1>m
  <2> HIDE DEF e, p
  <2>5. y \in Regs(w) /\ Reverse(y) = Xor(Reverse(e), Reverse(p))
    BY <2>2, XorIs, ReverseXor
  <2> HIDE DEF y
  <2>6. r \in Regs(w) /\ Reverse(r) = y
    BY <2>5, ReverseIs, ReverseTwice
  <2> HIDE DEF r
  <2>7. RolledRight(Reverse(r), Reverse(g)) = Reverse(Rolled(r, g))
    BY <2>6, RolledMirror
  <2>8. h[k] = Reverse(Rolled(r, g))
    BY <2>3, <2>6, <2>7 DEF G
  <2>9. Rolled(r, g) \in Regs(w)
    BY <2>6, RolledReg
  <2>10. q[k] = Rolled(r, g)
    BY <2>2, <2>8, <2>9, ReverseTwice
  <2>11. r = Xor(q[k - 1], Q[k])
    BY <2>2, <2>4, <2>5 DEF r
  <2> QED
    BY <2>10, <2>11
<1>10. ByteSteps(q, x, Q, g, N)
  BY <1>8, <1>9 DEF ByteSteps
<1>11. h[N] = Reverse(q[N])
  BY <1>6, <1>7, ReverseTwice
<1> QED
  BY <1>10, <1>11

LEMMA Crc8leSerial ==
  ASSUME NEW m \in Seq(0 .. 1), NEW N \in Nat, Len(m) = 8 * N, NEW g, NEW x \in Regs(8),
         NEW s, Serial(s, 8, g, x, Turned(m, 8), 8 * N)
  PROVE  crc8le(m, g, x) = Reverse(s[8 * N])
<1> DEFINE t == Turned(m, 8)
           G == Reverse(g)
           X == Reverse(x)
<1>0. 8 \in Nat \ {0} /\ 8 >= 8 /\ g \in Regs(8)
  BY DEF Serial
<1>1. PICK n \in Nat \ {0} : n = 8
  OBVIOUS
<1>2. t \in Seq(0 .. 1) /\ Len(t) = 8 * N
  BY <1>1, TurnedIs
<1>3. PICK w \in Nat \ {0} : w = 8
  OBVIOUS
<1>4. G \in Regs(8) /\ X \in Regs(8)
  BY <1>0, <1>3, ReverseIs
<1>5. PICK h : RightSteps(h, X, AtBottom(m, 8), G, N) /\ crc8le(m, g, x) = h[N]
  BY <1>4, RightFold8, Zenon DEF crc8le, reverse8
<1>6. Mirrors(AtBottom(m, 8), Placed(t, 8), 8, N)
  BY AtBottomIs DEF Mirrors
<1> HIDE DEF t
<1>7. PICK q : ByteSteps(q, x, Placed(t, 8), g, N) /\ h[N] = Reverse(q[N])
  BY <1>0, <1>5, <1>6, MirrorSteps
<1>8. Serial(s, 8, g, x, t, 8 * N)
  BY DEF t
<1>9. \A k \in 0 .. N : q[k] = s[8 * k]
  BY <1>0, <1>2, <1>7, <1>8, Bytewise
<1>10. q[N] = s[8 * N]
  BY <1>9
<1> QED
  BY <1>5, <1>7, <1>10

LEMMA Crc16lsbSerial ==
  ASSUME NEW m \in Seq(0 .. 1), NEW N \in Nat, Len(m) = 8 * N, NEW g, NEW x \in Regs(16),
         NEW s, Serial(s, 16, g, x, Turned(m, 8), 8 * N)
  PROVE  crc16lsb(m, Reverse(g), Reverse(x)) = Reverse(s[8 * N])
<1> DEFINE t == Turned(m, 8)
           G == Reverse(g)
           X == Reverse(x)
<1>0. 16 \in Nat \ {0} /\ 16 >= 8 /\ g \in Regs(16)
  BY DEF Serial
<1>1. PICK n \in Nat \ {0} : n = 8
  OBVIOUS
<1>2. t \in Seq(0 .. 1) /\ Len(t) = 8 * N
  BY <1>1, TurnedIs
<1>3. PICK w \in Nat \ {0} : w = 16
  OBVIOUS
<1>4. G \in Regs(16) /\ X \in Regs(16)
  BY <1>0, <1>3, ReverseIs
<1>5. PICK h : RightSteps(h, X, AtBottom(m, 16), G, N) /\ crc16lsb(m, G, X) = h[N]
  BY <1>4, RightFold16
<1>6. Mirrors(AtBottom(m, 16), Placed(t, 16), 16, N)
  BY AtBottomIs DEF Mirrors
<1> HIDE DEF t
<1>7. PICK q : ByteSteps(q, x, Placed(t, 16), g, N) /\ h[N] = Reverse(q[N])
  BY <1>0, <1>5, <1>6, MirrorSteps
<1>8. Serial(s, 16, g, x, t, 8 * N)
  BY DEF t
<1>9. \A k \in 0 .. N : q[k] = s[8 * k]
  BY <1>0, <1>2, <1>7, <1>8, Bytewise
<1>10. q[N] = s[8 * N]
  BY <1>9
<1> QED
  BY <1>5, <1>7, <1>10

-----------------------------------------------------------------------------
(* What the checksums find, whatever the message, when bytes are sent with the*)
(* least significant bit first.                                             *)

LEMMA TurnedWhole ==
  ASSUME NEW m \in WholeBytes
  PROVE  /\ LsbFirst(m) \in WholeBytes /\ Len(LsbFirst(m)) = Len(m) /\ LsbFirst(m) = Turned(m, 8)
         /\ LsbFirst(LsbFirst(m)) = m
<1>1. PICK N \in Nat : Len(m) = 8 * N
  BY BytesInWhole
<1>2. m \in Seq(0 .. 1) /\ LsbFirst(m) = Turned(m, 8)
  BY LsbFirstIs, BytesInWhole
<1>3. PICK n \in Nat \ {0} : n = 8
  OBVIOUS
<1>4. Len(m) = n * N
  BY <1>1, <1>3
<1>5. Turned(m, n) \in Seq(0 .. 1) /\ Len(Turned(m, n)) = n * N /\ Turned(Turned(m, n), n) = m
  BY <1>2, <1>4, TurnedIs, TurnedTwice
<1> DEFINE t == LsbFirst(m)
<1>6. t \in Seq(0 .. 1) /\ Len(t) = 8 * N /\ Turned(t, 8) = m
  BY <1>2, <1>3, <1>5
<1> HIDE DEF t
<1>7. t \in WholeBytes
  <2>1. (8 * N) % 8 = 0
    OBVIOUS
  <2> QED
    BY <1>6, <2>1 DEF WholeBytes
<1>8. LsbFirst(t) = m
  BY <1>6, <1>7, LsbFirstIs
<1> QED
  BY <1>1, <1>2, <1>6, <1>7, <1>8 DEF t

LEMMA Crc8leMirror ==
  ASSUME NEW m \in WholeBytes, NEW g \in Regs(8), NEW x \in Regs(8)
  PROVE  /\ crc8le(m, g, x) = Reverse(crc8(LsbFirst(m), g, x))
         /\ crc8(LsbFirst(m), g, x) \in Regs(8)
<1> DEFINE t == LsbFirst(m)
<1>1. PICK N \in Nat : Len(m) = 8 * N
  BY BytesInWhole
<1>2. m \in Seq(0 .. 1) /\ t \in Seq(0 .. 1) /\ Len(t) = 8 * N /\ t = Turned(m, 8)
  BY <1>1, TurnedWhole, BytesInWhole
<1> HIDE DEF t
<1>3. 8 \in Nat \ {0}
  OBVIOUS
<1>4. PICK s : Serial(s, 8, g, x, t, 8 * N)
  BY <1>2, <1>3, MessageSerial
<1>5. crc8(t, g, x) = s[8 * N]
  BY <1>2, <1>4, Crc8Serial
<1>6. crc8le(m, g, x) = Reverse(s[8 * N])
  <2>1. Serial(s, 8, g, x, Turned(m, 8), 8 * N)
    BY <1>2, <1>4
  <2> QED
    BY <1>1, <1>2, <2>1, Crc8leSerial
<1>7. s[8 * N] \in Regs(8)
  <2>1. s \in [0 .. 8 * N -> Regs(8)] /\ 8 * N \in 0 .. 8 * N
    BY <1>4 DEF Serial
  <2> QED
    BY <2>1
<1> QED
  BY <1>5, <1>6, <1>7 DEF t

LEMMA Crc16lsbMirror ==
  ASSUME NEW m \in WholeBytes, NEW g \in Regs(16), NEW x \in Regs(16)
  PROVE  /\ crc16lsb(m, Reverse(g), Reverse(x)) = Reverse(crc16(LsbFirst(m), g, x))
         /\ crc16(LsbFirst(m), g, x) \in Regs(16)
<1> DEFINE t == LsbFirst(m)
<1>1. PICK N \in Nat : Len(m) = 8 * N
  BY BytesInWhole
<1>2. m \in Seq(0 .. 1) /\ t \in Seq(0 .. 1) /\ Len(t) = 8 * N /\ t = Turned(m, 8)
  BY <1>1, TurnedWhole, BytesInWhole
<1> HIDE DEF t
<1>3. 16 \in Nat \ {0}
  OBVIOUS
<1>4. PICK s : Serial(s, 16, g, x, t, 8 * N)
  BY <1>2, <1>3, MessageSerial
<1>5. crc16(t, g, x) = s[8 * N]
  BY <1>2, <1>4, Crc16Serial
<1>6. crc16lsb(m, Reverse(g), Reverse(x)) = Reverse(s[8 * N])
  <2>1. Serial(s, 16, g, x, Turned(m, 8), 8 * N)
    BY <1>2, <1>4
  <2> QED
    BY <1>1, <1>2, <2>1, Crc16lsbSerial
<1>7. s[8 * N] \in Regs(16)
  <2>1. s \in [0 .. 8 * N -> Regs(16)] /\ 8 * N \in 0 .. 8 * N
    BY <1>4 DEF Serial
  <2> QED
    BY <2>1
<1> QED
  BY <1>5, <1>6, <1>7 DEF t

\* crc8le (bit_util.c), for messages that are sent with the least significant bit of each
\* byte first, finds every error within eight successive bits in the order they are sent.
THEOREM Crc8leFindsBursts ==
  ASSUME NEW polynomial \in Regs(8), polynomial[8] = 1, NEW init \in Regs(8),
         NEW m \in WholeBytes, NEW r \in WholeBytes, BurstApart(LsbFirst(m), LsbFirst(r), 8)
  PROVE  crc8le(m, polynomial, init) # crc8le(r, polynomial, init)
<1> DEFINE c == crc8(LsbFirst(m), polynomial, init)
           d == crc8(LsbFirst(r), polynomial, init)
<1>1. LsbFirst(m) \in WholeBytes /\ LsbFirst(r) \in WholeBytes
  BY TurnedWhole
<1>2. c # d
  BY <1>1, Crc8FindsBursts
<1>3. /\ crc8le(m, polynomial, init) = Reverse(c) /\ c \in Regs(8)
      /\ crc8le(r, polynomial, init) = Reverse(d) /\ d \in Regs(8)
  BY Crc8leMirror
<1> HIDE DEF c, d
<1>4. 8 \in Nat
  OBVIOUS
<1>5. Reverse(Reverse(c)) = c /\ Reverse(Reverse(d)) = d
  BY <1>3, <1>4, ReverseTwice
<1> QED
  BY <1>2, <1>3, <1>5

\* crc16lsb, that takes the polynomial and the initial value the other way round, finds every
\* error within sixteen successive bits in the order they are sent.
THEOREM Crc16lsbFindsBursts ==
  ASSUME NEW polynomial \in Regs(16), polynomial[16] = 1, NEW init \in Regs(16),
         NEW m \in WholeBytes, NEW r \in WholeBytes, BurstApart(LsbFirst(m), LsbFirst(r), 16)
  PROVE  crc16lsb(m, Reverse(polynomial), Reverse(init)) # crc16lsb(r, Reverse(polynomial), Reverse(init))
<1> DEFINE c == crc16(LsbFirst(m), polynomial, init)
           d == crc16(LsbFirst(r), polynomial, init)
<1>1. LsbFirst(m) \in WholeBytes /\ LsbFirst(r) \in WholeBytes
  BY TurnedWhole
<1>2. c # d
  BY <1>1, Crc16FindsBursts
<1>3. /\ crc16lsb(m, Reverse(polynomial), Reverse(init)) = Reverse(c) /\ c \in Regs(16)
      /\ crc16lsb(r, Reverse(polynomial), Reverse(init)) = Reverse(d) /\ d \in Regs(16)
  BY Crc16lsbMirror
<1> HIDE DEF c, d
<1>4. 16 \in Nat
  OBVIOUS
<1>5. Reverse(Reverse(c)) = c /\ Reverse(Reverse(d)) = d
  BY <1>3, <1>4, ReverseTwice
<1> QED
  BY <1>2, <1>3, <1>5

\* Rolling the other way, crc8le computes the remainder of the message in the order its bits
\* are sent, read from the other end.
THEOREM Crc8leIsRemainder ==
  ASSUME NEW polynomial \in Regs(8), NEW init \in Regs(8),
         NEW m \in WholeBytes, m # <<>>
  PROVE  crc8le(m, polynomial, init) = Reverse(Crc(LsbFirst(m), polynomial, init))
<1>1. LsbFirst(m) \in WholeBytes /\ Len(LsbFirst(m)) = Len(m)
  BY TurnedWhole
<1>2. m \in Seq(0 .. 1) /\ LsbFirst(m) \in Seq(0 .. 1)
  BY <1>1, BytesInWhole
<1>3. LsbFirst(m) # <<>>
  BY <1>1, <1>2
<1>4. crc8(LsbFirst(m), polynomial, init) = Crc(LsbFirst(m), polynomial, init)
  BY <1>1, <1>3, Crc8IsRemainder
<1> QED
  BY <1>4, Crc8leMirror

\* crc16lsb computes, for parameters read from the other end, the remainder of the message in
\* the order its bits are sent, if the message has two bytes.
THEOREM Crc16lsbIsRemainder ==
  ASSUME NEW polynomial \in Regs(16), NEW init \in Regs(16),
         NEW m \in WholeBytes, Len(m) >= 16
  PROVE  crc16lsb(m, Reverse(polynomial), Reverse(init)) = Reverse(Crc(LsbFirst(m), polynomial, init))
<1>1. LsbFirst(m) \in WholeBytes /\ Len(LsbFirst(m)) = Len(m)
  BY TurnedWhole
<1>2. m \in Seq(0 .. 1) /\ LsbFirst(m) \in Seq(0 .. 1)
  BY <1>1, BytesInWhole
<1>3. Len(LsbFirst(m)) >= 16
  BY <1>1, <1>2
<1>4. crc16(LsbFirst(m), polynomial, init) = Crc(LsbFirst(m), polynomial, init)
  BY <1>1, <1>3, Crc16IsRemainder
<1> QED
  BY <1>4, Crc16lsbMirror

\* The upper and the lower four bits of a byte, turned round each.
LEMMA HalfIs ==
  ASSUME NEW b \in Seq(0 .. 1), Len(b) = 8, NEW a \in 1 .. 8, NEW z \in 1 .. 8, (z - a) + 1 = 4
  PROVE  /\ SubSeq(b, a, z) \in Seq(0 .. 1) /\ Len(SubSeq(b, a, z)) = 4
         /\ \A i \in 1 .. 4 : SubSeq(b, a, z)[i] = b[(a + i) - 1]
<1>1. a \in 1 .. Len(b) /\ z \in 1 .. Len(b) /\ a <= z + 1
  OBVIOUS
<1>2. /\ SubSeq(b, a, z) \in Seq(0 .. 1) /\ Len(SubSeq(b, a, z)) = (z - a) + 1
      /\ \A i \in 1 .. (z - a) + 1 : SubSeq(b, a, z)[i] = b[(a + i) - 1]
  BY <1>1, SubSeqAt, Zenon
<1> QED
  BY <1>2, Zenon

LEMMA NibblesIs ==
  ASSUME NEW b \in Regs(8)
  PROVE  /\ reflect4(b) \in Regs(8)
         /\ \A i \in 1 .. 8 : reflect4(b)[i] = IF i <= 4 THEN b[5 - i] ELSE b[13 - i]
<1> DEFINE h == SubSeq(b, 1, 4)
           l == SubSeq(b, 5, 8)
           p == Reverse(h)
           q == Reverse(l)
<1>1. b \in Seq(0 .. 1) /\ Len(b) = 8
  BY RegIs
<1>2. h \in Seq(0 .. 1) /\ Len(h) = 4 /\ \A i \in 1 .. 4 : h[i] = b[i]
  <2>1. 1 \in 1 .. 8 /\ 4 \in 1 .. 8 /\ (4 - 1) + 1 = 4 /\ \A i \in 1 .. 4 : (1 + i) - 1 = i
    OBVIOUS
  <2>2. h \in Seq(0 .. 1) /\ Len(h) = 4 /\ \A i \in 1 .. 4 : h[i] = b[(1 + i) - 1]
    BY <1>1, <2>1, HalfIs, Zenon
  <2> HIDE DEF h
  <2> QED
    BY <2>1, <2>2
<1>3. l \in Seq(0 .. 1) /\ Len(l) = 4 /\ \A i \in 1 .. 4 : l[i] = b[4 + i]
  <2>1. 5 \in 1 .. 8 /\ 8 \in 1 .. 8 /\ (8 - 5) + 1 = 4 /\ \A i \in 1 .. 4 : (5 + i) - 1 = 4 + i
    OBVIOUS
  <2>2. l \in Seq(0 .. 1) /\ Len(l) = 4 /\ \A i \in 1 .. 4 : l[i] = b[(5 + i) - 1]
    BY <1>1, <2>1, HalfIs, Zenon
  <2> HIDE DEF l
  <2> QED
    BY <2>1, <2>2
<1> HIDE DEF h, l
<1>4. PICK n \in Nat : n = 4
  OBVIOUS
<1>5. h \in Regs(n) /\ l \in Regs(n)
  BY <1>2, <1>3, <1>4, SeqReg
<1>6. p \in Regs(n) /\ \A i \in 1 .. n : p[i] = h[(n - i) + 1]
  BY <1>5, ReverseIs
<1>7. q \in Regs(n) /\ \A i \in 1 .. n : q[i] = l[(n - i) + 1]
  BY <1>5, ReverseIs
<1> HIDE DEF p, q
<1>8. /\ p \o q \in Regs(n + n)
      /\ \A i \in 1 .. n + n : (p \o q)[i] = IF i <= n THEN p[i] ELSE q[i - n]
  BY <1>6, <1>7, JoinReg, Zenon
<1>9. reflect4(b) = p \o q /\ n + n = 8
  <2>1. reflect4(b) = p \o q
    BY Zenon DEF reflect4, p, q, h, l
  <2>2. n + n = 8
    BY <1>4
  <2> QED
    BY <2>1, <2>2
<1> DEFINE r == reflect4(b)
<1>10. r \in Regs(8) /\ \A i \in 1 .. 8 : r[i] = IF i <= 4 THEN p[i] ELSE q[i - 4]
  <2>1. r = p \o q
    BY <1>9, Zenon
  <2>2. r \in Regs(n + n) /\ \A i \in 1 .. n + n : r[i] = IF i <= n THEN p[i] ELSE q[i - n]
    BY <1>8, <2>1, Zenon
  <2>3. n + n = 8
    BY <1>9, Zenon
  <2> HIDE DEF r
  <2> QED
    BY <1>4, <2>2, <2>3, Zenon
<1> HIDE DEF r
<1>11. ASSUME NEW i \in 1 .. 8
       PROVE  r[i] = IF i <= 4 THEN b[5 - i] ELSE b[13 - i]
  <2>1. CASE i <= 4
    <3>1. i \in 1 .. 4 /\ (4 - i) + 1 \in 1 .. 4 /\ (4 - i) + 1 = 5 - i
      BY <2>1
    <3>2. p[i] = h[(4 - i) + 1]
      BY <1>4, <1>6, <3>1
    <3> QED
      BY <1>2, <1>10, <2>1, <3>1, <3>2
  <2>2. CASE ~(i <= 4)
    <3>1. i - 4 \in 1 .. 4 /\ (4 - (i - 4)) + 1 \in 1 .. 4 /\ 4 + ((4 - (i - 4)) + 1) = 13 - i
      BY <2>2
    <3>2. q[i - 4] = l[(4 - (i - 4)) + 1]
      BY <1>4, <1>7, <3>1
    <3>3. l[(4 - (i - 4)) + 1] = b[4 + ((4 - (i - 4)) + 1)]
      BY <1>3, <3>1
    <3> QED
      BY <1>10, <2>2, <3>1, <3>2, <3>3
  <2> QED
    BY <2>1, <2>2
<1> QED
  BY <1>10, <1>11 DEF r

\* The halves of a byte are two blocks of four bits.
LEMMA ReflectNibblesIs ==
  ASSUME NEW m \in WholeBytes
  PROVE  reflect_nibbles(Turned(m, 4)) = m
<1>1. PICK N \in Nat : Len(m) = 8 * N
  BY BytesInWhole
<1>2. m \in Seq(0 .. 1)
  BY BytesInWhole
<1>3. PICK n \in Nat \ {0} : n = 4
  OBVIOUS
<1>4. Len(m) = n * (2 * N) /\ 2 * N \in Nat
  BY <1>1, <1>3
<1> DEFINE t == Turned(m, 4)
           q == [k \in 1 .. N |-> reflect4(Bytes(t)[k])]
           u == FlattenSeq(q)
<1>5. /\ t \in Seq(0 .. 1) /\ Len(t) = 8 * N
      /\ \A k \in 1 .. 2 * N : \A i \in 1 .. 4 : t[4 * (k - 1) + i] = m[4 * (k - 1) + ((4 - i) + 1)]
  <2>1. /\ Turned(m, n) \in Seq(0 .. 1) /\ Len(Turned(m, n)) = n * (2 * N)
        /\ \A k \in 1 .. 2 * N : \A i \in 1 .. n : Turned(m, n)[n * (k - 1) + i] = m[n * (k - 1) + ((n - i) + 1)]
    BY <1>2, <1>4, TurnedIs
  <2> QED
    BY <1>1, <1>3, <1>4, <2>1
<1> HIDE DEF t
<1>6. DOMAIN Bytes(t) = 1 .. N /\ \A k \in 1 .. N : Bytes(t)[k] \in Regs(8) /\ \A i \in 1 .. 8 : Bytes(t)[k][i] = t[8 * (k - 1) + i]
  BY <1>5, BytesAre
<1>7. reflect_nibbles(t) = u
  <2>1. reflect_nibbles(t) = FlattenSeq([k \in DOMAIN Bytes(t) |-> reflect4(Bytes(t)[k])])
    BY Zenon DEF reflect_nibbles, OfEach
  <2> QED
    BY <1>6, <2>1
<1>8. ASSUME NEW k \in 1 .. N
      PROVE  /\ q[k] \in Seq(0 .. 1) /\ Len(q[k]) = 8
             /\ \A i \in 1 .. 8 : q[k][i] = m[8 * (k - 1) + i]
  <2> DEFINE b == Bytes(t)[k]
             r == reflect4(b)
  <2>1. b \in Regs(8) /\ \A i \in 1 .. 8 : b[i] = t[8 * (k - 1) + i]
    BY <1>6
  <2> HIDE DEF b
  <2>2. r \in Regs(8) /\ \A i \in 1 .. 8 : r[i] = IF i <= 4 THEN b[5 - i] ELSE b[13 - i]
    BY <2>1, NibblesIs
  <2>3. q[k] = r
    BY DEF b
  <2> HIDE DEF r, q
  <2>4. ASSUME NEW i \in 1 .. 8
        PROVE  r[i] = m[8 * (k - 1) + i]
    <3>1. CASE i <= 4
      <4> DEFINE j == 2 * k - 1
      <4>1. /\ j \in 1 .. 2 * N /\ 5 - i \in 1 .. 4 /\ 5 - i \in 1 .. 8
            /\ 4 * (j - 1) + (5 - i) = 8 * (k - 1) + (5 - i)
            /\ 4 * (j - 1) + ((4 - (5 - i)) + 1) = 8 * (k - 1) + i
        BY <3>1
      <4>2. r[i] = t[8 * (k - 1) + (5 - i)]
        BY <2>1, <2>2, <3>1, <4>1
      <4>3. t[4 * (j - 1) + (5 - i)] = m[4 * (j - 1) + ((4 - (5 - i)) + 1)]
        BY <1>5, <4>1
      <4> HIDE DEF j
      <4> QED
        BY <4>1, <4>2, <4>3
    <3>2. CASE ~(i <= 4)
      <4> DEFINE j == 2 * k
                 l == 9 - i
      <4>1. /\ j \in 1 .. 2 * N /\ l \in 1 .. 4 /\ 13 - i \in 1 .. 8
            /\ 4 * (j - 1) + l = 8 * (k - 1) + (13 - i)
            /\ 4 * (j - 1) + ((4 - l) + 1) = 8 * (k - 1) + i
        BY <3>2
      <4>2. r[i] = t[8 * (k - 1) + (13 - i)]
        BY <2>1, <2>2, <3>2, <4>1
      <4> HIDE DEF j, l
      <4>3. t[4 * (j - 1) + l] = m[4 * (j - 1) + ((4 - l) + 1)]
        BY <1>5, <4>1
      <4> QED
        BY <4>1, <4>2, <4>3
    <3> QED
      BY <3>1, <3>2
  <2>5. r \in Seq(0 .. 1) /\ Len(r) = 8
    <3>1. 8 \in Nat
      OBVIOUS
    <3> QED
      BY <2>2, <3>1, RegIs
  <2> QED
    BY <2>3, <2>4, <2>5
<1>9. q = [k \in 1 .. N |-> q[k]]
  OBVIOUS
<1> HIDE DEF q
<1>10. PICK w \in Nat \ {0} : w = 8
  OBVIOUS
<1>11. Joined(u, q, w, N, 0 .. 1)
  <2>1. \A k \in 1 .. N : q[k] \in Seq(0 .. 1) /\ Len(q[k]) = w
    BY <1>8, <1>10
  <2> QED
    BY <1>9, <2>1, FlattenBlocks
<1> HIDE DEF u
<1>12. u \in Seq(0 .. 1) /\ Len(u) = w * N /\ \A k \in 1 .. N : \A i \in 1 .. w : u[w * (k - 1) + i] = q[k][i]
  BY <1>11 DEF Joined
<1>13. \A k \in 1 .. N : \A i \in 1 .. w : u[w * (k - 1) + i] = m[w * (k - 1) + i]
  <2> SUFFICES ASSUME NEW k \in 1 .. N, NEW i \in 1 .. w
               PROVE  u[w * (k - 1) + i] = m[w * (k - 1) + i]
    OBVIOUS
  <2>1. i \in 1 .. 8
    BY <1>10, Zenon
  <2>2. q[k][i] = m[8 * (k - 1) + i]
    BY <1>8, <2>1, Zenon
  <2>3. u[w * (k - 1) + i] = q[k][i]
    BY <1>12, Zenon
  <2>4. 8 * (k - 1) + i = w * (k - 1) + i
    BY <1>10, Zenon
  <2> QED
    BY <2>2, <2>3, <2>4, Zenon
<1>14. Len(m) = w * N
  BY <1>1, <1>10
<1>15. u = m
  BY <1>2, <1>12, <1>13, <1>14, SameBlocks
<1> QED
  BY <1>7, <1>15 DEF t

\* reflect_bytes and reflect_nibbles give back what was sent with the least significant bit
\* of every byte or of every nibble first.
THEOREM ReflectUndone ==
  ASSUME NEW m \in WholeBytes
  PROVE  reflect_bytes(LsbFirst(m)) = m /\ reflect_nibbles(EachBlock(m, 4, Reverse)) = m
<1>1. reflect_bytes(LsbFirst(m)) = m
  <2>1. LsbFirst(m) \in WholeBytes /\ LsbFirst(LsbFirst(m)) = m
    BY TurnedWhole
  <2>2. reflect_bytes(LsbFirst(m)) = LsbFirst(LsbFirst(m))
    BY <2>1, LsbFirstIs
  <2> QED
    BY <2>1, <2>2
<1>2. EachBlock(m, 4, Reverse) = Turned(m, 4)
  <2>1. Blocks(m, 4) = [k \in 1 .. Len(m) \div 4 |-> BlockOf(m, 4, k)]
    BY DEF Blocks, BlockOf
  <2>2. EachBlock(m, 4, Reverse) = FlattenSeq([k \in DOMAIN Blocks(m, 4) |-> Reverse(Blocks(m, 4)[k])])
    BY Zenon DEF EachBlock
  <2>3. [k \in DOMAIN Blocks(m, 4) |-> Reverse(Blocks(m, 4)[k])] = [k \in 1 .. Len(m) \div 4 |-> Reverse(BlockOf(m, 4, k))]
    BY <2>1
  <2> QED
    BY <2>2, <2>3 DEF Turned
<1> QED
  BY <1>1, <1>2, ReflectNibblesIs

-----------------------------------------------------------------------------
(* Line codes of frames: what was sent is decoded wherever it is in a row.   *)

LEMMA Between ==
  ASSUME NEW u \in Seq(0 .. 1), NEW v \in Seq(0 .. 1), NEW e \in Seq(0 .. 1)
  PROVE  /\ u \o v \o e \in Seq(0 .. 1) /\ Len(u) \in Nat
         /\ Len(u \o v \o e) = Len(u) + Len(v) + Len(e)
         /\ \A p \in 1 .. Len(v) : (u \o v \o e)[Len(u) + p] = v[p]
<1> DEFINE x == u \o v
<1>1. /\ x \in Seq(0 .. 1) /\ Len(x) = Len(u) + Len(v)
      /\ \A i \in 1 .. Len(u) + Len(v) : x[i] = IF i <= Len(u) THEN u[i] ELSE v[i - Len(u)]
  BY ConcatProperties, Zenon
<1> HIDE DEF x
<1>2. /\ x \o e \in Seq(0 .. 1) /\ Len(x \o e) = Len(x) + Len(e)
      /\ \A i \in 1 .. Len(x) + Len(e) : (x \o e)[i] = IF i <= Len(x) THEN x[i] ELSE e[i - Len(x)]
  <2>1. x \in Seq(0 .. 1)
    BY <1>1
  <2> QED
    BY <2>1, ConcatProperties, Zenon
<1>3. Len(u) \in Nat /\ Len(v) \in Nat /\ Len(e) \in Nat
  BY LenProperties
<1>4. \A p \in 1 .. Len(v) : (x \o e)[Len(u) + p] = v[p]
  BY <1>1, <1>2, <1>3
<1>5. Len(x \o e) = Len(u) + Len(v) + Len(e)
  BY <1>1, <1>2
<1> QED
  BY <1>2, <1>3, <1>4, <1>5 DEF x

\* The frames q of n bits follow each other in M, behind the first L bits.
FramesIn(M, L, q, n, N) == \A k \in 1 .. N : SubSeq(M, L + (k - 1) * n + 1, L + k * n) = q[k]

LEMMA FramesApart ==
  ASSUME NEW n \in Nat \ {0}, NEW N \in Nat, NEW q, q = [k \in 1 .. N |-> q[k]],
         \A k \in 1 .. N : q[k] \in Seq(0 .. 1) /\ Len(q[k]) = n,
         NEW lead \in Seq(0 .. 1), NEW rest \in Seq(0 .. 1)
  PROVE  /\ Len(FlattenSeq(q)) = n * N
         /\ FramesIn(lead \o FlattenSeq(q) \o rest, Len(lead), q, n, N)
<1> DEFINE t == FlattenSeq(q)
           M == lead \o t \o rest
           L == Len(lead)
<1>1. Joined(t, q, n, N, 0 .. 1)
  BY FlattenBlocks
<1> HIDE DEF t
<1>2. /\ t \in Seq(0 .. 1) /\ Len(t) = n * N /\ n * N \in Nat
      /\ \A k \in 1 .. N : \A i \in 1 .. n : t[n * (k - 1) + i] = q[k][i]
  BY <1>1 DEF Joined
<1>3. PICK w \in Nat : w = n * N
  BY <1>2
<1>4. M \in Seq(0 .. 1) /\ L \in Nat /\ Len(M) = L + w + Len(rest) /\ \A p \in 1 .. w : M[L + p] = t[p]
  <2>1. t \in Seq(0 .. 1) /\ Len(t) = w
    BY <1>2, <1>3
  <2>2. /\ M \in Seq(0 .. 1) /\ L \in Nat /\ Len(M) = L + Len(t) + Len(rest)
        /\ \A p \in 1 .. Len(t) : M[L + p] = t[p]
    BY <2>1, Between, ZenonT(40)
  <2> QED
    BY <2>1, <2>2
<1> HIDE DEF M
<1>5. ASSUME NEW k \in 1 .. N
      PROVE  SubSeq(M, L + (k - 1) * n + 1, L + k * n) = q[k]
  <2> DEFINE a == L + (k - 1) * n + 1
             z == L + k * n
             s == SubSeq(M, a, z)
  <2>1. PICK d \in Nat : d = n * (k - 1)
    OBVIOUS
  <2>2. (k - 1) * n = d /\ k * n = d + n
    BY <2>1
  <2>3. \A i \in 1 .. n : d + i \in 1 .. w
    BY <1>3, <2>1, BlockBound
  <2>4. d + n <= w /\ Len(rest) \in Nat
    <3>1. n \in 1 .. n
      OBVIOUS
    <3> QED
      BY <2>3, <3>1
  <2>11. a = L + d + 1 /\ z = L + (d + n)
    BY <2>2
  <2> HIDE DEF a, z
  <2>5. /\ a \in 1 .. Len(M) /\ z \in 1 .. Len(M) /\ a <= z + 1 /\ (z - a) + 1 = n
        /\ \A i \in 1 .. n : (a + i) - 1 = L + (d + i)
    <3>1. d \in Nat /\ w \in Nat
      BY <1>3, <2>1
    <3> QED
      BY <1>4, <2>4, <2>11, <3>1, SMTT(40)
  <2>6. /\ s \in Seq(0 .. 1) /\ Len(s) = (z - a) + 1
        /\ \A i \in 1 .. (z - a) + 1 : s[i] = M[(a + i) - 1]
    <3>1. M \in Seq(0 .. 1) /\ a \in 1 .. Len(M) /\ z \in 1 .. Len(M) /\ a <= z + 1
      BY <1>4, <2>5
    <3> QED
      BY <3>1, SubSeqAt, ZenonT(40)
  <2> HIDE DEF s
  <2>7. s \in Regs(n) /\ q[k] \in Regs(n)
    BY <2>5, <2>6, SeqReg
  <2>8. ASSUME NEW i \in 1 .. n
        PROVE  s[i] = q[k][i]
    <3>1. s[i] = M[L + (d + i)]
      BY <2>5, <2>6
    <3>2. M[L + (d + i)] = t[d + i]
      BY <1>4, <2>3
    <3>3. t[d + i] = q[k][i]
      BY <1>2, <2>1
    <3> QED
      BY <3>1, <3>2, <3>3
  <2>9. s = q[k]
    BY <2>7, <2>8, SameReg
  <2> QED
    BY <2>9 DEF s, a, z
<1> QED
  BY <1>2, <1>5 DEF t, M, FramesIn

LEMMA MostFrames ==
  ASSUME NEW N \in Nat
  PROVE  (CHOOSE j \in 0 .. N : \A i \in 0 .. N : i <= j) = N
<1>1. N \in 0 .. N /\ \A i \in 0 .. N : i <= N
  OBVIOUS
<1>2. \A j \in 0 .. N : (\A i \in 0 .. N : i <= j) => j = N
  BY <1>1
<1> QED
  BY <1>1, <1>2

\* A frame around the bits b.
Framed(f, u, b, v, n) ==
  /\ f \in Seq(0 .. 1) /\ Len(f) = Len(u) + n + Len(v)
  /\ \A i \in 1 .. Len(u) : f[i] = u[i]
  /\ \A i \in 1 .. Len(v) : f[Len(u) + n + i] = v[i]
  /\ SubSeq(f, Len(u) + 1, Len(u) + n) = b

LEMMA FrameIs ==
  ASSUME NEW n \in Nat \ {0}, NEW b \in Regs(n), NEW u \in Seq(0 .. 1), NEW v \in Seq(0 .. 1)
  PROVE  Framed(u \o b \o v, u, b, v, n)
<1> DEFINE f == u \o b \o v
           a == Len(u) + 1
           z == Len(u) + n
           s == SubSeq(f, a, z)
<1>1. b \in Seq(0 .. 1) /\ Len(b) = n
  BY RegIs
<1>2. /\ f \in Seq(0 .. 1) /\ Len(f) = Len(u) + n + Len(v)
      /\ \A i \in 1 .. Len(u) : f[i] = u[i]
      /\ \A i \in 1 .. Len(v) : f[Len(u) + n + i] = v[i]
      /\ \A i \in 1 .. n : f[Len(u) + i] = b[i]
  BY <1>1
<1>3. /\ a \in 1 .. Len(f) /\ z \in 1 .. Len(f) /\ a <= z + 1 /\ (z - a) + 1 = n
      /\ \A i \in 1 .. n : (a + i) - 1 = Len(u) + i
  BY <1>2
<1> HIDE DEF f, a, z
<1>4. /\ s \in Seq(0 .. 1) /\ Len(s) = (z - a) + 1
      /\ \A i \in 1 .. (z - a) + 1 : s[i] = f[(a + i) - 1]
  <2>1. f \in Seq(0 .. 1) /\ a \in 1 .. Len(f) /\ z \in 1 .. Len(f) /\ a <= z + 1
    BY <1>2, <1>3
  <2> QED
    BY <2>1, SubSeqAt, Zenon
<1> HIDE DEF s
<1>5. s \in Regs(n) /\ \A i \in 1 .. n : s[i] = b[i]
  BY <1>2, <1>3, <1>4, SeqReg
<1>6. s = b
  BY <1>5, SameReg
<1> QED
  BY <1>2, <1>6 DEF f, s, a, z, Framed

\* extract_bytes_uart (bit_util.c) gives back the bytes that were sent with start and stop bits
\* and the least significant bit first, wherever in a row they are.
THEOREM UartUndone ==
  ASSUME NEW m \in WholeBytes, NEW lead \in Seq(0 .. 1), NEW rest \in Seq(0 .. 1)
  PROVE  extract_bytes_uart(lead \o Uart(m) \o rest, Len(lead), Len(Uart(m))) = Blocks(m, 8)
<1> DEFINE B(k) == BlockOf(m, 8, k)
           q == [k \in 1 .. Len(m) \div 8 |-> <<0>> \o Reverse(B(k)) \o <<1>>]
           F == FlattenSeq(q)
           M == lead \o F \o rest
           L == Len(lead)
           fr(k) == SubSeq(M, L + (k - 1) * 10 + 1, L + k * 10)
           S(n) == {j \in 0 .. n \div 10 : \A k \in 1 .. j : fr(k)[1] = 0 /\ fr(k)[10] = 1}
           C(n) == CHOOSE j \in S(n) : \A i \in S(n) : i <= j
           D(k) == reverse8(SubSeq(fr(k), 2, 9))
<1>1. PICK N \in Nat : Len(m) = 8 * N
  <2>1. PICK K \in Nat : Len(m) = 8 * K
    BY BytesInWhole
  <2>2. 1 * K \in Nat /\ Len(m) = 8 * (1 * K)
    BY <2>1
  <2> QED
    BY <2>2
<1>2. Len(m) \div 8 = N /\ m \in Seq(0 .. 1)
  BY <1>1, BytesInWhole
<1>3. Uart(m) = F
  <2>1. Blocks(m, 8) = [k \in 1 .. Len(m) \div 8 |-> B(k)]
    BY DEF Blocks, BlockOf
  <2>2. Uart(m) = FlattenSeq([k \in DOMAIN Blocks(m, 8) |-> <<0>> \o Reverse(Blocks(m, 8)[k]) \o <<1>>])
    BY Zenon DEF Uart, EachBlock
  <2>3. [k \in DOMAIN Blocks(m, 8) |-> <<0>> \o Reverse(Blocks(m, 8)[k]) \o <<1>>] = q
    BY <2>1
  <2> QED
    BY <2>2, <2>3
<1>4. ASSUME NEW k \in 1 .. N
      PROVE  /\ q[k] \in Seq(0 .. 1) /\ Len(q[k]) = 10
             /\ q[k][1] = 0 /\ q[k][10] = 1
             /\ reverse8(SubSeq(q[k], 2, 9)) = B(k)
  <2> DEFINE b == B(k)
             u == <<0>>
             v == <<1>>
             c == Reverse(b)
             f == u \o c \o v
  <2>1. PICK n \in Nat \ {0} : n = 8
    OBVIOUS
  <2>2. b \in Regs(n)
    BY <1>1, <1>2, <2>1, BlockIs
  <2>3. q[k] = f
    BY <1>2
  <2> HIDE DEF b, q
  <2>4. c \in Regs(n) /\ Reverse(c) = b
    BY <2>2, ReverseIs, ReverseTwice
  <2>5. u \in Seq(0 .. 1) /\ Len(u) = 1 /\ u[1] = 0 /\ v \in Seq(0 .. 1) /\ Len(v) = 1 /\ v[1] = 1
    OBVIOUS
  <2> HIDE DEF c, u, v
  <2>6. /\ f \in Seq(0 .. 1) /\ Len(f) = Len(u) + n + Len(v)
        /\ \A i \in 1 .. Len(u) : f[i] = u[i]
        /\ \A i \in 1 .. Len(v) : f[Len(u) + n + i] = v[i]
        /\ SubSeq(f, Len(u) + 1, Len(u) + n) = c
    <3>1. Framed(f, u, c, v, n)
      BY <2>4, <2>5, FrameIs, Zenon
    <3> QED
      BY <3>1, Zenon DEF Framed
  <2> HIDE DEF f
  <2>7. Len(u) + n + Len(v) = 10 /\ Len(u) + n + 1 = 10 /\ Len(u) + 1 = 2 /\ Len(u) + n = 9 /\ 1 \in 1 .. Len(u) /\ 1 \in 1 .. Len(v)
    BY <2>1, <2>5
  <2>8. Len(f) = 10 /\ f[1] = 0 /\ f[10] = 1
    BY <2>5, <2>6, <2>7
  <2>9. SubSeq(f, 2, 9) = c
    BY <2>6, <2>7
  <2>10. reverse8(SubSeq(f, 2, 9)) = b
    BY <2>4, <2>9 DEF reverse8
  <2> QED
    BY <2>3, <2>6, <2>8, <2>10 DEF b
<1>5. q = [k \in 1 .. N |-> q[k]]
  BY <1>2
<1> HIDE DEF q
<1>6. Len(F) = 10 * N /\ \A k \in 1 .. N : fr(k) = q[k]
  <2>1. PICK n \in Nat \ {0} : n = 10
    OBVIOUS
  <2>2. \A k \in 1 .. N : q[k] \in Seq(0 .. 1) /\ Len(q[k]) = n
    BY <1>4, <2>1
  <2>3. Len(F) = n * N /\ \A k \in 1 .. N : SubSeq(M, L + (k - 1) * n + 1, L + k * n) = q[k]
    <3>1. Len(F) = n * N /\ FramesIn(M, L, q, n, N)
      BY <1>5, <2>2, FramesApart, Zenon
    <3> QED
      BY <3>1, Zenon DEF FramesIn
  <2> HIDE DEF M
  <2> QED
    BY <2>1, <2>3
<1>7. extract_bytes_uart(M, L, 10 * N) = [k \in 1 .. C(10 * N) |-> D(k)]
  BY Zenon DEF extract_bytes_uart, Frames
<1> HIDE DEF F, M
<1>8. C(10 * N) = N
  <2>1. (10 * N) \div 10 = N
    OBVIOUS
  <2>2. \A k \in 1 .. N : fr(k)[1] = 0 /\ fr(k)[10] = 1
    BY <1>4, <1>6
  <2>3. S(10 * N) = 0 .. N
    <3> HIDE DEF fr
    <3> QED
      BY <2>1, <2>2
  <2> HIDE DEF S
  <2>4. C(10 * N) = CHOOSE j \in 0 .. N : \A i \in 0 .. N : i <= j
    BY <2>3
  <2> QED
    BY <2>4, MostFrames
<1>9. \A k \in 1 .. N : D(k) = B(k)
  <2> HIDE DEF fr
  <2> QED
    BY <1>4, <1>6
<1>10. Blocks(m, 8) = [k \in 1 .. N |-> B(k)]
  BY <1>2 DEF Blocks, BlockOf
<1>11. extract_bytes_uart(M, L, 10 * N) = Blocks(m, 8)
  <2> HIDE DEF D, B, C
  <2> QED
    BY <1>7, <1>8, <1>9, <1>10
<1> QED
  BY <1>3, <1>6, <1>11 DEF M, F

\* extract_nibbles_4b1s gives back the nibbles that were sent with a 1 behind each.
THEOREM StuffedUndone ==
  ASSUME NEW m \in WholeBytes, NEW lead \in Seq(0 .. 1), NEW rest \in Seq(0 .. 1)
  PROVE  extract_nibbles_4b1s(lead \o Stuffed(m) \o rest, Len(lead), Len(Stuffed(m))) = Blocks(m, 4)
<1> DEFINE B(k) == BlockOf(m, 4, k)
           q == [k \in 1 .. Len(m) \div 4 |-> B(k) \o <<1>>]
           F == FlattenSeq(q)
           M == lead \o F \o rest
           L == Len(lead)
           fr(k) == SubSeq(M, L + (k - 1) * 5 + 1, L + k * 5)
           S(n) == {j \in 0 .. n \div 5 : \A k \in 1 .. j : fr(k)[5] = 1}
           C(n) == CHOOSE j \in S(n) : \A i \in S(n) : i <= j
           D(k) == SubSeq(fr(k), 1, 4)
<1>1. PICK N \in Nat : Len(m) = 4 * N
  <2>1. PICK K \in Nat : Len(m) = 8 * K
    BY BytesInWhole
  <2>2. 2 * K \in Nat /\ Len(m) = 4 * (2 * K)
    BY <2>1
  <2> QED
    BY <2>2
<1>2. Len(m) \div 4 = N /\ m \in Seq(0 .. 1)
  BY <1>1, BytesInWhole
<1>3. Stuffed(m) = F
  <2>1. Blocks(m, 4) = [k \in 1 .. Len(m) \div 4 |-> B(k)]
    BY DEF Blocks, BlockOf
  <2>2. Stuffed(m) = FlattenSeq([k \in DOMAIN Blocks(m, 4) |-> Blocks(m, 4)[k] \o <<1>>])
    BY Zenon DEF Stuffed, EachBlock
  <2>3. [k \in DOMAIN Blocks(m, 4) |-> Blocks(m, 4)[k] \o <<1>>] = q
    BY <2>1
  <2> QED
    BY <2>2, <2>3
<1>4. ASSUME NEW k \in 1 .. N
      PROVE  /\ q[k] \in Seq(0 .. 1) /\ Len(q[k]) = 5
             /\ q[k][5] = 1
             /\ SubSeq(q[k], 1, 4) = B(k)
  <2> DEFINE b == B(k)
             v == <<1>>
             f == b \o v
             e == <<>>
  <2>1. PICK n \in Nat \ {0} : n = 4
    OBVIOUS
  <2>2. b \in Regs(n)
    BY <1>1, <1>2, <2>1, BlockIs
  <2>3. q[k] = f
    BY <1>2
  <2> HIDE DEF b, q
  <2>4. v \in Seq(0 .. 1) /\ Len(v) = 1 /\ v[1] = 1 /\ e \in Seq(0 .. 1) /\ Len(e) = 0
    OBVIOUS
  <2>5. e \o b \o v = f
    <3>1. b \in Seq(0 .. 1)
      BY <2>2, RegIs
    <3>2. e \o b = b
      BY <3>1
    <3> QED
      BY <3>2
  <2> HIDE DEF v, e
  <2>6. LET g == e \o b \o v
        IN  /\ g \in Seq(0 .. 1) /\ Len(g) = Len(e) + n + Len(v)
            /\ \A i \in 1 .. Len(v) : g[Len(e) + n + i] = v[i]
            /\ SubSeq(g, Len(e) + 1, Len(e) + n) = b
    <3>1. Framed(e \o b \o v, e, b, v, n)
      BY <2>2, <2>4, FrameIs, Zenon
    <3> QED
      BY <3>1, Zenon DEF Framed
  <2> HIDE DEF f
  <2>7. Len(e) + n + Len(v) = 5 /\ Len(e) + n + 1 = 5 /\ Len(e) + 1 = 1 /\ Len(e) + n = 4 /\ 1 \in 1 .. Len(v)
    BY <2>1, <2>4
  <2>8. f \in Seq(0 .. 1) /\ Len(f) = 5 /\ f[5] = 1 /\ SubSeq(f, 1, 4) = b
    BY <2>4, <2>5, <2>6, <2>7
  <2> QED
    BY <2>3, <2>8 DEF b
<1>5. q = [k \in 1 .. N |-> q[k]]
  BY <1>2
<1> HIDE DEF q
<1>6. Len(F) = 5 * N /\ \A k \in 1 .. N : fr(k) = q[k]
  <2>1. PICK n \in Nat \ {0} : n = 5
    OBVIOUS
  <2>2. \A k \in 1 .. N : q[k] \in Seq(0 .. 1) /\ Len(q[k]) = n
    BY <1>4, <2>1
  <2>3. Len(F) = n * N /\ \A k \in 1 .. N : SubSeq(M, L + (k - 1) * n + 1, L + k * n) = q[k]
    <3>1. Len(F) = n * N /\ FramesIn(M, L, q, n, N)
      BY <1>5, <2>2, FramesApart, Zenon
    <3> QED
      BY <3>1, Zenon DEF FramesIn
  <2> HIDE DEF M
  <2> QED
    BY <2>1, <2>3
<1>7. extract_nibbles_4b1s(M, L, 5 * N) = [k \in 1 .. C(5 * N) |-> D(k)]
  BY Zenon DEF extract_nibbles_4b1s, Frames
<1> HIDE DEF F, M
<1>8. C(5 * N) = N
  <2>1. (5 * N) \div 5 = N
    OBVIOUS
  <2>2. \A k \in 1 .. N : fr(k)[5] = 1
    BY <1>4, <1>6
  <2>3. S(5 * N) = 0 .. N
    <3> HIDE DEF fr
    <3> QED
      BY <2>1, <2>2
  <2> HIDE DEF S
  <2>4. C(5 * N) = CHOOSE j \in 0 .. N : \A i \in 0 .. N : i <= j
    BY <2>3
  <2> QED
    BY <2>4, MostFrames
<1>9. \A k \in 1 .. N : D(k) = B(k)
  <2> HIDE DEF fr
  <2> QED
    BY <1>4, <1>6
<1>10. Blocks(m, 4) = [k \in 1 .. N |-> B(k)]
  BY <1>2 DEF Blocks, BlockOf
<1>11. extract_nibbles_4b1s(M, L, 5 * N) = Blocks(m, 4)
  <2> HIDE DEF D, B, C
  <2> QED
    BY <1>7, <1>8, <1>9, <1>10
<1> QED
  BY <1>3, <1>6, <1>11 DEF M, F

OnesSteps(h, b, n) == h[0] = 0 /\ \A k \in 1 .. n : h[k] = h[k - 1] + b[k]
ParitySteps(h, b, n) == h[0] = 0 /\ \A k \in 1 .. n : h[k] = (h[k - 1] + b[k]) % 2

LEMMA OnesFold ==
  ASSUME NEW n \in Nat, NEW b \in Regs(n)
  PROVE  \E h : OnesSteps(h, b, n) /\ Ones(b) = h[n]
<1> DEFINE D == SUBSET (1 .. n)
           A == Nat
           Q(f) == f = [u \in D |-> IF u = {} THEN 0 ELSE f[u \ {Max(u)}] + b[Max(u)]]
           F == [k \in 1 .. n |-> [r \in A |-> r + b[k]]]
           c == CHOOSE f : Q(f)
<1>1. n \in Nat
  OBVIOUS
<1>2. \A k \in 1 .. n : \A r \in A : r + b[k] \in A
  <2>1. \A k \in 1 .. n : b[k] \in 0 .. 1
    BY DEF Regs
  <2> QED
    BY <2>1
<1>3. \A k \in 1 .. n : \A r \in A : F[k][r] = r + b[k] /\ F[k][r] \in A
  BY <1>2
<1>4. 0 \in A
  OBVIOUS
<1> HIDE DEF F, A
<1>5. PICK f : Folds(f, 0, F, n) /\ \A u \in D : f[u] \in A
  BY <1>1, <1>3, <1>4, FoldExists
<1>6. \A u \in D : u # {} => F[Max(u)][f[u \ {Max(u)}]] = f[u \ {Max(u)}] + b[Max(u)]
  <2>1. \A u \in D : u # {} => Max(u) \in 1 .. n /\ u \ {Max(u)} \in D
    BY <1>1, MaxOf
  <2> QED
    BY <1>3, <1>5, <2>1
<1>7. Q(f)
  BY <1>5, <1>6, Zenon DEF Folds
<1>8. Q(c)
  BY <1>7, Zenon
<1>9. Ones(b) = c[1 .. n]
  <2>1. Ones(b) = (CHOOSE h : h = [u \in SUBSET DOMAIN b |->
                  IF u = {} THEN 0 ELSE h[u \ {Max(u)}] + b[Max(u)]])[DOMAIN b]
    BY Zenon DEF Ones, FoldLeft, MapThenFoldSet
  <2>2. DOMAIN b = 1 .. n
    BY DEF Regs
  <2> QED
    BY <2>1, <2>2, Zenon
<1> HIDE DEF c
<1>10. \A u \in D : c[u] = IF u = {} THEN 0 ELSE c[u \ {Max(u)}] + b[Max(u)]
  BY <1>8, Zenon
<1> HIDE DEF Q
<1>11. /\ 1 .. 0 = {} /\ 1 .. 0 \in D
       /\ \A k \in 1 .. n : /\ 1 .. k # {} /\ Max(1 .. k) = k /\ (1 .. k) \ {k} = 1 .. (k - 1)
                            /\ 1 .. k \in D
  BY <1>1, Beginnings
<1> HIDE DEF D
<1>12. c[1 .. 0] = 0
  BY <1>10, <1>11, Zenon
<1>13. ASSUME NEW k \in 1 .. n
       PROVE  c[1 .. k] = c[1 .. (k - 1)] + b[k]
  <2>1. 1 .. k # {} /\ Max(1 .. k) = k /\ (1 .. k) \ {k} = 1 .. (k - 1) /\ 1 .. k \in D
    BY <1>11, Zenon
  <2> QED
    BY <1>10, <2>1, Zenon
<1> DEFINE h == [k \in 0 .. n |-> c[1 .. k]]
<1>14. \A k \in 0 .. n : h[k] = c[1 .. k]
  OBVIOUS
<1> HIDE DEF h
<1>15. 0 \in 0 .. n /\ n \in 0 .. n /\ \A k \in 1 .. n : k \in 0 .. n /\ k - 1 \in 0 .. n
  BY <1>1
<1>16. h[0] = 0 /\ Ones(b) = h[n]
  BY <1>9, <1>12, <1>14, <1>15, Zenon
<1>17. ASSUME NEW k \in 1 .. n
       PROVE  h[k] = h[k - 1] + b[k]
  <2>1. h[k] = c[1 .. k] /\ h[k - 1] = c[1 .. (k - 1)]
    BY <1>14, <1>15, Zenon
  <2> QED
    BY <1>13, <2>1, Zenon
<1>18. OnesSteps(h, b, n)
  BY <1>16, <1>17, Zenon DEF OnesSteps
<1> QED
  BY <1>16, <1>18

LEMMA ParityFold ==
  ASSUME NEW n \in Nat, NEW b \in Regs(n)
  PROVE  \E h : ParitySteps(h, b, n) /\ parity8(b) = h[n]
<1> DEFINE D == SUBSET (1 .. n)
           A == 0 .. 1
           Q(f) == f = [u \in D |-> IF u = {} THEN 0 ELSE (f[u \ {Max(u)}] + b[Max(u)]) % 2]
           F == [k \in 1 .. n |-> [r \in A |-> (r + b[k]) % 2]]
           c == CHOOSE f : Q(f)
<1>1. n \in Nat
  OBVIOUS
<1>2. \A k \in 1 .. n : \A r \in A : (r + b[k]) % 2 \in A
  <2>1. \A k \in 1 .. n : b[k] \in 0 .. 1
    BY DEF Regs
  <2> QED
    BY <2>1
<1>3. \A k \in 1 .. n : \A r \in A : F[k][r] = (r + b[k]) % 2 /\ F[k][r] \in A
  BY <1>2
<1>4. 0 \in A
  OBVIOUS
<1> HIDE DEF F, A
<1>5. PICK f : Folds(f, 0, F, n) /\ \A u \in D : f[u] \in A
  BY <1>1, <1>3, <1>4, FoldExists
<1>6. \A u \in D : u # {} => F[Max(u)][f[u \ {Max(u)}]] = (f[u \ {Max(u)}] + b[Max(u)]) % 2
  <2>1. \A u \in D : u # {} => Max(u) \in 1 .. n /\ u \ {Max(u)} \in D
    BY <1>1, MaxOf
  <2> QED
    BY <1>3, <1>5, <2>1
<1>7. Q(f)
  BY <1>5, <1>6, Zenon DEF Folds
<1>8. Q(c)
  BY <1>7, Zenon
<1>9. parity8(b) = c[1 .. n]
  <2>1. parity8(b) = (CHOOSE h : h = [u \in SUBSET DOMAIN b |->
                  IF u = {} THEN 0 ELSE (h[u \ {Max(u)}] + b[Max(u)]) % 2])[DOMAIN b]
    BY Zenon DEF parity8, FoldLeft, MapThenFoldSet
  <2>2. DOMAIN b = 1 .. n
    BY DEF Regs
  <2> QED
    BY <2>1, <2>2, Zenon
<1> HIDE DEF c
<1>10. \A u \in D : c[u] = IF u = {} THEN 0 ELSE (c[u \ {Max(u)}] + b[Max(u)]) % 2
  BY <1>8, Zenon
<1> HIDE DEF Q
<1>11. /\ 1 .. 0 = {} /\ 1 .. 0 \in D
       /\ \A k \in 1 .. n : /\ 1 .. k # {} /\ Max(1 .. k) = k /\ (1 .. k) \ {k} = 1 .. (k - 1)
                            /\ 1 .. k \in D
  BY <1>1, Beginnings
<1> HIDE DEF D
<1>12. c[1 .. 0] = 0
  BY <1>10, <1>11, Zenon
<1>13. ASSUME NEW k \in 1 .. n
       PROVE  c[1 .. k] = (c[1 .. (k - 1)] + b[k]) % 2
  <2>1. 1 .. k # {} /\ Max(1 .. k) = k /\ (1 .. k) \ {k} = 1 .. (k - 1) /\ 1 .. k \in D
    BY <1>11, Zenon
  <2> QED
    BY <1>10, <2>1, Zenon
<1> DEFINE h == [k \in 0 .. n |-> c[1 .. k]]
<1>14. \A k \in 0 .. n : h[k] = c[1 .. k]
  OBVIOUS
<1> HIDE DEF h
<1>15. 0 \in 0 .. n /\ n \in 0 .. n /\ \A k \in 1 .. n : k \in 0 .. n /\ k - 1 \in 0 .. n
  BY <1>1
<1>16. h[0] = 0 /\ parity8(b) = h[n]
  BY <1>9, <1>12, <1>14, <1>15, Zenon
<1>17. ASSUME NEW k \in 1 .. n
       PROVE  h[k] = (h[k - 1] + b[k]) % 2
  <2>1. h[k] = c[1 .. k] /\ h[k - 1] = c[1 .. (k - 1)]
    BY <1>14, <1>15, Zenon
  <2> QED
    BY <1>13, <2>1, Zenon
<1>18. ParitySteps(h, b, n)
  BY <1>16, <1>17, Zenon DEF ParitySteps
<1> QED
  BY <1>16, <1>18

LEMMA ParityIs ==
  ASSUME NEW n \in Nat, NEW b \in Regs(n)
  PROVE  Ones(b) \in Nat /\ Ones(b) % 2 = parity8(b)
<1>1. PICK h : OnesSteps(h, b, n) /\ Ones(b) = h[n]
  BY OnesFold
<1>2. PICK g : ParitySteps(g, b, n) /\ parity8(b) = g[n]
  BY ParityFold
<1> DEFINE T == {k \in 0 .. n : h[k] \in Nat /\ g[k] = h[k] % 2}
<1>3. 0 \in T
  BY <1>1, <1>2 DEF OnesSteps, ParitySteps
<1>4. ASSUME NEW k \in Nat, k < n, k \in T
      PROVE  k + 1 \in T
  <2>1. k + 1 \in 1 .. n /\ (k + 1) - 1 = k
    BY <1>4
  <2>2. h[k + 1] = h[(k + 1) - 1] + b[k + 1] /\ g[k + 1] = (g[(k + 1) - 1] + b[k + 1]) % 2
    BY <1>1, <1>2, <2>1, Zenon DEF OnesSteps, ParitySteps
  <2>3. h[k + 1] = h[k] + b[k + 1] /\ g[k + 1] = (g[k] + b[k + 1]) % 2
    BY <2>1, <2>2, Zenon
  <2>4. b[k + 1] \in 0 .. 1
    BY <2>1 DEF Regs
  <2>5. PICK x \in Nat : x = h[k] /\ g[k] = x % 2
    BY <1>4
  <2>6. PICK y \in 0 .. 1 : y = b[k + 1]
    BY <2>4
  <2>7. ((x % 2) + y) % 2 = (x + y) % 2 /\ x + y \in Nat
    BY SMT
  <2>8. h[k + 1] = x + y /\ g[k + 1] = (x + y) % 2
    BY <2>3, <2>5, <2>6, <2>7, Zenon
  <2> QED
    BY <2>1, <2>7, <2>8
<1> HIDE DEF T
<1>5. n \in T
  BY <1>3, <1>4, UpTo
<1>6. Ones(b) \in Nat /\ parity8(b) = Ones(b) % 2
  BY <1>1, <1>2, <1>5 DEF T
<1> QED
  BY <1>6

\* extract_bytes_uart_parity gives back the bytes that were sent with a parity bit that makes
\* the ones even in number.  Of frames with odd parity, for which it is documented
\* (src/include/bit_util.h), it takes not one.
THEOREM UartParityDecoded ==
  ASSUME NEW m \in WholeBytes, NEW lead \in Seq(0 .. 1), NEW rest \in Seq(0 .. 1), NEW odd \in 0 .. 1
  PROVE  extract_bytes_uart_parity(lead \o UartParity(m, odd) \o rest, Len(lead), Len(UartParity(m, odd)))
           = IF odd = 0 THEN Blocks(m, 8) ELSE <<>>
<1> DEFINE B(k) == BlockOf(m, 8, k)
           q == [k \in 1 .. Len(m) \div 8 |-> <<1>> \o B(k) \o <<(Ones(B(k)) + odd) % 2, 0>>]
           F == FlattenSeq(q)
           M == lead \o F \o rest
           L == Len(lead)
           fr(k) == SubSeq(M, L + (k - 1) * 11 + 1, L + k * 11)
           S(n) == {j \in 0 .. n \div 11 : \A k \in 1 .. j : fr(k)[1] = 1 /\ SameParity(fr(k)) /\ fr(k)[11] = 0}
           C(n) == CHOOSE j \in S(n) : \A i \in S(n) : i <= j
           D(k) == SubSeq(fr(k), 2, 9)
<1>1. PICK N \in Nat : Len(m) = 8 * N
  <2>1. PICK K \in Nat : Len(m) = 8 * K
    BY BytesInWhole
  <2>2. 1 * K \in Nat /\ Len(m) = 8 * (1 * K)
    BY <2>1
  <2> QED
    BY <2>2
<1>2. Len(m) \div 8 = N /\ m \in Seq(0 .. 1)
  BY <1>1, BytesInWhole
<1>3. UartParity(m, odd) = F
  <2>1. Blocks(m, 8) = [k \in 1 .. Len(m) \div 8 |-> B(k)]
    BY DEF Blocks, BlockOf
  <2>2. UartParity(m, odd) = FlattenSeq([k \in DOMAIN Blocks(m, 8) |-> <<1>> \o Blocks(m, 8)[k] \o <<(Ones(Blocks(m, 8)[k]) + odd) % 2, 0>>])
    BY Zenon DEF UartParity, EachBlock
  <2>3. [k \in DOMAIN Blocks(m, 8) |-> <<1>> \o Blocks(m, 8)[k] \o <<(Ones(Blocks(m, 8)[k]) + odd) % 2, 0>>] = q
    BY <2>1
  <2> QED
    BY <2>2, <2>3
<1>4. ASSUME NEW k \in 1 .. N
      PROVE  /\ q[k] \in Seq(0 .. 1) /\ Len(q[k]) = 11
             /\ q[k][1] = 1 /\ (SameParity(q[k]) <=> odd = 0) /\ q[k][11] = 0
             /\ SubSeq(q[k], 2, 9) = B(k)
  <2> DEFINE b == B(k)
             p == (Ones(b) + odd) % 2
             u == <<1>>
             v == <<p, 0>>
             f == u \o b \o v
  <2>1. PICK n \in Nat \ {0} : n = 8
    OBVIOUS
  <2>2. b \in Regs(n)
    BY <1>1, <1>2, <2>1, BlockIs
  <2>3. q[k] = f
    BY <1>2
  <2> HIDE DEF b, q
  <2>4. p \in 0 .. 1 /\ (p = parity8(b) <=> odd = 0)
    <3>1. PICK x \in Nat : x = Ones(b) /\ x % 2 = parity8(b)
      BY <2>1, <2>2, ParityIs
    <3>2. (x + odd) % 2 \in 0 .. 1 /\ ((x + odd) % 2 = x % 2 <=> odd = 0)
      OBVIOUS
    <3>3. p = (x + odd) % 2
      BY <3>1
    <3> QED
      BY <3>1, <3>2, <3>3
  <2> HIDE DEF p
  <2>5. u \in Seq(0 .. 1) /\ Len(u) = 1 /\ u[1] = 1 /\ v \in Seq(0 .. 1) /\ Len(v) = 2 /\ v[1] = p /\ v[2] = 0
    BY <2>4
  <2> HIDE DEF u, v
  <2>6. /\ f \in Seq(0 .. 1) /\ Len(f) = Len(u) + n + Len(v)
        /\ \A i \in 1 .. Len(u) : f[i] = u[i]
        /\ \A i \in 1 .. Len(v) : f[Len(u) + n + i] = v[i]
        /\ SubSeq(f, Len(u) + 1, Len(u) + n) = b
    <3>1. Framed(f, u, b, v, n)
      BY <2>2, <2>5, FrameIs, Zenon
    <3> QED
      BY <3>1, Zenon DEF Framed
  <2> HIDE DEF f
  <2>7. /\ Len(u) + n + Len(v) = 11 /\ Len(u) + n + 1 = 10 /\ Len(u) + n + 2 = 11 /\ Len(u) + 1 = 2 /\ Len(u) + n = 9
        /\ 1 \in 1 .. Len(u) /\ 1 \in 1 .. Len(v) /\ 2 \in 1 .. Len(v)
    BY <2>1, <2>5
  <2>8. Len(f) = 11 /\ f[1] = 1 /\ f[10] = p /\ f[11] = 0
    BY <2>5, <2>6, <2>7
  <2>9. SubSeq(f, 2, 9) = b
    BY <2>6, <2>7
  <2>10. SameParity(f) <=> odd = 0
    BY <2>4, <2>8, <2>9, Zenon DEF SameParity
  <2> QED
    BY <2>3, <2>6, <2>8, <2>9, <2>10 DEF b
<1>5. q = [k \in 1 .. N |-> q[k]]
  BY <1>2
<1> HIDE DEF q
<1>6. Len(F) = 11 * N /\ \A k \in 1 .. N : fr(k) = q[k]
  <2>1. PICK n \in Nat \ {0} : n = 11
    OBVIOUS
  <2>2. \A k \in 1 .. N : q[k] \in Seq(0 .. 1) /\ Len(q[k]) = n
    BY <1>4, <2>1
  <2>3. Len(F) = n * N /\ \A k \in 1 .. N : SubSeq(M, L + (k - 1) * n + 1, L + k * n) = q[k]
    <3>1. Len(F) = n * N /\ FramesIn(M, L, q, n, N)
      BY <1>5, <2>2, FramesApart, Zenon
    <3> QED
      BY <3>1, Zenon DEF FramesIn
  <2> HIDE DEF M
  <2> QED
    BY <2>1, <2>3
<1>7. extract_bytes_uart_parity(M, L, 11 * N) = [k \in 1 .. C(11 * N) |-> D(k)]
  BY Zenon DEF extract_bytes_uart_parity, Frames
<1> HIDE DEF F, M
<1>8. C(11 * N) = IF odd = 0 THEN N ELSE 0
  <2>1. (11 * N) \div 11 = N
    OBVIOUS
  <2>2. \A k \in 1 .. N : fr(k)[1] = 1 /\ (SameParity(fr(k)) <=> odd = 0) /\ fr(k)[11] = 0
    BY <1>4, <1>6
  <2>3. CASE odd = 0
    <3>1. S(11 * N) = 0 .. N
      <4> HIDE DEF fr
      <4> QED
        BY <2>1, <2>2, <2>3
    <3> HIDE DEF S
    <3>2. C(11 * N) = CHOOSE j \in 0 .. N : \A i \in 0 .. N : i <= j
      BY <3>1
    <3> QED
      BY <2>3, <3>2, MostFrames
  <2>4. CASE odd # 0
    <3>1. S(11 * N) = {0}
      <4> HIDE DEF fr
      <4>1. 0 \in S(11 * N)
        BY <2>1
      <4>2. ASSUME NEW j \in S(11 * N)
            PROVE  j = 0
        <5>1. j \in 0 .. N /\ \A k \in 1 .. j : SameParity(fr(k))
          BY <2>1
        <5>2. ASSUME j # 0
              PROVE  FALSE
          <6>1. 1 \in 1 .. j /\ 1 \in 1 .. N
            BY <5>1, <5>2
          <6> QED
            BY <2>2, <2>4, <5>1, <6>1
        <5> QED
          BY <5>2
      <4> HIDE DEF S
      <4> QED
        BY <4>1, <4>2
    <3> HIDE DEF S
    <3> QED
      BY <2>4, <3>1
  <2> QED
    BY <2>3, <2>4
<1>9. \A k \in 1 .. N : D(k) = B(k)
  <2> HIDE DEF fr
  <2> QED
    BY <1>4, <1>6
<1>10. Blocks(m, 8) = [k \in 1 .. N |-> B(k)]
  BY <1>2 DEF Blocks, BlockOf
<1>11. extract_bytes_uart_parity(M, L, 11 * N) = IF odd = 0 THEN Blocks(m, 8) ELSE <<>>
  <2> HIDE DEF D, B, C
  <2> QED
    BY <1>7, <1>8, <1>9, <1>10
<1> QED
  BY <1>3, <1>6, <1>11 DEF M, F
=============================================================================

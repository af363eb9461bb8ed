------------------------------- MODULE BitReads -------------------------------
(***************************************************************************)
(* How decoders read a bit buffer (src/src/bitbuffer.c:150-223, 281-333,   *)
(* 479-528): they look for repeated rows and for a pattern, copy bits out, *)
(* and undo the two Manchester codes.  A row may be read beyond its        *)
(* length, where the next bits in memory are.                              *)
(***************************************************************************)
EXTENDS BitBuffer, SequencesExt

\* bit_at: bit i of a row, or behind it.
BitAt(b, row, i) == b.bb[Index(row, i)]

\* The first of n candidates that passes, or n.
FirstOf(n, Test(_)) ==
  IF \E k \in 0 .. n - 1 : Test(k)
    THEN CHOOSE k \in 0 .. n - 1 : Test(k) /\ \A j \in 0 .. k - 1 : ~Test(j)
    ELSE n

-----------------------------------------------------------------------------
(* Repeated rows.                                                           *)

SameBits(b, row_a, row_b, n) ==
  \A i \in 0 .. n - 1 : BitAt(b, row_a, i) = BitAt(b, row_b, i)

\* Mutant: the bits of the last byte are not compared.
SameWholeBytes(b, row_a, row_b, n) ==
  SameBits(b, row_a, row_b, (n \div BYTE) * BYTE)

\* memcmp of all bytes that n bits begin.
SameBytes(b, row_a, row_b, n) == SameBits(b, row_a, row_b, BitsToByte(n))

\* The prefix is compared to the bit, whole rows with their unused bits.
bitbuffer_compare_rows(b, row_a, row_b, max_bits) ==
  LET len_a == b.bits_per_row[row_a]
      len_b == b.bits_per_row[row_b]
  IN  IF max_bits = 0 \/ len_a < max_bits \/ len_b < max_bits
        THEN len_a = len_b /\ SameBytes(b, row_a, row_b, len_a)
        ELSE SameBits(b, row_a, row_b, max_bits)

bitbuffer_count_repeats(b, row, max_bits) ==
  Cardinality({i \in RowIndexes(b) : bitbuffer_compare_rows(b, row, i, max_bits)})

\* The first row that is long and frequent enough, or -1.
FindRepeated(b, min_repeats, min_bits, max_bits) ==
  LET found == FirstOf(b.num_rows, LAMBDA i :
                 /\ b.bits_per_row[i] >= min_bits
                 /\ bitbuffer_count_repeats(b, i, max_bits) >= min_repeats)
  IN  IF found = b.num_rows THEN -1 ELSE found

bitbuffer_find_repeated_row(b, min_repeats, min_bits) ==
  FindRepeated(b, min_repeats, min_bits, 0)
bitbuffer_find_repeated_prefix(b, min_repeats, min_bits) ==
  FindRepeated(b, min_repeats, min_bits, min_bits)

-----------------------------------------------------------------------------
(* A pattern, and bits from any position on.                                *)

\* Mutant: the cursor goes on behind the mismatch.
NoRestart(ipos, ppos) == ipos + 1

\* After a mismatch the next try starts one bit behind the last one.
Restart(ipos, ppos) == ipos - ppos + 1

\* ipos and ppos move together; the length of the row if nothing is found.
bitbuffer_search(b, row, start, pattern) ==
  LET len == b.bits_per_row[row]
      cursor[ipos \in Nat, ppos \in Nat] ==
        IF ipos >= len \/ ppos >= Len(pattern) THEN len
        ELSE IF BitAt(b, row, ipos) # pattern[ppos + 1] THEN cursor[Restart(ipos, ppos), 0]
        ELSE IF ppos + 1 = Len(pattern) THEN ipos + 1 - Len(pattern)
        ELSE cursor[ipos + 1, ppos + 1]
  IN  cursor[start, 0]

\* Bits pos to pos + n - 1, in whole bytes filled with zeros.
bitbuffer_extract_bytes(b, row, pos, n) ==
  [i \in 1 .. BitsToByte(n) |-> IF i <= n THEN BitAt(b, row, pos + i - 1) ELSE 0]

-----------------------------------------------------------------------------
(* Manchester codes; the decoded bits are added to another buffer.          *)

\* The end of what is decoded: the row's, or that of `max' bits.
Limit(b, row, start, max) ==
  LET len == b.bits_per_row[row]
  IN  IF max > 0 /\ len > start + max * 2 THEN start + max * 2 ELSE len

\* Pairs that begin before the limit, the last one perhaps with its first half only.
PairsFrom(start, limit) == IF start < limit THEN (limit - start + 1) \div 2 ELSE 0

AddDecoded(b, row, outbuf, decoded) ==
  FoldLeft(bitbuffer_add_bit, [outbuf EXCEPT !.len_rows[0] = b.len_rows[row]], decoded)

\* A result: the position behind the last bit read, and the other buffer.
bitbuffer_manchester_decode(b, row, start, outbuf, max) ==
  LET At(i)  == BitAt(b, row, i)
      pairs  == PairsFrom(start, Limit(b, row, start, max))
      good   == FirstOf(pairs, LAMBDA k : At(start + 2 * k) = At(start + 2 * k + 1))
      read   == IF good < pairs THEN good + 1 ELSE pairs
  IN  [ ipos |-> start + 2 * read,
        out  |-> AddDecoded(b, row, outbuf, [k \in 1 .. good |-> At(start + 2 * k - 1)]) ]

\* Bit k, two half bits from position `from' on, does not begin with a change of level.
ClockMissing(b, row, from, level, k) ==
  BitAt(b, row, from + 2 * k) =
    (IF k = 0 THEN level ELSE BitAt(b, row, from + 2 * k - 1))

\* Short levels are zeros, until the first long one shows where a bit begins: it is
\* a one, and half a bit may have to be skipped.  From there on every bit begins
\* with a change of level, and a one has no other.
bitbuffer_differential_manchester_decode(b, row, start, outbuf, max) ==
  LET At(i)    == BitAt(b, row, i)
      limit    == Limit(b, row, start, max)
      tries    == PairsFrom(start, limit)
      zeros    == FirstOf(tries, LAMBDA k :
                    \/ At(start + 2 * k) = At(start + 2 * k + 1)
                    \/ At(start + 2 * k + 1) = At(start + 2 * k + 2))
      first    == start + 2 * zeros
      aligned  == At(first) = At(first + 1)
      from     == IF zeros = tries \/ aligned THEN first ELSE first + 1
      level    == IF aligned THEN 1 - At(first) ELSE At(first)
      pairs    == PairsFrom(from, limit)
      good     == FirstOf(pairs, LAMBDA k : ClockMissing(b, row, from, level, k))
      one(k)   == At(from + 2 * k) = At(from + 2 * k + 1)
  IN  [ ipos |-> from + 2 * good + (IF good < pairs THEN 1 ELSE 0),
        out  |-> AddDecoded(b, row, outbuf,
                   [k \in 1 .. zeros |-> 0]
                     \o [k \in 1 .. good |-> IF one(k - 1) THEN 1 ELSE 0]) ]
=============================================================================

------------------------------ MODULE BitBuffer ------------------------------
(***************************************************************************)
(* bitbuffer_t and the operations that fill and transform it               *)
(* (src/src/bitbuffer.c).                                                  *)
(*                                                                         *)
(* The rows are consecutive in memory, and a row that is longer than       *)
(* RowBits spills over the rows behind it: bb is therefore one array of    *)
(* bits.  num_rows - 1 is the row that is filled, free_row the first row   *)
(* behind it that holds nothing of it.  bits_per_row, syncs_before_row and *)
(* len_rows keep what they held for rows that no longer count.             *)
(***************************************************************************)
EXTENDS Integers

CONSTANTS
  BITBUF_ROWS,        \* rows of a buffer
  BITBUF_COLS,        \* bytes of a row
  BYTE,               \* bits of a byte
  UINT16_MAX          \* the longest length bits_per_row can hold

ASSUME BufferAssumption ==
  /\ BITBUF_ROWS \in Nat \ {0} /\ BITBUF_COLS \in Nat \ {0} /\ BYTE \in Nat \ {0}
  /\ UINT16_MAX \in Nat

RowBits == BITBUF_COLS * BYTE

Rows    == 0 .. BITBUF_ROWS - 1
AllBits == 0 .. BITBUF_ROWS * RowBits - 1

Bitbuffers ==
  [ num_rows: 0 .. BITBUF_ROWS, free_row: 0 .. BITBUF_ROWS,
    bits_per_row: [Rows -> Nat], syncs_before_row: [Rows -> Nat],
    len_rows: [Rows -> Nat], bb: [AllBits -> 0 .. 1] ]

bitbuffer_clear ==
  [ num_rows |-> 0, free_row |-> 0,
    bits_per_row |-> [r \in Rows |-> 0], syncs_before_row |-> [r \in Rows |-> 0],
    len_rows |-> [r \in Rows |-> 0], bb |-> [i \in AllBits |-> 0] ]

\* Bit i of row r, which spills when i is RowBits or more.
Index(r, i) == r * RowBits + i

CurrentRow(b) == b.num_rows - 1

\* Every operation adds the first row automatically.
WithRow(b) == IF b.num_rows = 0 THEN [b EXCEPT !.num_rows = 1, !.free_row = 1] ELSE b

BitsToByte(n) == ((n + BYTE - 1) \div BYTE) * BYTE

-----------------------------------------------------------------------------
(* What the slicers call.                                                   *)

Spills(b) ==
  LET n == b.bits_per_row[CurrentRow(b)] IN n > 0 /\ n % RowBits = 0

\* Mutant: a row may spill over the end of the buffer.
SpillsUnchecked(b) == b.bits_per_row[CurrentRow(b)] = UINT16_MAX

\* The bit is lost: the row cannot get longer.
NoMoreBits(b) ==
  \/ b.bits_per_row[CurrentRow(b)] = UINT16_MAX
  \/ Spills(b) /\ b.free_row >= BITBUF_ROWS

\* A bit is or-ed into its place.
StoreBit(b, bit) ==
  LET row == CurrentRow(b)
      at  == Index(row, b.bits_per_row[row])
  IN  [b EXCEPT !.free_row = IF Spills(b) THEN @ + 1 ELSE @,
                !.bits_per_row[row] = @ + 1,
                !.bb[at] = IF bit = 1 THEN 1 ELSE @]

bitbuffer_add_bit(bits, bit) ==
  LET b == WithRow(bits) IN IF NoMoreBits(b) THEN b ELSE StoreBit(b, bit)

bitbuffer_add_last_len(b, len) ==
  IF b.num_rows > 0 /\ b.len_rows[CurrentRow(b)] = 0
    THEN [b EXCEPT !.len_rows[CurrentRow(b)] = len]
    ELSE b

NoMoreRows(b) == b.free_row >= BITBUF_ROWS

\* Mutant: the next row follows the current one although it spilled.
AddRowBehind(bits, len) ==
  LET b == [WithRow(bits) EXCEPT !.len_rows[CurrentRow(WithRow(bits))] = len]
  IN  IF NoMoreRows(b)
        THEN [b EXCEPT !.bits_per_row[CurrentRow(b)] = 0]
        ELSE [b EXCEPT !.free_row = @ + 1, !.num_rows = @ + 1]

\* The length of the row ends with it: the caller's count starts again at 0.
\* With no row left the row is counted as empty; its bits stay in bb.
bitbuffer_add_row(bits, len) ==
  LET b == [WithRow(bits) EXCEPT !.len_rows[CurrentRow(WithRow(bits))] = len]
  IN  IF NoMoreRows(b)
        THEN [b EXCEPT !.bits_per_row[CurrentRow(b)] = 0]
        ELSE [b EXCEPT !.free_row = @ + 1, !.num_rows = b.free_row + 1]

\* A sync ends a row that has bits.
SyncEndsRow(bits) ==
  LET b == WithRow(bits) IN b.bits_per_row[CurrentRow(b)] > 0

bitbuffer_add_sync(bits, len) ==
  LET b == IF SyncEndsRow(bits) THEN bitbuffer_add_row(bits, len) ELSE WithRow(bits)
  IN  [b EXCEPT !.syncs_before_row[CurrentRow(b)] = @ + 1]

-----------------------------------------------------------------------------
(* What the parser of test data calls besides.                              *)

RemainingBits(b) == (BITBUF_ROWS - b.num_rows + 1) * RowBits

\* Mutant: the bits that are cut off stay.
SetWidthOnly(bits, width) ==
  LET b   == WithRow(bits)
      new == IF width > RemainingBits(b) THEN RemainingBits(b) ELSE width
  IN  [b EXCEPT !.bits_per_row[CurrentRow(b)] = new,
                !.free_row = b.num_rows + (IF new = 0 THEN 0 ELSE (new - 1) \div RowBits)]

\* Bits that are cut off are cleared up to the end of their byte.
bitbuffer_set_width(bits, width) ==
  LET b   == WithRow(bits)
      row == CurrentRow(b)
      old == b.bits_per_row[row]
      new == IF width > RemainingBits(b) THEN RemainingBits(b) ELSE width
      cut == {Index(row, i) : i \in new .. BitsToByte(old) - 1}
  IN  [b EXCEPT !.bits_per_row[row] = new,
                !.free_row = b.num_rows + (IF new = 0 THEN 0 ELSE (new - 1) \div RowBits),
                !.bb = [i \in AllBits |-> IF i \in cut /\ old > new THEN 0 ELSE b.bb[i]]]

-----------------------------------------------------------------------------
(* What the decoders call.                                                  *)

RowIndexes(b) == 0 .. b.num_rows - 1

\* Mutant: every byte starts at level 0.
BeforeInByte(b, r, i) == IF i % BYTE = 0 THEN 0 ELSE b.bb[Index(r, i - 1)]

\* The bit before bit i; a row starts at level 0.
Before(b, r, i) == IF i = 0 THEN 0 ELSE b.bb[Index(r, i - 1)]

\* f for every bit of the active rows; a row that spilled owns its bits, and a
\* row that another one spilled over has none.
MapBits(b, f(_, _)) ==
  [b EXCEPT !.bb = [k \in AllBits |->
     IF \E r \in RowIndexes(b) : k - Index(r, 0) \in 0 .. b.bits_per_row[r] - 1
       THEN LET r == CHOOSE r \in RowIndexes(b) :
                       k - Index(r, 0) \in 0 .. b.bits_per_row[r] - 1
            IN  f(r, k - Index(r, 0))
       ELSE b.bb[k]]]

\* Unused bits in the last byte of a row are cleared by the NRZ decoders.
ClearUnused(b) ==
  [b EXCEPT !.bb = [k \in AllBits |->
     IF \E r \in RowIndexes(b) :
          k - Index(r, 0) \in b.bits_per_row[r] .. BitsToByte(b.bits_per_row[r]) - 1
       THEN 0 ELSE b.bb[k]]]

bitbuffer_invert(b) == MapBits(b, LAMBDA r, i : 1 - b.bb[Index(r, i)])

\* A change of level is a 1 (mark), no change is a 1 (space).
bitbuffer_nrzm_decode(b) ==
  ClearUnused(MapBits(b, LAMBDA r, i : IF b.bb[Index(r, i)] # Before(b, r, i) THEN 1 ELSE 0))
bitbuffer_nrzs_decode(b) ==
  ClearUnused(MapBits(b, LAMBDA r, i : IF b.bb[Index(r, i)] = Before(b, r, i) THEN 1 ELSE 0))
=============================================================================

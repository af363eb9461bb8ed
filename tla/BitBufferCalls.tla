--------------------------- MODULE BitBufferCalls ----------------------------
(***************************************************************************)
(* The life of a bit buffer.  It is filled by a slicer                     *)
(* (src/src/pulse_slicer.c) or by the parser of test data                  *)
(* (bitbuffer_parse, src/src/bitbuffer.c:421), is then read and transformed*)
(* by a decoder, and cleared by the slicer for its next message.  What the *)
(* decoder reads of it changes nothing: RepeatsFound looks at every state. *)
(***************************************************************************)
EXTENDS BitReads

CONSTANTS
  Widths,           \* lengths of rows that test data asks for
  MaxAdded,         \* bound: bits, rows and syncs added to one buffer
  MaxTransforms     \* bound: transformations by one decoder

ASSUME CallsAssumption ==
  Widths \subseteq Nat /\ MaxAdded \in Nat /\ MaxTransforms \in Nat

VARIABLES
  bits,             \* the buffer
  user,             \* "slicer", "parser", or, once it is filled, "decoder"
  sized,            \* the parser has set the width of the row
  added,            \* auxiliary: operations up to MaxAdded
  transforms,       \* auxiliary: transformations
  truncated         \* auxiliary: something did not fit

vars == <<bits, user, sized, added, transforms, truncated>>

Init ==
  /\ bits = bitbuffer_clear /\ user \in {"slicer", "parser"} /\ sized = FALSE
  /\ added = 0 /\ transforms = 0 /\ truncated = FALSE

Filling(who) == user \in who /\ added < MaxAdded /\ added' = added + 1

AddBit(bit) ==
  /\ Filling({"slicer", "parser"}) /\ ~sized
  /\ bits' = bitbuffer_add_bit(bits, bit)
  /\ truncated' = (truncated \/ NoMoreBits(WithRow(bits)))
  /\ UNCHANGED <<user, sized, transforms>>

AddRow ==
  /\ Filling({"slicer", "parser"})
  /\ bits' = bitbuffer_add_row(bits, 1)
  /\ sized' = FALSE
  /\ truncated' = (truncated \/ NoMoreRows(WithRow(bits)))
  /\ UNCHANGED <<user, transforms>>

AddSync ==
  /\ Filling({"slicer"})
  /\ bits' = bitbuffer_add_sync(bits, 1)
  /\ truncated' = (truncated \/ (SyncEndsRow(bits) /\ NoMoreRows(WithRow(bits))))
  /\ UNCHANGED <<user, sized, transforms>>

SetWidth(width) ==
  /\ Filling({"parser"}) /\ ~sized /\ sized' = TRUE
  /\ bits' = bitbuffer_set_width(bits, width)
  /\ truncated' = (truncated \/ width > RemainingBits(WithRow(bits)))
  /\ UNCHANGED <<user, transforms>>

\* account_event hands the buffer to a decoder.
Deliver ==
  /\ user # "decoder" /\ bits.num_rows > 0 /\ user' = "decoder"
  /\ UNCHANGED <<bits, sized, added, transforms, truncated>>

Transform ==
  /\ user = "decoder" /\ transforms < MaxTransforms /\ transforms' = transforms + 1
  /\ bits' \in {bitbuffer_invert(bits), bitbuffer_nrzm_decode(bits), bitbuffer_nrzs_decode(bits)}
  /\ UNCHANGED <<user, sized, added, truncated>>

\* The next message of the train, or the next train, starts with an empty buffer.
Clear ==
  /\ user = "decoder" /\ user' \in {"slicer", "parser"}
  /\ bits' = bitbuffer_clear /\ sized' = FALSE
  /\ added' = 0 /\ transforms' = 0 /\ truncated' = FALSE

Next ==
  \/ \E bit \in 0 .. 1 : AddBit(bit)
  \/ AddRow \/ AddSync
  \/ \E width \in Widths : SetWidth(width)
  \/ Deliver \/ Transform \/ Clear

Spec == Init /\ [][Next]_vars

-----------------------------------------------------------------------------
(* Safety.                                                                  *)

TypeOK ==
  /\ bits \in Bitbuffers
  /\ user \in {"slicer", "parser", "decoder"} /\ sized \in BOOLEAN
  /\ added \in 0 .. MaxAdded /\ transforms \in 0 .. MaxTransforms /\ truncated \in BOOLEAN

\* bitbuffer_add_bit writes inside of the array of bits, however long the rows became
\* (bitbuffer.c:69-98): where a bit is going to be stored there is room for it.
RoomForBit ==
  bits.num_rows > 0 /\ ~NoMoreBits(bits) =>
    Index(CurrentRow(bits), bits.bits_per_row[CurrentRow(bits)]) \in AllBits

\* The rows that row r with n bits occupies end before this one.
EndRow(r, n) == r + (IF n = 0 THEN 1 ELSE (n + RowBits - 1) \div RowBits)

\* No bit of the row that is filled lies behind the array or in a row that is
\* handed out next, and no two active rows share a bit: the bits and rows that
\* bitbuffer_add_bit and bitbuffer_add_row add spill into free rows only.
RowsApart ==
  bits.num_rows > 0 =>
    /\ EndRow(CurrentRow(bits), bits.bits_per_row[CurrentRow(bits)]) <= bits.free_row
    /\ bits.num_rows <= bits.free_row
    /\ \A r \in RowIndexes(bits), q \in RowIndexes(bits) :
         r < q /\ bits.bits_per_row[q] > 0 => EndRow(r, bits.bits_per_row[r]) <= q

\* The unused bits of the last byte of each row are 0, which the decoders rely on
\* when they compare or print whole bytes - unless the last row of a full buffer
\* was given up, which keeps its bits.
UnusedBitsClear ==
  ~truncated =>
    \A r \in RowIndexes(bits) :
      \A i \in bits.bits_per_row[r] .. BitsToByte(bits.bits_per_row[r]) - 1 :
        bits.bb[Index(r, i)] = 0

\* An active row that no row before it spilled over.
Own(b, r) ==
  ~\E q \in RowIndexes(b) : q < r /\ EndRow(q, b.bits_per_row[q]) > r

RowOf(b, r) ==
  [ bits |-> [i \in 1 .. b.bits_per_row[r] |-> b.bb[Index(r, i - 1)]],
    syncs |-> b.syncs_before_row[r] ]

\* The own ones of the first n rows, in order.
OwnUpTo(b, n) ==
  LET own[k \in 0 .. BITBUF_ROWS] ==
        IF k = 0 THEN <<>>
          ELSE IF Own(b, k - 1) THEN Append(own[k - 1], k - 1) ELSE own[k - 1]
  IN  own[n]

OwnRows(b) == OwnUpTo(b, b.num_rows)

\* The first of the rows rs that has n bits and is like k of them, or none.
FirstLike(rs, k, n, Alike(_, _)) ==
  LET like(i) == {j \in DOMAIN rs : Alike(rs[i].bits, rs[j].bits)}
      fits(i) == Len(rs[i].bits) >= n /\ Cardinality(like(i)) >= k
  IN  {i \in DOMAIN rs : fits(i) /\ \A j \in 1 .. i - 1 : ~fits(j)}

FoundIn(found, rows, first) ==
  first = {i \in DOMAIN rows : rows[i] = found} /\ (found = -1 <=> first = {})

\* The row that a decoder takes for a repeated message is the first of at least k
\* rows with the same n or more bits, or the same first n bits, although bytes are
\* compared, rows spill, and indexes have no row of their own.
RepeatsFound ==
  LET own == OwnRows(bits)
      rs  == [i \in DOMAIN own |-> RowOf(bits, own[i])]
  IN  ~truncated =>
        \A k \in 2 .. BITBUF_ROWS, n \in 1 .. RowBits + 1 :
          /\ FoundIn(bitbuffer_find_repeated_row(bits, k, n), own,
                     FirstLike(rs, k, n, LAMBDA r, q : r = q))
          /\ FoundIn(bitbuffer_find_repeated_prefix(bits, k, n), own,
                     FirstLike(rs, k, n,
                       LAMBDA r, q : Len(q) >= n /\ SubSeq(r, 1, n) = SubSeq(q, 1, n)))

\* The buffer implements a sequence of rows: what was added is there, in order,
\* also in rows that spill, and a full buffer damages no row but the last.
RowsOf(b) == LET own == OwnRows(b) IN [i \in 1 .. Len(own) |-> RowOf(b, own[i])]

Abstract == INSTANCE BitRows WITH rows <- RowsOf(bits)

ImplementsRows == Abstract!Spec
=============================================================================

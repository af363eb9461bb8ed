------------------------------- MODULE Telegram -------------------------------
(***************************************************************************)
(* A decoder at work: a message goes through a checksum, a reordering or   *)
(* whitening, and a line code, into a row of a bit buffer, behind a lead   *)
(* and a sync word.  Noise may flip a burst of its bits.  The decoder      *)
(* looks for the sync word, undoes the line code and the reordering, and   *)
(* accepts the message if its checksum is right, with the functions of     *)
(* src/src/bitbuffer.c and src/src/bit_util.c (for example                 *)
(* src/src/devices/deltadore_x3d.c:262-306).                               *)
(***************************************************************************)
EXTENDS BitReads, BitUtil, TelegramSender

CONSTANTS
  Formats,      \* a line code, an order, and a check with its polynomial and initial value
  Messages,     \* contents of telegrams, of whole bytes
  Leads,        \* bits seen before the sync word
  Sync,         \* the sync word
  MaxBurst      \* bound: bits between the first and the last that noise flips

ASSUME TelegramAssumption ==
  /\ \A m \in Messages : Len(m) % 8 = 0 /\ 1 \in ToSet(m)
  /\ Sync # <<>> /\ MaxBurst \in Nat

VARIABLES
  stage,        \* "idle", "sent" or "received"
  bits,         \* the bit buffer the telegram is received into
  format,       \* what the sender and the decoder agree on
  message,      \* what was sent
  noise,        \* the positions of the bits that were flipped
  received      \* what the decoder accepted, or Nothing

vars == <<stage, bits, format, message, noise, received>>

Nothing == <<>>

-----------------------------------------------------------------------------
(* The sender: a check behind the message, an order, a line code.            *)

Field(f, m) ==
  CASE f.check \in {"crc4", "crc7"}      -> Crc(m, f.gen, f.init) \o Bits(0, 8 - Len(f.gen))
    [] f.check \in {"crc8", "crc16"}     -> Crc(m, f.gen, f.init)
    [] f.check \in {"crc8le", "crc16lsb"} -> CrcLsbFirst(m, f.gen, f.init)
    [] f.check \in {"digest8", "digest16"} -> Toeplitz(m, f.gen, f.init)
    [] f.check = "digest8_reverse"       -> Toeplitz(LsbFirst(Reverse(m)), f.gen, f.init)
    [] f.check = "digest8_reflect"       -> Modulo(m, f.gen, f.init)
    [] f.check = "parity"                -> Parity(m)
    [] f.check = "xor"                   -> XorSum(m)
    [] f.check = "add"                   -> Bits(Sum(m, 8) % 256, 8)
    [] f.check = "nibbles"               -> Bits(Sum(m, 4) % 256, 8)

Ordered(f, bs) ==
  CASE f.order = "bits"    -> bs
    [] f.order = "bytes"   -> LsbFirst(bs)
    [] f.order = "nibbles" -> EachBlock(bs, 4, Reverse)
    [] f.order = "ccitt"   -> AddPn9(bs)
    [] f.order = "ibm"     -> AddPn9Bytes(bs)

Encoded(f, bs) ==
  CASE f.code = "plain"      -> bs
    [] f.code = "manchester" -> Manchester(bs)
    [] f.code = "dmc"        -> DifferentialManchester(bs, 0)
    [] f.code = "dmc late"   -> <<0>> \o DifferentialManchester(bs, 0)
    [] f.code = "uart"       -> Uart(bs)
    [] f.code = "4b1s"       -> Stuffed(bs)
    [] f.code = "symbols"    -> Symbols(bs)

FrameOf(f, m) == Encoded(f, Ordered(f, m \o Field(f, m)))

-----------------------------------------------------------------------------
(* The decoder.                                                              *)

\* What is behind the start of a row in memory.
RowMemory(b, row) == [i \in 1 .. (BITBUF_ROWS - row) * RowBits |-> BitAt(b, row, i - 1)]

DecodedRow(b) == [i \in 1 .. b.bits_per_row[0] |-> BitAt(b, 0, i - 1)]

\* At most n bits behind position pos of the first row.
Decoded(b, f, pos, n) ==
  LET rest == b.bits_per_row[0] - pos
  IN  CASE f.code = "plain" ->
             IF n <= rest THEN SubSeq(bitbuffer_extract_bytes(b, 0, pos, n), 1, n) ELSE Nothing
        [] f.code = "manchester" ->
             DecodedRow(bitbuffer_manchester_decode(b, 0, pos, bitbuffer_clear, n).out)
        [] f.code \in {"dmc", "dmc late"} ->
             DecodedRow(bitbuffer_differential_manchester_decode(b, 0, pos, bitbuffer_clear, n).out)
        [] f.code = "uart" ->
             FlattenSeq(extract_bytes_uart(RowMemory(b, 0), pos, rest))
        [] f.code = "4b1s" ->
             FlattenSeq(extract_nibbles_4b1s(RowMemory(b, 0), pos, rest))
        [] f.code = "symbols" ->
             extract_bits_symbols(RowMemory(b, 0), pos, rest, Zero, One, Mark)

Reordered(f, bs) ==
  CASE f.order = "bits"    -> bs
    [] f.order = "bytes"   -> reflect_bytes(bs)
    [] f.order = "nibbles" -> reflect_nibbles(bs)
    [] f.order = "ccitt"   -> ccitt_whitening(bs)
    [] f.order = "ibm"     -> ibm_whitening(bs)

\* all = m \o field: some checks come out as 0 for both together.
CheckRight(f, all, m, field) ==
  CASE f.check = "crc4"     -> crc4(m, f.gen, f.init) = SubSeq(field, 1, 4)
    [] f.check = "crc7"     -> crc7(m, f.gen, f.init) = SubSeq(field, 1, 7)
    [] f.check = "crc8"     -> Value(crc8(all, f.gen, f.init)) = 0
    [] f.check = "crc8le"   -> Value(crc8le(all, f.gen, f.init)) = 0
    [] f.check = "crc16"    -> crc16(m, f.gen, f.init) = field
    [] f.check = "crc16lsb" -> Value(crc16lsb(all, Reverse(f.gen), Reverse(f.init))) = 0
    [] f.check = "digest8"  -> lfsr_digest8(m, f.gen, f.init) = field
    [] f.check = "digest16" -> lfsr_digest16(m, f.gen, f.init) = field
    [] f.check = "digest8_reverse" -> lfsr_digest8_reverse(m, f.gen, f.init) = field
    [] f.check = "digest8_reflect" -> lfsr_digest8_reflect(m, f.gen, f.init) = field
    [] f.check = "parity"   -> parity_bytes(all) = 0
    [] f.check = "xor"      -> Value(xor_bytes(all)) = 0
    [] f.check = "add"      -> add_bytes(m) % 256 = Value(field)
    [] f.check = "nibbles"  -> add_nibbles(m) % 256 = Value(field)

FieldBits(f) == IF Len(f.gen) = 16 THEN 16 ELSE 8

\* The message of n bits in the row, or Nothing.
Accepted(b, f, n) ==
  LET at    == bitbuffer_search(b, 0, 0, Sync)
      all   == n + FieldBits(f)
      found == Decoded(b, f, at + Len(Sync), all)
      clear == Reordered(f, SubSeq(found, 1, all))
      m     == SubSeq(clear, 1, n)
  IN  IF /\ at < b.bits_per_row[0]
         /\ Len(found) >= all
         /\ CheckRight(f, clear, m, SubSeq(clear, n + 1, all))
        THEN m ELSE Nothing

-----------------------------------------------------------------------------
(* Telegrams.                                                                *)

Init ==
  /\ stage = "idle" /\ bits = bitbuffer_clear
  /\ format \in Formats /\ message \in Messages
  /\ noise = {} /\ received = Nothing

Send(lead) ==
  /\ stage = "idle" /\ stage' = "sent"
  /\ bits' = FoldLeft(bitbuffer_add_bit, bitbuffer_clear,
                      lead \o Sync \o FrameOf(format, message) \o Bits(0, 3))
  /\ UNCHANGED <<format, message, noise, received>>

\* The frame, behind the first sync word.
FramePositions ==
  LET from == bitbuffer_search(bits, 0, 0, Sync) + Len(Sync)
  IN  from .. from + Len(FrameOf(format, message)) - 1

\* A burst of noise flips bits of the frame.
Disturb(first, others) ==
  /\ stage = "sent" /\ noise = {}
  /\ noise' = {first} \cup {first + i : i \in others}
  /\ noise' \subseteq FramePositions
  /\ bits' = [bits EXCEPT !.bb = [i \in AllBits |-> IF i \in noise' THEN 1 - @[i] ELSE @[i]]]
  /\ UNCHANGED <<stage, format, message, received>>

Receive ==
  /\ stage = "sent" /\ stage' = "received"
  /\ received' = Accepted(bits, format, Len(message))
  /\ UNCHANGED <<bits, format, message, noise>>

\* The buffer is cleared for the next telegram.
NextTelegram ==
  /\ stage = "received" /\ stage' = "idle"
  /\ bits' = bitbuffer_clear /\ noise' = {} /\ received' = Nothing
  /\ UNCHANGED <<format, message>>

Next ==
  \/ \E lead \in Leads : Send(lead)
  \/ \E first \in FramePositions, others \in SUBSET (1 .. MaxBurst - 1) : Disturb(first, others)
  \/ Receive \/ NextTelegram

Spec == Init /\ [][Next]_vars

-----------------------------------------------------------------------------
(* Safety.                                                                   *)

\* Every order and check of the decoders and every line code but UART with parity undoes
\* or confirms what the standards define, wherever in a row the telegram is
\* (bitbuffer.c:150-333, bit_util.c).  The parity that is tested is not the one documented,
\* and a sync symbol is only sent where its documentation has one: both in README.md.
TelegramDecoded == stage = "received" /\ noise = {} => received = message

\* The longest burst that a check detects with certainty: a CRC those up to its width,
\* sums those that hit no bit of the same value twice.
DetectedBurst(f) ==
  CASE f.check \in {"crc4", "nibbles"} -> 4
    [] f.check = "crc7"               -> 7
    [] f.check = "parity"             -> 1
    [] OTHER                          -> 8

\* A burst of noise never makes a decoder accept another message than the one sent:
\* the checks find it, also when the line code turned it into something else.
NoiseDetected ==
  stage = "received" /\ received # Nothing =>
    \/ received = message
    \/ \E i \in noise, j \in noise : j - i >= DetectedBurst(format)
=============================================================================

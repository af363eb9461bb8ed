------------------------------- MODULE BitUtil -------------------------------
(***************************************************************************)
(* The functions decoders share (src/src/bit_util.c).  A message is the    *)
(* sequence of its bits, the most significant bit of each byte first; a    *)
(* byte, a polynomial or a register is a sequence of as many bits as it    *)
(* has, so that what is shifted out of it is lost.                         *)
(***************************************************************************)
EXTENDS Integers, SequencesExt

Zeros(n)   == [i \in 1 .. n |-> 0]
Xor(a, b)  == [i \in DOMAIN a |-> (a[i] + b[i]) % 2]

\* Register >> 1 and << 1.
Right(reg) == <<0>> \o Front(reg)
Left(reg)  == Append(Tail(reg), 0)

Bytes(message) == [k \in 1 .. Len(message) \div 8 |-> SubSeq(message, 8 * k - 7, 8 * k)]

\* The number that bits stand for.
Value(bits) == FoldLeft(LAMBDA v, b : 2 * v + b, 0, bits)

reverse8(byte) == Reverse(byte)
reflect4(byte) == Reverse(SubSeq(byte, 1, 4)) \o Reverse(SubSeq(byte, 5, 8))
OfEach(message, F(_)) == FlattenSeq([k \in DOMAIN Bytes(message) |-> F(Bytes(message)[k])])
reflect_nibbles(message) == OfEach(message, reflect4)
reflect_bytes(message) == OfEach(message, reverse8)

-----------------------------------------------------------------------------
(* Checksums.                                                               *)

\* Mutant: the polynomial is never added.
RollLeftOnly(reg, poly) == Left(reg)

\* A register is shifted, and the polynomial added if a 1 leaves it.
RollLeft(reg, poly)  == IF Head(reg) = 1 THEN Xor(Left(reg), poly) ELSE Left(reg)
RollRight(reg, poly) == IF Last(reg) = 1 THEN Xor(Right(reg), poly) ELSE Right(reg)

\* Every byte is added to the register, at its place, and eight bits roll out.
Remainder(message, init, Place(_), Roll(_)) ==
  FoldLeft(LAMBDA reg, byte :
             FoldLeft(LAMBDA r, bit : Roll(r), Xor(reg, Place(byte)), Zeros(8)),
           init, Bytes(message))

\* crc4 and crc7 keep their remainder, the polynomial and the initial value in the top
\* bits of a byte.
InTopBits(reg) == reg \o Zeros(8 - Len(reg))

ShortCrc(message, poly, init) ==
  SubSeq(Remainder(message, InTopBits(init), LAMBDA byte : byte,
                   LAMBDA reg : RollLeft(reg, InTopBits(poly))), 1, Len(poly))
crc4(message, poly, init) == ShortCrc(message, poly, init)
crc7(message, poly, init) == ShortCrc(message, poly, init)

crc8(message, poly, init) ==
  Remainder(message, init, LAMBDA byte : byte, LAMBDA reg : RollLeft(reg, poly))
crc16(message, poly, init) ==
  Remainder(message, init, LAMBDA byte : byte \o Zeros(8), LAMBDA reg : RollLeft(reg, poly))

\* Least significant bit first: crc8le reflects polynomial and initial value itself.
crc8le(message, poly, init) ==
  Remainder(message, reverse8(init), LAMBDA byte : byte,
            LAMBDA reg : RollRight(reg, reverse8(poly)))
crc16lsb(message, poly, init) ==
  Remainder(message, init, LAMBDA byte : Zeros(8) \o byte, LAMBDA reg : RollRight(reg, poly))

\* The keys of the bits that are 1 are summed up; the key rolls with every bit.
Digest(bits, key, Roll(_)) ==
  FoldLeft(LAMBDA d, bit : [ sum |-> IF bit = 1 THEN Xor(d.sum, d.key) ELSE d.sum,
                             key |-> Roll(d.key) ],
           [sum |-> Zeros(Len(key)), key |-> key], bits).sum

lfsr_digest8(message, gen, key)  == Digest(message, key, LAMBDA k : RollRight(k, gen))
lfsr_digest16(message, gen, key) == Digest(message, key, LAMBDA k : RollRight(k, gen))
lfsr_digest8_reverse(message, gen, key) ==
  Digest(FlattenSeq(Reverse(Bytes(message))), key, LAMBDA k : RollRight(k, gen))
lfsr_digest8_reflect(message, gen, key) ==
  Digest(Reverse(message), key, LAMBDA k : RollLeft(k, gen))

parity8(byte) == FoldLeft(LAMBDA p, b : (p + b) % 2, 0, byte)
parity_bytes(message) ==
  FoldLeft(LAMBDA p, byte : (p + parity8(byte)) % 2, 0, Bytes(message))
xor_bytes(message) == FoldLeft(Xor, Zeros(8), Bytes(message))
add_bytes(message) == FoldLeft(LAMBDA n, byte : n + Value(byte), 0, Bytes(message))
add_nibbles(message) ==
  FoldLeft(LAMBDA n, byte : n + Value(SubSeq(byte, 1, 4)) + Value(SubSeq(byte, 5, 8)),
           0, Bytes(message))

-----------------------------------------------------------------------------
(* Data whitening: bytes are added to the low byte of a register of 9 bits.  *)

\* key_msb \o key_lsb; bits 0 and 5 give the next key_msb.
NextKey(key) == <<(key[9] + key[4]) % 2>> \o Front(key)
FirstKey     == [i \in 1 .. 9 |-> 1]

\* The key for byte k, after eight steps for each byte before.
KeyOf(k) == FoldLeft(LAMBDA key, i : NextKey(key), FirstKey, Zeros(8 * (k - 1)))

Whitened(message, Order(_)) ==
  FlattenSeq([k \in DOMAIN Bytes(message) |-> Xor(Bytes(message)[k], Order(Tail(KeyOf(k))))])

ccitt_whitening(message) == Whitened(message, reverse8)
ibm_whitening(message)   == Whitened(message, LAMBDA byte : byte)

-----------------------------------------------------------------------------
(* Line codes: the data of what can be decoded of num_bits bits behind an    *)
(* offset.                                                                   *)

\* Frames of equal size; the first bad or incomplete one ends the message.
Frames(message, offset_bits, num_bits, size, Good(_), Data(_)) ==
  LET frame(k) == SubSeq(message, offset_bits + (k - 1) * size + 1, offset_bits + k * size)
      sound    == {n \in 0 .. num_bits \div size : \A k \in 1 .. n : Good(frame(k))}
      count    == CHOOSE n \in sound : \A m \in sound : m <= n
  IN  [k \in 1 .. count |-> Data(frame(k))]

\* Nibbles that are separated by a 1.
extract_nibbles_4b1s(message, offset_bits, num_bits) ==
  Frames(message, offset_bits, num_bits, 5,
         LAMBDA f : f[5] = 1, LAMBDA f : SubSeq(f, 1, 4))

\* 8n1, the least significant bit first.
extract_bytes_uart(message, offset_bits, num_bits) ==
  Frames(message, offset_bits, num_bits, 10,
         LAMBDA f : f[1] = 0 /\ f[10] = 1, LAMBDA f : reverse8(SubSeq(f, 2, 9)))

SameParity(f) == f[10] = parity8(SubSeq(f, 2, 9))

\* A start bit of 1, the most significant bit first, a parity bit, and a stop bit of 0.
extract_bytes_uart_parity(message, offset_bits, num_bits) ==
  Frames(message, offset_bits, num_bits, 11,
         LAMBDA f : f[1] = 1 /\ SameParity(f) /\ f[11] = 0, LAMBDA f : SubSeq(f, 2, 9))

\* The first of sync, zero and one that comes next; syncs are skipped.
extract_bits_symbols(message, offset_bits, num_bits, zero, one, sync) ==
  LET from(n) == offset_bits + num_bits - n + 1
      symbol_match(n, symbol) ==
        /\ Len(symbol) \in 1 .. n
        /\ SubSeq(message, from(n), from(n) + Len(symbol) - 1) = symbol
      decoded[n \in Nat] ==
        IF symbol_match(n, sync) THEN decoded[n - Len(sync)]
        ELSE IF symbol_match(n, zero) THEN <<0>> \o decoded[n - Len(zero)]
        ELSE IF symbol_match(n, one) THEN <<1>> \o decoded[n - Len(one)]
        ELSE <<>>
  IN  decoded[num_bits]
=============================================================================

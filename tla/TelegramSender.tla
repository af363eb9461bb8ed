---------------------------- MODULE TelegramSender ----------------------------
(***************************************************************************)
(* A transmitter, as mathematics and standards define its checksums,       *)
(* whitening and line codes; src/include/bit_util.h names them.  Nothing   *)
(* here is taken from the functions that undo them.                        *)
(***************************************************************************)
EXTENDS Integers, SequencesExt

\* Blocks of n bits.
Blocks(bs, n) == [k \in 1 .. Len(bs) \div n |-> SubSeq(bs, n * (k - 1) + 1, n * k)]
EachBlock(bs, n, F(_)) == FlattenSeq([k \in DOMAIN Blocks(bs, n) |-> F(Blocks(bs, n)[k])])
LsbFirst(bs) == EachBlock(bs, 8, Reverse)

\* The bits of a number.
Bits(v, n) == [i \in 1 .. n |-> (v \div 2 ^ (n - i)) % 2]
Number(bs) == FoldLeft(LAMBDA v, b : 2 * v + b, 0, bs)
Sum(bs, n) == FoldLeft(LAMBDA v, b : v + Number(b), 0, Blocks(bs, n))
Ones(bs)   == FoldLeft(+, 0, bs)

-----------------------------------------------------------------------------
(* Checksums: bits stand for a polynomial over GF(2), here the set of the     *)
(* exponents it has.                                                         *)

Exponents(bs) == {Len(bs) - i : i \in {k \in DOMAIN bs : bs[k] = 1}}

\* p * x modulo x^n + gen.
TimesX(p, gen, n) ==
  LET q == {e + 1 : e \in p} IN IF n \in q THEN SymDiff(q \ {n}, gen) ELSE q

\* bs * key modulo x^n + gen.
Modulo(bs, gen, key) ==
  LET n == Len(key)
      p == FoldLeft(LAMBDA q, b : SymDiff(TimesX(q, Exponents(gen), n),
                                          IF b = 1 THEN Exponents(key) ELSE {}), {}, bs)
  IN  [i \in 1 .. n |-> IF n - i \in p THEN 1 ELSE 0]

\* The remainder of bs * x^n; the initial value is added to its first bits.
Crc(bs, gen, init) ==
  Modulo([i \in DOMAIN bs |-> IF i <= Len(init) THEN (bs[i] + init[i]) % 2 ELSE bs[i]],
         gen, gen)

\* The same with the bits of every byte sent in the other order.
CrcLsbFirst(bs, gen, init) == LsbFirst(Crc(LsbFirst(bs), gen, init))

\* A key that is divided by x from bit to bit.
Toeplitz(bs, gen, key) == Reverse(Modulo(Reverse(bs), Reverse(gen), Reverse(key)))

Parity(bs) == Bits(Ones(bs) % 2, 8)
XorSum(bs) == [i \in 1 .. 8 |-> Ones([k \in DOMAIN Blocks(bs, 8) |-> Blocks(bs, 8)[k][i]]) % 2]

-----------------------------------------------------------------------------
(* Whitening with the sequence of x^9 + x^5 + 1 that starts with ones.       *)

Pn9(n) ==
  FoldLeft(LAMBDA pn, i : Append(pn, (pn[i] + pn[i + 5]) % 2),
           [i \in 1 .. 9 |-> 1], [i \in 1 .. n - 9 |-> i])

AddPn9(bs)      == [i \in DOMAIN bs |-> (bs[i] + Pn9(Len(bs))[i]) % 2]
AddPn9Bytes(bs) == LsbFirst(AddPn9(LsbFirst(bs)))

-----------------------------------------------------------------------------
(* Line codes.                                                               *)

Manchester(bs) == EachBlock(bs, 1, LAMBDA b : <<1 - b[1], b[1]>>)

\* Every bit begins with a change of level, a zero has another one in its middle;
\* `level' is that before the first bit.
DifferentialManchester(bs, level) ==
  LET ones(i)  == Ones(SubSeq(bs, 1, i - 1))
      first(i) == (1 - level + ones(i)) % 2
  IN  FlattenSeq([i \in DOMAIN bs |->
        <<first(i), IF bs[i] = 1 THEN first(i) ELSE 1 - first(i)>>])

Uart(bs)    == EachBlock(bs, 8, LAMBDA b : <<0>> \o Reverse(b) \o <<1>>)
Stuffed(bs) == EachBlock(bs, 4, LAMBDA b : b \o <<1>>)

\* The ones of a byte and its parity bit are even or, as 8o1 is defined, odd in number.
UartParity(bs, odd) ==
  EachBlock(bs, 8, LAMBDA b : <<1>> \o b \o <<(Ones(b) + odd) % 2, 0>>)

Zero == <<1, 0, 0>>
One  == <<1, 1, 0>>
Mark == <<1, 1, 1, 0>>

\* One mark begins the data, one ends it.
Symbols(bs) == Mark \o EachBlock(bs, 1, LAMBDA b : IF b[1] = 1 THEN One ELSE Zero) \o Mark
=============================================================================

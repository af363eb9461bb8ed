----------------------------- MODULE MCTelegram ------------------------------
(* Instance: every check behind a plain row, every line code but UART with parity *)
(* and every order with a CRC, polynomials and keys of decoders, two messages of  *)
(* two bytes.                                                                     *)
EXTENDS Telegram

Format(code, order, check, gen, init) ==
  [code |-> code, order |-> order, check |-> check, gen |-> gen, init |-> init]

Plain(check, gen, init) == Format("plain", "bits", check, gen, init)
None == Bits(0, 8)

MCFormats ==
  { Plain("crc4", Bits(3, 4), Bits(0, 4)),
    Plain("crc7", Bits(9, 7), Bits(64, 7)),
    Plain("crc8", Bits(49, 8), Bits(0, 8)),                  \* 0x31
    Plain("crc8le", Bits(245, 8), Bits(61, 8)),              \* 0xf5, 0x3d
    Plain("crc16", Bits(32773, 16), Bits(65535, 16)),        \* 0x8005, 0xffff
    Plain("crc16lsb", Bits(4129, 16), Bits(65535, 16)),      \* 0x8408 reflected
    Plain("digest8", Bits(152, 8), Bits(62, 8)),             \* 0x98, 0x3e
    Plain("digest8_reverse", Bits(152, 8), Bits(37, 8)),     \* 0x98, 0x25
    Plain("digest8_reflect", Bits(49, 8), Bits(244, 8)),     \* 0x31, 0xf4
    Plain("digest16", Bits(34832, 16), Bits(21522, 16)),     \* 0x8810, 0x5412
    Plain("parity", None, None), Plain("xor", None, None),
    Plain("add", None, None), Plain("nibbles", None, None) }
  \cup { Format(code, "bits", "crc8", Bits(7, 8), Bits(85, 8)) :
           code \in {"manchester", "dmc", "dmc late", "uart", "4b1s", "symbols"} }
  \cup { Format("plain", order, "crc16", Bits(4129, 16), Bits(0, 16)) :
           order \in {"bytes", "nibbles", "ccitt", "ibm"} }

MCMessages == {<<0, 0, 1, 0, 1, 1, 0, 1,  1, 1, 0, 1, 0, 1, 0, 0>>,
               <<1, 0, 0, 0, 0, 0, 0, 0,  0, 1, 1, 1, 1, 1, 1, 1>>}
MCLeads == {<<1>>, <<0, 1, 1>>}
MCSync  == <<1, 1, 0, 1>>
=============================================================================

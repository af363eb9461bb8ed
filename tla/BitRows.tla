------------------------------- MODULE BitRows -------------------------------
(***************************************************************************)
(* What a bit buffer promises (src/include/bitbuffer.h): a sequence of     *)
(* rows of any length, each with the bits that were added to it in their   *)
(* order and the syncs before it.  When the buffer is full it may lose     *)
(* what is added and what the last row held, but never touches a row       *)
(* before the last.  Afterwards the bits of all rows can be inverted or    *)
(* decoded from a change of level.                                         *)
(***************************************************************************)
EXTENDS Integers, Sequences

CONSTANT Widths     \* widths a row may be given

VARIABLES
  rows,        \* sequence of [bits, syncs]
  truncated    \* something was lost

NoRow == [bits |-> <<>>, syncs |-> 0]

Started  == IF rows = <<>> THEN <<NoRow>> ELSE rows
Last     == Len(Started)

Init == rows = <<>> /\ truncated = FALSE

AddBit(bit) ==
  /\ rows' = [Started EXCEPT ![Last].bits = Append(@, bit)]
  /\ UNCHANGED truncated

AddRow ==
  /\ rows' = Append(Started, NoRow)
  /\ UNCHANGED truncated

AddSync ==
  /\ IF Started[Last].bits = <<>>
       THEN rows' = [Started EXCEPT ![Last].syncs = @ + 1]
       ELSE rows' = Append(Started, [NoRow EXCEPT !.syncs = 1])
  /\ UNCHANGED truncated

\* The last row is cut or continued with zeros.
SetWidth(width) ==
  /\ rows' = [Started EXCEPT ![Last].bits =
                [i \in 1 .. width |-> IF i <= Len(Started[Last].bits)
                                        THEN Started[Last].bits[i] ELSE 0]]
  /\ UNCHANGED truncated

\* The buffer is full, or was once.
Lose ==
  /\ truncated'
  /\ Len(rows') = Last
  /\ \A i \in 1 .. Last - 1 : rows'[i] = rows[i]

Level(r, i) == IF i = 0 THEN 0 ELSE rows[r].bits[i]
Changes(r, i) == Level(r, i) # Level(r, i - 1)

\* Every bit of every row becomes a 1 where the condition holds.
Transform(cond(_, _)) ==
  /\ rows' = [r \in 1 .. Len(rows) |->
       [rows[r] EXCEPT !.bits = [i \in 1 .. Len(@) |-> IF cond(r, i) THEN 1 ELSE 0]]]
  /\ UNCHANGED truncated

Invert == Transform(LAMBDA r, i : rows[r].bits[i] = 0)
Mark   == Transform(Changes)
Space  == Transform(LAMBDA r, i : ~Changes(r, i))

Clear == rows' = <<>> /\ truncated' = FALSE

Next ==
  \/ \E bit \in 0 .. 1 : AddBit(bit)
  \/ AddRow \/ AddSync \/ Lose \/ Clear
  \/ \E width \in Widths : SetWidth(width)
  \/ Invert \/ Mark \/ Space

Spec == Init /\ [][Next]_<<rows, truncated>>
=============================================================================

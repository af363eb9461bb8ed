------------------------------- MODULE SampGrab -------------------------------
(***************************************************************************)
(* The IQ sample grabber (src/src/samp_grab.c): a ring of the last sg_size *)
(* bytes of the stream, and the choice of the bytes that are written to a  *)
(* file.  A byte is represented by its position in the stream, a slot the  *)
(* program has not yet written by Unwritten (malloc leaves it undefined).  *)
(***************************************************************************)
EXTENDS Integers

CONSTANTS
  sg_size,        \* SIGNAL_GRABBER_BUFFER, bytes
  BLOCK_SIZE,     \* a file is a multiple of so many bytes
  sample_size     \* bytes of a sample

ASSUME GrabAssumption ==
  /\ sg_size \in Nat \ {0} /\ BLOCK_SIZE \in Nat \ {0} /\ sample_size \in Nat \ {0}

Unwritten == -1

RingSlots == 0 .. sg_size - 1

Ring == [ sg_buf: [RingSlots -> Nat \cup {Unwritten}], sg_index: RingSlots, sg_len: 0 .. sg_size ]

samp_grab_create == [ sg_buf |-> [i \in RingSlots |-> Unwritten], sg_index |-> 0, sg_len |-> 0 ]

\* Faulty: what is beyond the end of the ring is dropped.
WrappedToZero(i) == IF i >= sg_size THEN 0 ELSE i

\* An index that has run at most once past the end of the ring.
Wrapped(i) == IF i >= sg_size THEN i - sg_size ELSE i

\* How many bytes before the newest one slot i was written, when index is next.
Behind(i, index) == IF i < index THEN index - 1 - i ELSE index - 1 - i + sg_size

\* Faulty: the length grows for ever.
Uncapped(n) == n

Capped(n) == IF n > sg_size THEN sg_size ELSE n

(***************************************************************************)
(* samp_grab_push of the n bytes of the stream from position first, with   *)
(* n <= sg_size: the loop copies one chunk, or two around the end.         *)
(***************************************************************************)
samp_grab_push(g, first, n) ==
  LET index == Wrapped(g.sg_index + n)
  IN  [ sg_buf |-> [i \in RingSlots |->
           IF Behind(i, index) < n THEN first + n - 1 - Behind(i, index) ELSE g.sg_buf[i]],
        sg_index |-> index,
        sg_len |-> Capped(g.sg_len + n) ]

\* The slots behind sg_index are the last sg_len bytes before position end.
HoldsLast(g, end) ==
  \A i \in RingSlots :
     Behind(i, g.sg_index) < g.sg_len => g.sg_buf[i] = end - 1 - Behind(i, g.sg_index)

\* Faulty: down to whole blocks.
RoundedDown(grab_len) ==
  sample_size * grab_len - ((sample_size * grab_len) % BLOCK_SIZE)

\* The signal rounded up to whole blocks; a whole number grows by a block.
Rounded(grab_len) ==
  sample_size * grab_len + BLOCK_SIZE - ((sample_size * grab_len) % BLOCK_SIZE)

SignalBytes(g, grab_len) ==
  IF Rounded(grab_len) > g.sg_len THEN g.sg_len ELSE Rounded(grab_len)

\* Slot i bytes before slot index, going down around the ring.
Below(index, i) == IF index >= i THEN index - i ELSE sg_size - i + index

\* samp_grab_write: the bytes that reach the file, in order.
samp_grab_write(g, grab_len, grab_end) ==
  LET signal_bsize == SignalBytes(g, grab_len)
      end_pos      == Below(g.sg_index, sample_size * grab_end)
      start_pos    == Below(end_pos, signal_bsize)
  IN  [k \in 1 .. signal_bsize |-> g.sg_buf[Wrapped(start_pos + k - 1)]]

===============================================================================

------------------------------ MODULE PulseData ------------------------------
(***************************************************************************)
(* pulse_data_t: the compact representation of a pulse train, and the two  *)
(* operations every producer of a train uses (src/src/pulse_data.c).       *)
(*                                                                         *)
(* pulse[n] and gap[n] are widths in samples.  The C arrays keep whatever  *)
(* was stored beyond num_pulses, and the FSK detector reads such stale     *)
(* slots again, so the arrays are total functions on the array's indexes.  *)
(***************************************************************************)
EXTENDS Naturals

CONSTANT
  PD_MAX_PULSES       \* number of slots of the arrays pulse[] and gap[]

\* pulse_data_shift frees PD_MAX_PULSES / 2 slots, so there must be two.
ASSUME MaxPulsesAssumption == PD_MAX_PULSES \in Nat /\ PD_MAX_PULSES >= 2

Slots == 0 .. PD_MAX_PULSES - 1

PulseTrain ==
  [ pulse: [Slots -> Nat], gap: [Slots -> Nat],
    num_pulses: 0 .. PD_MAX_PULSES,
    offset: Nat, start_ago: Nat, end_ago: Nat ]

pulse_data_clear ==
  [ pulse |-> [i \in Slots |-> 0], gap |-> [i \in Slots |-> 0],
    num_pulses |-> 0, offset |-> 0, start_ago |-> 0, end_ago |-> 0 ]

\* The stores data->pulse[data->num_pulses] = w and data->gap[...] = w.
StorePulse(data, w) == [data EXCEPT !.pulse[data.num_pulses] = w]
StoreGap(data, w)   == [data EXCEPT !.gap[data.num_pulses] = w]

NextPulse(data) == [data EXCEPT !.num_pulses = @ + 1]

\* Samples covered by the first n pulses and the gaps after them.
Covered(data, n) ==
  LET sum[k \in 0 .. PD_MAX_PULSES] ==
        IF k = 0 THEN 0 ELSE sum[k - 1] + data.pulse[k - 1] + data.gap[k - 1]
  IN  sum[n]

(***************************************************************************)
(* pulse_data_shift: the second half of the arrays moves to the front, the *)
(* second half keeps a stale copy, and the number of PULSES dropped is     *)
(* added to offset, which counts SAMPLES.                                  *)
(***************************************************************************)
ShiftOffs == PD_MAX_PULSES \div 2

ShiftedSlots(a) ==
  [i \in Slots |-> IF i < PD_MAX_PULSES - ShiftOffs THEN a[i + ShiftOffs] ELSE a[i]]

pulse_data_shift(data) ==
  [data EXCEPT !.pulse = ShiftedSlots(@), !.gap = ShiftedSlots(@),
               !.num_pulses = @ - ShiftOffs, !.offset = @ + ShiftOffs]

==============================================================================

------------------------------ MODULE FskDetect ------------------------------
(***************************************************************************)
(* The two FSK pulse detectors of src/src/pulse_detect_fsk.c, sample by    *)
(* sample: "classic", which coalesces spurious short pulses by rewinding   *)
(* to the pulse or gap stored last, and "minmax", which tracks the middle  *)
(* between the highest and the lowest frequency seen.                      *)
(*                                                                         *)
(* A frequency sample is reduced to what the code decides about it:        *)
(*   classic   "up"   : more than FSK_DEFAULT_FM_DELTA/2 above F1 while    *)
(*                      the initial frequency is estimated, closer to F1   *)
(*                      than to F2 afterwards;                             *)
(*             "down" : the same below / closer to F2;                     *)
(*             "near" : neither (an exact tie afterwards);                 *)
(*   minmax    above, below or equal to the middle of the trackers.        *)
(* The estimators follow the samples, so a signal can produce any sequence *)
(* of these classes; the one exception is stated at MinMaxClass.           *)
(***************************************************************************)
EXTENDS Integers, PulseData

CONSTANTS
  PD_MIN_PULSE_SAMPLES,   \* shortest pulse or gap that is not spurious
  FSK_SKIP_SAMPLES        \* samples the minmax detector skips (40)

ASSUME FskAssumption ==
  /\ PD_MIN_PULSE_SAMPLES \in Nat /\ PD_MIN_PULSE_SAMPLES >= 1
  /\ FSK_SKIP_SAMPLES \in Nat

VARIABLES
  fsk,          \* pulse_detect_fsk_t: the state kept between samples
  fsk_pulses,   \* the FSK pulse train being built
  startFsk      \* *startFsk: first FSK pulse, relative to the current buffer

fskVars == <<fsk, fsk_pulses, startFsk>>

FmClasses == {"up", "down", "near"}
FskStates == {"INIT", "FH", "FL"}   \* ERROR is assigned by dead code only

FskState ==
  [ fsk_state: FskStates, fsk_pulse_length: Nat,
    skip_samples: 0 .. FSK_SKIP_SAMPLES,
    tracking: BOOLEAN ]             \* var_test_max/min hold a sample

pulse_detect_fsk_init ==
  [ fsk_state |-> "INIT", fsk_pulse_length |-> 0,
    skip_samples |-> FSK_SKIP_SAMPLES, tracking |-> FALSE ]

\* "if (!*startFsk && fsk_pulses->num_pulses == 0) *startFsk = pos": 0 doubles
\* as "not set yet".
FirstStart(s, data, pos) == IF s = 0 /\ data.num_pulses = 0 THEN pos ELSE s

FskTo(state, length) ==
  fsk' = [fsk EXCEPT !.fsk_state = state, !.fsk_pulse_length = length]

MarkStart(len, counter) == startFsk' = FirstStart(startFsk, fsk_pulses, counter - len)

\* Faulty: a full train is not shifted.
GapStoredUnshifted(data, len) == NextPulse(StoreGap(data, len))

\* A completed gap closes a pulse; a full train drops its first half.
GapStored(data, len) ==
  LET d == NextPulse(StoreGap(data, len))
  IN  IF d.num_pulses >= PD_MAX_PULSES THEN pulse_data_shift(d) ELSE d

-----------------------------------------------------------------------------
(* pulse_detect_fsk_classic, one disjunct per path through the switch.      *)

\* Estimating the initial frequency.
ClassicSettle(len, fm) ==
  /\ fsk.fsk_state = "INIT"
  /\ len < PD_MIN_PULSE_SAMPLES \/ fm = "near"
  /\ FskTo("INIT", len)
  /\ UNCHANGED <<fsk_pulses, startFsk>>

\* The initial frequency was low: it becomes the gap of an empty first pulse.
ClassicInitialGap(len, fm, counter) ==
  /\ fsk.fsk_state = "INIT" /\ len >= PD_MIN_PULSE_SAMPLES /\ fm = "up"
  /\ FskTo("FH", 0)
  /\ MarkStart(len, counter)
  /\ fsk_pulses' = NextPulse([fsk_pulses EXCEPT !.pulse[0] = 0, !.gap[0] = len])

ClassicInitialPulse(len, fm, counter) ==
  /\ fsk.fsk_state = "INIT" /\ len >= PD_MIN_PULSE_SAMPLES /\ fm = "down"
  /\ FskTo("FL", 0)
  /\ MarkStart(len, counter)
  /\ fsk_pulses' = [fsk_pulses EXCEPT !.pulse[0] = len]

ClassicStay(len, fm) ==
  /\ \/ fsk.fsk_state = "FH" /\ fm # "down"
     \/ fsk.fsk_state = "FL" /\ fm # "up"
  /\ FskTo(fsk.fsk_state, len)
  /\ UNCHANGED <<fsk_pulses, startFsk>>

ClassicEndPulse(len, fm, counter) ==
  /\ fsk.fsk_state = "FH" /\ fm = "down" /\ len >= PD_MIN_PULSE_SAMPLES
  /\ FskTo("FL", 0)
  /\ MarkStart(len, counter)
  /\ fsk_pulses' = StorePulse(fsk_pulses, len)

\* The pulse was spurious: it is merged back into the gap before it.
ClassicRewindGap(len, fm) ==
  /\ fsk.fsk_state = "FH" /\ fm = "down" /\ len < PD_MIN_PULSE_SAMPLES
  /\ LET last == fsk_pulses.num_pulses - 1
     IN  /\ fsk_pulses' = [fsk_pulses EXCEPT !.num_pulses = last]
         /\ FskTo(IF last = 0 /\ fsk_pulses.pulse[0] = 0 THEN "INIT" ELSE "FL",
                  len + fsk_pulses.gap[last])
  /\ UNCHANGED startFsk

\* Faulty: a gap one sample too short counts.
ClassicEndGapEarly(len, fm, counter) ==
  /\ fsk.fsk_state = "FL" /\ fm = "up" /\ len + 1 >= PD_MIN_PULSE_SAMPLES
  /\ FskTo("FH", 0)
  /\ MarkStart(len, counter)
  /\ fsk_pulses' = GapStored(fsk_pulses, len)

ClassicEndGap(len, fm, counter) ==
  /\ fsk.fsk_state = "FL" /\ fm = "up" /\ len >= PD_MIN_PULSE_SAMPLES
  /\ FskTo("FH", 0)
  /\ MarkStart(len, counter)
  /\ fsk_pulses' = GapStored(fsk_pulses, len)

\* Faulty: the width of the pulse before the spurious gap is not restored.
ClassicRewindPulseLossy(len, fm) ==
  /\ fsk.fsk_state = "FL" /\ fm = "up" /\ len < PD_MIN_PULSE_SAMPLES
  /\ FskTo(IF fsk_pulses.num_pulses = 0 THEN "INIT" ELSE "FH", len)
  /\ UNCHANGED <<fsk_pulses, startFsk>>

\* The gap was spurious: it is merged back into the pulse before it.
ClassicRewindPulse(len, fm) ==
  /\ fsk.fsk_state = "FL" /\ fm = "up" /\ len < PD_MIN_PULSE_SAMPLES
  /\ FskTo(IF fsk_pulses.num_pulses = 0 THEN "INIT" ELSE "FH",
           len + fsk_pulses.pulse[fsk_pulses.num_pulses])
  /\ UNCHANGED <<fsk_pulses, startFsk>>

pulse_detect_fsk_classic(fm, counter) ==
  LET len == fsk.fsk_pulse_length + 1
  IN  \/ ClassicSettle(len, fm)
      \/ ClassicInitialGap(len, fm, counter)
      \/ ClassicInitialPulse(len, fm, counter)
      \/ ClassicStay(len, fm)
      \/ ClassicEndPulse(len, fm, counter)
      \/ ClassicRewindGap(len, fm)
      \/ ClassicEndGap(len, fm, counter)
      \/ ClassicRewindPulse(len, fm)

-----------------------------------------------------------------------------
(* pulse_detect_fsk_minmax.                                                 *)

\* The first sample after the skipped ones sets both trackers to its own
\* value, so it equals their middle.
MinMaxClass(fm) == fsk.tracking \/ fm = "near"

MinMaxTo(state, length) ==
  fsk' = [fsk EXCEPT !.fsk_state = state, !.fsk_pulse_length = length,
                     !.tracking = TRUE]

MinMaxSkip ==
  /\ fsk.skip_samples > 0
  /\ fsk' = [fsk EXCEPT !.skip_samples = @ - 1]
  /\ UNCHANGED <<fsk_pulses, startFsk>>

\* No store: the initial decision, or the frequency stays on its side.  The
\* initial decision keeps the counter running.
MinMaxStay(len, fm) ==
  /\ \/ fsk.fsk_state = "INIT" /\ MinMaxTo(IF fm = "up" THEN "FH" ELSE "FL", len)
     \/ fsk.fsk_state = "FH" /\ fm # "down" /\ MinMaxTo("FH", len)
     \/ fsk.fsk_state = "FL" /\ fm # "up" /\ MinMaxTo("FL", len)
  /\ UNCHANGED <<fsk_pulses, startFsk>>

MinMaxEndPulse(len, fm, counter) ==
  /\ fsk.fsk_state = "FH" /\ fm = "down"
  /\ MinMaxTo("FL", 0)
  /\ MarkStart(len, counter)
  /\ fsk_pulses' = StorePulse(fsk_pulses, len)

MinMaxEndGap(len, fm, counter) ==
  /\ fsk.fsk_state = "FL" /\ fm = "up"
  /\ MinMaxTo("FH", 0)
  /\ MarkStart(len, counter)
  /\ fsk_pulses' = GapStored(fsk_pulses, len)

pulse_detect_fsk_minmax(fm, counter) ==
  LET len == fsk.fsk_pulse_length + 1
  IN  \/ MinMaxSkip
      \/ /\ fsk.skip_samples = 0 /\ MinMaxClass(fm)
         /\ \/ MinMaxStay(len, fm)
            \/ MinMaxEndPulse(len, fm, counter)
            \/ MinMaxEndGap(len, fm, counter)

-----------------------------------------------------------------------------
(* pulse_detect_fsk_wrap_up: the pulse or gap in progress ends the package. *)
(* Written as the values it leaves in *s, *fsk_pulses and *startFsk,        *)
(* because its caller goes on to change the same train.                     *)

WrapsUp == fsk_pulses.num_pulses < PD_MAX_PULSES

\* Faulty: the sample at which the package ends is not counted.
WrapUpLengthShort == fsk.fsk_pulse_length

WrapUpLength == fsk.fsk_pulse_length + 1

WrapUpState == IF WrapsUp THEN [fsk EXCEPT !.fsk_pulse_length = WrapUpLength] ELSE fsk

WrapUpStart(counter) ==
  IF WrapsUp THEN FirstStart(startFsk, fsk_pulses, counter - WrapUpLength) ELSE startFsk

WrapUpPulses ==
  IF ~WrapsUp THEN fsk_pulses
  ELSE IF fsk.fsk_state = "FH"
  THEN NextPulse(StoreGap(StorePulse(fsk_pulses, WrapUpLength), 0))
  ELSE NextPulse(StoreGap(fsk_pulses, WrapUpLength))

\* Every stored width is as long as a pulse must be, except the empty pulse
\* that stands before an initial gap.
NotSpurious(data) ==
  \A i \in 0 .. data.num_pulses - 1 :
    /\ data.gap[i] >= PD_MIN_PULSE_SAMPLES
    /\ data.pulse[i] >= PD_MIN_PULSE_SAMPLES \/ (i = 0 /\ data.pulse[i] = 0)

==============================================================================

------------------------------ MODULE FskStream ------------------------------
(***************************************************************************)
(* One FSK transmission: the samples of the first OOK pulse, fed to the    *)
(* FSK detectors of FskDetect until the package is returned.  fpdm, the    *)
(* detector in use, is chosen again for every sample buffer from the       *)
(* frequency the radio is tuned to (src/src/rtl_433.c:611-617), and the    *)
(* plugin may retune at any time, so it can change in mid-transmission.    *)
(***************************************************************************)
EXTENDS FskDetect

CONSTANTS
  PD_MIN_PULSES,  \* an FSK package has more pulses than this
  MaxSamples,     \* bound: samples of the transmission
  MaxRetunes      \* bound: changes of the detector in mid-transmission

ASSUME StreamAssumption == PD_MIN_PULSES \in Nat /\ MaxSamples \in Nat /\ MaxRetunes \in Nat

VARIABLES
  fpdm,           \* the detector in use
  retunes,        \* how often it changed
  seen,           \* ghost: samples the detector has counted
  dropped,        \* ghost: samples covered by the pulses shifted out
  ended           \* the package was returned

streamVars == <<fsk, fsk_pulses, startFsk, fpdm, retunes, seen, dropped, ended>>

Detectors == {"classic", "minmax"}

\* The transmission starts at sample 0; its first sample is not fed to the
\* detector (pulse_detect.c, PD_OOK_STATE_IDLE), so counters start at 1.
Counter == seen + (FSK_SKIP_SAMPLES - fsk.skip_samples) + 1

Shifts == fsk_pulses'.offset # fsk_pulses.offset

Init ==
  /\ fsk = pulse_detect_fsk_init /\ fsk_pulses = pulse_data_clear /\ startFsk = 0
  /\ fpdm \in Detectors /\ retunes = 0
  /\ seen = 0 /\ dropped = 0 /\ ended = FALSE

Sample(fm) ==
  /\ ~ended /\ seen < MaxSamples
  /\ \/ fpdm = "classic" /\ pulse_detect_fsk_classic(fm, Counter)
     \/ fpdm = "minmax" /\ pulse_detect_fsk_minmax(fm, Counter)
  /\ seen' = IF fsk'.skip_samples = fsk.skip_samples THEN seen + 1 ELSE seen
  /\ dropped' = IF Shifts THEN dropped + Covered(fsk_pulses, ShiftOffs) ELSE dropped
  /\ UNCHANGED <<fpdm, retunes, ended>>

Retune ==
  /\ ~ended /\ retunes < MaxRetunes
  /\ fpdm' \in Detectors \ {fpdm}
  /\ retunes' = retunes + 1
  /\ UNCHANGED <<fsk, fsk_pulses, startFsk, seen, dropped, ended>>

\* The carrier went low for long enough: only classic has its last pulse stored.
End ==
  /\ ~ended /\ fsk_pulses.num_pulses > PD_MIN_PULSES
  /\ ended' = TRUE
  /\ IF fpdm = "classic"
     THEN /\ fsk' = WrapUpState /\ fsk_pulses' = WrapUpPulses
          /\ startFsk' = WrapUpStart(Counter)
          /\ seen' = seen + 1
     ELSE UNCHANGED <<fsk, fsk_pulses, startFsk, seen>>
  /\ UNCHANGED <<fpdm, retunes, dropped>>

Next == (\E fm \in FmClasses : Sample(fm)) \/ Retune \/ End

Spec == Init /\ [][Next]_streamVars

-----------------------------------------------------------------------------
TypeOK ==
  /\ fsk \in FskState /\ fsk_pulses \in PulseTrain /\ startFsk \in Int
  /\ fpdm \in Detectors /\ retunes \in 0 .. MaxRetunes
  /\ seen \in Nat /\ ended \in BOOLEAN

\* Every slot the detectors address exists: while the transmission lasts there
\* is a free slot for the next pulse or gap, and a pulse the classic detector is
\* in has a gap before it, the one it rewinds to if the pulse is spurious
\* (pulse_detect_fsk.c:86-92 reads gap[num_pulses - 1] and pulse[...]).
SlotsInRange ==
  ~ended => /\ fsk_pulses.num_pulses < PD_MAX_PULSES
            /\ fpdm = "classic" /\ fsk.fsk_state = "FH" => fsk_pulses.num_pulses >= 1

PendingPulse ==
  IF fsk.fsk_state = "FL" /\ ~ended THEN fsk_pulses.pulse[fsk_pulses.num_pulses] ELSE 0

InProgress == IF ended THEN 0 ELSE fsk.fsk_pulse_length

\* With one detector throughout no sample is lost or counted twice, whatever is
\* rewound, merged or shifted out: the stored widths, the pulse waiting for its
\* gap, the width in progress and what was shifted out add up to the samples seen.
SamplesConserved ==
  retunes = 0 /\ (ended => fpdm = "classic") =>
     Covered(fsk_pulses, fsk_pulses.num_pulses) + PendingPulse + InProgress + dropped = seen

\* "Includes spurious suppression by coalescing pulses when pulse/gap widths
\* are too short" (pulse_detect_fsk.h): no stored width is spurious, except the
\* empty pulse that stands for an initial gap, while it is the only detector.
SpuriousSuppressed == retunes = 0 /\ fpdm = "classic" /\ ~ended => NotSpurious(fsk_pulses)

==============================================================================

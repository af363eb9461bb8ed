--------------------------- MODULE FskStreamProofs ---------------------------
(***************************************************************************)
(* A transmission, whatever its samples and length: every slot that the    *)
(* detectors address exists, unless the detector is changed more than      *)
(* twice.  With one detector throughout, no sample is lost, and if it is   *)
(* the classic one no spurious width is stored.                            *)
(***************************************************************************)
EXTENDS FskStream, FskDetectProofs

\* The inductive invariant.  A pulse that is in progress with no gap before it comes of
\* the initial state with trackers that are set, which takes minmax to set them, classic
\* to go back to the initial state, and minmax again to leave it: two changes, and then
\* minmax is in use.
FreeSlots ==
  /\ fsk_pulses.num_pulses < PD_MAX_PULSES
  /\ fsk.fsk_state = "INIT" => fsk_pulses.num_pulses = 0

Changed ==
  /\ fsk.tracking => fpdm = "minmax" \/ retunes >= 1
  /\ fpdm = "minmax" /\ fsk.fsk_state = "INIT" /\ fsk.tracking => retunes >= 2
  /\ fsk.fsk_state = "FH" /\ fsk_pulses.num_pulses = 0 => fpdm = "minmax" /\ retunes >= 2

IInv ==
  /\ TypeOK
  /\ ~ended => FreeSlots /\ Changed

\* With the classic detector, and with one that was not changed, this is what the
\* lemmas on the detectors ask for.
LEMMA StreamOK ==
  ASSUME IInv, ~ended, fpdm = "classic" \/ retunes = 0
  PROVE  FskOK(fpdm)
<1>1. fsk_pulses.num_pulses \in Nat /\ fsk_pulses \in PulseTrain
  BY TrainFields DEF IInv, TypeOK
<1> QED
  BY <1>1 DEF IInv, TypeOK, FreeSlots, Changed, FskOK, FskTyped, FskSlots, FskTracking

LEMMA StreamInit ==
  ASSUME Init
  PROVE  IInv /\ ClassicClean
<1>1. pulse_data_clear \in PulseTrain /\ pulse_data_clear.num_pulses = 0
  BY ClearType
<1>2. FskTyped BY <1>1, InitType DEF Init, FskTyped
<1>3. FreeSlots /\ Changed
  BY <1>1, InitType, MaxPulsesAssumption DEF Init, FreeSlots, Changed
<1>4. ClassicClean
  BY <1>1, InitType DEF Init, ClassicClean, NotSpurious
<1>5. TypeOK
  <2>1. retunes \in 0 .. MaxRetunes /\ seen \in Nat BY StreamAssumption DEF Init
  <2>2. ended \in BOOLEAN /\ fpdm \in Detectors BY Zenon DEF Init
  <2>3. QED BY <1>2, <2>1, <2>2 DEF TypeOK, FskTyped
<1>6. QED BY <1>3, <1>4, <1>5 DEF IInv

\* The classic detector does not touch the trackers.
LEMMA ClassicKeepsTracking ==
  ASSUME FskOK("classic"), NEW fm, NEW counter \in Int,
         pulse_detect_fsk_classic(fm, counter)
  PROVE  fsk'.tracking = fsk.tracking
<1>1. fsk \in FskState
  BY DEF FskOK, FskTyped
<1>2. \A s, w : FskTo(s, w) => fsk'.tracking = fsk.tracking
  BY <1>1 DEF FskTo, FskState
<1> QED
  BY <1>2
  DEF pulse_detect_fsk_classic, ClassicSettle, ClassicInitialGap, ClassicInitialPulse,
      ClassicStay, ClassicEndPulse, ClassicRewindGap, ClassicEndGap, ClassicRewindPulse

\* minmax keeps a slot free whatever state it is given.  It sets the trackers with the
\* first sample it looks at, and leaves the initial state then, for a gap unless they
\* were set before.
LEMMA MinMaxKeepsFree ==
  ASSUME FskTyped, FreeSlots, NEW fm, NEW counter \in Int,
         pulse_detect_fsk_minmax(fm, counter)
  PROVE  /\ FskTyped' /\ FreeSlots'
         /\ fsk'.fsk_state = "INIT" => fsk.fsk_state = "INIT" /\ fsk'.tracking = fsk.tracking
         /\ fsk'.fsk_state = "FH" /\ fsk_pulses'.num_pulses = 0 =>
              /\ fsk_pulses.num_pulses = 0
              /\ fsk.fsk_state = "FH" \/ (fsk.fsk_state = "INIT" /\ fsk.tracking)
<1> DEFINE w == fsk.fsk_pulse_length + 1
<1>1. w \in Nat /\ fsk.fsk_state \in FskStates
  BY FskFields DEF FskTyped
<1>2. /\ fsk_pulses.num_pulses \in Nat
      /\ fsk \in FskState /\ fsk_pulses \in PulseTrain /\ startFsk \in Int
  BY TrainFields DEF FskTyped
<1>3. CASE MinMaxSkip
  <2>1. fsk.skip_samples - 1 \in 0 .. FSK_SKIP_SAMPLES
    BY <1>2, <1>3, FskFields, FskAssumption DEF MinMaxSkip
  <2>2. /\ fsk' \in FskState /\ fsk'.fsk_state = fsk.fsk_state
        /\ fsk'.tracking = fsk.tracking
    BY <1>2, <1>3, <2>1, FskFields DEF MinMaxSkip, FskState
  <2>3. UNCHANGED <<fsk_pulses, startFsk>>
    BY <1>3 DEF MinMaxSkip
  <2> QED
    BY <1>2, <2>2, <2>3 DEF FskTyped, FreeSlots
<1>4. CASE MinMaxClass(fm) /\ MinMaxStay(w, fm)
  <2>1. PICK s \in {"FH", "FL"} :
          /\ MinMaxTo(s, w)
          /\ s = "FH" => fsk.fsk_state = "FH" \/ (fsk.fsk_state = "INIT" /\ fsk.tracking)
    BY <1>2, <1>4 DEF MinMaxStay, MinMaxClass
  <2>2. fsk' \in FskState /\ fsk'.fsk_state = s
    BY <1>1, <1>2, <2>1, MinMaxToType DEF FskStates
  <2>3. UNCHANGED <<fsk_pulses, startFsk>>
    BY <1>4 DEF MinMaxStay
  <2> QED
    BY <1>2, <2>1, <2>2, <2>3 DEF FskTyped, FreeSlots
<1>5. CASE MinMaxEndPulse(w, fm, counter)
  <2>1. fsk_pulses' \in PulseTrain /\ fsk_pulses'.num_pulses = fsk_pulses.num_pulses
    BY <1>1, <1>2, <1>5, StorePulseType DEF MinMaxEndPulse
  <2>2. fsk' \in FskState /\ fsk'.fsk_state = "FL" /\ startFsk' \in Int
    BY <1>1, <1>2, <1>5, MinMaxToType, MarkStartType DEF MinMaxEndPulse, FskStates
  <2> QED
    BY <1>2, <2>1, <2>2 DEF FskTyped, FreeSlots
<1>6. CASE MinMaxEndGap(w, fm, counter)
  <2>1. fsk_pulses' \in PulseTrain /\ fsk_pulses'.num_pulses \in 1 .. PD_MAX_PULSES - 1
    BY <1>1, <1>2, <1>6, GapStoredType DEF MinMaxEndGap, FreeSlots
  <2>2. fsk' \in FskState /\ fsk'.fsk_state = "FH" /\ startFsk' \in Int
    BY <1>1, <1>2, <1>6, MinMaxToType, MarkStartType DEF MinMaxEndGap, FskStates
  <2> QED
    BY <2>1, <2>2, MaxPulsesAssumption DEF FskTyped, FreeSlots
<1> QED
  BY <1>3, <1>4, <1>5, <1>6 DEF pulse_detect_fsk_minmax

LEMMA StreamStep ==
  ASSUME IInv, [Next]_streamVars, retunes' <= 2
  PROVE  IInv'
<1>1. /\ TypeOK /\ fsk \in FskState /\ seen \in Nat /\ retunes \in 0 .. MaxRetunes
      /\ MaxRetunes \in Nat /\ fpdm \in Detectors /\ FskTyped
  BY StreamAssumption DEF IInv, TypeOK, FskTyped
<1>2. Counter \in Int
  BY <1>1, FskFields, FskAssumption DEF Counter
<1>3. ASSUME NEW fm \in FmClasses, Sample(fm)
      PROVE  IInv'
  <2>1. /\ ~ended /\ FreeSlots /\ Changed /\ UNCHANGED <<fpdm, retunes, ended>>
        /\ seen' \in {seen, seen + 1}
    BY <1>3 DEF Sample, IInv
  <2>2. CASE fpdm = "classic" /\ pulse_detect_fsk_classic(fm, Counter)
    <3>1. FskOK("classic")
      BY <2>1, <2>2, StreamOK
    <3>2. FskOK("classic")' /\ fsk'.tracking = fsk.tracking
      BY <1>2, <2>2, <3>1, ClassicKeepsOK, ClassicKeepsTracking
    <3>3. FreeSlots' /\ Changed'
      BY <2>1, <2>2, <3>2 DEF FskOK, FskSlots, FreeSlots, Changed
    <3>4. TypeOK'
      BY <1>1, <2>1, <3>2 DEF TypeOK, FskOK, FskTyped
    <3> QED
      BY <3>3, <3>4 DEF IInv
  <2>3. CASE fpdm = "minmax" /\ pulse_detect_fsk_minmax(fm, Counter)
    <3>1. /\ FskTyped' /\ FreeSlots'
          /\ fsk'.fsk_state = "INIT" => fsk.fsk_state = "INIT" /\ fsk'.tracking = fsk.tracking
          /\ fsk'.fsk_state = "FH" /\ fsk_pulses'.num_pulses = 0 =>
               /\ fsk_pulses.num_pulses = 0
               /\ fsk.fsk_state = "FH" \/ (fsk.fsk_state = "INIT" /\ fsk.tracking)
      BY <1>1, <1>2, <2>1, <2>3, MinMaxKeepsFree
    <3>2. Changed'
      BY <2>1, <2>3, <3>1 DEF Changed
    <3>3. TypeOK'
      BY <1>1, <2>1, <3>1 DEF TypeOK, FskTyped
    <3> QED
      BY <3>1, <3>2, <3>3 DEF IInv
  <2> QED
    BY <1>3, <2>2, <2>3 DEF Sample
<1>4. CASE Retune
  <2>1. /\ ~ended /\ fpdm' \in Detectors \ {fpdm} /\ retunes' = retunes + 1
        /\ retunes < MaxRetunes
        /\ UNCHANGED <<fsk, fsk_pulses, startFsk, seen, dropped, ended>>
    BY <1>4 DEF Retune
  <2>2. FreeSlots /\ Changed
    BY <2>1 DEF IInv
  <2>3. TypeOK'
    BY <1>1, <2>1 DEF TypeOK
  <2>4. FreeSlots'
    BY <2>1, <2>2 DEF FreeSlots
  <2>5. retunes' \in 1 .. 2 /\ retunes = retunes' - 1
    BY <1>1, <2>1
  <2>6. Changed'
    BY <1>1, <2>1, <2>2, <2>5 DEF Changed, Detectors
  <2> QED
    BY <2>3, <2>4, <2>6 DEF IInv
<1>5. CASE End
  <2>1. FskTyped'
    BY <1>1, <1>2, <1>5, WrapUpType DEF End, FskTyped
  <2>2. ended' /\ retunes' = retunes /\ fpdm' = fpdm /\ seen' \in {seen, seen + 1}
    BY <1>5 DEF End
  <2>3. ended' \in BOOLEAN
    BY <1>5 DEF End
  <2> QED
    BY <1>1, <2>1, <2>2, <2>3 DEF IInv, TypeOK, FskTyped
<1>6. CASE UNCHANGED streamVars
  BY <1>6 DEF streamVars, IInv, TypeOK, FreeSlots, Changed
<1> QED
  BY <1>3, <1>4, <1>5, <1>6 DEF Next

\* With the classic detector throughout, what it has stored is not spurious.
StreamClean == fpdm = "classic" /\ ~ended => ClassicClean

LEMMA CleanStep ==
  ASSUME IInv, retunes = 0, StreamClean, [Next]_streamVars, retunes' = 0
  PROVE  StreamClean'
<1>1. ASSUME NEW fm \in FmClasses, Sample(fm), fpdm = "classic"
      PROVE  StreamClean'
  <2>1. ~ended /\ pulse_detect_fsk_classic(fm, Counter)
    BY <1>1 DEF Sample
  <2>2. Counter \in Int
    BY FskFields, FskAssumption DEF Counter, IInv, TypeOK
  <2>3. FskOK("classic") /\ ClassicClean
    BY <1>1, <2>1, StreamOK DEF StreamClean
  <2> QED
    BY <2>1, <2>2, <2>3, ClassicKeepsClean DEF StreamClean
<1>2. CASE \E fm \in FmClasses : Sample(fm) /\ fpdm # "classic"
  BY <1>2 DEF Sample, StreamClean
<1>3. CASE Retune
  BY <1>3 DEF Retune   \* retunes' = 1: no such step
<1>4. CASE End
  BY <1>4 DEF End, StreamClean
<1>5. CASE UNCHANGED streamVars
  BY <1>5 DEF streamVars, StreamClean, ClassicClean
<1> QED
  BY <1>1, <1>2, <1>3, <1>4, <1>5 DEF Next

\* Where the samples seen so far are: the form of SamplesConserved that a step
\* preserves.
Accounted ==
  /\ dropped \in Nat
  /\ ~ended => HeldBy(fsk, fsk_pulses) + dropped = seen
  /\ ~ended /\ fpdm = "minmax" => MinMaxFresh
  /\ ended /\ fpdm = "classic" =>
       Covered(fsk_pulses, fsk_pulses.num_pulses) + dropped = seen

LEMMA AccountedInit ==
  ASSUME Init
  PROVE  Accounted
<1>1. /\ fsk.fsk_pulse_length = 0 /\ fsk.fsk_state = "INIT"
      /\ fsk_pulses.num_pulses = 0 /\ fsk_pulses.pulse[0] = 0
      /\ seen = 0 /\ dropped = 0
  BY MaxPulsesAssumption DEF Init, pulse_detect_fsk_init, pulse_data_clear, Slots
<1>2. ended = FALSE BY Zenon DEF Init
<1>3. HeldBy(fsk, fsk_pulses) = 0 BY <1>1, CoveredStep DEF HeldBy
<1> QED BY <1>1, <1>2, <1>3 DEF Accounted, MinMaxFresh

LEMMA AccountedStep ==
  ASSUME IInv, retunes = 0, Accounted, [Next]_streamVars, retunes' = 0
  PROVE  Accounted'
<1>1. /\ TypeOK /\ fsk \in FskState /\ seen \in Nat /\ dropped \in Nat
      /\ FskTyped /\ fpdm \in Detectors
  BY DEF IInv, TypeOK, FskTyped, Accounted
<1>2. Counter \in Int
  BY <1>1, FskFields, FskAssumption DEF Counter
<1>3. ASSUME NEW fm \in FmClasses, Sample(fm)
      PROVE  Accounted'
  <2>1. /\ ~ended /\ FskOK(fpdm) /\ UNCHANGED <<fpdm, retunes, ended>>
        /\ HeldBy(fsk, fsk_pulses) + dropped = seen
    BY <1>3, StreamOK DEF Sample, Accounted
  <2>2. FskSlots /\ fsk_pulses \in PulseTrain BY <2>1 DEF FskOK, FskTyped
  <2>3. HeldBy(fsk, fsk_pulses) \in Nat
    BY <1>1, <2>2, FreeSlot, FskFields DEF HeldBy, FskSlots
  <2>4. dropped' = dropped + ShiftedOut(fsk_pulses, fsk_pulses')
    BY <1>1, <1>3 DEF Sample, Shifts, ShiftedOut
  <2>5. ShiftedOut(fsk_pulses, fsk_pulses') \in Nat
    <3>1. ShiftOffs \in 0 .. PD_MAX_PULSES BY ShiftOffsBounds
    <3>2. Covered(fsk_pulses, ShiftOffs) \in Nat BY <2>2, <3>1, CoveredNat
    <3> QED BY <3>2 DEF ShiftedOut
  <2>6. seen' = seen + (IF fsk'.skip_samples = fsk.skip_samples THEN 1 ELSE 0)
    BY <1>1, <1>3 DEF Sample
  <2>7. ASSUME FskTyped', FskSlots' PROVE HeldBy(fsk', fsk_pulses') \in Nat
    <3>1. /\ fsk_pulses' \in PulseTrain /\ fsk' \in FskState
          /\ fsk_pulses'.num_pulses < PD_MAX_PULSES
      BY <2>7 DEF FskTyped, FskSlots
    <3>2. fsk'.fsk_pulse_length \in Nat BY <3>1 DEF FskState
    <3> QED BY <3>1, <3>2, FreeSlot DEF HeldBy
  <2>8. CASE fpdm = "classic" /\ pulse_detect_fsk_classic(fm, Counter)
    <3>1. FskOK("classic") BY <2>1, <2>8
    <3>2. /\ HeldBy(fsk', fsk_pulses') + ShiftedOut(fsk_pulses, fsk_pulses')
               = HeldBy(fsk, fsk_pulses) + 1
          /\ fsk'.skip_samples = fsk.skip_samples
      BY <1>2, <2>8, <3>1, ClassicHolds
    <3>3. FskTyped' /\ FskSlots' BY <1>2, <2>8, <3>1, ClassicKeepsOK DEF FskOK
    <3>4. HeldBy(fsk', fsk_pulses') + dropped' = seen'
      BY <1>1, <2>1, <2>3, <2>4, <2>5, <2>6, <2>7, <3>2, <3>3
    <3> QED BY <1>1, <2>1, <2>4, <2>5, <2>8, <3>4 DEF Accounted
  <2>9. CASE fpdm = "minmax" /\ pulse_detect_fsk_minmax(fm, Counter)
    <3>1. FskOK("minmax") /\ MinMaxFresh BY <2>1, <2>9 DEF Accounted
    <3>2. /\ HeldBy(fsk', fsk_pulses') + ShiftedOut(fsk_pulses, fsk_pulses')
               = HeldBy(fsk, fsk_pulses)
                 + (IF fsk'.skip_samples = fsk.skip_samples THEN 1 ELSE 0)
          /\ MinMaxFresh'
      BY <1>2, <2>9, <3>1, MinMaxHolds
    <3>3. FskTyped' /\ FskSlots' BY <1>2, <2>9, <3>1, MinMaxKeepsOK DEF FskOK
    <3>4. HeldBy(fsk', fsk_pulses') + dropped' = seen'
      BY <1>1, <2>1, <2>3, <2>4, <2>5, <2>6, <2>7, <3>2, <3>3
    <3> QED BY <1>1, <2>1, <2>4, <2>5, <2>9, <3>2, <3>4 DEF Accounted
  <2> QED BY <1>3, <2>8, <2>9 DEF Sample
<1>4. CASE Retune BY <1>4 DEF Retune   \* retunes' = 1: no such step
<1>5. CASE End
  <2>1. /\ ~ended /\ ended' = TRUE /\ fpdm' = fpdm /\ dropped' = dropped
        /\ fsk_pulses.num_pulses > PD_MIN_PULSES
    BY <1>5 DEF End
  <2>2. CASE fpdm = "classic"
    <3>1. fsk_pulses' = WrapUpPulses /\ seen' = seen + 1
      BY <1>5, <2>2 DEF End
    <3>2. FskSlots BY <2>1, StreamOK DEF FskOK
    <3>3. fsk.fsk_state # "INIT"
      BY <2>1, <3>2, StreamAssumption DEF FskSlots
    <3>4. Covered(fsk_pulses', fsk_pulses'.num_pulses) = HeldBy(fsk, fsk_pulses) + 1
      BY <1>1, <3>1, <3>2, <3>3, WrapUpCovers
    <3>5. HeldBy(fsk, fsk_pulses) + dropped = seen BY <2>1 DEF Accounted
    <3>6. HeldBy(fsk, fsk_pulses) \in Nat
      BY <1>1, <3>2, FreeSlot, FskFields DEF HeldBy, FskSlots, FskTyped
    <3>7. Covered(fsk_pulses', fsk_pulses'.num_pulses) + dropped' = seen'
      BY <1>1, <2>1, <3>1, <3>4, <3>5, <3>6
    <3> QED BY <1>1, <2>1, <3>7 DEF Accounted
  <2>3. CASE fpdm # "classic"
    BY <1>1, <2>1, <2>3 DEF Accounted
  <2> QED BY <2>2, <2>3
<1>6. CASE UNCHANGED streamVars
  BY <1>6 DEF streamVars, Accounted, MinMaxFresh
<1> QED BY <1>3, <1>4, <1>5, <1>6 DEF Next

\* Retunes only grow in number.
LEMMA RetunesGrow ==
  ASSUME retunes \in Nat, [Next]_streamVars
  PROVE  retunes' \in {retunes, retunes + 1}
BY DEF Next, Sample, Retune, End, streamVars

StreamInv ==
  /\ retunes \in Nat
  /\ retunes <= 2 => IInv
  /\ retunes = 0 => StreamClean /\ Accounted

LEMMA StreamInvariant == Spec => []StreamInv
<1>1. ASSUME Init PROVE StreamInv
  <2>1. IInv /\ ClassicClean /\ Accounted BY <1>1, StreamInit, AccountedInit
  <2>2. retunes \in Nat BY <1>1 DEF Init
  <2> QED BY <2>1, <2>2 DEF StreamInv, StreamClean
<1>2. ASSUME StreamInv, [Next]_streamVars
      PROVE  StreamInv'
  <2>1. retunes \in Nat /\ retunes' \in {retunes, retunes + 1}
    BY <1>2, RetunesGrow DEF StreamInv
  <2>2. ASSUME retunes' <= 2 PROVE IInv'
    <3>1. retunes <= 2 BY <2>1, <2>2
    <3> QED BY <1>2, <2>2, <3>1, StreamStep DEF StreamInv
  <2>3. ASSUME retunes' = 0 PROVE StreamClean' /\ Accounted'
    <3>1. retunes = 0 BY <2>1, <2>3
    <3> QED BY <1>2, <2>3, <3>1, CleanStep, AccountedStep DEF StreamInv
  <2>4. retunes' \in Nat BY <2>1
  <2> QED BY <2>2, <2>3, <2>4 DEF StreamInv
<1> QED BY <1>1, <1>2, PTL DEF Spec

\* Until the detector is changed a third time its state has its type after any number of
\* samples.
THEOREM StreamTypeOK == Spec => [](retunes <= 2 => TypeOK)
<1>1. StreamInv => (retunes <= 2 => TypeOK) BY DEF StreamInv, IInv
<1> QED BY <1>1, StreamInvariant, PTL

\* Until then neither detector addresses a slot outside the arrays, for any capacity of a
\* train, any sequence of samples and changes at any of them.
THEOREM StreamSlotsInRange == Spec => [](retunes <= 2 => SlotsInRange)
<1>1. StreamInv => (retunes <= 2 => SlotsInRange)
  <2> SUFFICES ASSUME StreamInv, retunes <= 2, ~ended
               PROVE  /\ fsk_pulses.num_pulses < PD_MAX_PULSES
                      /\ fpdm = "classic" /\ fsk.fsk_state = "FH" =>
                           fsk_pulses.num_pulses >= 1
    BY DEF SlotsInRange
  <2>1. IInv /\ fsk_pulses.num_pulses \in Nat
    BY TrainFields DEF StreamInv, IInv, TypeOK
  <2> QED
    BY <2>1 DEF IInv, FreeSlots, Changed
<1> QED BY <1>1, StreamInvariant, PTL

\* The classic detector stores no spurious width, for any sequence of samples
\* and any threshold PD_MIN_PULSE_SAMPLES.
THEOREM StreamSpuriousSuppressed == Spec => []SpuriousSuppressed
<1>1. StreamInv => SpuriousSuppressed
  BY DEF StreamInv, StreamClean, ClassicClean, SpuriousSuppressed
<1> QED BY <1>1, StreamInvariant, PTL

\* No sample of a transmission is lost or counted twice by the detector that
\* receives all of it, whatever it rewinds, merges or shifts out, for any length
\* and any capacity of a train.
THEOREM StreamSamplesConserved == Spec => []SamplesConserved
<1>1. StreamInv => SamplesConserved
  <2> SUFFICES ASSUME StreamInv, retunes = 0, ended => fpdm = "classic"
               PROVE  Covered(fsk_pulses, fsk_pulses.num_pulses) + PendingPulse
                        + InProgress + dropped = seen
    BY DEF SamplesConserved
  <2>1. IInv /\ Accounted BY DEF StreamInv
  <2>2. /\ fsk_pulses \in PulseTrain /\ fsk \in FskState /\ dropped \in Nat
        /\ fsk_pulses.num_pulses \in 0 .. PD_MAX_PULSES
    BY <2>1, TrainFields DEF IInv, TypeOK, Accounted
  <2>3. Covered(fsk_pulses, fsk_pulses.num_pulses) \in Nat BY <2>2, CoveredNat
  <2>4. CASE ended
    BY <2>1, <2>2, <2>3, <2>4 DEF Accounted, PendingPulse, InProgress
  <2>5. CASE ~ended
    <3>1. fsk_pulses.num_pulses < PD_MAX_PULSES
      BY <2>1, <2>5 DEF IInv, FreeSlots
    <3>2. fsk_pulses.pulse[fsk_pulses.num_pulses] \in Nat BY <2>2, <3>1, FreeSlot
    <3>3. fsk.fsk_pulse_length \in Nat BY <2>2, FskFields
    <3> QED
      BY <2>1, <2>2, <2>3, <2>5, <3>2, <3>3 DEF Accounted, HeldBy, PendingPulse, InProgress
  <2> QED BY <2>4, <2>5
<1> QED BY <1>1, StreamInvariant, PTL

==============================================================================

--------------------------- MODULE FskDetectProofs ---------------------------
(***************************************************************************)
(* Lemmas about the operators on pulse trains and about the steps of the   *)
(* two FSK detectors: what a step preserves whoever takes it.              *)
(***************************************************************************)
EXTENDS FskDetect, WellFoundedInduction, TLAPS

LEMMA ShiftOffsBounds ==
  /\ PD_MAX_PULSES \in Nat
  /\ ShiftOffs \in Nat /\ ShiftOffs >= 1
  /\ PD_MAX_PULSES - ShiftOffs >= 1
BY MaxPulsesAssumption DEF ShiftOffs

\* The fields of a pulse train.
LEMMA TrainFields ==
  ASSUME NEW d \in PulseTrain
  PROVE  /\ d.pulse \in [Slots -> Nat] /\ d.gap \in [Slots -> Nat]
         /\ d.num_pulses \in 0 .. PD_MAX_PULSES /\ d.num_pulses \in Nat
         /\ d.offset \in Nat /\ d.start_ago \in Nat /\ d.end_ago \in Nat
         /\ d = [ pulse |-> d.pulse, gap |-> d.gap, num_pulses |-> d.num_pulses,
                  offset |-> d.offset, start_ago |-> d.start_ago,
                  end_ago |-> d.end_ago ]
BY MaxPulsesAssumption DEF PulseTrain

LEMMA ClearType ==
  pulse_data_clear \in PulseTrain /\ pulse_data_clear.num_pulses = 0
BY MaxPulsesAssumption DEF pulse_data_clear, PulseTrain

LEMMA StorePulseType ==
  ASSUME NEW d \in PulseTrain, NEW w \in Nat
  PROVE  /\ StorePulse(d, w) \in PulseTrain
         /\ StorePulse(d, w).num_pulses = d.num_pulses
         /\ StorePulse(d, w).gap = d.gap
         /\ StorePulse(d, w).pulse = [d.pulse EXCEPT ![d.num_pulses] = w]
         /\ StorePulse(d, w).offset = d.offset
         /\ StorePulse(d, w).start_ago = d.start_ago
<1>1. [d.pulse EXCEPT ![d.num_pulses] = w] \in [Slots -> Nat]
  BY TrainFields
<1>2. QED
  BY <1>1, TrainFields DEF StorePulse, PulseTrain

LEMMA StoreGapType ==
  ASSUME NEW d \in PulseTrain, NEW w \in Nat
  PROVE  /\ StoreGap(d, w) \in PulseTrain
         /\ StoreGap(d, w).num_pulses = d.num_pulses
         /\ StoreGap(d, w).pulse = d.pulse
         /\ StoreGap(d, w).gap = [d.gap EXCEPT ![d.num_pulses] = w]
         /\ StoreGap(d, w).offset = d.offset
         /\ StoreGap(d, w).start_ago = d.start_ago
<1>1. [d.gap EXCEPT ![d.num_pulses] = w] \in [Slots -> Nat]
  BY TrainFields
<1>2. QED
  BY <1>1, TrainFields DEF StoreGap, PulseTrain

LEMMA NextPulseType ==
  ASSUME NEW d \in PulseTrain, d.num_pulses < PD_MAX_PULSES
  PROVE  /\ NextPulse(d) \in PulseTrain
         /\ NextPulse(d).num_pulses = d.num_pulses + 1
         /\ NextPulse(d).pulse = d.pulse /\ NextPulse(d).gap = d.gap
         /\ NextPulse(d).offset = d.offset
         /\ NextPulse(d).start_ago = d.start_ago
<1>1. d.num_pulses + 1 \in 0 .. PD_MAX_PULSES
  BY TrainFields, MaxPulsesAssumption
<1>2. QED
  BY <1>1, TrainFields DEF NextPulse, PulseTrain

\* A shift of a full train keeps its type and leaves a pulse and a free slot.
LEMMA ShiftType ==
  ASSUME NEW d \in PulseTrain, d.num_pulses = PD_MAX_PULSES
  PROVE  /\ pulse_data_shift(d) \in PulseTrain
         /\ pulse_data_shift(d).num_pulses = PD_MAX_PULSES - ShiftOffs
         /\ pulse_data_shift(d).pulse = ShiftedSlots(d.pulse)
         /\ pulse_data_shift(d).gap = ShiftedSlots(d.gap)
         /\ pulse_data_shift(d).offset = d.offset + ShiftOffs
<1>1. ASSUME NEW a \in [Slots -> Nat] PROVE ShiftedSlots(a) \in [Slots -> Nat]
  BY ShiftOffsBounds DEF ShiftedSlots, Slots
<1>2. d.num_pulses - ShiftOffs \in 0 .. PD_MAX_PULSES
  BY ShiftOffsBounds, MaxPulsesAssumption
<1>3. d.offset + ShiftOffs \in Nat
  BY ShiftOffsBounds, TrainFields
<1>4. QED
  BY <1>1, <1>2, <1>3, TrainFields DEF pulse_data_shift, PulseTrain

-----------------------------------------------------------------------------
(* The samples a train covers: induction takes the least number of slots    *)
(* for which a claim is wrong.                                              *)

LEMMA LeastOf ==
  ASSUME NEW T, T \subseteq Nat, T # {}
  PROVE  \E x \in T : \A y \in T : x <= y
<1> DEFINE R == OpToRel(<, Nat)
<1>1. IsWellFoundedOn(R, Nat)
  BY NatLessThanWellFounded
<1>2. R = {p \in Nat \X Nat : p[1] < p[2]}
  BY DEF OpToRel
<1> HIDE DEF R
<1>3. \E x \in T : \A y \in T : ~ (<<y, x>> \in R)
  BY <1>1, WFMin
<1>4. \A x \in T, y \in T : ~ (<<y, x>> \in R) => x <= y
  BY <1>2
<1> QED BY <1>3, <1>4

IsSum(g, d, n) ==
  g = [k \in 0 .. n |-> IF k = 0 THEN 0 ELSE g[k - 1] + d.pulse[k - 1] + d.gap[k - 1]]

LEMMA SumExists ==
  ASSUME NEW d, NEW N \in Nat
  PROVE  \E g : IsSum(g, d, N)
<1> DEFINE Good(n) == \E g : IsSum(g, d, n)
           T == {n \in Nat : ~Good(n)}
<1>1. Good(0)
  <2> DEFINE g == [k \in 0 .. 0 |-> 0]
  <2>1. g = [k \in 0 .. 0 |-> IF k = 0 THEN 0
                              ELSE g[k - 1] + d.pulse[k - 1] + d.gap[k - 1]]
    OBVIOUS
  <2> QED BY <2>1 DEF IsSum
<1>2. ASSUME NEW n \in Nat, Good(n)
      PROVE  Good(n + 1)
  <2>1. PICK g : IsSum(g, d, n) BY <1>2
  <2> DEFINE next(x, k) == x + d.pulse[k - 1] + d.gap[k - 1]
             D == 0 .. n + 1
             h == [k \in D |-> IF k = n + 1 THEN next(g[n], k) ELSE g[k]]
             f == [k \in D |-> IF k = 0 THEN 0 ELSE next(h[k - 1], k)]
  <2> HIDE DEF next
  <2>2. ASSUME NEW k \in D
        PROVE  h[k] = f[k]
    <3>1. CASE k = 0
      <4>1. g[0] = 0 /\ 0 # n + 1 /\ 0 \in D
        BY <2>1 DEF IsSum
      <4> HIDE DEF D
      <4> QED BY <3>1, <4>1
    <3>2. CASE k = n + 1
      <4>1. k - 1 = n /\ n \in D /\ n # n + 1 /\ k # 0
        BY <3>2
      <4> HIDE DEF D
      <4>2. h[k] = next(g[n], k) /\ h[n] = g[n]
        BY <3>2, <4>1
      <4>3. f[k] = next(h[k - 1], k)
        BY <4>1
      <4> QED BY <4>1, <4>2, <4>3
    <3>3. CASE k # 0 /\ k # n + 1
      <4>1. k - 1 \in D /\ k - 1 # n + 1 /\ k \in 0 .. n
        BY <3>3
      <4>2. g[k] = next(g[k - 1], k)
        BY <2>1, <3>3, <4>1 DEF IsSum, next
      <4> HIDE DEF D
      <4>3. h[k] = g[k] /\ h[k - 1] = g[k - 1]
        BY <3>3, <4>1
      <4>4. f[k] = next(h[k - 1], k)
        BY <3>3
      <4> QED BY <4>2, <4>3, <4>4
    <3> QED BY <3>1, <3>2, <3>3
  <2>3. h = f BY <2>2
  <2> HIDE DEF h
  <2> QED BY <2>3 DEF IsSum, next
<1> HIDE DEF Good
<1>3. T = {}
  <2> SUFFICES ASSUME T # {}
               PROVE  FALSE
    OBVIOUS
  <2>1. PICK x \in T : \A y \in T : x <= y BY LeastOf
  <2>2. x \in Nat /\ ~Good(x) /\ x # 0 BY <1>1
  <2>3. x - 1 \in Nat /\ ~(x - 1 \in T) BY <2>1, <2>2
  <2> QED BY <1>2, <2>2, <2>3
<1> QED BY <1>3 DEF Good

\* One more slot adds its pulse and its gap.
LEMMA CoveredStep ==
  ASSUME NEW d
  PROVE  /\ Covered(d, 0) = 0
         /\ \A n \in Slots : Covered(d, n + 1) = Covered(d, n) + d.pulse[n] + d.gap[n]
<1> DEFINE sum == CHOOSE g : g = [k \in 0 .. PD_MAX_PULSES |->
                    IF k = 0 THEN 0 ELSE g[k - 1] + d.pulse[k - 1] + d.gap[k - 1]]
<1>1. \A n : Covered(d, n) = sum[n]
  BY DEF Covered
<1>2. PD_MAX_PULSES \in Nat BY MaxPulsesAssumption
<1>3. IsSum(sum, d, PD_MAX_PULSES)
  BY <1>2, SumExists DEF IsSum
<1> HIDE DEF sum
<1>4. sum[0] = 0
  BY <1>2, <1>3 DEF IsSum
<1>5. ASSUME NEW n \in Slots
      PROVE  sum[n + 1] = sum[n] + d.pulse[n] + d.gap[n]
  <2>1. n + 1 \in 0 .. PD_MAX_PULSES /\ n + 1 # 0 /\ (n + 1) - 1 = n
    BY <1>2 DEF Slots
  <2> QED BY <1>3, <2>1 DEF IsSum
<1> QED BY <1>1, <1>4, <1>5

LEMMA CoveredNat ==
  ASSUME NEW d \in PulseTrain, NEW n \in 0 .. PD_MAX_PULSES
  PROVE  Covered(d, n) \in Nat
<1> DEFINE T == {k \in 0 .. PD_MAX_PULSES : Covered(d, k) \notin Nat}
<1>1. SUFFICES ASSUME T # {}
               PROVE  FALSE
  OBVIOUS
<1>2. PICK x \in T : \A y \in T : x <= y
  <2>1. T \subseteq Nat OBVIOUS
  <2> HIDE DEF T
  <2> QED BY <1>1, <2>1, LeastOf
<1>3. x # 0 BY <1>2, CoveredStep
<1>4. x - 1 \in Slots /\ x - 1 \notin T /\ (x - 1) + 1 = x
  BY <1>2, <1>3, MaxPulsesAssumption DEF Slots
<1>5. Covered(d, x - 1) \in Nat
  BY <1>4, MaxPulsesAssumption DEF Slots
<1>6. Covered(d, (x - 1) + 1) = Covered(d, x - 1) + d.pulse[x - 1] + d.gap[x - 1]
  BY <1>4, CoveredStep
<1>7. d.pulse[x - 1] \in Nat /\ d.gap[x - 1] \in Nat
  BY <1>4, TrainFields
<1> QED BY <1>2, <1>4, <1>5, <1>6, <1>7

\* Only the slots counted matter.
LEMMA CoveredSame ==
  ASSUME NEW d, NEW e, NEW n \in 0 .. PD_MAX_PULSES,
         \A i \in 0 .. n - 1 : e.pulse[i] = d.pulse[i] /\ e.gap[i] = d.gap[i]
  PROVE  Covered(e, n) = Covered(d, n)
<1> DEFINE T == {k \in 0 .. n : Covered(e, k) # Covered(d, k)}
<1>0. n \in Nat /\ n <= PD_MAX_PULSES BY MaxPulsesAssumption
<1>1. SUFFICES ASSUME T # {}
               PROVE  FALSE
  BY <1>0
<1>2. PICK x \in T : \A y \in T : x <= y
  <2>1. T \subseteq Nat OBVIOUS
  <2> HIDE DEF T
  <2> QED BY <1>1, <2>1, LeastOf
<1>3. x # 0 BY <1>2, CoveredStep
<1>4. x - 1 \in 0 .. n - 1 /\ x - 1 \notin T /\ (x - 1) + 1 = x
  BY <1>0, <1>2, <1>3
<1>5. Covered(e, x - 1) = Covered(d, x - 1) BY <1>0, <1>4
<1>6. x - 1 \in Slots BY <1>0, <1>4, MaxPulsesAssumption DEF Slots
<1>7. /\ Covered(d, (x - 1) + 1) = Covered(d, x - 1) + d.pulse[x - 1] + d.gap[x - 1]
      /\ Covered(e, (x - 1) + 1) = Covered(e, x - 1) + e.pulse[x - 1] + e.gap[x - 1]
  BY <1>6, CoveredStep
<1> QED BY <1>2, <1>4, <1>5, <1>7

\* A store at the place of the next pulse changes nothing that is counted.
LEMMA CoveredStored ==
  ASSUME NEW d \in PulseTrain, NEW w \in Nat, d.num_pulses < PD_MAX_PULSES
  PROVE  /\ Covered(StorePulse(d, w), d.num_pulses) = Covered(d, d.num_pulses)
         /\ Covered(StoreGap(d, w), d.num_pulses) = Covered(d, d.num_pulses)
         /\ StorePulse(d, w).pulse[d.num_pulses] = w
         /\ StoreGap(d, w).gap[d.num_pulses] = w
<1> DEFINE n == d.num_pulses
<1>1. /\ n \in Slots /\ n \in 0 .. PD_MAX_PULSES
      /\ \A i \in 0 .. n - 1 : i \in Slots /\ i # n
  BY TrainFields, MaxPulsesAssumption DEF Slots
<1>2. /\ d.pulse \in [Slots -> Nat] /\ d.gap \in [Slots -> Nat]
      /\ StorePulse(d, w).gap = d.gap /\ StoreGap(d, w).pulse = d.pulse
      /\ StorePulse(d, w).pulse = [d.pulse EXCEPT ![n] = w]
      /\ StoreGap(d, w).gap = [d.gap EXCEPT ![n] = w]
  BY TrainFields, StorePulseType, StoreGapType
<1> DEFINE p == StorePulse(d, w)
           g == StoreGap(d, w)
<1> HIDE DEF n, p, g
<1>3. \A i \in 0 .. n - 1 : p.pulse[i] = d.pulse[i] /\ p.gap[i] = d.gap[i]
  BY <1>1, <1>2 DEF p
<1>4. \A i \in 0 .. n - 1 : g.pulse[i] = d.pulse[i] /\ g.gap[i] = d.gap[i]
  BY <1>1, <1>2 DEF g
<1>5. Covered(p, n) = Covered(d, n) /\ Covered(g, n) = Covered(d, n)
  BY <1>1, <1>3, <1>4, CoveredSame
<1>6. p.pulse[n] = w /\ g.gap[n] = w
  BY <1>1, <1>2 DEF p, g
<1> QED BY <1>5, <1>6 DEF n, p, g

\* A gap that closes a pulse adds both widths.
LEMMA CoveredClosed ==
  ASSUME NEW d \in PulseTrain, NEW w \in Nat, d.num_pulses < PD_MAX_PULSES
  PROVE  LET e == NextPulse(StoreGap(d, w))
         IN  /\ e \in PulseTrain /\ e.num_pulses = d.num_pulses + 1
             /\ e.pulse = d.pulse
             /\ Covered(e, d.num_pulses + 1)
                  = Covered(d, d.num_pulses) + d.pulse[d.num_pulses] + w
<1> DEFINE g == StoreGap(d, w)
           e == NextPulse(g)
           n == d.num_pulses
<1>1. n \in Slots /\ n \in Nat
  BY TrainFields, MaxPulsesAssumption DEF Slots
<1>2. /\ g \in PulseTrain /\ g.num_pulses = n /\ g.pulse = d.pulse
      /\ g.gap[n] = w /\ Covered(g, n) = Covered(d, n)
  BY StoreGapType, CoveredStored
<1> HIDE DEF g
<1>3. e \in PulseTrain /\ e.num_pulses = n + 1 /\ e.pulse = g.pulse /\ e.gap = g.gap
  BY <1>2, NextPulseType
<1> HIDE DEF e
<1>4. n + 1 \in 0 .. PD_MAX_PULSES
  BY <1>1, MaxPulsesAssumption DEF Slots
<1>5. Covered(e, n + 1) = Covered(g, n + 1)
  BY <1>3, <1>4, CoveredSame
<1>6. Covered(g, n + 1) = Covered(g, n) + g.pulse[n] + g.gap[n]
  BY <1>1, CoveredStep
<1>7. e \in PulseTrain /\ e.num_pulses = n + 1 /\ e.pulse = d.pulse
      /\ Covered(e, n + 1) = Covered(d, n) + d.pulse[n] + w
  BY <1>2, <1>3, <1>5, <1>6
<1> QED BY <1>7 DEF e, g

\* A shift drops what the first half covers, and nothing else.
LEMMA CoveredShift ==
  ASSUME NEW d \in PulseTrain, d.num_pulses = PD_MAX_PULSES
  PROVE  Covered(pulse_data_shift(d), PD_MAX_PULSES - ShiftOffs) + Covered(d, ShiftOffs)
           = Covered(d, PD_MAX_PULSES)
<1> DEFINE s == pulse_data_shift(d)
           N == PD_MAX_PULSES - ShiftOffs
           T == {k \in 0 .. N : Covered(s, k) + Covered(d, ShiftOffs)
                                  # Covered(d, k + ShiftOffs)}
<1>1. /\ s \in PulseTrain /\ s.pulse = ShiftedSlots(d.pulse)
      /\ s.gap = ShiftedSlots(d.gap)
  BY ShiftType
<1> HIDE DEF s
<1>2. N \in Nat /\ N + ShiftOffs = PD_MAX_PULSES
  BY ShiftOffsBounds
<1>3. SUFFICES ASSUME T # {}
               PROVE  FALSE
  BY <1>2 DEF s
<1>4. PICK x \in T : \A y \in T : x <= y
  <2>1. T \subseteq Nat OBVIOUS
  <2> HIDE DEF T
  <2> QED BY <1>3, <2>1, LeastOf
<1>5. x # 0
  <2>1. ShiftOffs \in 0 .. PD_MAX_PULSES BY ShiftOffsBounds
  <2>2. Covered(d, ShiftOffs) \in Nat BY <2>1, CoveredNat
  <2>3. Covered(s, 0) + Covered(d, ShiftOffs) = Covered(d, ShiftOffs)
    BY <2>2, CoveredStep
  <2>4. 0 + ShiftOffs = ShiftOffs BY ShiftOffsBounds
  <2> QED BY <1>4, <2>3, <2>4
<1> DEFINE y == x - 1
           z == y + ShiftOffs
<1>6. /\ y \in 0 .. N /\ y \notin T /\ y + 1 = x /\ y < N
      /\ y \in Slots /\ z \in Slots /\ z + 1 = x + ShiftOffs
      /\ z \in 0 .. PD_MAX_PULSES /\ ShiftOffs \in 0 .. PD_MAX_PULSES
      /\ y \in 0 .. PD_MAX_PULSES
  BY <1>2, <1>4, <1>5, ShiftOffsBounds DEF Slots
<1>7. Covered(s, y) + Covered(d, ShiftOffs) = Covered(d, z) BY <1>6
<1>8. s.pulse[y] = d.pulse[z] /\ s.gap[y] = d.gap[z]
  BY <1>1, <1>6 DEF ShiftedSlots
<1> HIDE DEF y, z
<1>9. /\ Covered(s, y + 1) = Covered(s, y) + s.pulse[y] + s.gap[y]
      /\ Covered(d, z + 1) = Covered(d, z) + d.pulse[z] + d.gap[z]
  BY <1>6, CoveredStep
<1>10. /\ Covered(s, y) \in Nat /\ Covered(d, z) \in Nat /\ Covered(d, ShiftOffs) \in Nat
       /\ d.pulse[z] \in Nat /\ d.gap[z] \in Nat
  BY <1>1, <1>6, CoveredNat, TrainFields
<1> QED BY <1>4, <1>6, <1>7, <1>8, <1>9, <1>10

-----------------------------------------------------------------------------
(* The state of a detector between two samples.                             *)

FskTyped == fsk \in FskState /\ fsk_pulses \in PulseTrain /\ startFsk \in Int

\* A free slot, a gap before every pulse in progress, and no pulse yet while
\* the initial frequency is estimated.
FskSlots ==
  /\ fsk_pulses.num_pulses < PD_MAX_PULSES
  /\ fsk.fsk_state = "FH" => fsk_pulses.num_pulses >= 1
  /\ fsk.fsk_state = "INIT" => fsk_pulses.num_pulses = 0

\* minmax leaves its initial state with the sample that seeds its trackers.
FskTracking(detector) ==
  detector = "minmax" /\ fsk.fsk_state = "INIT" => ~fsk.tracking

FskOK(detector) == FskTyped /\ FskSlots /\ FskTracking(detector)

\* With a classic detector, the pulse that waits for its gap is not spurious
\* either.
ClassicClean ==
  /\ NotSpurious(fsk_pulses)
  /\ fsk.fsk_state = "FL" =>
       fsk_pulses.pulse[fsk_pulses.num_pulses] >= PD_MIN_PULSE_SAMPLES

LEMMA FskFields ==
  ASSUME fsk \in FskState
  PROVE  /\ fsk.fsk_state \in FskStates /\ fsk.fsk_pulse_length \in Nat
         /\ fsk.skip_samples \in 0 .. FSK_SKIP_SAMPLES /\ fsk.tracking \in BOOLEAN
BY DEF FskState

LEMMA FskToType ==
  ASSUME fsk \in FskState, NEW s \in FskStates, NEW w \in Nat, FskTo(s, w)
  PROVE  /\ fsk' \in FskState
         /\ fsk'.fsk_state = s /\ fsk'.fsk_pulse_length = w
         /\ fsk'.tracking = fsk.tracking
BY FskFields DEF FskTo, FskState

LEMMA MinMaxToType ==
  ASSUME fsk \in FskState, NEW s \in FskStates, NEW w \in Nat, MinMaxTo(s, w)
  PROVE  /\ fsk' \in FskState
         /\ fsk'.fsk_state = s /\ fsk'.fsk_pulse_length = w
BY FskFields DEF MinMaxTo, FskState

LEMMA MarkStartType ==
  ASSUME startFsk \in Int, NEW w \in Int, NEW counter \in Int, MarkStart(w, counter)
  PROVE  startFsk' \in Int
BY DEF MarkStart, FirstStart

LEMMA InitType ==
  /\ pulse_detect_fsk_init \in FskState
  /\ pulse_detect_fsk_init.fsk_state = "INIT" /\ ~pulse_detect_fsk_init.tracking
BY FskAssumption DEF pulse_detect_fsk_init, FskState, FskStates

\* A gap closes a pulse: there is a free slot again, after a shift if need be.
LEMMA GapStoredType ==
  ASSUME NEW d \in PulseTrain, d.num_pulses < PD_MAX_PULSES, NEW w \in Nat
  PROVE  /\ GapStored(d, w) \in PulseTrain
         /\ GapStored(d, w).num_pulses \in 1 .. PD_MAX_PULSES - 1
<1> DEFINE e == NextPulse(StoreGap(d, w))
<1>0. StoreGap(d, w) \in PulseTrain /\ StoreGap(d, w).num_pulses = d.num_pulses
  BY StoreGapType
<1>1. e \in PulseTrain /\ e.num_pulses = d.num_pulses + 1
  BY <1>0, NextPulseType
<1>2. CASE e.num_pulses >= PD_MAX_PULSES
  <2>1. e.num_pulses = PD_MAX_PULSES
    BY <1>1, <1>2, TrainFields, MaxPulsesAssumption
  <2>2. /\ pulse_data_shift(e) \in PulseTrain
        /\ pulse_data_shift(e).num_pulses = PD_MAX_PULSES - ShiftOffs
    BY <1>1, <2>1, ShiftType
  <2>3. QED BY <1>2, <2>2, ShiftOffsBounds DEF GapStored
<1>3. CASE ~(e.num_pulses >= PD_MAX_PULSES)
  BY <1>1, <1>3, TrainFields, MaxPulsesAssumption DEF GapStored
<1>4. QED BY <1>2, <1>3

\* A step of the classic detector keeps its state well formed.
LEMMA ClassicKeepsOK ==
  ASSUME FskOK("classic"), NEW fm, NEW counter \in Int,
         pulse_detect_fsk_classic(fm, counter)
  PROVE  FskOK("classic")'
<1> DEFINE w == fsk.fsk_pulse_length + 1
<1>1. w \in Nat BY FskFields DEF FskOK, FskTyped
<1>2. /\ FskTyped /\ FskSlots /\ fsk_pulses.num_pulses \in Nat
      /\ fsk \in FskState /\ fsk_pulses \in PulseTrain /\ startFsk \in Int
  BY TrainFields DEF FskOK, FskTyped
<1>3. SUFFICES FskTyped' /\ FskSlots' BY DEF FskOK, FskTracking
<1>4. CASE ClassicSettle(w, fm)
  <2>1. fsk' \in FskState /\ fsk'.fsk_state = "INIT"
    BY <1>1, <1>2, <1>4, FskToType DEF ClassicSettle, FskStates
  <2>2. UNCHANGED <<fsk_pulses, startFsk>> /\ fsk.fsk_state = "INIT"
    BY <1>4 DEF ClassicSettle
  <2>3. QED BY <1>2, <2>1, <2>2 DEF FskTyped, FskSlots
<1>5. CASE ClassicInitialGap(w, fm, counter)
  <2> DEFINE d == [fsk_pulses EXCEPT !.pulse[0] = 0, !.gap[0] = w]
  <2>1. /\ [fsk_pulses.pulse EXCEPT ![0] = 0] \in [Slots -> Nat]
        /\ [fsk_pulses.gap EXCEPT ![0] = w] \in [Slots -> Nat]
    BY <1>1, <1>2, TrainFields
  <2>2. d \in PulseTrain /\ d.num_pulses = fsk_pulses.num_pulses
    BY <1>2, <2>1, TrainFields DEF PulseTrain
  <2>3. fsk_pulses.num_pulses = 0
    BY <1>2, <1>5 DEF ClassicInitialGap, FskSlots
  <2> HIDE DEF d
  <2>4. NextPulse(d) \in PulseTrain /\ NextPulse(d).num_pulses = 1
    BY <2>2, <2>3, NextPulseType, MaxPulsesAssumption
  <2>5. fsk_pulses' \in PulseTrain /\ fsk_pulses'.num_pulses = 1
    BY <2>4, <1>5 DEF ClassicInitialGap, d
  <2>6. fsk' \in FskState /\ fsk'.fsk_state = "FH" /\ startFsk' \in Int
    BY <1>1, <1>2, <1>5, FskToType, MarkStartType DEF ClassicInitialGap, FskStates
  <2>7. QED BY <2>5, <2>6, MaxPulsesAssumption DEF FskTyped, FskSlots
<1>6. CASE ClassicInitialPulse(w, fm, counter)
  <2>1. [fsk_pulses.pulse EXCEPT ![0] = w] \in [Slots -> Nat]
    BY <1>1, <1>2, TrainFields
  <2>2. fsk_pulses' \in PulseTrain /\ fsk_pulses'.num_pulses = fsk_pulses.num_pulses
    BY <1>2, <1>6, <2>1, TrainFields DEF PulseTrain, ClassicInitialPulse
  <2>3. fsk' \in FskState /\ fsk'.fsk_state = "FL" /\ startFsk' \in Int
    BY <1>1, <1>2, <1>6, FskToType, MarkStartType DEF ClassicInitialPulse, FskStates
  <2>4. QED BY <1>2, <2>2, <2>3 DEF FskTyped, FskSlots
<1>7. CASE ClassicStay(w, fm)
  BY <1>1, <1>2, <1>7, FskToType, FskFields DEF ClassicStay, FskTyped, FskSlots, FskStates
<1>8. CASE ClassicEndPulse(w, fm, counter)
  <2>1. fsk_pulses' \in PulseTrain /\ fsk_pulses'.num_pulses = fsk_pulses.num_pulses
    BY <1>1, <1>2, <1>8, StorePulseType DEF ClassicEndPulse
  <2>2. fsk' \in FskState /\ fsk'.fsk_state = "FL" /\ startFsk' \in Int
    BY <1>1, <1>2, <1>8, FskToType, MarkStartType DEF ClassicEndPulse, FskStates
  <2>3. QED BY <1>2, <2>1, <2>2 DEF FskTyped, FskSlots
<1>9. CASE ClassicRewindGap(w, fm)
  <2> DEFINE last == fsk_pulses.num_pulses - 1
  <2>1. last \in 0 .. PD_MAX_PULSES /\ last \in Slots /\ last < PD_MAX_PULSES
    BY <1>2, <1>9, TrainFields, MaxPulsesAssumption DEF ClassicRewindGap, FskSlots, Slots
  <2>2. fsk_pulses' \in PulseTrain /\ fsk_pulses'.num_pulses = last
    BY <1>2, <1>9, <2>1, TrainFields DEF PulseTrain, ClassicRewindGap
  <2>3. w + fsk_pulses.gap[last] \in Nat
    BY <1>1, <1>2, <2>1, TrainFields
  <2>4. PICK s \in {"INIT", "FL"} :
          FskTo(s, w + fsk_pulses.gap[last]) /\ (s = "INIT" => last = 0)
    BY <1>9 DEF ClassicRewindGap
  <2>5. fsk' \in FskState /\ fsk'.fsk_state = s
    BY <1>2, <2>3, <2>4, FskToType DEF FskStates
  <2>6. startFsk' \in Int BY <1>2, <1>9 DEF ClassicRewindGap
  <2>7. fsk'.fsk_state # "FH" /\ (fsk'.fsk_state = "INIT" => fsk_pulses'.num_pulses = 0)
    BY <2>2, <2>4, <2>5
  <2>8. QED BY <2>1, <2>2, <2>5, <2>6, <2>7 DEF FskTyped, FskSlots
<1>10. CASE ClassicEndGap(w, fm, counter)
  <2>1. fsk_pulses' \in PulseTrain /\ fsk_pulses'.num_pulses \in 1 .. PD_MAX_PULSES - 1
    BY <1>1, <1>2, <1>10, GapStoredType DEF ClassicEndGap, FskSlots
  <2>2. fsk' \in FskState /\ fsk'.fsk_state = "FH" /\ startFsk' \in Int
    BY <1>1, <1>2, <1>10, FskToType, MarkStartType DEF ClassicEndGap, FskStates
  <2>3. QED BY <2>1, <2>2, MaxPulsesAssumption DEF FskTyped, FskSlots
<1>11. CASE ClassicRewindPulse(w, fm)
  <2>1. fsk_pulses.num_pulses \in Slots
    BY <1>2, TrainFields, MaxPulsesAssumption DEF FskSlots, Slots
  <2>2. w + fsk_pulses.pulse[fsk_pulses.num_pulses] \in Nat
    BY <1>1, <1>2, <2>1, TrainFields
  <2>3. PICK s \in {"INIT", "FH"} :
          /\ FskTo(s, w + fsk_pulses.pulse[fsk_pulses.num_pulses])
          /\ s = "INIT" <=> fsk_pulses.num_pulses = 0
    BY <1>11 DEF ClassicRewindPulse
  <2>4. fsk' \in FskState /\ fsk'.fsk_state = s
    BY <1>2, <2>2, <2>3, FskToType DEF FskStates
  <2>5. UNCHANGED <<fsk_pulses, startFsk>> BY <1>11 DEF ClassicRewindPulse
  <2>6. QED BY <1>2, <2>3, <2>4, <2>5 DEF FskTyped, FskSlots
<1>12. QED
  BY <1>4, <1>5, <1>6, <1>7, <1>8, <1>9, <1>10, <1>11 DEF pulse_detect_fsk_classic

\* A step of the minmax detector keeps its state well formed.
LEMMA MinMaxKeepsOK ==
  ASSUME FskOK("minmax"), NEW fm, NEW counter \in Int,
         pulse_detect_fsk_minmax(fm, counter)
  PROVE  FskOK("minmax")'
<1> DEFINE w == fsk.fsk_pulse_length + 1
<1>1. w \in Nat BY FskFields DEF FskOK, FskTyped
<1>2. /\ FskSlots /\ FskTracking("minmax") /\ fsk_pulses.num_pulses \in Nat
      /\ fsk \in FskState /\ fsk_pulses \in PulseTrain /\ startFsk \in Int
  BY TrainFields DEF FskOK, FskTyped
<1>3. CASE MinMaxSkip
  <2>1. fsk.skip_samples - 1 \in 0 .. FSK_SKIP_SAMPLES
    BY <1>2, <1>3, FskFields, FskAssumption DEF MinMaxSkip
  <2>2. /\ fsk' \in FskState /\ fsk'.fsk_state = fsk.fsk_state
        /\ fsk'.tracking = fsk.tracking
    BY <1>2, <1>3, <2>1, FskFields DEF MinMaxSkip, FskState
  <2>3. QED
    BY <1>2, <1>3, <2>2 DEF MinMaxSkip, FskOK, FskTyped, FskSlots, FskTracking
<1>4. CASE MinMaxClass(fm) /\ MinMaxStay(w, fm)
  <2>1. PICK s \in {"FH", "FL"} :
          MinMaxTo(s, w) /\ (s = "FH" => fsk.fsk_state = "FH")
    BY <1>2, <1>4 DEF MinMaxStay, MinMaxClass, FskTracking
  <2>2. fsk' \in FskState /\ fsk'.fsk_state = s
    BY <1>1, <1>2, <2>1, MinMaxToType DEF FskStates
  <2>3. QED
    BY <1>2, <1>4, <2>1, <2>2 DEF MinMaxStay, FskOK, FskTyped, FskSlots, FskTracking
<1>5. CASE MinMaxEndPulse(w, fm, counter)
  <2>1. fsk_pulses' \in PulseTrain /\ fsk_pulses'.num_pulses = fsk_pulses.num_pulses
    BY <1>1, <1>2, <1>5, StorePulseType DEF MinMaxEndPulse
  <2>2. fsk' \in FskState /\ fsk'.fsk_state = "FL" /\ startFsk' \in Int
    BY <1>1, <1>2, <1>5, MinMaxToType, MarkStartType DEF MinMaxEndPulse, FskStates
  <2>3. QED BY <1>2, <2>1, <2>2 DEF FskOK, FskTyped, FskSlots, FskTracking
<1>6. CASE MinMaxEndGap(w, fm, counter)
  <2>1. fsk_pulses' \in PulseTrain /\ fsk_pulses'.num_pulses \in 1 .. PD_MAX_PULSES - 1
    BY <1>1, <1>2, <1>6, GapStoredType DEF MinMaxEndGap, FskSlots
  <2>2. fsk' \in FskState /\ fsk'.fsk_state = "FH" /\ startFsk' \in Int
    BY <1>1, <1>2, <1>6, MinMaxToType, MarkStartType DEF MinMaxEndGap, FskStates
  <2>3. QED
    BY <2>1, <2>2, MaxPulsesAssumption DEF FskOK, FskTyped, FskSlots, FskTracking
<1>7. QED
  BY <1>3, <1>4, <1>5, <1>6 DEF pulse_detect_fsk_minmax

\* pulse_detect_fsk_wrap_up has a slot to store in, and keeps the types.
LEMMA WrapUpType ==
  ASSUME FskTyped, NEW counter \in Int
  PROVE  /\ WrapUpState \in FskState /\ WrapUpPulses \in PulseTrain
         /\ WrapUpStart(counter) \in Int
<1> DEFINE w == WrapUpLength
<1>1. /\ fsk \in FskState /\ fsk_pulses \in PulseTrain /\ startFsk \in Int
      /\ w \in Nat
  BY FskFields DEF FskTyped, WrapUpLength
<1>2. WrapUpState \in FskState
  BY <1>1, FskFields DEF WrapUpState, FskState
<1>3. WrapUpStart(counter) \in Int
  BY <1>1 DEF WrapUpStart, FirstStart
<1>4. WrapUpPulses \in PulseTrain
  <2> DEFINE p == StorePulse(fsk_pulses, w)
             q == StoreGap(p, 0)
             r == StoreGap(fsk_pulses, w)
  <2>1. CASE ~WrapsUp BY <1>1, <2>1 DEF WrapUpPulses
  <2>2. CASE WrapsUp /\ fsk.fsk_state = "FH"
    <3>1. p \in PulseTrain /\ p.num_pulses = fsk_pulses.num_pulses
      BY <1>1, StorePulseType
    <3> HIDE DEF p
    <3>2. q \in PulseTrain /\ q.num_pulses = fsk_pulses.num_pulses
      BY <3>1, StoreGapType
    <3> HIDE DEF q
    <3>3. NextPulse(q) \in PulseTrain BY <2>2, <3>2, NextPulseType DEF WrapsUp
    <3>4. QED BY <2>2, <3>3 DEF WrapUpPulses, p, q
  <2>3. CASE WrapsUp /\ fsk.fsk_state # "FH"
    <3>1. r \in PulseTrain /\ r.num_pulses = fsk_pulses.num_pulses
      BY <1>1, StoreGapType
    <3> HIDE DEF r
    <3>2. NextPulse(r) \in PulseTrain BY <2>3, <3>1, NextPulseType DEF WrapsUp
    <3>3. QED BY <2>3, <3>2 DEF WrapUpPulses, r
  <2>4. QED BY <2>1, <2>2, <2>3
<1>5. QED BY <1>2, <1>3, <1>4

-----------------------------------------------------------------------------
(* No spurious width is ever stored by the classic detector.                *)

LEMMA GapStoredClean ==
  ASSUME NEW d \in PulseTrain, d.num_pulses < PD_MAX_PULSES,
         NEW w \in Nat, w >= PD_MIN_PULSE_SAMPLES,
         NotSpurious(d), d.pulse[d.num_pulses] >= PD_MIN_PULSE_SAMPLES
  PROVE  NotSpurious(GapStored(d, w))
<1> DEFINE g == StoreGap(d, w)
           e == NextPulse(g)
<1>1. /\ g \in PulseTrain /\ g.num_pulses = d.num_pulses /\ g.pulse = d.pulse
      /\ g.gap = [d.gap EXCEPT ![d.num_pulses] = w]
  BY StoreGapType
<1> HIDE DEF g
<1>2. /\ e \in PulseTrain /\ e.num_pulses = d.num_pulses + 1 /\ e.pulse = d.pulse
      /\ e.gap = [d.gap EXCEPT ![d.num_pulses] = w]
  BY <1>1, NextPulseType
<1> HIDE DEF e
<1>3. ASSUME NEW i \in 0 .. d.num_pulses
      PROVE  /\ e.gap[i] >= PD_MIN_PULSE_SAMPLES
             /\ e.pulse[i] >= PD_MIN_PULSE_SAMPLES \/ (i = 0 /\ e.pulse[i] = 0)
  <2>1. i \in Slots BY <1>3, TrainFields, MaxPulsesAssumption DEF Slots
  <2>2. CASE i = d.num_pulses
    BY <1>2, <2>1, <2>2, TrainFields
  <2>3. CASE i # d.num_pulses
    <3>1. i \in 0 .. d.num_pulses - 1 BY <2>3, TrainFields
    <3>2. e.gap[i] = d.gap[i] /\ e.pulse[i] = d.pulse[i]
      BY <1>2, <2>1, <2>3, TrainFields
    <3>3. QED BY <3>1, <3>2 DEF NotSpurious
  <2>4. QED BY <2>2, <2>3
<1>4. CASE e.num_pulses >= PD_MAX_PULSES
  <2> DEFINE s == pulse_data_shift(e)
  <2>1. e.num_pulses = PD_MAX_PULSES
    BY <1>2, <1>4, TrainFields, MaxPulsesAssumption
  <2>2. /\ s.num_pulses = PD_MAX_PULSES - ShiftOffs
        /\ s.pulse = ShiftedSlots(e.pulse) /\ s.gap = ShiftedSlots(e.gap)
    BY <1>2, <2>1, ShiftType
  <2>3. GapStored(d, w) = s
    BY <1>4 DEF GapStored, e, g
  <2> HIDE DEF s
  <2>4. ASSUME NEW i \in 0 .. s.num_pulses - 1
        PROVE  s.gap[i] >= PD_MIN_PULSE_SAMPLES /\ s.pulse[i] >= PD_MIN_PULSE_SAMPLES
    <3>1. i \in Nat /\ i < PD_MAX_PULSES - ShiftOffs
      BY <2>2, <2>4, ShiftOffsBounds
    <3>2. d.num_pulses = PD_MAX_PULSES - 1
      BY <1>2, <2>1, TrainFields, MaxPulsesAssumption
    <3>3. /\ i + ShiftOffs \in Nat /\ i + ShiftOffs <= PD_MAX_PULSES - 1
          /\ i + ShiftOffs # 0
      BY <3>1, ShiftOffsBounds
    <3>4. i \in Slots
      BY <3>1, ShiftOffsBounds DEF Slots
    <3>5. s.gap[i] = e.gap[i + ShiftOffs] /\ s.pulse[i] = e.pulse[i + ShiftOffs]
      BY <2>2, <3>1, <3>4 DEF ShiftedSlots
    <3>6. i + ShiftOffs \in 0 .. d.num_pulses
      BY <3>2, <3>3, ShiftOffsBounds
    <3>7. QED BY <1>3, <3>3, <3>5, <3>6
  <2>5. QED BY <2>3, <2>4 DEF NotSpurious
<1>5. CASE ~(e.num_pulses >= PD_MAX_PULSES)
  <2>1. GapStored(d, w) = e BY <1>5 DEF GapStored, e, g
  <2>2. e.num_pulses - 1 = d.num_pulses BY <1>2, TrainFields
  <2>3. NotSpurious(e) BY <1>3, <2>2 DEF NotSpurious
  <2>4. QED BY <2>1, <2>3
<1>6. QED BY <1>4, <1>5

LEMMA ClassicKeepsClean ==
  ASSUME FskOK("classic"), ClassicClean,
         NEW fm, NEW counter \in Int, pulse_detect_fsk_classic(fm, counter)
  PROVE  ClassicClean'
<1> DEFINE w == fsk.fsk_pulse_length + 1
           n == fsk_pulses.num_pulses
<1>1. w \in Nat BY FskFields DEF FskOK, FskTyped
<1>2. /\ FskSlots /\ n \in Nat /\ n < PD_MAX_PULSES /\ n \in Slots
      /\ fsk \in FskState /\ fsk_pulses \in PulseTrain
      /\ NotSpurious(fsk_pulses)
  BY TrainFields, MaxPulsesAssumption DEF FskOK, FskTyped, FskSlots, ClassicClean, Slots
<1>3. CASE ClassicSettle(w, fm)
  <2>1. fsk_pulses' = fsk_pulses /\ fsk'.fsk_state = "INIT"
    BY <1>1, <1>2, <1>3, FskToType DEF ClassicSettle, FskStates
  <2>2. QED BY <1>2, <2>1 DEF ClassicClean
<1>4. CASE ClassicInitialGap(w, fm, counter)
  <2> DEFINE d == [fsk_pulses EXCEPT !.pulse[0] = 0, !.gap[0] = w]
  <2>1. n = 0 /\ w >= PD_MIN_PULSE_SAMPLES
    BY <1>2, <1>4 DEF ClassicInitialGap, FskSlots
  <2>2. /\ [fsk_pulses.pulse EXCEPT ![0] = 0] \in [Slots -> Nat]
        /\ [fsk_pulses.gap EXCEPT ![0] = w] \in [Slots -> Nat]
    BY <1>1, <1>2, TrainFields
  <2>3. /\ d \in PulseTrain /\ d.num_pulses = n
        /\ d.pulse[0] = 0 /\ d.gap[0] = w
    BY <1>2, <2>1, <2>2, TrainFields DEF PulseTrain
  <2> HIDE DEF d
  <2>4. /\ NextPulse(d).num_pulses = 1
        /\ NextPulse(d).pulse[0] = 0 /\ NextPulse(d).gap[0] = w
    BY <1>2, <2>1, <2>3, NextPulseType
  <2>5. fsk_pulses' = NextPulse(d) BY <1>4 DEF ClassicInitialGap, d
  <2>6. fsk'.fsk_state = "FH"
    BY <1>2, <1>4, FskToType DEF ClassicInitialGap, FskStates
  <2>7. QED BY <2>1, <2>4, <2>5, <2>6 DEF ClassicClean, NotSpurious
<1>5. CASE ClassicInitialPulse(w, fm, counter)
  <2>1. n = 0 /\ w >= PD_MIN_PULSE_SAMPLES
    BY <1>2, <1>5 DEF ClassicInitialPulse, FskSlots
  <2>2. fsk_pulses'.num_pulses = 0 /\ fsk_pulses'.pulse[0] = w
    BY <1>2, <1>5, <2>1, TrainFields DEF ClassicInitialPulse
  <2>3. QED BY <2>1, <2>2 DEF ClassicClean, NotSpurious
<1>6. CASE ClassicStay(w, fm)
  <2>1. fsk_pulses' = fsk_pulses /\ fsk'.fsk_state = fsk.fsk_state
    BY <1>1, <1>2, <1>6, FskToType, FskFields DEF ClassicStay
  <2>2. QED BY <2>1 DEF ClassicClean
<1>7. CASE ClassicEndPulse(w, fm, counter)
  <2>1. /\ fsk_pulses'.num_pulses = n /\ fsk_pulses'.gap = fsk_pulses.gap
        /\ fsk_pulses'.pulse = [fsk_pulses.pulse EXCEPT ![n] = w]
    BY <1>1, <1>2, <1>7, StorePulseType DEF ClassicEndPulse
  <2>2. w >= PD_MIN_PULSE_SAMPLES BY <1>7 DEF ClassicEndPulse
  <2>3. fsk_pulses.pulse \in [Slots -> Nat] BY <1>2, TrainFields
  <2>4. fsk_pulses'.pulse[n] >= PD_MIN_PULSE_SAMPLES
    BY <1>2, <2>1, <2>2, <2>3
  <2>5. \A i \in 0 .. n - 1 : i \in Slots /\ i # n
    BY <1>2, MaxPulsesAssumption DEF Slots
  <2>6. \A i \in 0 .. n - 1 : fsk_pulses'.pulse[i] = fsk_pulses.pulse[i]
    BY <2>1, <2>3, <2>5
  <2>7. NotSpurious(fsk_pulses') BY <1>2, <2>1, <2>6 DEF NotSpurious
  <2>8. QED BY <2>1, <2>4, <2>7 DEF ClassicClean
<1>8. CASE ClassicRewindGap(w, fm)
  <2> DEFINE last == n - 1
  <2>1. n >= 1 /\ last \in 0 .. n - 1
    BY <1>2, <1>8 DEF ClassicRewindGap, FskSlots
  <2>2. /\ fsk_pulses'.num_pulses = last /\ fsk_pulses'.pulse = fsk_pulses.pulse
        /\ fsk_pulses'.gap = fsk_pulses.gap
    BY <1>2, <1>8, TrainFields DEF ClassicRewindGap
  <2>3. NotSpurious(fsk_pulses') BY <1>2, <2>1, <2>2 DEF NotSpurious
  <2>4. fsk'.fsk_state = "FL" => ~(last = 0 /\ fsk_pulses.pulse[0] = 0)
    BY <1>2, <1>8, FskFields DEF ClassicRewindGap, FskTo
  <2>5. fsk'.fsk_state = "FL" => fsk_pulses.pulse[last] >= PD_MIN_PULSE_SAMPLES
    BY <1>2, <2>1, <2>4 DEF NotSpurious
  <2>6. QED BY <2>2, <2>3, <2>5 DEF ClassicClean
<1>9. CASE ClassicEndGap(w, fm, counter)
  <2>1. fsk_pulses.pulse[n] >= PD_MIN_PULSE_SAMPLES /\ w >= PD_MIN_PULSE_SAMPLES
    BY <1>9 DEF ClassicEndGap, ClassicClean
  <2>2. NotSpurious(fsk_pulses')
    BY <1>1, <1>2, <1>9, <2>1, GapStoredClean DEF ClassicEndGap
  <2>3. fsk'.fsk_state = "FH"
    BY <1>2, <1>9, FskToType DEF ClassicEndGap, FskStates
  <2>4. QED BY <2>2, <2>3 DEF ClassicClean
<1>10. CASE ClassicRewindPulse(w, fm)
  <2>1. fsk_pulses' = fsk_pulses BY <1>10 DEF ClassicRewindPulse
  <2>2. fsk'.fsk_state # "FL"
    BY <1>2, <1>10, FskFields DEF ClassicRewindPulse, FskTo, FskState
  <2>3. QED BY <1>2, <2>1, <2>2 DEF ClassicClean
<1>11. QED
  BY <1>3, <1>4, <1>5, <1>6, <1>7, <1>8, <1>9, <1>10 DEF pulse_detect_fsk_classic

-----------------------------------------------------------------------------
(* Every sample a detector counts is in a stored width, in the pulse that   *)
(* waits for its gap, in the width in progress or in what is shifted out.   *)

HeldBy(f, d) ==
  Covered(d, d.num_pulses) + f.fsk_pulse_length
    + (IF f.fsk_state = "FL" THEN d.pulse[d.num_pulses] ELSE 0)

\* What a step that leaves the train e instead of d shifts out.
ShiftedOut(d, e) == IF e.offset # d.offset THEN Covered(d, ShiftOffs) ELSE 0

LEMMA GapStoredCovers ==
  ASSUME NEW d \in PulseTrain, d.num_pulses < PD_MAX_PULSES, NEW w \in Nat
  PROVE  LET g == GapStored(d, w)
         IN  /\ g.offset >= d.offset
             /\ Covered(g, g.num_pulses) + ShiftedOut(d, g)
                  = Covered(d, d.num_pulses) + d.pulse[d.num_pulses] + w
<1> DEFINE e == NextPulse(StoreGap(d, w))
           n == d.num_pulses
           g == GapStored(d, w)
           all == Covered(d, n) + d.pulse[n] + w
<1>1. /\ n \in Slots /\ n \in Nat /\ n \in 0 .. PD_MAX_PULSES /\ d.offset \in Nat
      /\ Covered(d, n) \in Nat /\ d.pulse[n] \in Nat
  <2>1. n \in Slots /\ n \in Nat /\ n \in 0 .. PD_MAX_PULSES
    BY TrainFields, MaxPulsesAssumption DEF Slots
  <2> QED BY <2>1, TrainFields, CoveredNat
<1>2. /\ e \in PulseTrain /\ e.num_pulses = n + 1 /\ e.pulse = d.pulse
      /\ Covered(e, n + 1) = all
  BY CoveredClosed
<1>3. e.offset = d.offset /\ e.gap = [d.gap EXCEPT ![n] = w]
  <2> DEFINE h == StoreGap(d, w)
  <2>1. /\ h \in PulseTrain /\ h.num_pulses = n /\ h.offset = d.offset
        /\ h.gap = [d.gap EXCEPT ![n] = w]
    BY StoreGapType
  <2> HIDE DEF h
  <2>2. NextPulse(h).offset = h.offset /\ NextPulse(h).gap = h.gap
    BY <2>1, NextPulseType
  <2> QED BY <2>1, <2>2 DEF h
<1>4. all \in Nat BY <1>1
<1>5. g = IF e.num_pulses >= PD_MAX_PULSES THEN pulse_data_shift(e) ELSE e
  BY DEF GapStored
<1> HIDE DEF e, g, all
<1>6. CASE e.num_pulses >= PD_MAX_PULSES
  <2>1. e.num_pulses = PD_MAX_PULSES /\ n + 1 = PD_MAX_PULSES
    BY <1>1, <1>2, <1>6, MaxPulsesAssumption DEF Slots
  <2>2. /\ g.num_pulses = PD_MAX_PULSES - ShiftOffs /\ g.offset = d.offset + ShiftOffs
        /\ Covered(g, PD_MAX_PULSES - ShiftOffs) + Covered(e, ShiftOffs) = all
    BY <1>2, <1>3, <1>5, <1>6, <2>1, ShiftType, CoveredShift
  <2>3. Covered(e, ShiftOffs) = Covered(d, ShiftOffs)
    <3>1. /\ ShiftOffs \in 0 .. PD_MAX_PULSES
          /\ \A i \in 0 .. ShiftOffs - 1 : i \in Slots /\ i # n
      BY <2>1, ShiftOffsBounds DEF Slots
    <3>2. \A i \in 0 .. ShiftOffs - 1 : e.pulse[i] = d.pulse[i] /\ e.gap[i] = d.gap[i]
      BY <1>2, <1>3, <3>1, TrainFields
    <3> QED BY <3>1, <3>2, CoveredSame
  <2>4. g.offset # d.offset /\ g.offset >= d.offset
    BY <1>1, <2>2, ShiftOffsBounds
  <2> QED BY <2>2, <2>3, <2>4 DEF ShiftedOut, g, all
<1>7. CASE ~(e.num_pulses >= PD_MAX_PULSES)
  <2>1. g = e BY <1>5, <1>7
  <2>2. Covered(g, g.num_pulses) + ShiftedOut(d, g) = all + 0
    BY <1>2, <1>3, <2>1 DEF ShiftedOut
  <2> QED BY <1>1, <1>3, <1>4, <2>1, <2>2 DEF g, all
<1> QED BY <1>6, <1>7

\* The facts about a train with a free slot that the steps below use.
LEMMA FreeSlot ==
  ASSUME NEW d \in PulseTrain, d.num_pulses < PD_MAX_PULSES
  PROVE  /\ d.num_pulses \in Slots /\ d.num_pulses \in Nat
         /\ Covered(d, d.num_pulses) \in Nat
         /\ d.pulse[d.num_pulses] \in Nat /\ d.gap[d.num_pulses] \in Nat
<1>1. d.num_pulses \in Slots /\ d.num_pulses \in Nat /\ d.num_pulses \in 0 .. PD_MAX_PULSES
  BY TrainFields, MaxPulsesAssumption DEF Slots
<1> QED BY <1>1, TrainFields, CoveredNat

\* A completed pulse is kept where the next gap will close it.
LEMMA EndPulseHolds ==
  ASSUME FskTyped, fsk_pulses.num_pulses < PD_MAX_PULSES, fsk.fsk_state # "FL",
         NEW w \in Nat, w = fsk.fsk_pulse_length + 1,
         fsk_pulses' = StorePulse(fsk_pulses, w),
         fsk'.fsk_state = "FL", fsk'.fsk_pulse_length = 0
  PROVE  /\ HeldBy(fsk', fsk_pulses') = HeldBy(fsk, fsk_pulses) + 1
         /\ fsk_pulses'.offset = fsk_pulses.offset
<1> DEFINE n == fsk_pulses.num_pulses
           d == StorePulse(fsk_pulses, w)
<1>1. /\ fsk_pulses \in PulseTrain /\ Covered(fsk_pulses, n) \in Nat
      /\ fsk.fsk_pulse_length \in Nat
  BY FreeSlot, FskFields DEF FskTyped
<1>2. /\ d.num_pulses = n /\ d.offset = fsk_pulses.offset
      /\ Covered(d, n) = Covered(fsk_pulses, n) /\ d.pulse[n] = w
  BY <1>1, StorePulseType, CoveredStored
<1> HIDE DEF d
<1>3. HeldBy(fsk', d) = Covered(fsk_pulses, n) + 0 + w
  BY <1>2 DEF HeldBy
<1>4. HeldBy(fsk, fsk_pulses) = Covered(fsk_pulses, n) + fsk.fsk_pulse_length + 0
  BY DEF HeldBy
<1>5. fsk_pulses' = d BY DEF d
<1> QED BY <1>1, <1>2, <1>3, <1>4, <1>5

\* A completed gap closes its pulse.
LEMMA EndGapHolds ==
  ASSUME FskTyped, fsk_pulses.num_pulses < PD_MAX_PULSES, fsk.fsk_state = "FL",
         NEW w \in Nat, w = fsk.fsk_pulse_length + 1,
         fsk_pulses' = GapStored(fsk_pulses, w),
         fsk'.fsk_state = "FH", fsk'.fsk_pulse_length = 0
  PROVE  /\ HeldBy(fsk', fsk_pulses') + ShiftedOut(fsk_pulses, fsk_pulses')
              = HeldBy(fsk, fsk_pulses) + 1
         /\ fsk_pulses'.offset >= fsk_pulses.offset
<1> DEFINE n == fsk_pulses.num_pulses
           g == GapStored(fsk_pulses, w)
<1>1. /\ fsk_pulses \in PulseTrain /\ Covered(fsk_pulses, n) \in Nat
      /\ fsk_pulses.pulse[n] \in Nat /\ fsk.fsk_pulse_length \in Nat
  BY FreeSlot, FskFields DEF FskTyped
<1>2. /\ g.offset >= fsk_pulses.offset
      /\ Covered(g, g.num_pulses) + ShiftedOut(fsk_pulses, g)
           = Covered(fsk_pulses, n) + fsk_pulses.pulse[n] + w
  BY <1>1, GapStoredCovers
<1>3. Covered(g, g.num_pulses) \in Nat
  <2>1. g \in PulseTrain /\ g.num_pulses \in 1 .. PD_MAX_PULSES - 1
    BY <1>1, GapStoredType
  <2> HIDE DEF g
  <2>2. g.num_pulses \in 0 .. PD_MAX_PULSES BY <2>1, MaxPulsesAssumption
  <2> QED BY <2>1, <2>2, CoveredNat
<1> HIDE DEF g
<1>4. HeldBy(fsk', g) = Covered(g, g.num_pulses) + 0 + 0
  BY DEF HeldBy
<1>5. HeldBy(fsk, fsk_pulses)
        = Covered(fsk_pulses, n) + fsk.fsk_pulse_length + fsk_pulses.pulse[n]
  BY DEF HeldBy
<1>6. fsk_pulses' = g BY DEF g
<1>7. ShiftedOut(fsk_pulses, g) \in Int
  <2>1. Covered(fsk_pulses, ShiftOffs) \in Nat
    BY <1>1, ShiftOffsBounds, CoveredNat
  <2> QED BY <2>1 DEF ShiftedOut
<1> QED BY <1>1, <1>2, <1>3, <1>4, <1>5, <1>6, <1>7

\* The width in progress grows by the sample.
LEMMA StayHolds ==
  ASSUME FskTyped, fsk_pulses.num_pulses < PD_MAX_PULSES, fsk_pulses' = fsk_pulses,
         fsk'.fsk_pulse_length = fsk.fsk_pulse_length + 1,
         \/ fsk'.fsk_state = fsk.fsk_state
         \/ fsk.fsk_state # "FL" /\ fsk_pulses.pulse[fsk_pulses.num_pulses] = 0
  PROVE  HeldBy(fsk', fsk_pulses') = HeldBy(fsk, fsk_pulses) + 1
<1>1. /\ Covered(fsk_pulses, fsk_pulses.num_pulses) \in Nat
      /\ fsk_pulses.pulse[fsk_pulses.num_pulses] \in Nat /\ fsk.fsk_pulse_length \in Nat
  BY FreeSlot, FskFields DEF FskTyped
<1> QED BY <1>1 DEF HeldBy

\* A step of the classic detector loses no sample and counts none twice.
LEMMA ClassicHolds ==
  ASSUME FskOK("classic"), NEW fm, NEW counter \in Int,
         pulse_detect_fsk_classic(fm, counter)
  PROVE  /\ HeldBy(fsk', fsk_pulses') + ShiftedOut(fsk_pulses, fsk_pulses')
              = HeldBy(fsk, fsk_pulses) + 1
         /\ fsk_pulses'.offset >= fsk_pulses.offset
         /\ fsk'.skip_samples = fsk.skip_samples
<1> DEFINE w == fsk.fsk_pulse_length + 1
           n == fsk_pulses.num_pulses
           d == fsk_pulses
<1>1. /\ w \in Nat /\ n \in Nat /\ n < PD_MAX_PULSES /\ n \in Slots
      /\ fsk \in FskState /\ d \in PulseTrain /\ FskTyped /\ FskSlots
      /\ fsk.fsk_pulse_length \in Nat /\ d.offset \in Nat
      /\ Covered(d, n) \in Nat /\ d.pulse[n] \in Nat
  BY FskFields, TrainFields, FreeSlot DEF FskOK, FskTyped, FskSlots
<1>2. ASSUME NEW s, NEW l, FskTo(s, l)
      PROVE  /\ fsk'.fsk_state = s /\ fsk'.fsk_pulse_length = l
             /\ fsk'.skip_samples = fsk.skip_samples
  BY <1>1, <1>2 DEF FskTo, FskState
<1>3. SUFFICES /\ \/ /\ HeldBy(fsk', fsk_pulses') = HeldBy(fsk, d) + 1
                     /\ fsk_pulses'.offset = d.offset
                  \/ /\ HeldBy(fsk', fsk_pulses') + ShiftedOut(d, fsk_pulses')
                          = HeldBy(fsk, d) + 1
                     /\ fsk_pulses'.offset >= d.offset
               /\ fsk'.skip_samples = fsk.skip_samples
  <2>1. HeldBy(fsk, d) + 1 \in Nat BY <1>1 DEF HeldBy
  <2> QED BY <1>1, <2>1 DEF ShiftedOut
<1>4. CASE ClassicSettle(w, fm) \/ ClassicStay(w, fm)
  <2>1. FskTo(fsk.fsk_state, w) /\ fsk_pulses' = d
    BY <1>4 DEF ClassicSettle, ClassicStay
  <2>2. /\ fsk'.fsk_state = fsk.fsk_state /\ fsk'.fsk_pulse_length = w
        /\ fsk'.skip_samples = fsk.skip_samples
    BY <1>2, <2>1
  <2> QED BY <1>1, <2>1, <2>2, StayHolds
<1>5. CASE ClassicInitialGap(w, fm, counter)
  <2> DEFINE p == [d EXCEPT !.pulse[0] = 0, !.gap[0] = w]
             e == NextPulse(p)
  <2>1. /\ n = 0 /\ fsk.fsk_state = "INIT" /\ 0 \in Slots /\ 0 + 1 = 1
        /\ FskTo("FH", 0) /\ fsk_pulses' = e
    BY <1>1, <1>5 DEF ClassicInitialGap, FskSlots
  <2>2. /\ [d.pulse EXCEPT ![0] = 0] \in [Slots -> Nat]
        /\ [d.gap EXCEPT ![0] = w] \in [Slots -> Nat]
    BY <1>1, TrainFields
  <2>3. /\ p \in PulseTrain /\ p.num_pulses = 0 /\ p.offset = d.offset
        /\ p.pulse[0] = 0 /\ p.gap[0] = w
    BY <1>1, <2>1, <2>2, TrainFields DEF PulseTrain
  <2> HIDE DEF p
  <2>4. /\ e.num_pulses = 1 /\ e.pulse = p.pulse /\ e.gap = p.gap
        /\ e.offset = d.offset
    BY <1>1, <2>1, <2>3, NextPulseType
  <2> HIDE DEF e
  <2>5. Covered(e, 0) = 0 /\ Covered(e, 1) = Covered(e, 0) + e.pulse[0] + e.gap[0]
    BY <2>1, CoveredStep
  <2>6. Covered(e, 1) = w BY <1>1, <2>3, <2>4, <2>5
  <2>7. /\ fsk'.fsk_state = "FH" /\ fsk'.fsk_pulse_length = 0
        /\ fsk'.skip_samples = fsk.skip_samples
    BY <1>2, <2>1
  <2>8. HeldBy(fsk', e) = w + 0 + 0 BY <2>4, <2>6, <2>7 DEF HeldBy
  <2>9. HeldBy(fsk, d) = 0 + fsk.fsk_pulse_length + 0
    BY <2>1, CoveredStep DEF HeldBy
  <2> QED BY <1>1, <2>1, <2>4, <2>7, <2>8, <2>9
<1>6. CASE ClassicInitialPulse(w, fm, counter)
  <2>1. n = 0 /\ fsk.fsk_state = "INIT" /\ FskTo("FL", 0)
    BY <1>1, <1>6 DEF ClassicInitialPulse, FskSlots
  <2>2. fsk_pulses' = StorePulse(d, w)
    BY <1>6, <2>1 DEF ClassicInitialPulse, StorePulse
  <2>3. /\ fsk'.fsk_state = "FL" /\ fsk'.fsk_pulse_length = 0
        /\ fsk'.skip_samples = fsk.skip_samples
    BY <1>2, <2>1
  <2> QED BY <1>1, <2>1, <2>2, <2>3, EndPulseHolds
<1>7. CASE ClassicEndPulse(w, fm, counter)
  <2>1. fsk.fsk_state = "FH" /\ FskTo("FL", 0) /\ fsk_pulses' = StorePulse(d, w)
    BY <1>7 DEF ClassicEndPulse
  <2>2. /\ fsk'.fsk_state = "FL" /\ fsk'.fsk_pulse_length = 0
        /\ fsk'.skip_samples = fsk.skip_samples
    BY <1>2, <2>1
  <2> QED BY <1>1, <2>1, <2>2, EndPulseHolds
<1>8. CASE ClassicRewindGap(w, fm)
  <2> DEFINE last == n - 1
             e == [d EXCEPT !.num_pulses = last]
  <2>1. /\ fsk.fsk_state = "FH" /\ n >= 1 /\ last \in Slots /\ last + 1 = n
        /\ last \in 0 .. PD_MAX_PULSES /\ fsk_pulses' = e
        /\ FskTo(IF last = 0 /\ d.pulse[0] = 0 THEN "INIT" ELSE "FL", w + d.gap[last])
    BY <1>1, <1>8, MaxPulsesAssumption DEF ClassicRewindGap, FskSlots, Slots
  <2>2. /\ e.num_pulses = last /\ e.pulse = d.pulse /\ e.gap = d.gap
        /\ e.offset = d.offset
    BY <1>1 DEF PulseTrain
  <2> HIDE DEF e
  <2>3. Covered(e, last) = Covered(d, last) BY <2>1, <2>2, CoveredSame
  <2> HIDE DEF last
  <2>4. Covered(d, n) = Covered(d, last) + d.pulse[last] + d.gap[last]
    BY <2>1, CoveredStep
  <2>5. Covered(d, last) \in Nat /\ d.pulse[last] \in Nat /\ d.gap[last] \in Nat
    BY <1>1, <2>1, CoveredNat, TrainFields
  <2>6. /\ fsk'.fsk_state = (IF last = 0 /\ d.pulse[0] = 0 THEN "INIT" ELSE "FL")
        /\ fsk'.fsk_pulse_length = w + d.gap[last]
        /\ fsk'.skip_samples = fsk.skip_samples
    BY <1>2, <2>1
  <2>7. HeldBy(fsk', e) = Covered(d, last) + (w + d.gap[last]) + d.pulse[last]
    BY <2>2, <2>3, <2>6 DEF HeldBy
  <2>8. HeldBy(fsk, d) = Covered(d, n) + fsk.fsk_pulse_length + 0
    BY <2>1 DEF HeldBy
  <2> QED BY <1>1, <2>1, <2>2, <2>4, <2>5, <2>6, <2>7, <2>8
<1>9. CASE ClassicEndGap(w, fm, counter)
  <2>1. fsk.fsk_state = "FL" /\ FskTo("FH", 0) /\ fsk_pulses' = GapStored(d, w)
    BY <1>9 DEF ClassicEndGap
  <2>2. /\ fsk'.fsk_state = "FH" /\ fsk'.fsk_pulse_length = 0
        /\ fsk'.skip_samples = fsk.skip_samples
    BY <1>2, <2>1
  <2> QED BY <1>1, <2>1, <2>2, EndGapHolds
<1>10. CASE ClassicRewindPulse(w, fm)
  <2>1. /\ fsk.fsk_state = "FL" /\ fsk_pulses' = d
        /\ FskTo(IF n = 0 THEN "INIT" ELSE "FH", w + d.pulse[n])
    BY <1>10 DEF ClassicRewindPulse
  <2>2. /\ fsk'.fsk_state = (IF n = 0 THEN "INIT" ELSE "FH")
        /\ fsk'.fsk_pulse_length = w + d.pulse[n]
        /\ fsk'.skip_samples = fsk.skip_samples
    BY <1>2, <2>1
  <2>3. HeldBy(fsk', d) = Covered(d, n) + (w + d.pulse[n]) + 0
    BY <2>2 DEF HeldBy
  <2>4. HeldBy(fsk, d) = Covered(d, n) + fsk.fsk_pulse_length + d.pulse[n]
    BY <2>1 DEF HeldBy
  <2> QED BY <1>1, <2>1, <2>2, <2>3, <2>4
<1> QED
  BY <1>4, <1>5, <1>6, <1>7, <1>8, <1>9, <1>10 DEF pulse_detect_fsk_classic

\* Before minmax has decided for a side nothing is stored.
MinMaxFresh == fsk.fsk_state = "INIT" => fsk_pulses.pulse[0] = 0

\* A step of minmax counts the sample, or skips it.
LEMMA MinMaxHolds ==
  ASSUME FskOK("minmax"), MinMaxFresh, NEW fm, NEW counter \in Int,
         pulse_detect_fsk_minmax(fm, counter)
  PROVE  /\ HeldBy(fsk', fsk_pulses') + ShiftedOut(fsk_pulses, fsk_pulses')
              = HeldBy(fsk, fsk_pulses)
                + (IF fsk'.skip_samples = fsk.skip_samples THEN 1 ELSE 0)
         /\ MinMaxFresh'
<1> DEFINE w == fsk.fsk_pulse_length + 1
           n == fsk_pulses.num_pulses
           d == fsk_pulses
<1>1. /\ w \in Nat /\ n \in Nat /\ n < PD_MAX_PULSES
      /\ fsk \in FskState /\ d \in PulseTrain /\ FskTyped /\ FskSlots
      /\ fsk.fsk_pulse_length \in Nat /\ fsk.skip_samples \in Nat
      /\ Covered(d, n) \in Nat /\ d.pulse[n] \in Nat
      /\ fsk.fsk_state \in FskStates
  BY FskFields, TrainFields, FreeSlot, FskAssumption DEF FskOK, FskTyped, FskSlots
<1>2. ASSUME NEW s, NEW l, MinMaxTo(s, l)
      PROVE  /\ fsk'.fsk_state = s /\ fsk'.fsk_pulse_length = l
             /\ fsk'.skip_samples = fsk.skip_samples
  BY <1>1, <1>2 DEF MinMaxTo, FskState
<1>3. HeldBy(fsk, d) \in Nat BY <1>1 DEF HeldBy
<1>4. CASE MinMaxSkip
  <2>1. /\ fsk'.fsk_state = fsk.fsk_state /\ fsk_pulses' = d
        /\ fsk'.fsk_pulse_length = fsk.fsk_pulse_length
        /\ fsk'.skip_samples = fsk.skip_samples - 1
    BY <1>1, <1>4 DEF MinMaxSkip, FskState
  <2>2. HeldBy(fsk', fsk_pulses') = HeldBy(fsk, d) /\ ShiftedOut(d, fsk_pulses') = 0
    BY <2>1 DEF HeldBy, ShiftedOut
  <2>3. fsk'.skip_samples # fsk.skip_samples BY <1>1, <2>1
  <2> QED BY <1>3, <2>1, <2>2, <2>3 DEF MinMaxFresh
<1>5. CASE MinMaxStay(w, fm)
  <2>1. PICK s \in {"FH", "FL"} :
          /\ MinMaxTo(s, w)
          /\ s = fsk.fsk_state \/ fsk.fsk_state = "INIT"
    BY <1>5 DEF MinMaxStay
  <2>2. /\ fsk'.fsk_state = s /\ fsk'.fsk_pulse_length = w
        /\ fsk'.skip_samples = fsk.skip_samples
    BY <1>2, <2>1
  <2>3. fsk_pulses' = d BY <1>5 DEF MinMaxStay
  <2>4. fsk.fsk_state = "INIT" => d.pulse[n] = 0
    BY <1>1 DEF FskSlots, MinMaxFresh
  <2>5. HeldBy(fsk', fsk_pulses') = HeldBy(fsk, d) + 1
    BY <1>1, <2>1, <2>2, <2>3, <2>4, StayHolds
  <2>6. ShiftedOut(d, fsk_pulses') = 0 BY <2>3 DEF ShiftedOut
  <2> QED BY <1>3, <2>2, <2>5, <2>6 DEF MinMaxFresh
<1>6. CASE MinMaxEndPulse(w, fm, counter)
  <2>1. fsk.fsk_state = "FH" /\ MinMaxTo("FL", 0) /\ fsk_pulses' = StorePulse(d, w)
    BY <1>6 DEF MinMaxEndPulse
  <2>2. /\ fsk'.fsk_state = "FL" /\ fsk'.fsk_pulse_length = 0
        /\ fsk'.skip_samples = fsk.skip_samples
    BY <1>2, <2>1
  <2>3. /\ HeldBy(fsk', fsk_pulses') = HeldBy(fsk, d) + 1
        /\ fsk_pulses'.offset = d.offset
    BY <1>1, <2>1, <2>2, EndPulseHolds
  <2> QED BY <1>3, <2>2, <2>3 DEF ShiftedOut, MinMaxFresh
<1>7. CASE MinMaxEndGap(w, fm, counter)
  <2>1. fsk.fsk_state = "FL" /\ MinMaxTo("FH", 0) /\ fsk_pulses' = GapStored(d, w)
    BY <1>7 DEF MinMaxEndGap
  <2>2. /\ fsk'.fsk_state = "FH" /\ fsk'.fsk_pulse_length = 0
        /\ fsk'.skip_samples = fsk.skip_samples
    BY <1>2, <2>1
  <2>3. HeldBy(fsk', fsk_pulses') + ShiftedOut(d, fsk_pulses') = HeldBy(fsk, d) + 1
    BY <1>1, <2>1, <2>2, EndGapHolds
  <2> QED BY <2>2, <2>3 DEF MinMaxFresh
<1> QED BY <1>4, <1>5, <1>6, <1>7 DEF pulse_detect_fsk_minmax

\* The pulse or gap in progress, and the sample that ends it, are stored.
LEMMA WrapUpCovers ==
  ASSUME FskTyped, FskSlots, fsk.fsk_state # "INIT"
  PROVE  /\ Covered(WrapUpPulses, WrapUpPulses.num_pulses) = HeldBy(fsk, fsk_pulses) + 1
         /\ WrapUpPulses.offset = fsk_pulses.offset
         /\ WrapUpPulses.start_ago = fsk_pulses.start_ago
<1> DEFINE w == WrapUpLength
           n == fsk_pulses.num_pulses
           d == fsk_pulses
<1>1. /\ w \in Nat /\ w = fsk.fsk_pulse_length + 1 /\ n \in Nat /\ WrapsUp
      /\ n < PD_MAX_PULSES /\ d \in PulseTrain /\ fsk.fsk_pulse_length \in Nat
      /\ Covered(d, n) \in Nat /\ d.pulse[n] \in Nat /\ fsk.fsk_state \in FskStates
  BY FskFields, TrainFields, FreeSlot DEF FskTyped, FskSlots, WrapUpLength, WrapsUp
<1> HIDE DEF w
<1>2. CASE fsk.fsk_state = "FH"
  <2> DEFINE p == StorePulse(d, w)
             e == NextPulse(StoreGap(p, 0))
  <2>1. /\ p \in PulseTrain /\ p.num_pulses = n /\ p.offset = d.offset
        /\ p.start_ago = d.start_ago
        /\ p.pulse[n] = w /\ Covered(p, n) = Covered(d, n)
    BY <1>1, StorePulseType, CoveredStored
  <2> HIDE DEF p
  <2>2. e.num_pulses = n + 1 /\ Covered(e, n + 1) = Covered(p, n) + p.pulse[n] + 0
    BY <1>1, <2>1, CoveredClosed
  <2>3. e.offset = d.offset /\ e.start_ago = d.start_ago
    <3> DEFINE g == StoreGap(p, 0)
    <3>1. /\ g \in PulseTrain /\ g.num_pulses = n /\ g.offset = d.offset
          /\ g.start_ago = d.start_ago
      BY <2>1, StoreGapType
    <3> HIDE DEF g
    <3>2. NextPulse(g).offset = d.offset /\ NextPulse(g).start_ago = d.start_ago
      BY <1>1, <3>1, NextPulseType
    <3> QED BY <3>2 DEF g
  <2>4. WrapUpPulses = e BY <1>1, <1>2 DEF WrapUpPulses, p, w
  <2> HIDE DEF e
  <2>5. HeldBy(fsk, d) = Covered(d, n) + fsk.fsk_pulse_length + 0
    BY <1>2 DEF HeldBy
  <2> QED BY <1>1, <2>1, <2>2, <2>3, <2>4, <2>5
<1>3. CASE fsk.fsk_state = "FL"
  <2> DEFINE e == NextPulse(StoreGap(d, w))
  <2>1. e.num_pulses = n + 1 /\ Covered(e, n + 1) = Covered(d, n) + d.pulse[n] + w
    BY <1>1, CoveredClosed
  <2>2. e.offset = d.offset /\ e.start_ago = d.start_ago
    <3> DEFINE g == StoreGap(d, w)
    <3>1. /\ g \in PulseTrain /\ g.num_pulses = n /\ g.offset = d.offset
          /\ g.start_ago = d.start_ago
      BY <1>1, StoreGapType
    <3> HIDE DEF g
    <3>2. NextPulse(g).offset = d.offset /\ NextPulse(g).start_ago = d.start_ago
      BY <1>1, <3>1, NextPulseType
    <3> QED BY <3>2 DEF g
  <2>3. WrapUpPulses = e BY <1>1, <1>3 DEF WrapUpPulses, w
  <2> HIDE DEF e
  <2>4. HeldBy(fsk, d) = Covered(d, n) + fsk.fsk_pulse_length + d.pulse[n]
    BY <1>3 DEF HeldBy
  <2> QED BY <1>1, <2>1, <2>2, <2>3, <2>4
<1> QED BY <1>1, <1>2, <1>3 DEF FskStates

\* No step changes the age of the train.
LEMMA ClassicKeepsAge ==
  ASSUME fsk_pulses \in PulseTrain, NEW fm, NEW counter,
         pulse_detect_fsk_classic(fm, counter)
  PROVE  fsk_pulses'.start_ago = fsk_pulses.start_ago
<1> DEFINE w == fsk.fsk_pulse_length + 1
<1>1. CASE ClassicEndGap(w, fm, counter)
  <2> DEFINE g == StoreGap(fsk_pulses, w)
             e == NextPulse(g)
             s == pulse_data_shift(e)
  <2>1. g.start_ago = fsk_pulses.start_ago /\ DOMAIN g = DOMAIN fsk_pulses
    BY DEF StoreGap, PulseTrain
  <2>2. "start_ago" \in DOMAIN fsk_pulses BY DEF PulseTrain
  <2> HIDE DEF g
  <2>3. e.start_ago = g.start_ago /\ DOMAIN e = DOMAIN g
    BY <2>1, <2>2 DEF NextPulse
  <2> HIDE DEF e
  <2>4. s.start_ago = e.start_ago
    BY <2>1, <2>2, <2>3 DEF pulse_data_shift
  <2> HIDE DEF s
  <2>5. fsk_pulses' \in {s, e}
    BY <1>1 DEF ClassicEndGap, GapStored, s, e, g
  <2> QED BY <2>1, <2>3, <2>4, <2>5
<1>2. CASE ~ClassicEndGap(w, fm, counter)
  BY <1>2 DEF pulse_detect_fsk_classic, ClassicSettle, ClassicInitialGap,
              ClassicInitialPulse, ClassicStay, ClassicEndPulse, ClassicRewindGap,
              ClassicRewindPulse, NextPulse, StorePulse, PulseTrain
<1> QED BY <1>1, <1>2

==============================================================================

-------------------------- MODULE PulseDetectProofs --------------------------
(***************************************************************************)
(* The package detector for every capacity of a train, every threshold and *)
(* every way to cut the stream into buffers: its types, the slots it       *)
(* addresses, where it locates the trigger of a package, and that it       *)
(* implements PackageStream.                                               *)
(***************************************************************************)
EXTENDS PulseDetect, FskDetectProofs

\* The inductive invariant.  While a package is open the FSK detector is well
\* formed, a package is reported only to the caller that called for it, and a
\* buffer is used up from its first sample.
IInv ==
  /\ TypeOK /\ SlotsInRange /\ TriggerLocated
  /\ Open => FskOK(fpdm)
  /\ pc # "call" => returned = "none"
  /\ pc = "wait" => ook.data_counter = 0

LEMMA OokFields ==
  ASSUME ook \in OokState
  PROVE  /\ ook.ook_state \in OokStates /\ ook.pulse_length \in Nat
         /\ ook.max_pulse \in Nat /\ ook.data_counter \in Nat
         /\ ook.lead_in_counter \in 0 .. OOK_EST_LOW_RATIO + 1
         /\ DOMAIN ook = {"ook_state", "pulse_length", "max_pulse", "data_counter",
                          "lead_in_counter"}
         /\ ook.data_counter + 1 \in Nat
BY DEF OokState

\* What OokTo leaves.
LEMMA OokToType ==
  ASSUME ook \in OokState, NEW s \in OokStates, NEW w \in Nat, OokTo(s, w)
  PROVE  /\ ook' \in OokState
         /\ ook'.ook_state = s /\ ook'.data_counter = ook.data_counter + 1
         /\ ook'.pulse_length = w
<1>1. /\ ook'.ook_state = s /\ ook'.data_counter = ook.data_counter + 1
      /\ ook'.pulse_length = w
  BY OokFields DEF OokTo
<1>2. ook' \in OokState
  BY OokFields DEF OokTo, OokState
<1>3. QED BY <1>1, <1>2

\* The state in which a pulse or its gap begins.
LEMMA OokBeginsType ==
  ASSUME ook \in OokState, NEW s \in OokStates, NEW m \in Nat,
         ook' = [ook EXCEPT !.ook_state = s, !.pulse_length = 0, !.max_pulse = m,
                            !.data_counter = @ + 1]
  PROVE  /\ ook' \in OokState
         /\ ook'.ook_state = s /\ ook'.data_counter = ook.data_counter + 1
         /\ ook'.pulse_length = 0
<1>1. /\ ook'.ook_state = s /\ ook'.data_counter = ook.data_counter + 1
      /\ ook'.pulse_length = 0
  BY OokFields
<1>2. ook' \in OokState
  BY OokFields DEF OokState
<1>3. QED BY <1>1, <1>2

LEMMA StartType ==
  ASSUME NEW s \in Int, NEW d, NEW p \in Int
  PROVE  FirstStart(s, d, p) \in Int
BY DEF FirstStart

LEMMA GapClosedType ==
  ASSUME NEW d \in PulseTrain, d.num_pulses < PD_MAX_PULSES, NEW w \in Nat
  PROVE  /\ GapClosed(d, w) \in PulseTrain
         /\ GapClosed(d, w).num_pulses = d.num_pulses + 1
         /\ GapClosed(d, w).offset = d.offset
         /\ GapClosed(d, w).start_ago = d.start_ago
<1> DEFINE g == StoreGap(d, w)
<1>1. /\ g \in PulseTrain /\ g.num_pulses = d.num_pulses
      /\ g.offset = d.offset /\ g.start_ago = d.start_ago
  BY StoreGapType
<1> HIDE DEF g
<1>2. /\ NextPulse(g) \in PulseTrain /\ NextPulse(g).num_pulses = d.num_pulses + 1
      /\ NextPulse(g).offset = d.offset /\ NextPulse(g).start_ago = d.start_ago
  BY <1>1, NextPulseType
<1>3. QED BY <1>2 DEF GapClosed, g

LEMMA EndAgoType ==
  ASSUME NEW d \in PulseTrain, NEW a \in Nat
  PROVE  LET e == [d EXCEPT !.end_ago = a]
         IN  /\ e \in PulseTrain /\ e.num_pulses = d.num_pulses
             /\ e.offset = d.offset /\ e.start_ago = d.start_ago /\ e.end_ago = a
BY TrainFields DEF PulseTrain

\* The FSK detector keeps its state well formed, fed or not.
LEMMA FskSampleOK ==
  ASSUME ook \in OokState, FskOK(fpdm), fpdm \in Detectors, fpdm' = fpdm,
         NEW fm, FskSample(fm)
  PROVE  FskOK(fpdm)'
<1>1. ook.data_counter \in Int BY OokFields
<1>2. CASE fpdm = "classic" /\ pulse_detect_fsk_classic(fm, ook.data_counter)
  <2>1. FskOK("classic")' BY <1>1, <1>2, ClassicKeepsOK
  <2>2. QED BY <1>2, <2>1 DEF FskOK, FskTracking
<1>3. CASE fpdm = "minmax" /\ pulse_detect_fsk_minmax(fm, ook.data_counter)
  <2>1. FskOK("minmax")' BY <1>1, <1>3, MinMaxKeepsOK
  <2>2. QED BY <1>3, <2>1 DEF FskOK, FskTracking
<1>4. CASE UNCHANGED fskVars
  BY <1>4 DEF fskVars, FskOK, FskTyped, FskSlots, FskTracking
<1>5. QED BY <1>2, <1>3, <1>4 DEF FskSample

-----------------------------------------------------------------------------
LEMMA DetectInit ==
  ASSUME Init
  PROVE  IInv
<1>1. /\ pulse_data_clear \in PulseTrain /\ pulse_data_clear.num_pulses = 0
      /\ pulse_detect_fsk_init \in FskState
  BY ClearType, InitType
<1>2. ook \in OokState /\ ook.ook_state = "IDLE" /\ ook.data_counter = 0
  BY DetectAssumption DEF Init, OokState, OokStates
<1>3. /\ pulses \in PulseTrain /\ fsk_pulses \in PulseTrain /\ fsk \in FskState
      /\ start \in Int /\ startFsk \in Int /\ input_pos \in Nat
      /\ len \in Chunks \cup {0} /\ fpdm \in Detectors
  BY <1>1 DEF Init
<1>4. /\ pc = "wait" /\ eop_on_spurious \in BOOLEAN
      /\ returned = "none" /\ unread = "none"
  BY Zenon DEF Init
<1>5. TypeOK BY <1>2, <1>3, <1>4 DEF TypeOK, Packages
<1>6. QED BY <1>2, <1>4, <1>5 DEF IInv, SlotsInRange, TriggerLocated, Open

\* The facts a step on a sample of the buffer starts from.
ScanFacts ==
  /\ pc = "scan" /\ returned = "none"
  /\ ook \in OokState /\ pulses \in PulseTrain /\ start \in Int
  /\ FskTyped
  /\ len \in Chunks \cup {0} /\ fpdm \in Detectors /\ eop_on_spurious \in BOOLEAN
  /\ unread \in Levels \cup {"none"} /\ input_pos \in Nat
  /\ ook.data_counter \in Nat /\ ook.pulse_length + 1 \in Nat
  /\ Ago \in Nat /\ Ago >= 1 /\ Ahead = Ago
  /\ Open => FskOK(fpdm) /\ pulses.num_pulses < PD_MAX_PULSES

LEMMA Scans ==
  ASSUME IInv, Scanning
  PROVE  ScanFacts
<1>1. TypeOK /\ pc = "scan" /\ ook.data_counter < len BY DEF IInv, Scanning
<1>2. len \in Nat BY <1>1, DetectAssumption DEF TypeOK
<1>3. ook.data_counter \in Nat /\ ook.pulse_length \in Nat
  BY <1>1, OokFields DEF TypeOK
<1>4. Ago \in Nat /\ Ago >= 1 BY <1>1, <1>2, <1>3 DEF Ago
<1>5. Ahead = Ago BY <1>1 DEF Ahead
<1>6. Open => FskOK(fpdm) /\ pulses.num_pulses < PD_MAX_PULSES
  BY DEF IInv, SlotsInRange
<1>7. returned = "none" BY <1>1 DEF IInv
<1>8. QED BY <1>1, <1>3, <1>4, <1>5, <1>6, <1>7 DEF ScanFacts, TypeOK, FskTyped

\* A sample that is consumed: what its action has to establish.
LEMMA ConsumedKeeps ==
  ASSUME IInv, Scanning, Consumed, eop_on_spurious' \in BOOLEAN,
         ook' \in OokState, ook'.data_counter = ook.data_counter + 1,
         pulses' \in PulseTrain, start' \in Int, FskTyped',
         Open' => /\ pulses'.num_pulses < PD_MAX_PULSES
                  /\ FskOK(fpdm)'
                  /\ pulses'.offset + pulses'.start_ago = input_pos + len
  PROVE  IInv'
<1>1. ScanFacts BY Scans
<1>2. TypeOK'
  BY <1>1 DEF TypeOK, FskTyped, ScanFacts, Consumed, Packages
<1>3. ook'.data_counter \in Nat /\ ook'.data_counter > 0 /\ len \in Nat
  BY <1>1, DetectAssumption DEF ScanFacts
<1>4. input_pos' + ook'.data_counter + Ahead' = input_pos + len
  BY <1>1, <1>3 DEF ScanFacts, Consumed, Ahead, Ago
<1>5. TriggerLocated' BY <1>4 DEF TriggerLocated
<1>6. SlotsInRange' BY DEF SlotsInRange, FskOK, FskSlots
<1>7. pc' = "scan" /\ returned' = "none" BY <1>1 DEF ScanFacts, Consumed
<1>8. QED BY <1>2, <1>5, <1>6, <1>7 DEF IInv

\* A package is returned.
LEMMA ReturnKeeps ==
  ASSUME IInv, Scanning, NEW type \in Packages, NEW w \in Nat, NEW am \in Levels,
         Return(type, w, am), pulses' \in PulseTrain, start' \in Int, FskTyped'
  PROVE  IInv'
<1>1. ScanFacts BY Scans
<1>2. ook' \in OokState /\ ook'.ook_state = "IDLE"
  BY <1>1, OokFields DEF Return, OokState, OokStates, ScanFacts
<1>3. TypeOK'
  BY <1>1, <1>2 DEF TypeOK, FskTyped, ScanFacts, Return
<1>4. ~Open' BY <1>2 DEF Open
<1>5. pc' = "call" BY DEF Return
<1>6. QED BY <1>3, <1>4, <1>5 DEF IInv, SlotsInRange, TriggerLocated

-----------------------------------------------------------------------------
LEMMA EntryKeeps ==
  ASSUME IInv, (\E n \in Chunks : Deliver(n)) \/ Enter \/ OutOfData
  PROVE  IInv'
<1>1. TypeOK /\ len \in Nat /\ FskTyped
  BY DetectAssumption DEF IInv, TypeOK, FskTyped
<1>2. /\ ook \in OokState /\ ook.data_counter \in Nat
      /\ ook.ook_state \in OokStates /\ ook.pulse_length \in Nat
      /\ ook.max_pulse \in Nat /\ ook.lead_in_counter \in 0 .. OOK_EST_LOW_RATIO + 1
  BY <1>1, OokFields DEF TypeOK
<1>3. ASSUME NEW n \in Chunks, Deliver(n)
      PROVE  IInv'
  <2>1. /\ pc = "wait" /\ pc' = "call" /\ len' = n /\ n \in Nat
        /\ UNCHANGED <<fskVars, ookVars, fpdm, eop_on_spurious, unread, input_pos>>
        /\ returned' = "none"
    BY <1>3, DetectAssumption DEF Deliver
  <2>2. TypeOK'
    BY <1>1, <2>1 DEF TypeOK, ookVars, fskVars, Packages
  <2>3. ook.data_counter = 0 BY <2>1 DEF IInv
  <2>4. TriggerLocated'
    BY <2>1, <2>3 DEF IInv, TriggerLocated, Open, Ahead, Ago, ookVars
  <2>5. QED
    BY <2>1, <2>2, <2>4 DEF IInv, SlotsInRange, Open, FskOK, FskTyped, FskSlots,
                            FskTracking, ookVars, fskVars
<1>4. CASE Enter
  <2> DEFINE aged(d) == [d EXCEPT !.start_ago = @ + len]
  <2>1. ASSUME NEW d \in PulseTrain
        PROVE  /\ aged(d) \in PulseTrain /\ aged(d).num_pulses = d.num_pulses
               /\ aged(d).offset = d.offset /\ aged(d).start_ago = d.start_ago + len
    BY <1>1, <2>1, TrainFields DEF PulseTrain
  <2>2. /\ pc = "call" /\ pc' = "scan" /\ returned' = "none" /\ eop_on_spurious' = FALSE
        /\ UNCHANGED <<fsk, startFsk, ook, start, len, fpdm, unread, input_pos>>
    BY <1>4 DEF Enter
  <2>3. /\ pulses' = IF ook.data_counter = 0 THEN aged(pulses) ELSE pulses
        /\ fsk_pulses' = IF ook.data_counter = 0 THEN aged(fsk_pulses) ELSE fsk_pulses
    BY <1>4 DEF Enter
  <2> HIDE DEF aged
  <2>4. /\ pulses' \in PulseTrain /\ pulses'.num_pulses = pulses.num_pulses
        /\ fsk_pulses' \in PulseTrain /\ fsk_pulses'.num_pulses = fsk_pulses.num_pulses
        /\ pulses'.offset = pulses.offset
        /\ pulses'.start_ago = IF ook.data_counter = 0 THEN pulses.start_ago + len
                               ELSE pulses.start_ago
    BY <1>1, <2>1, <2>3 DEF TypeOK
  <2>5. TypeOK'
    BY <1>1, <2>2, <2>4 DEF TypeOK, Packages
  <2>6. pulses.offset \in Nat /\ pulses.start_ago \in Nat /\ input_pos \in Nat
    BY <1>1, TrainFields DEF TypeOK
  <2>7. TriggerLocated'
    BY <1>1, <1>2, <2>2, <2>4, <2>6 DEF IInv, TriggerLocated, Open, Ahead, Ago
  <2>8. Open' => FskOK(fpdm)'
    BY <2>2, <2>4, <2>5 DEF IInv, TypeOK, Open, FskOK, FskTyped, FskSlots, FskTracking
  <2>9. QED
    BY <2>2, <2>4, <2>5, <2>7, <2>8 DEF IInv, SlotsInRange, Open, FskOK, FskSlots
<1>5. CASE OutOfData
  <2>1. /\ pc = "scan" /\ ook.data_counter = len /\ pc' = "wait"
        /\ ook' = [ook EXCEPT !.data_counter = 0]
        /\ input_pos' = input_pos + len
        /\ UNCHANGED <<fsk, fsk_pulses, pulses, len, fpdm, eop_on_spurious, returned, unread>>
    BY <1>5 DEF OutOfData
  <2>2. start' \in Int /\ startFsk' \in Int
    <3>1. FirstStart(start, pulses, ook.data_counter) \in Int
      BY <1>1, <1>2, StartType DEF TypeOK
    <3>2. QED BY <1>1, <1>5, <3>1 DEF OutOfData, TypeOK
  <2>3. /\ ook' \in OokState /\ ook'.data_counter = 0
        /\ ook'.ook_state = ook.ook_state
    BY <1>2, <2>1 DEF OokState
  <2>4. TypeOK'
    BY <1>1, <2>1, <2>2, <2>3 DEF TypeOK
  <2>5. TriggerLocated'
    BY <1>1, <2>1, <2>3 DEF IInv, TriggerLocated, Open, Ahead, Ago, TypeOK
  <2>6. Open' => FskOK(fpdm)'
    BY <2>1, <2>2, <2>3 DEF IInv, Open, FskOK, FskTyped, FskSlots, FskTracking
  <2>7. QED
    BY <2>1, <2>3, <2>4, <2>5, <2>6 DEF IInv, SlotsInRange, Open, FskOK, FskSlots
<1>6. QED BY <1>3, <1>4, <1>5

-----------------------------------------------------------------------------
(* One lemma per state of the OOK machine.                                  *)

LEMMA IdleKeeps ==
  ASSUME IInv, NEW am \in Levels, StartPackage(am) \/ StayIdle(am)
  PROVE  IInv'
<1>1. Scanning /\ ScanFacts BY Scans DEF StartPackage, StayIdle
<1>2. /\ ook.ook_state \in OokStates /\ ook.pulse_length \in Nat
      /\ ook.max_pulse \in Nat /\ ook.data_counter \in Nat
      /\ ook.lead_in_counter \in 0 .. OOK_EST_LOW_RATIO + 1
  BY <1>1, OokFields DEF ScanFacts
<1>3. CASE StartPackage(am)
  <2> DEFINE fresh == [pulse_data_clear EXCEPT !.offset = input_pos + ook.data_counter,
                                               !.start_ago = Ago]
  <2>1. /\ fresh \in PulseTrain /\ fresh.num_pulses = 0
        /\ fresh.offset = input_pos + ook.data_counter /\ fresh.start_ago = Ago
    <3> DEFINE o == input_pos + ook.data_counter
               c == pulse_data_clear
    <3>1. o \in Nat /\ Ago \in Nat /\ c \in PulseTrain /\ c.num_pulses = 0
      BY <1>1, ClearType DEF ScanFacts
    <3>2. fresh = [c EXCEPT !.offset = o, !.start_ago = Ago]
      OBVIOUS
    <3> HIDE DEF fresh, o, c
    <3>3. /\ fresh.num_pulses = c.num_pulses
          /\ fresh.offset = o /\ fresh.start_ago = Ago
      BY <3>1, <3>2 DEF PulseTrain
    <3>4. fresh \in PulseTrain
      BY <3>1, <3>2 DEF PulseTrain
    <3>5. QED BY <3>1, <3>3, <3>4 DEF o
  <2>2. /\ pulses' = fresh /\ fsk_pulses' = fresh /\ fsk' = pulse_detect_fsk_init
        /\ start' = 0 /\ startFsk' = 0 /\ Continue
        /\ ook' = [ook EXCEPT !.ook_state = "PULSE", !.pulse_length = 0, !.max_pulse = 0,
                              !.data_counter = @ + 1]
    BY <1>3 DEF StartPackage
  <2> HIDE DEF fresh
  <2>3. ook' \in OokState /\ ook'.data_counter = ook.data_counter + 1
    BY <1>1, <2>2, OokBeginsType DEF OokStates, ScanFacts
  <2>4. FskTyped' /\ FskOK(fpdm)'
    BY <2>1, <2>2, InitType, MaxPulsesAssumption DEF FskTyped, FskOK, FskSlots, FskTracking
  <2>5. pulses'.offset + pulses'.start_ago = input_pos + len
    BY <1>1, <1>2, <2>1, <2>2, DetectAssumption DEF Ago, ScanFacts
  <2>6. QED
    BY <1>1, <2>1, <2>2, <2>3, <2>4, <2>5, ConsumedKeeps, MaxPulsesAssumption
    DEF Continue, ScanFacts
<1>4. CASE StayIdle(am)
  <2>1. /\ ook.ook_state = "IDLE" /\ UNCHANGED <<fskVars, pulses, start>> /\ Continue
        /\ ook' = [ook EXCEPT !.lead_in_counter = IF LeadInDone THEN @ ELSE @ + 1,
                              !.data_counter = @ + 1]
    BY <1>4 DEF StayIdle
  <2>2. (IF LeadInDone THEN ook.lead_in_counter ELSE ook.lead_in_counter + 1)
          \in 0 .. OOK_EST_LOW_RATIO + 1
    BY <1>2, DetectAssumption DEF LeadInDone
  <2>3. /\ ook' \in OokState /\ ook'.data_counter = ook.data_counter + 1
        /\ ook'.ook_state = "IDLE"
    <3>1. ook'.data_counter = ook.data_counter + 1 /\ ook'.ook_state = "IDLE"
      BY <1>1, <2>1, OokFields DEF ScanFacts
    <3>2. ook' \in OokState
      BY <1>1, <2>1, <2>2, OokFields DEF OokState, ScanFacts
    <3>3. QED BY <3>1, <3>2
  <2>4. FskTyped' BY <1>1, <2>1 DEF fskVars, FskTyped, ScanFacts
  <2>5. QED
    BY <1>1, <2>1, <2>3, <2>4, ConsumedKeeps DEF Continue, ScanFacts, Open
<1>5. QED BY <1>3, <1>4

\* A consumed sample of an open package that leaves the OOK train alone, or
\* stores in it, and feeds the FSK detector.
LEMMA OpenKeeps ==
  ASSUME IInv, Scanning, Open, Consumed, eop_on_spurious' \in BOOLEAN,
         ook' \in OokState, ook'.data_counter = ook.data_counter + 1,
         pulses' \in PulseTrain, start' \in Int,
         Open' => pulses'.num_pulses < PD_MAX_PULSES,
         pulses'.offset = pulses.offset, pulses'.start_ago = pulses.start_ago,
         FskOK(fpdm)'
  PROVE  IInv'
<1>1. ScanFacts BY Scans
<1>2. len \in Nat BY <1>1, DetectAssumption DEF ScanFacts
<1>3. pulses.offset + pulses.start_ago = input_pos + len
  BY <1>1, <1>2 DEF IInv, TriggerLocated, ScanFacts, Ago
<1>4. QED BY <1>3, ConsumedKeeps DEF FskOK

LEMMA PulseKeeps ==
  ASSUME IInv, NEW am \in Levels, NEW fm,
         StayPulse(am, fm) \/ EndPulse(am, fm) \/ SpuriousPulse(am, fm)
  PROVE  IInv'
<1> DEFINE w == ook.pulse_length + 1
<1>1. /\ Scanning /\ ook.ook_state = "PULSE" /\ Open /\ ScanFacts /\ FskSample(fm)
      /\ Consumed
  BY Scans DEF StayPulse, EndPulse, SpuriousPulse, Open, Continue
<1>2. /\ ook \in OokState /\ w \in Nat /\ pulses \in PulseTrain /\ start \in Int
      /\ pulses.num_pulses < PD_MAX_PULSES
  BY <1>1 DEF ScanFacts
<1>3. FskOK(fpdm)'
  BY <1>1, FskSampleOK DEF ScanFacts, Consumed
<1>4. CASE StayPulse(am, fm)
  <2>1. OokTo("PULSE", w) /\ UNCHANGED <<pulses, start>> /\ Continue
    BY <1>4 DEF StayPulse
  <2>2. ook' \in OokState /\ ook'.data_counter = ook.data_counter + 1
    BY <1>2, <2>1, OokToType DEF OokStates
  <2>3. QED BY <1>1, <1>2, <1>3, <2>1, <2>2, OpenKeeps DEF Continue, ScanFacts
<1>5. CASE EndPulse(am, fm)
  <2>1. /\ pulses' = StorePulse(pulses, w) /\ MarkOokStart(w) /\ Continue
        /\ ook' = [ook EXCEPT !.ook_state = "GAP_START", !.pulse_length = 0,
                              !.max_pulse = MaxOf(w, @), !.data_counter = @ + 1]
    BY <1>5 DEF EndPulse
  <2>2. /\ pulses' \in PulseTrain /\ pulses'.num_pulses = pulses.num_pulses
        /\ pulses'.offset = pulses.offset /\ pulses'.start_ago = pulses.start_ago
    BY <1>2, <2>1, StorePulseType
  <2>3. /\ ook.max_pulse \in Nat /\ ook.data_counter \in Nat
        /\ ook.lead_in_counter \in 0 .. OOK_EST_LOW_RATIO + 1
    BY <1>2, OokFields
  <2>4. MaxOf(w, ook.max_pulse) \in Nat BY <1>2, <2>3 DEF MaxOf
  <2>5. ook' \in OokState /\ ook'.data_counter = ook.data_counter + 1
    BY <1>2, <2>1, <2>4, OokBeginsType DEF OokStates
  <2>6. start' \in Int
    BY <1>2, <2>1, <2>3, StartType DEF MarkOokStart
  <2>7. QED
    BY <1>1, <1>2, <1>3, <2>1, <2>2, <2>5, <2>6, OpenKeeps DEF Continue, ScanFacts
<1>6. CASE SpuriousPulse(am, fm)
  <2>1. PICK s \in {"IDLE", "GAP"} : OokTo(s, w)
    BY <1>6 DEF SpuriousPulse
  <2>2. UNCHANGED <<pulses, start>> /\ eop_on_spurious' \in BOOLEAN
    BY <1>1, <1>6 DEF SpuriousPulse, ScanFacts
  <2>3. ook' \in OokState /\ ook'.data_counter = ook.data_counter + 1
    BY <1>2, <2>1, OokToType DEF OokStates
  <2>4. QED BY <1>1, <1>2, <1>3, <2>2, <2>3, OpenKeeps
<1>7. QED BY <1>4, <1>5, <1>6

\* What ReturnKeeps needs of the two OOK packages and of an FSK package.
LEMMA GapStartKeeps ==
  ASSUME IInv, NEW am \in Levels, NEW fm,
         \/ ResumePulse(am, fm) \/ StayGapStart(am, fm) \/ ConfirmGap(am, fm)
         \/ ReturnFsk(am)
  PROVE  IInv'
<1> DEFINE w == ook.pulse_length + 1
<1>1. /\ Scanning /\ ook.ook_state = "GAP_START" /\ Open /\ ScanFacts
  BY Scans DEF ResumePulse, StayGapStart, ConfirmGap, ReturnFsk, Open
<1>2. /\ ook \in OokState /\ w \in Nat /\ pulses \in PulseTrain /\ start \in Int
      /\ pulses.num_pulses < PD_MAX_PULSES /\ FskOK(fpdm) /\ FskTyped
      /\ ook.data_counter \in Nat /\ Ago \in Nat
  BY <1>1 DEF ScanFacts
<1>3. CASE ResumePulse(am, fm) \/ StayGapStart(am, fm) \/ ConfirmGap(am, fm)
  <2>1. /\ UNCHANGED <<pulses, start>> /\ FskSample(fm) /\ Continue
    BY <1>3 DEF ResumePulse, StayGapStart, ConfirmGap
  <2>2. FskOK(fpdm)'
    BY <1>1, <2>1, FskSampleOK DEF ScanFacts, Continue, Consumed
  <2>3. w + pulses.pulse[pulses.num_pulses] \in Nat
    <3>1. pulses.num_pulses \in Slots
      BY <1>2, TrainFields, MaxPulsesAssumption DEF Slots
    <3>2. pulses.pulse[pulses.num_pulses] \in Nat
      BY <1>2, <3>1, TrainFields
    <3>3. QED BY <1>2, <3>2
  <2>4. PICK s \in OokStates, v \in Nat : OokTo(s, v)
    BY <1>2, <1>3, <2>3 DEF ResumePulse, StayGapStart, ConfirmGap, OokStates
  <2>5. ook' \in OokState /\ ook'.data_counter = ook.data_counter + 1
    BY <1>2, <2>4, OokToType
  <2>6. QED BY <1>1, <1>2, <2>1, <2>2, <2>5, OpenKeeps DEF Continue, ScanFacts
<1>4. CASE ReturnFsk(am)
  <2>1. pulses' = [pulses EXCEPT !.end_ago = Ago] /\ start' = start /\ Return("FSK", w, am)
    BY <1>4 DEF ReturnFsk
  <2>2. pulses' \in PulseTrain BY <1>2, <2>1, EndAgoType
  <2>3. FskTyped'
    <3>1. /\ WrapUpState \in FskState /\ WrapUpPulses \in PulseTrain
          /\ WrapUpStart(ook.data_counter) \in Int
      BY <1>2, WrapUpType
    <3>2. [WrapUpPulses EXCEPT !.end_ago = Ago] \in PulseTrain
      BY <1>2, <3>1, EndAgoType
    <3>3. [fsk_pulses EXCEPT !.end_ago = Ago] \in PulseTrain
      BY <1>2, EndAgoType DEF FskTyped
    <3>4. QED BY <1>2, <1>4, <3>1, <3>2, <3>3 DEF ReturnFsk, FskTyped
  <2>4. QED BY <1>1, <1>2, <2>1, <2>2, <2>3, ReturnKeeps DEF Packages
<1>5. QED BY <1>3, <1>4

LEMMA GapKeeps ==
  ASSUME IInv, NEW am \in Levels,
         StayGap(am) \/ NewPulse(am) \/ ReturnFull(am) \/ ReturnOok(am)
  PROVE  IInv'
<1> DEFINE w == ook.pulse_length + 1
           d == GapClosed(pulses, w)
<1>1. /\ Scanning /\ ook.ook_state = "GAP" /\ Open /\ ScanFacts /\ UNCHANGED fskVars
  BY Scans DEF StayGap, NewPulse, ReturnFull, ReturnOok, Open
<1>2. /\ ook \in OokState /\ w \in Nat /\ pulses \in PulseTrain /\ start \in Int
      /\ pulses.num_pulses < PD_MAX_PULSES /\ FskOK(fpdm) /\ FskTyped
      /\ ook.data_counter \in Nat /\ Ago \in Nat
  BY <1>1 DEF ScanFacts
<1>3. /\ d \in PulseTrain /\ d.num_pulses = pulses.num_pulses + 1
      /\ d.offset = pulses.offset /\ d.start_ago = pulses.start_ago
  BY <1>2, GapClosedType
<1>4. FskTyped' BY <1>1, <1>2 DEF fskVars, FskTyped
<1>5. FirstStart(start, pulses, ook.data_counter - w) \in Int
  BY <1>2, StartType
<1>6. CASE StayGap(am)
  <2>1. /\ OokTo("GAP", w) /\ UNCHANGED <<pulses, start>> /\ Continue
    BY <1>6 DEF StayGap
  <2>2. ook' \in OokState /\ ook'.data_counter = ook.data_counter + 1
    BY <1>2, <2>1, OokToType DEF OokStates
  <2>3. FskOK(fpdm)'
    BY <1>1, <1>2, <2>1 DEF fskVars, FskOK, FskTyped, FskSlots, FskTracking,
                            Continue, Consumed
  <2>4. QED BY <1>1, <1>2, <2>1, <2>2, <2>3, OpenKeeps DEF Continue, ScanFacts
<1>7. CASE NewPulse(am)
  <2>1. /\ pulses' = d /\ d.num_pulses < PD_MAX_PULSES /\ OokTo("PULSE", 0)
        /\ start' = FirstStart(start, pulses, ook.data_counter - w) /\ Continue
    BY <1>7 DEF NewPulse, MarkOokStart
  <2>2. ook' \in OokState /\ ook'.data_counter = ook.data_counter + 1
    BY <1>2, <2>1, OokToType DEF OokStates
  <2>3. FskOK(fpdm)'
    BY <1>1, <1>2, <2>1 DEF fskVars, FskOK, FskTyped, FskSlots, FskTracking,
                            Continue, Consumed
  <2>4. QED
    BY <1>1, <1>2, <1>3, <1>5, <2>1, <2>2, <2>3, OpenKeeps DEF Continue, ScanFacts
<1>8. CASE ReturnFull(am)
  <2>1. /\ pulses' = [d EXCEPT !.end_ago = Ago] /\ Return("OOK", w, am)
        /\ start' = FirstStart(start, pulses, ook.data_counter - w)
    BY <1>8 DEF ReturnFull, MarkOokStart
  <2>2. pulses' \in PulseTrain BY <1>2, <1>3, <2>1, EndAgoType
  <2>3. QED
    BY <1>1, <1>2, <1>4, <1>5, <2>1, <2>2, ReturnKeeps DEF Packages
<1>9. CASE ReturnOok(am)
  <2> DEFINE e == IF am = "hi" THEN d ELSE pulses
             u == IF am = "hi" THEN 0 ELSE w
  <2>1. /\ pulses' = [GapClosed(e, u) EXCEPT !.end_ago = Ago] /\ Return("OOK", u, am)
        /\ start' = FirstStart(start, pulses, ook.data_counter - w)
        /\ am = "hi" => e.num_pulses < PD_MAX_PULSES
    BY <1>9 DEF ReturnOok
  <2>2. e \in PulseTrain /\ e.num_pulses < PD_MAX_PULSES /\ u \in Nat
    BY <1>2, <1>3, <2>1
  <2> HIDE DEF e, u
  <2>3. GapClosed(e, u) \in PulseTrain BY <2>2, GapClosedType
  <2>4. pulses' \in PulseTrain BY <1>2, <2>1, <2>3, EndAgoType
  <2>5. QED
    BY <1>1, <1>2, <1>4, <1>5, <2>1, <2>2, <2>4, ReturnKeeps DEF Packages
<1>10. QED BY <1>6, <1>7, <1>8, <1>9

LEMMA DetectStep ==
  ASSUME IInv, [Next]_vars
  PROVE  IInv'
<1>1. CASE (\E n \in Chunks : Deliver(n)) \/ Enter \/ OutOfData
  BY <1>1, EntryKeeps
<1>2. CASE \E am \in Levels, fm \in Fm : Process(am, fm)
  BY <1>2, IdleKeeps, PulseKeeps, GapStartKeeps, GapKeeps DEF Process
<1>3. CASE UNCHANGED vars
  BY <1>3 DEF vars, fskVars, ookVars, callVars, IInv, TypeOK, SlotsInRange,
              TriggerLocated, Open, Ahead, Ago, FskOK, FskTyped, FskSlots, FskTracking
<1>4. QED BY <1>1, <1>2, <1>3 DEF Next, Run

LEMMA DetectInvariant == Spec => []IInv
<1>1. Init => IInv BY DetectInit
<1>2. IInv /\ [Next]_vars => IInv' BY DetectStep
<1>3. QED BY <1>1, <1>2, PTL DEF Spec

\* Every variable of the detector keeps its type.
THEOREM DetectTypeOK == Spec => []TypeOK
<1>1. IInv => TypeOK BY DEF IInv
<1>2. QED BY <1>1, DetectInvariant, PTL

\* The detectors never address a slot outside the arrays, whatever the signal,
\* the thresholds, the capacity and the cut of the stream into buffers.
THEOREM DetectSlotsInRange == Spec => []SlotsInRange
<1>1. IInv => SlotsInRange BY DEF IInv
<1>2. QED BY <1>1, DetectInvariant, PTL

\* offset and start_ago of an open package always locate the same trigger.
THEOREM DetectTriggerLocated == Spec => []TriggerLocated
<1>1. IInv => TriggerLocated BY DEF IInv
<1>2. QED BY <1>1, DetectInvariant, PTL

-----------------------------------------------------------------------------
(* Every step of the detector is a step of PackageStream or a stutter.      *)

LEMMA SampleRefines ==
  ASSUME IInv, Scanning, Consumed, ook'.data_counter = ook.data_counter + 1,
         Open' => \/ ~Open /\ pulses'.offset = input_pos + ook.data_counter
                  \/ Open /\ pulses'.offset = pulses.offset
  PROVE  Abstract!Sample
<1>1. ScanFacts BY Scans
<1>2. returned = "none" /\ returned' = "none" /\ input_pos' = input_pos
  BY <1>1 DEF ScanFacts, Consumed
<1>3. input_pos' + ook'.data_counter = (input_pos + ook.data_counter) + 1
  BY <1>1, <1>2 DEF ScanFacts
<1>4. QED BY <1>2, <1>3 DEF Abstract!Sample, Abstract!Closed, Abstract!NoPackage

LEMMA ReturnRefines ==
  ASSUME IInv, Scanning, Open, NEW type \in {"OOK", "FSK"}, NEW w, NEW am,
         Return(type, w, am), pulses'.offset = pulses.offset,
         pulses'.start_ago = pulses.start_ago, pulses'.end_ago = Ago
  PROVE  Abstract!HandOut
<1>1. ScanFacts BY Scans
<1>2. /\ pulses.offset \in Nat /\ pulses.start_ago \in Nat /\ len \in Nat
      /\ input_pos \in Nat /\ ook.data_counter \in Nat
  BY <1>1, TrainFields, DetectAssumption DEF ScanFacts
<1>3. /\ returned' # "none" /\ input_pos' = input_pos
      /\ ook'.data_counter = ook.data_counter /\ ~Open'
  BY <1>1, OokFields DEF Return, Open, ScanFacts
<1>4. pulses'.offset + pulses'.start_ago - pulses'.end_ago = input_pos + ook.data_counter
  BY <1>1, <1>2 DEF IInv, TriggerLocated, ScanFacts, Ago
<1>5. pulses.offset # -1 BY <1>2
<1>6. QED BY <1>3, <1>4, <1>5 DEF Abstract!HandOut, Abstract!Closed

LEMMA EntryRefines ==
  ASSUME IInv, (\E n \in Chunks : Deliver(n)) \/ Enter \/ OutOfData
  PROVE  Abstract!Taken \/ UNCHANGED Abstract!streamVars
<1>1. TypeOK /\ ook \in OokState /\ pulses \in PulseTrain BY DEF IInv, TypeOK
<1>2. CASE \E n \in Chunks : Deliver(n)
  BY <1>2 DEF Deliver, IInv, Open, ookVars, Abstract!streamVars
<1>3. CASE Enter
  <2>1. pulses'.offset = pulses.offset
    BY <1>1, <1>3, TrainFields DEF Enter, PulseTrain
  <2>2. returned' = "none" /\ input_pos' = input_pos /\ ook' = ook
    BY <1>3 DEF Enter
  <2>3. QED BY <2>1, <2>2 DEF Open, Abstract!Taken, Abstract!NoPackage
<1>4. CASE OutOfData
  <2>1. /\ returned = "none" /\ returned' = "none" /\ pulses' = pulses
        /\ input_pos' = input_pos + len /\ ook.data_counter = len
        /\ ook' = [ook EXCEPT !.data_counter = 0]
    BY <1>4 DEF OutOfData, IInv
  <2>2. ook'.data_counter = 0 /\ ook'.ook_state = ook.ook_state
    BY <1>1, <2>1, OokFields
  <2>3. input_pos \in Nat /\ len \in Nat BY <1>1, DetectAssumption DEF TypeOK
  <2>4. input_pos' + ook'.data_counter = input_pos + ook.data_counter
    BY <2>1, <2>2, <2>3
  <2>5. QED BY <2>1, <2>2, <2>4 DEF Open, Abstract!streamVars
<1>5. QED BY <1>2, <1>3, <1>4

LEMMA ConsumedRefines ==
  ASSUME IInv, NEW am, NEW fm,
         \/ StartPackage(am) \/ StayIdle(am)
         \/ StayPulse(am, fm) \/ EndPulse(am, fm) \/ SpuriousPulse(am, fm)
         \/ ResumePulse(am, fm) \/ StayGapStart(am, fm) \/ ConfirmGap(am, fm)
         \/ StayGap(am) \/ NewPulse(am)
  PROVE  Abstract!Sample
<1>1. Scanning /\ Consumed
  BY DEF StartPackage, StayIdle, StayPulse, EndPulse, SpuriousPulse, ResumePulse,
         StayGapStart, ConfirmGap, StayGap, NewPulse, Continue
<1>2. ScanFacts BY <1>1, Scans
<1>3. /\ ook \in OokState /\ pulses \in PulseTrain /\ ook.pulse_length + 1 \in Nat
      /\ Open => pulses.num_pulses < PD_MAX_PULSES
  BY <1>2 DEF ScanFacts
<1>4. ook'.data_counter = ook.data_counter + 1
  BY <1>3, OokFields
  DEF StartPackage, StayIdle, StayPulse, EndPulse, SpuriousPulse, ResumePulse,
      StayGapStart, ConfirmGap, StayGap, NewPulse, OokTo
<1>5. CASE StartPackage(am)
  <2>1. pulses' = [pulse_data_clear EXCEPT !.offset = input_pos + ook.data_counter,
                                           !.start_ago = Ago]
    BY <1>5 DEF StartPackage
  <2>2. pulses'.offset = input_pos + ook.data_counter
    BY <2>1 DEF pulse_data_clear
  <2>3. ~Open BY <1>5 DEF StartPackage, Open
  <2>4. QED BY <1>1, <1>4, <2>2, <2>3, SampleRefines
<1>6. CASE StayIdle(am)
  <2>1. ~Open' BY <1>3, <1>6, OokFields DEF StayIdle, Open
  <2>2. QED BY <1>1, <1>4, <2>1, SampleRefines
<1>7. CASE \/ StayPulse(am, fm) \/ EndPulse(am, fm) \/ SpuriousPulse(am, fm)
           \/ ResumePulse(am, fm) \/ StayGapStart(am, fm) \/ ConfirmGap(am, fm)
           \/ StayGap(am) \/ NewPulse(am)
  <2>1. Open
    BY <1>7 DEF StayPulse, EndPulse, SpuriousPulse, ResumePulse, StayGapStart,
                ConfirmGap, StayGap, NewPulse, Open
  <2>2. pulses'.offset = pulses.offset
    <3>1. CASE EndPulse(am, fm)
      BY <1>3, <3>1, StorePulseType DEF EndPulse
    <3>2. CASE NewPulse(am)
      BY <1>3, <2>1, <3>2, GapClosedType DEF NewPulse
    <3>3. QED
      BY <1>7, <3>1, <3>2 DEF StayPulse, SpuriousPulse, ResumePulse, StayGapStart,
                              ConfirmGap, StayGap
  <2>3. QED BY <1>1, <1>4, <2>1, <2>2, SampleRefines
<1>8. QED BY <1>5, <1>6, <1>7

LEMMA HandedOut ==
  ASSUME IInv, NEW am, ReturnFsk(am) \/ ReturnFull(am) \/ ReturnOok(am)
  PROVE  Abstract!HandOut
<1> DEFINE w == ook.pulse_length + 1
           d == GapClosed(pulses, w)
<1>1. Scanning /\ Open
  BY DEF ReturnFsk, ReturnFull, ReturnOok, Open
<1>2. ScanFacts BY <1>1, Scans
<1>3. /\ pulses \in PulseTrain /\ w \in Nat /\ Ago \in Nat
      /\ pulses.num_pulses < PD_MAX_PULSES
  BY <1>1, <1>2 DEF ScanFacts
<1>4. /\ d \in PulseTrain /\ d.num_pulses = pulses.num_pulses + 1
      /\ d.offset = pulses.offset /\ d.start_ago = pulses.start_ago
  BY <1>3, GapClosedType
<1>5. CASE ReturnFsk(am)
  <2>1. pulses' = [pulses EXCEPT !.end_ago = Ago] /\ Return("FSK", w, am)
    BY <1>5 DEF ReturnFsk
  <2>2. QED BY <1>1, <1>3, <2>1, EndAgoType, ReturnRefines
<1>6. CASE ReturnFull(am)
  <2>1. pulses' = [d EXCEPT !.end_ago = Ago] /\ Return("OOK", w, am)
    BY <1>6 DEF ReturnFull
  <2>2. QED BY <1>1, <1>3, <1>4, <2>1, EndAgoType, ReturnRefines
<1>7. CASE ReturnOok(am)
  <2> DEFINE e == IF am = "hi" THEN d ELSE pulses
             u == IF am = "hi" THEN 0 ELSE w
             g == GapClosed(e, u)
  <2>1. /\ pulses' = [g EXCEPT !.end_ago = Ago] /\ Return("OOK", u, am)
        /\ am = "hi" => e.num_pulses < PD_MAX_PULSES
    BY <1>7 DEF ReturnOok
  <2>2. /\ e \in PulseTrain /\ e.num_pulses < PD_MAX_PULSES /\ u \in Nat
        /\ e.offset = pulses.offset /\ e.start_ago = pulses.start_ago
    BY <1>3, <1>4, <2>1
  <2> HIDE DEF e, u
  <2>3. /\ g \in PulseTrain
        /\ g.offset = pulses.offset /\ g.start_ago = pulses.start_ago
    BY <2>2, GapClosedType
  <2> HIDE DEF g
  <2>4. QED BY <1>1, <1>3, <2>1, <2>3, EndAgoType, ReturnRefines
<1>8. QED BY <1>5, <1>6, <1>7

\* pulse_detect_package, called again and again by the callback, implements
\* PackageStream: every package handed out covers the stretch from its trigger
\* to the sample at which it is returned, and packages never overlap.
THEOREM DetectImplementsPackageStream == Spec => ImplementsPackageStream
<1>1. Init => Abstract!Init
  <2> SUFFICES ASSUME Init PROVE Abstract!Init OBVIOUS
  <2>1. input_pos + ook.data_counter = 0 /\ ~Open /\ returned = "none"
    BY DEF Init, Open
  <2>2. QED BY <2>1 DEF Abstract!Init, Abstract!Closed, Abstract!NoPackage
<1>2. IInv /\ [Next]_vars => [Abstract!Next]_(Abstract!streamVars)
  <2> SUFFICES ASSUME IInv, [Next]_vars
               PROVE  Abstract!Next \/ UNCHANGED Abstract!streamVars
    OBVIOUS
  <2>1. CASE (\E n \in Chunks : Deliver(n)) \/ Enter \/ OutOfData
    BY <2>1, EntryRefines DEF Abstract!Next
  <2>2. CASE \E am \in Levels, fm \in Fm : Process(am, fm)
    BY <2>2, ConsumedRefines, HandedOut DEF Process, Abstract!Next
  <2>3. CASE UNCHANGED vars
    BY <2>3 DEF vars, ookVars, callVars, Open, Abstract!streamVars
  <2>4. QED BY <2>1, <2>2, <2>3 DEF Next, Run
<1>3. QED
  BY <1>1, <1>2, DetectInvariant, PTL DEF Spec, ImplementsPackageStream, Abstract!Spec

-----------------------------------------------------------------------------
(* What the stored widths cover.                                            *)

\* Slots not reached yet are empty, and so is the slot of a pulse in progress
\* unless it goes on after a spurious gap, when it is long enough.
CleanSlots ==
  Open => /\ \A i \in Slots : i > pulses.num_pulses => pulses.pulse[i] = 0
          /\ ook.ook_state = "PULSE" =>
               \/ pulses.pulse[pulses.num_pulses] = 0
               \/ ook.pulse_length >= PD_MIN_PULSE_SAMPLES
          /\ ook.ook_state = "GAP_START" =>
               pulses.pulse[pulses.num_pulses] >= PD_MIN_PULSE_SAMPLES

\* The start mark of an open package is unset, or at one end of its first pulse.
StartMarked ==
  Open => IF pulses.num_pulses = 0
          THEN start = 0 \/ input_pos + start = pulses.offset
          ELSE input_pos + start \in {pulses.offset, pulses.offset + pulses.pulse[0]}

\* While the classic FSK detector is fed and has shifted nothing out, it holds
\* every sample since the trigger.
FskAccounted ==
  Open /\ fpdm = "classic" =>
    /\ fsk_pulses.offset >= pulses.offset
    /\ /\ ook.ook_state \in {"PULSE", "GAP_START"} /\ pulses.num_pulses = 0
       /\ fsk_pulses.offset = pulses.offset
       => HeldBy(fsk, fsk_pulses) = fsk_pulses.start_ago - Ahead - 1

Returned == OokPackageSpan /\ FskPackageSpan /\ StartMarksFirstPulse

SumInv == OpenPackageConserved /\ CleanSlots /\ StartMarked /\ FskAccounted /\ Returned

\* The numbers of an open package, between two samples.
LEMMA OpenNumbers ==
  ASSUME IInv, Scanning, Open, OpenPackageConserved
  PROVE  /\ pulses \in PulseTrain /\ pulses.num_pulses \in Slots
         /\ pulses.num_pulses \in Nat /\ pulses.num_pulses < PD_MAX_PULSES
         /\ Covered(pulses, pulses.num_pulses) \in Nat
         /\ pulses.pulse[pulses.num_pulses] \in Nat /\ OpenPulse \in Nat
         /\ ook \in OokState /\ ook.pulse_length \in Nat /\ ook.data_counter \in Nat
         /\ pulses.offset \in Nat /\ pulses.start_ago \in Nat /\ input_pos \in Nat
         /\ Ago \in Nat /\ Ahead = Ago /\ Ago = len - ook.data_counter /\ len \in Nat
         /\ pulses.offset + pulses.start_ago = input_pos + len
         /\ Covered(pulses, pulses.num_pulses) + OpenPulse + ook.pulse_length
              = pulses.start_ago - Ago - 1
         /\ start \in Int /\ returned = "none"
<1>1. ScanFacts BY Scans
<1>2. /\ pulses \in PulseTrain /\ pulses.num_pulses < PD_MAX_PULSES /\ ook \in OokState
      /\ len \in Nat /\ input_pos \in Nat /\ Ago \in Nat /\ Ahead = Ago
      /\ start \in Int /\ returned = "none"
  BY <1>1, DetectAssumption DEF ScanFacts
<1>3. /\ pulses.num_pulses \in Slots /\ pulses.num_pulses \in Nat
      /\ Covered(pulses, pulses.num_pulses) \in Nat
      /\ pulses.pulse[pulses.num_pulses] \in Nat
  BY <1>2, FreeSlot
<1>4. /\ ook.pulse_length \in Nat /\ ook.data_counter \in Nat
      /\ pulses.offset \in Nat /\ pulses.start_ago \in Nat
  BY <1>2, OokFields, TrainFields
<1>5. OpenPulse \in Nat BY <1>3 DEF OpenPulse
<1>6. Ago = len - ook.data_counter BY DEF Ago
<1>7. pulses.offset + pulses.start_ago = input_pos + len
  BY <1>2, <1>4, <1>6 DEF IInv, TriggerLocated
<1>8. Covered(pulses, pulses.num_pulses) + OpenPulse + ook.pulse_length
        = pulses.start_ago - Ago - 1
  BY <1>2 DEF OpenPackageConserved, StoredWidths
<1> QED BY <1>2, <1>3, <1>4, <1>5, <1>6, <1>7, <1>8

\* One sample less is ahead.
LEMMA ConsumedAhead ==
  ASSUME IInv, Scanning, Consumed, ook'.data_counter = ook.data_counter + 1
  PROVE  /\ Ahead' = Ago - 1 /\ input_pos' = input_pos /\ fpdm' = fpdm
         /\ returned = "none" /\ returned' = "none" /\ Returned'
<1>1. ScanFacts BY Scans
<1>2. ook'.data_counter > 0 /\ len \in Nat /\ ook.data_counter \in Nat
  BY <1>1, DetectAssumption DEF ScanFacts
<1>3. Ahead' = Ago' /\ len' = len BY <1>2 DEF Ahead, Consumed
<1>4. Ago' = Ago - 1 BY <1>2, <1>3 DEF Ago
<1>5. returned = "none" /\ returned' = "none" BY <1>1 DEF ScanFacts, Consumed
<1>6. Returned'
  BY <1>5 DEF Returned, OokPackageSpan, FskPackageSpan, StartMarksFirstPulse
<1> QED BY <1>3, <1>4, <1>5, <1>6 DEF Consumed

\* The FSK detector, fed with a sample of the first pulse.
LEMMA FskAccountedFed ==
  ASSUME IInv, FskAccounted, Scanning, Consumed, NEW fm, FskSample(fm),
         ook.ook_state \in {"PULSE", "GAP_START"},
         ook'.data_counter = ook.data_counter + 1,
         pulses'.num_pulses = pulses.num_pulses, pulses'.offset = pulses.offset
  PROVE  FskAccounted'
<1>1. ScanFacts /\ Open BY Scans DEF Open
<1>2. /\ FskOK(fpdm) /\ FskTyped /\ FskSlots /\ fsk_pulses \in PulseTrain
      /\ fsk_pulses.offset \in Nat /\ fsk_pulses.start_ago \in Nat
      /\ pulses.offset \in Nat /\ Ahead = Ago /\ Ago \in Nat /\ ook.data_counter \in Nat
  BY <1>1, TrainFields DEF ScanFacts, FskOK, FskTyped
<1>3. Ahead' = Ago - 1 /\ fpdm' = fpdm BY ConsumedAhead
<1>4. CASE fpdm # "classic" BY <1>3, <1>4 DEF FskAccounted
<1>5. CASE fpdm = "classic" /\ pulses.num_pulses # 0
  <2>1. UNCHANGED fskVars BY <1>5 DEF FskSample
  <2>2. fsk_pulses'.offset >= pulses'.offset
    BY <1>1, <1>5, <2>1 DEF FskAccounted, fskVars
  <2> QED BY <1>5, <2>2 DEF FskAccounted
<1>6. CASE fpdm = "classic" /\ pulses.num_pulses = 0
  <2>1. pulse_detect_fsk_classic(fm, ook.data_counter)
    BY <1>6 DEF FskSample
  <2>2. FskOK("classic") BY <1>2, <1>6
  <2>3. /\ HeldBy(fsk', fsk_pulses') + ShiftedOut(fsk_pulses, fsk_pulses')
              = HeldBy(fsk, fsk_pulses) + 1
        /\ fsk_pulses'.offset >= fsk_pulses.offset
    BY <1>2, <2>1, <2>2, ClassicHolds
  <2>4. fsk_pulses'.start_ago = fsk_pulses.start_ago
    BY <1>2, <2>1, ClassicKeepsAge
  <2>5. FskTyped' /\ FskSlots' BY <1>2, <2>1, <2>2, ClassicKeepsOK DEF FskOK
  <2>6. fsk_pulses'.offset \in Nat /\ HeldBy(fsk', fsk_pulses') \in Nat
    <3>1. /\ fsk_pulses' \in PulseTrain /\ fsk' \in FskState
          /\ fsk_pulses'.num_pulses < PD_MAX_PULSES
      BY <2>5 DEF FskTyped, FskSlots
    <3>2. fsk'.fsk_pulse_length \in Nat BY <3>1 DEF FskState
    <3>3. fsk_pulses'.offset \in Nat BY <3>1, TrainFields
    <3> QED BY <3>1, <3>2, <3>3, FreeSlot DEF HeldBy
  <2>7. fsk_pulses.offset >= pulses.offset BY <1>1, <1>6 DEF FskAccounted
  <2>8. fsk_pulses'.offset >= pulses'.offset
    BY <1>2, <2>3, <2>6, <2>7
  <2>9. ASSUME fsk_pulses'.offset = pulses'.offset
        PROVE  HeldBy(fsk', fsk_pulses') = fsk_pulses'.start_ago - Ahead' - 1
    <3>1. fsk_pulses'.offset = fsk_pulses.offset /\ fsk_pulses.offset = pulses.offset
      BY <1>2, <2>3, <2>6, <2>7, <2>9
    <3>2. HeldBy(fsk, fsk_pulses) = fsk_pulses.start_ago - Ago - 1
      BY <1>1, <1>2, <1>6, <3>1 DEF FskAccounted
    <3>3. ShiftedOut(fsk_pulses, fsk_pulses') = 0 BY <3>1 DEF ShiftedOut
    <3> QED BY <1>2, <1>3, <2>3, <2>4, <2>6, <3>2, <3>3
  <2> QED BY <2>8, <2>9 DEF FskAccounted
<1> QED BY <1>4, <1>5, <1>6

LEMMA SumInit ==
  ASSUME Init
  PROVE  SumInv
<1>1. ~Open BY DEF Init, Open
<1>2. returned = "none" BY Zenon DEF Init
<1>3. Returned
  BY <1>2 DEF Returned, OokPackageSpan, FskPackageSpan, StartMarksFirstPulse
<1> QED
  BY <1>1, <1>3 DEF SumInv, OpenPackageConserved, CleanSlots, StartMarked, FskAccounted

LEMMA EntrySums ==
  ASSUME IInv, SumInv, (\E n \in Chunks : Deliver(n)) \/ Enter \/ OutOfData
  PROVE  SumInv'
<1>1. /\ pulses \in PulseTrain /\ fsk_pulses \in PulseTrain /\ ook \in OokState
      /\ len \in Nat /\ start \in Int /\ input_pos \in Nat
      /\ pulses.num_pulses \in 0 .. PD_MAX_PULSES /\ pulses.num_pulses \in Nat
      /\ fsk_pulses.num_pulses \in 0 .. PD_MAX_PULSES
      /\ pulses.offset \in Nat /\ pulses.start_ago \in Nat
      /\ fsk_pulses.start_ago \in Nat /\ ook.data_counter \in Nat
  BY DetectAssumption, TrainFields, OokFields DEF IInv, TypeOK
<1>2. CASE \E n \in Chunks : Deliver(n)
  <2>1. /\ pc = "wait" /\ pc' = "call" /\ returned' = "none" /\ ook.data_counter = 0
        /\ UNCHANGED <<fskVars, ookVars, fpdm, input_pos>>
    BY <1>2 DEF Deliver, IInv
  <2>2. Ahead = 0 /\ Ahead' = 0 BY <2>1 DEF Ahead, ookVars
  <2> QED
    BY <2>1, <2>2 DEF SumInv, OpenPackageConserved, CleanSlots, StartMarked, FskAccounted,
       Returned, OokPackageSpan, FskPackageSpan, StartMarksFirstPulse, ookVars, fskVars,
       Open, OpenPulse, StoredWidths
<1>3. CASE Enter
  <2> DEFINE aged(d) == IF ook.data_counter = 0 THEN [d EXCEPT !.start_ago = @ + len] ELSE d
  <2>1. /\ pc = "call" /\ pc' = "scan" /\ returned' = "none"
        /\ UNCHANGED <<fsk, startFsk, ook, start, len, fpdm, unread, input_pos>>
        /\ pulses' = aged(pulses) /\ fsk_pulses' = aged(fsk_pulses)
    BY <1>3 DEF Enter
  <2>2. ASSUME NEW d \in PulseTrain
        PROVE  /\ aged(d).num_pulses = d.num_pulses /\ aged(d).offset = d.offset
               /\ aged(d).pulse = d.pulse /\ aged(d).gap = d.gap
               /\ aged(d).start_ago
                    = IF ook.data_counter = 0 THEN d.start_ago + len ELSE d.start_ago
    BY <2>2 DEF PulseTrain
  <2> HIDE DEF aged
  <2>3. ASSUME NEW d \in PulseTrain, d.num_pulses \in 0 .. PD_MAX_PULSES
        PROVE  Covered(aged(d), d.num_pulses) = Covered(d, d.num_pulses)
    BY <2>2, <2>3, CoveredSame
  <2>4. /\ Covered(pulses', pulses'.num_pulses) = Covered(pulses, pulses.num_pulses)
        /\ Covered(fsk_pulses', fsk_pulses'.num_pulses)
             = Covered(fsk_pulses, fsk_pulses.num_pulses)
    BY <1>1, <2>1, <2>2, <2>3
  <2>5. HeldBy(fsk', fsk_pulses') = HeldBy(fsk, fsk_pulses)
    BY <1>1, <2>1, <2>2, <2>4 DEF HeldBy
  <2>6. /\ pulses'.start_ago - Ahead' = pulses.start_ago - Ahead
        /\ fsk_pulses'.start_ago - Ahead' = fsk_pulses.start_ago - Ahead
    BY <1>1, <2>1, <2>2 DEF Ahead, Ago
  <2>7. OpenPackageConserved'
    BY <1>1, <2>1, <2>2, <2>4, <2>6
    DEF SumInv, OpenPackageConserved, StoredWidths, Open, OpenPulse
  <2>8. CleanSlots' /\ StartMarked'
    BY <1>1, <2>1, <2>2 DEF SumInv, CleanSlots, StartMarked, Open
  <2>9. FskAccounted'
    BY <1>1, <2>1, <2>2, <2>5, <2>6 DEF SumInv, FskAccounted, Open
  <2> QED
    BY <2>1, <2>7, <2>8, <2>9
    DEF SumInv, Returned, OokPackageSpan, FskPackageSpan, StartMarksFirstPulse
<1>4. CASE OutOfData
  <2>1. /\ pc = "scan" /\ ook.data_counter = len /\ pc' = "wait"
        /\ ook' = [ook EXCEPT !.data_counter = 0] /\ input_pos' = input_pos + len
        /\ start' = FirstStart(start, pulses, ook.data_counter) - len
        /\ UNCHANGED <<fsk, fsk_pulses, pulses, len, fpdm, returned>>
        /\ returned = "none"
    BY <1>4 DEF OutOfData, IInv
  <2>2. /\ ook'.data_counter = 0 /\ ook'.ook_state = ook.ook_state
        /\ ook'.pulse_length = ook.pulse_length
    BY <1>1, <2>1, OokFields
  <2>3. Ahead = 0 /\ Ahead' = 0 BY <1>1, <2>1, <2>2 DEF Ahead, Ago
  <2>4. OpenPackageConserved' /\ CleanSlots' /\ FskAccounted'
    BY <2>1, <2>2, <2>3
    DEF SumInv, OpenPackageConserved, CleanSlots, FskAccounted, StoredWidths, Open, OpenPulse
  <2>5. StartMarked'
    BY <1>1, <2>1, <2>2 DEF SumInv, StartMarked, FirstStart, Open
  <2> QED
    BY <2>1, <2>4, <2>5
    DEF SumInv, Returned, OokPackageSpan, FskPackageSpan, StartMarksFirstPulse
<1> QED BY <1>2, <1>3, <1>4

LEMMA IdleSums ==
  ASSUME IInv, SumInv, NEW am \in Levels, StartPackage(am) \/ StayIdle(am)
  PROVE  SumInv'
<1>1. Scanning /\ ScanFacts /\ Consumed
  BY Scans DEF StartPackage, StayIdle, Continue
<1>2. /\ ook \in OokState /\ ook.data_counter \in Nat /\ Ago \in Nat /\ input_pos \in Nat
      /\ len \in Nat
  BY <1>1, DetectAssumption DEF ScanFacts
<1>3. CASE StartPackage(am)
  <2> DEFINE fresh == [pulse_data_clear EXCEPT !.offset = input_pos + ook.data_counter,
                                               !.start_ago = Ago]
  <2>1. /\ pulses' = fresh /\ fsk_pulses' = fresh /\ fsk' = pulse_detect_fsk_init
        /\ start' = 0
        /\ ook' = [ook EXCEPT !.ook_state = "PULSE", !.pulse_length = 0, !.max_pulse = 0,
                              !.data_counter = @ + 1]
    BY <1>3 DEF StartPackage
  <2>2. /\ fresh.num_pulses = 0 /\ fresh.start_ago = Ago
        /\ \A i \in Slots : fresh.pulse[i] = 0
        /\ fresh.offset = input_pos + ook.data_counter
    BY DEF pulse_data_clear
  <2>3. fresh.pulse[0] = 0 BY <2>2, MaxPulsesAssumption DEF Slots
  <2> HIDE DEF fresh
  <2>4. Covered(fresh, 0) = 0 BY CoveredStep
  <2>5. /\ ook'.ook_state = "PULSE" /\ ook'.data_counter = ook.data_counter + 1
        /\ ook'.pulse_length = 0
    BY <1>2, <2>1, OokBeginsType DEF OokStates
  <2>6. Ahead' = Ago - 1 /\ Returned' /\ input_pos' = input_pos
    BY <1>1, <2>5, ConsumedAhead
  <2>7. HeldBy(fsk', fsk_pulses') = 0
    BY <2>1, <2>2, <2>4 DEF HeldBy, pulse_detect_fsk_init
  <2>8. OpenPackageConserved'
    BY <1>2, <2>1, <2>2, <2>4, <2>5, <2>6 DEF OpenPackageConserved, StoredWidths, OpenPulse
  <2>9. CleanSlots'
    BY <2>1, <2>2, <2>3, <2>5 DEF CleanSlots
  <2>10. FskAccounted'
    BY <1>2, <2>1, <2>2, <2>6, <2>7 DEF FskAccounted
  <2>11. StartMarked' BY <2>1, <2>2 DEF StartMarked
  <2> QED BY <2>6, <2>8, <2>9, <2>10, <2>11 DEF SumInv
<1>4. CASE StayIdle(am)
  <2>1. ook'.ook_state = "IDLE" /\ ook'.data_counter = ook.data_counter + 1
    BY <1>2, <1>4, OokFields DEF StayIdle
  <2>2. Returned' BY <1>1, <2>1, ConsumedAhead
  <2>3. ~Open' BY <2>1 DEF Open
  <2> QED
    BY <2>2, <2>3 DEF SumInv, OpenPackageConserved, CleanSlots, StartMarked, FskAccounted
<1> QED BY <1>3, <1>4

\* A consumed sample that leaves the train and the start mark alone: what is
\* left to show is where its width went.
LEMMA UnchangedSums ==
  ASSUME IInv, SumInv, Scanning, Open, Consumed, UNCHANGED <<pulses, start>>,
         ook'.data_counter = ook.data_counter + 1, FskAccounted', ook' \in OokState,
         Open' => /\ OpenPulse' + ook'.pulse_length = OpenPulse + ook.pulse_length + 1
                  /\ CleanSlots'
  PROVE  SumInv'
<1>1. OpenPackageConserved BY DEF SumInv
<1>2. Ahead' = Ago - 1 /\ Returned' /\ input_pos' = input_pos BY ConsumedAhead
<1>3. OpenPackageConserved'
  <2> SUFFICES ASSUME Open'
               PROVE  Covered(pulses, pulses.num_pulses) + OpenPulse' + ook'.pulse_length
                        = pulses.start_ago - Ahead' - 1
    BY DEF OpenPackageConserved, StoredWidths
  <2>1. OpenPulse' \in Nat /\ ook'.pulse_length \in Nat
    BY <1>1, OpenNumbers DEF OpenPulse, OokState
  <2> QED BY <1>1, <1>2, <2>1, OpenNumbers
<1>4. CleanSlots' BY DEF CleanSlots
<1>5. StartMarked' BY <1>2 DEF SumInv, StartMarked
<1> QED BY <1>2, <1>3, <1>4, <1>5 DEF SumInv

LEMMA PulseSums ==
  ASSUME IInv, SumInv, NEW am \in Levels, NEW fm,
         StayPulse(am, fm) \/ EndPulse(am, fm) \/ SpuriousPulse(am, fm)
  PROVE  SumInv'
<1> DEFINE w == ook.pulse_length + 1
           n == pulses.num_pulses
<1>1. /\ Scanning /\ ook.ook_state = "PULSE" /\ Open /\ FskSample(fm) /\ Consumed
      /\ OpenPackageConserved /\ CleanSlots /\ StartMarked /\ FskAccounted
  BY DEF StayPulse, EndPulse, SpuriousPulse, Open, Continue, SumInv
<1>2. /\ w \in Nat /\ ook \in OokState /\ pulses \in PulseTrain /\ n \in Nat
      /\ n \in Slots /\ n < PD_MAX_PULSES /\ ook.pulse_length \in Nat
      /\ PD_MIN_PULSE_SAMPLES \in Nat
  BY <1>1, OpenNumbers, FskAssumption
<1>3. OpenPulse = 0 BY <1>1 DEF OpenPulse
<1>4. pulses.pulse[n] = 0 \/ ook.pulse_length >= PD_MIN_PULSE_SAMPLES
  BY <1>1 DEF CleanSlots
<1>5. CASE StayPulse(am, fm)
  <2>1. OokTo("PULSE", w) /\ UNCHANGED <<pulses, start>>
    BY <1>5 DEF StayPulse
  <2>2. /\ ook' \in OokState /\ ook'.data_counter = ook.data_counter + 1
        /\ ook'.ook_state = "PULSE" /\ ook'.pulse_length = w
    BY <1>2, <2>1, OokToType DEF OokStates
  <2>3. FskAccounted' BY <1>1, <2>1, <2>2, FskAccountedFed
  <2>4. OpenPulse' = 0 BY <2>2 DEF OpenPulse
  <2>5. CleanSlots'
    <3>1. ook.pulse_length >= PD_MIN_PULSE_SAMPLES => w >= PD_MIN_PULSE_SAMPLES
      BY <1>2
    <3> QED BY <1>1, <1>4, <2>1, <2>2, <3>1 DEF CleanSlots
  <2> QED BY <1>1, <1>2, <1>3, <2>1, <2>2, <2>3, <2>4, <2>5, UnchangedSums
<1>6. CASE EndPulse(am, fm)
  <2> DEFINE d == StorePulse(pulses, w)
  <2>1. /\ pulses' = d /\ start' = FirstStart(start, pulses, ook.data_counter - w)
        /\ ook' = [ook EXCEPT !.ook_state = "GAP_START", !.pulse_length = 0,
                              !.max_pulse = MaxOf(w, @), !.data_counter = @ + 1]
        /\ w >= PD_MIN_PULSE_SAMPLES
    BY <1>6 DEF EndPulse, MarkOokStart
  <2>2. /\ d.num_pulses = n /\ d.offset = pulses.offset /\ d.start_ago = pulses.start_ago
        /\ d.pulse = [pulses.pulse EXCEPT ![n] = w] /\ d.pulse[n] = w
        /\ Covered(d, n) = Covered(pulses, n)
    BY <1>2, StorePulseType, CoveredStored
  <2>3. pulses.pulse \in [Slots -> Nat] BY <1>2, TrainFields
  <2> HIDE DEF d
  <2>4. /\ ook'.ook_state = "GAP_START" /\ ook'.data_counter = ook.data_counter + 1
        /\ ook'.pulse_length = 0
    <3>1. MaxOf(w, ook.max_pulse) \in Nat BY <1>2, OokFields DEF MaxOf
    <3> QED BY <1>2, <2>1, <3>1, OokBeginsType DEF OokStates
  <2>5. /\ Ahead' = Ago - 1 /\ Returned' /\ input_pos' = input_pos
    BY <1>1, <2>4, ConsumedAhead
  <2>6. FskAccounted' BY <1>1, <2>1, <2>2, <2>4, FskAccountedFed
  <2>7. OpenPackageConserved'
    <3>1. OpenPulse' = w BY <2>1, <2>2, <2>4 DEF OpenPulse
    <3>2. StoredWidths(pulses') = Covered(pulses, n) BY <2>1, <2>2 DEF StoredWidths
    <3>3. Covered(pulses, n) + w + 0 = pulses'.start_ago - Ahead' - 1
      BY <1>1, <1>2, <1>3, <2>1, <2>2, <2>5, OpenNumbers
    <3> QED BY <2>4, <3>1, <3>2, <3>3 DEF OpenPackageConserved
  <2>8. CleanSlots'
    <3>1. \A i \in Slots : i > n => i # n BY <1>2
    <3>2. \A i \in Slots : i > n => d.pulse[i] = 0
      BY <1>1, <1>2, <2>2, <2>3, <3>1 DEF CleanSlots
    <3> QED BY <2>1, <2>2, <2>4, <3>2 DEF CleanSlots
  <2>9. StartMarked'
    <3>1. CASE n = 0
      <4>1. Covered(pulses, n) = 0 BY <3>1, CoveredStep
      <4>2. input_pos + (ook.data_counter - w) = pulses.offset
        <5>1. /\ Covered(pulses, n) + 0 + ook.pulse_length = pulses.start_ago - Ago - 1
              /\ Ago = len - ook.data_counter
              /\ pulses.offset + pulses.start_ago = input_pos + len
              /\ pulses.offset \in Nat /\ pulses.start_ago \in Nat /\ input_pos \in Nat
              /\ len \in Nat /\ ook.data_counter \in Nat
          BY <1>1, <1>3, OpenNumbers
        <5>2. ook.pulse_length = pulses.start_ago - (len - ook.data_counter) - 1
          BY <1>2, <4>1, <5>1
        <5>3. pulses.start_ago = len - ook.data_counter + w
          BY <1>2, <5>1, <5>2
        <5> HIDE DEF w
        <5>4. pulses.offset = input_pos + len - (len - ook.data_counter + w)
          BY <1>2, <5>1, <5>3
        <5> QED BY <1>2, <5>1, <5>4
      <4>3. start' = 0 \/ input_pos + start' = pulses.offset
        BY <1>1, <2>1, <3>1, <4>2 DEF StartMarked, FirstStart
      <4> QED BY <2>1, <2>2, <2>5, <3>1, <4>3 DEF StartMarked
    <3>2. CASE n # 0
      <4>1. start' = start BY <2>1, <3>2 DEF FirstStart
      <4>2. 0 \in Slots BY MaxPulsesAssumption DEF Slots
      <4>3. d.pulse[0] = pulses.pulse[0] BY <2>2, <2>3, <3>2, <4>2
      <4> QED BY <1>1, <2>1, <2>2, <2>5, <3>2, <4>1, <4>3 DEF StartMarked
    <3> QED BY <3>1, <3>2
  <2> QED BY <2>5, <2>6, <2>7, <2>8, <2>9 DEF SumInv
<1>7. CASE SpuriousPulse(am, fm)
  <2>1. PICK s \in {"IDLE", "GAP"} : OokTo(s, w)
    BY <1>7 DEF SpuriousPulse
  <2>2. UNCHANGED <<pulses, start>> /\ w < PD_MIN_PULSE_SAMPLES
    BY <1>7 DEF SpuriousPulse
  <2>3. /\ ook' \in OokState /\ ook'.data_counter = ook.data_counter + 1
        /\ ook'.ook_state = s /\ ook'.pulse_length = w
    BY <1>2, <2>1, OokToType DEF OokStates
  <2>4. FskAccounted' BY <1>1, <2>2, <2>3, FskAccountedFed
  <2>5. pulses.pulse[n] = 0 BY <1>2, <1>4, <2>2
  <2>6. OpenPulse' = 0 BY <2>2, <2>3, <2>5 DEF OpenPulse
  <2>7. CleanSlots' BY <1>1, <2>2, <2>3 DEF CleanSlots
  <2> QED BY <1>1, <1>2, <1>3, <2>2, <2>3, <2>4, <2>6, <2>7, UnchangedSums
<1> QED BY <1>5, <1>6, <1>7

\* After a return no package is open.
LEMMA ReturnCloses ==
  ASSUME IInv, Scanning, NEW type, NEW w, NEW am, Return(type, w, am)
  PROVE  /\ ~Open' /\ returned' = type /\ input_pos' = input_pos /\ fpdm' = fpdm
         /\ OpenPackageConserved' /\ CleanSlots' /\ StartMarked' /\ FskAccounted'
<1>1. ScanFacts BY Scans
<1>2. ook'.ook_state = "IDLE" BY <1>1, OokFields DEF Return, ScanFacts
<1>3. ~Open' BY <1>2 DEF Open
<1> QED
  BY <1>3 DEF Return, OpenPackageConserved, CleanSlots, StartMarked, FskAccounted

LEMMA GapStartSums ==
  ASSUME IInv, SumInv, NEW am \in Levels, NEW fm,
         \/ ResumePulse(am, fm) \/ StayGapStart(am, fm) \/ ConfirmGap(am, fm)
         \/ ReturnFsk(am)
  PROVE  SumInv'
<1> DEFINE w == ook.pulse_length + 1
           n == pulses.num_pulses
           p == pulses.pulse[n]
<1>1. /\ Scanning /\ ook.ook_state = "GAP_START" /\ Open
      /\ OpenPackageConserved /\ CleanSlots /\ StartMarked /\ FskAccounted
  BY DEF ResumePulse, StayGapStart, ConfirmGap, ReturnFsk, Open, SumInv
<1>2. /\ w \in Nat /\ ook \in OokState /\ pulses \in PulseTrain /\ n \in Nat
      /\ ook.pulse_length \in Nat /\ p \in Nat /\ Ago \in Nat
      /\ PD_MIN_PULSE_SAMPLES \in Nat /\ Ahead = Ago
  BY <1>1, OpenNumbers, FskAssumption
<1>3. OpenPulse = p BY <1>1 DEF OpenPulse
<1>4. p >= PD_MIN_PULSE_SAMPLES BY <1>1 DEF CleanSlots
<1>5. CASE ResumePulse(am, fm)
  <2>1. /\ OokTo("PULSE", w + p) /\ UNCHANGED <<pulses, start>> /\ FskSample(fm)
        /\ Consumed
    BY <1>5 DEF ResumePulse, Continue
  <2>2. /\ ook' \in OokState /\ ook'.data_counter = ook.data_counter + 1
        /\ ook'.ook_state = "PULSE" /\ ook'.pulse_length = w + p
    BY <1>2, <2>1, OokToType DEF OokStates
  <2>3. FskAccounted' BY <1>1, <2>1, <2>2, FskAccountedFed
  <2>4. OpenPulse' = 0 BY <2>2 DEF OpenPulse
  <2>5. CleanSlots'
    <3>1. w + p >= PD_MIN_PULSE_SAMPLES BY <1>2, <1>4
    <3> QED BY <1>1, <2>1, <2>2, <3>1 DEF CleanSlots
  <2>6. 0 + (w + p) = p + ook.pulse_length + 1 BY <1>2
  <2> QED
    BY <1>1, <1>3, <2>1, <2>2, <2>3, <2>4, <2>5, <2>6, UnchangedSums
<1>6. CASE StayGapStart(am, fm) \/ ConfirmGap(am, fm)
  <2>1. PICK s \in {"GAP_START", "GAP"} : OokTo(s, w)
    BY <1>6 DEF StayGapStart, ConfirmGap
  <2>2. UNCHANGED <<pulses, start>> /\ FskSample(fm) /\ Consumed
    BY <1>6 DEF StayGapStart, ConfirmGap, Continue
  <2>3. /\ ook' \in OokState /\ ook'.data_counter = ook.data_counter + 1
        /\ ook'.ook_state = s /\ ook'.pulse_length = w
    BY <1>2, <2>1, OokToType DEF OokStates
  <2>4. FskAccounted' BY <1>1, <2>2, <2>3, FskAccountedFed
  <2>5. OpenPulse' = p BY <2>2, <2>3 DEF OpenPulse
  <2>6. CleanSlots' BY <1>1, <1>4, <2>2, <2>3 DEF CleanSlots
  <2>7. p + w = p + ook.pulse_length + 1 BY <1>2
  <2> QED
    BY <1>1, <1>3, <2>2, <2>3, <2>4, <2>5, <2>6, <2>7, UnchangedSums
<1>7. CASE ReturnFsk(am)
  <2>1. /\ IsFsk /\ Return("FSK", w, am) /\ pulses' = [pulses EXCEPT !.end_ago = Ago]
        /\ fpdm = "classic" => fsk_pulses' = [WrapUpPulses EXCEPT !.end_ago = Ago]
    BY <1>7 DEF ReturnFsk
  <2>2. /\ returned' = "FSK" /\ fpdm' = fpdm
        /\ OpenPackageConserved' /\ CleanSlots' /\ StartMarked' /\ FskAccounted'
    BY <1>1, <2>1, ReturnCloses
  <2>3. pulses'.num_pulses = n /\ pulses'.offset = pulses.offset
    BY <1>2, <2>1, EndAgoType
  <2>4. FskPackageSpan'
    <3> SUFFICES ASSUME n = 0, fpdm = "classic", fsk_pulses'.offset = pulses.offset
                 PROVE  StoredWidths(fsk_pulses')
                          = fsk_pulses'.start_ago - fsk_pulses'.end_ago
      BY <2>2, <2>3 DEF FskPackageSpan
    <3>1. FskTyped /\ FskSlots
      BY <1>1, Scans DEF ScanFacts, FskOK
    <3>2. fsk.fsk_state # "INIT"
      BY <2>1, <3>1, DetectAssumption DEF IsFsk, FskSlots
    <3> DEFINE u == WrapUpPulses
    <3>3. /\ Covered(u, u.num_pulses) = HeldBy(fsk, fsk_pulses) + 1
          /\ u.offset = fsk_pulses.offset /\ u.start_ago = fsk_pulses.start_ago
      BY <3>1, <3>2, WrapUpCovers
    <3>4. u \in PulseTrain BY <3>1, WrapUpType
    <3> HIDE DEF u
    <3> DEFINE e == [u EXCEPT !.end_ago = Ago]
    <3>5. /\ e.num_pulses = u.num_pulses /\ e.offset = u.offset
          /\ e.start_ago = u.start_ago /\ e.end_ago = Ago
          /\ e.pulse = u.pulse /\ e.gap = u.gap
      BY <1>2, <3>4 DEF PulseTrain
    <3>6. fsk_pulses' = e BY <2>1 DEF u
    <3> HIDE DEF e
    <3>7. u.num_pulses \in 0 .. PD_MAX_PULSES BY <3>4, TrainFields
    <3>8. Covered(e, e.num_pulses) = Covered(u, u.num_pulses)
      BY <3>5, <3>7, CoveredSame
    <3>9. HeldBy(fsk, fsk_pulses) = fsk_pulses.start_ago - Ago - 1
      BY <1>1, <1>2, <3>3, <3>5, <3>6 DEF FskAccounted
    <3>10. fsk_pulses.start_ago \in Nat BY <3>1, TrainFields DEF FskTyped
    <3> QED BY <1>2, <3>3, <3>5, <3>6, <3>8, <3>9, <3>10 DEF StoredWidths
  <2>5. OokPackageSpan' /\ StartMarksFirstPulse'
    BY <2>2 DEF OokPackageSpan, StartMarksFirstPulse
  <2> QED BY <2>2, <2>4, <2>5 DEF SumInv, Returned
<1> QED BY <1>5, <1>6, <1>7

\* A gap that closes the open pulse: the train covers every sample up to now,
\* and its first pulse is marked.
LEMMA ClosedSums ==
  ASSUME IInv, SumInv, Scanning, ook.ook_state = "GAP"
  PROVE  LET w == ook.pulse_length + 1
             d == GapClosed(pulses, w)
             m == FirstStart(start, pulses, ook.data_counter - w)
         IN  /\ d \in PulseTrain /\ d.num_pulses = pulses.num_pulses + 1
             /\ d.pulse = pulses.pulse
             /\ d.offset = pulses.offset /\ d.start_ago = pulses.start_ago
             /\ Covered(d, d.num_pulses) = pulses.start_ago - Ago
             /\ input_pos + m \in {pulses.offset, pulses.offset + pulses.pulse[0]}
<1> DEFINE w == ook.pulse_length + 1
           n == pulses.num_pulses
           p == pulses.pulse[n]
           d == GapClosed(pulses, w)
           m == FirstStart(start, pulses, ook.data_counter - w)
<1>1. /\ Open /\ OpenPackageConserved /\ StartMarked
  BY DEF Open, SumInv
<1>2. /\ w \in Nat /\ pulses \in PulseTrain /\ n \in Nat /\ n < PD_MAX_PULSES
      /\ ook.pulse_length \in Nat /\ p \in Nat /\ Ago \in Nat
      /\ Covered(pulses, n) \in Nat /\ pulses.start_ago \in Nat
      /\ pulses.offset \in Nat /\ input_pos \in Nat /\ len \in Nat
      /\ ook.data_counter \in Nat /\ Ago = len - ook.data_counter
      /\ pulses.offset + pulses.start_ago = input_pos + len
  BY <1>1, OpenNumbers
<1>3. OpenPulse = p BY DEF OpenPulse
<1>4. Covered(pulses, n) + p + ook.pulse_length = pulses.start_ago - Ago - 1
  BY <1>1, <1>3, OpenNumbers
<1>5. /\ d \in PulseTrain /\ d.num_pulses = n + 1
      /\ d.offset = pulses.offset /\ d.start_ago = pulses.start_ago
  BY <1>2, GapClosedType
<1>6. d.pulse = pulses.pulse /\ Covered(d, n + 1) = Covered(pulses, n) + p + w
  BY <1>2, CoveredClosed DEF GapClosed
<1>7. Covered(d, d.num_pulses) = pulses.start_ago - Ago
  BY <1>2, <1>4, <1>5, <1>6
<1>8. input_pos + m \in {pulses.offset, pulses.offset + pulses.pulse[0]}
  <2>1. CASE n # 0 BY <1>1, <2>1 DEF StartMarked, FirstStart
  <2>2. CASE n = 0 /\ start # 0 BY <1>1, <2>2 DEF StartMarked, FirstStart
  <2>3. CASE n = 0 /\ start = 0
    <3>1. Covered(pulses, n) = 0 BY <2>3, CoveredStep
    <3>2. pulses.start_ago = p + w + Ago BY <1>2, <1>4, <3>1
    <3> HIDE DEF w
    <3>3. pulses.offset + p = input_pos + (ook.data_counter - w)
      <4> HIDE DEF p
      <4>1. pulses.start_ago = p + w + (len - ook.data_counter)
        BY <1>2, <3>2
      <4>2. pulses.offset = input_pos + len - pulses.start_ago
        BY <1>2
      <4>3. pulses.offset = input_pos + len - (p + w + (len - ook.data_counter))
        BY <4>1, <4>2
      <4> QED BY <1>2, <4>3
    <3>4. m = ook.data_counter - w BY <2>3 DEF FirstStart
    <3> QED BY <2>3, <3>3, <3>4
  <2> QED BY <2>1, <2>2, <2>3
<1> HIDE DEF d, m
<1>9. /\ d \in PulseTrain /\ d.num_pulses = n + 1 /\ d.pulse = pulses.pulse
      /\ d.offset = pulses.offset /\ d.start_ago = pulses.start_ago
      /\ Covered(d, d.num_pulses) = pulses.start_ago - Ago
      /\ input_pos + m \in {pulses.offset, pulses.offset + pulses.pulse[0]}
  BY <1>5, <1>6, <1>7, <1>8
<1> QED BY <1>9 DEF d, m

\* An OOK package is returned with all samples up to now in its train e.
LEMMA OokReturnSums ==
  ASSUME IInv, SumInv, Scanning, Open, NEW w, NEW am, Return("OOK", w, am),
         NEW e \in PulseTrain, pulses' = [e EXCEPT !.end_ago = Ago],
         e.offset = pulses.offset, e.pulse = pulses.pulse,
         Covered(e, e.num_pulses) = e.start_ago - Ago,
         input_pos + start' \in {pulses.offset, pulses.offset + pulses.pulse[0]}
  PROVE  SumInv'
<1>1. /\ returned' = "OOK" /\ input_pos' = input_pos
      /\ OpenPackageConserved' /\ CleanSlots' /\ StartMarked' /\ FskAccounted'
  BY ReturnCloses
<1> DEFINE r == [e EXCEPT !.end_ago = Ago]
<1>2. /\ r.num_pulses = e.num_pulses /\ r.offset = e.offset
      /\ r.start_ago = e.start_ago /\ r.end_ago = Ago
      /\ r.pulse = e.pulse /\ r.gap = e.gap
  BY DEF PulseTrain
<1>3. pulses' = r OBVIOUS
<1> HIDE DEF r
<1>4. e.num_pulses \in 0 .. PD_MAX_PULSES BY TrainFields
<1>5. Covered(r, r.num_pulses) = Covered(e, e.num_pulses)
  BY <1>2, <1>4, CoveredSame
<1>6. OokPackageSpan'
  BY <1>2, <1>3, <1>5 DEF OokPackageSpan, StoredWidths
<1>7. StartMarksFirstPulse'
  BY <1>1, <1>2, <1>3 DEF StartMarksFirstPulse
<1>8. FskPackageSpan' BY <1>1 DEF FskPackageSpan
<1> QED BY <1>1, <1>6, <1>7, <1>8 DEF SumInv, Returned

LEMMA GapSums ==
  ASSUME IInv, SumInv, NEW am \in Levels,
         StayGap(am) \/ NewPulse(am) \/ ReturnFull(am) \/ ReturnOok(am)
  PROVE  SumInv'
<1> DEFINE w == ook.pulse_length + 1
           n == pulses.num_pulses
           d == GapClosed(pulses, w)
           m == FirstStart(start, pulses, ook.data_counter - w)
<1>1. /\ Scanning /\ ook.ook_state = "GAP" /\ Open /\ UNCHANGED fskVars
      /\ OpenPackageConserved /\ CleanSlots /\ StartMarked /\ FskAccounted
  BY DEF StayGap, NewPulse, ReturnFull, ReturnOok, Open, SumInv
<1>2. /\ w \in Nat /\ ook \in OokState /\ pulses \in PulseTrain /\ n \in Nat
      /\ n \in Slots /\ n < PD_MAX_PULSES /\ ook.pulse_length \in Nat
      /\ pulses.pulse[n] \in Nat /\ Ago \in Nat /\ pulses.start_ago \in Nat
  BY <1>1, OpenNumbers
<1>3. /\ d \in PulseTrain /\ d.num_pulses = n + 1 /\ d.pulse = pulses.pulse
      /\ d.offset = pulses.offset /\ d.start_ago = pulses.start_ago
      /\ Covered(d, d.num_pulses) = pulses.start_ago - Ago
      /\ input_pos + m \in {pulses.offset, pulses.offset + pulses.pulse[0]}
  BY <1>1, ClosedSums
<1> HIDE DEF d, m
<1>4. CASE StayGap(am)
  <2>1. OokTo("GAP", w) /\ UNCHANGED <<pulses, start>> /\ Consumed
    BY <1>4 DEF StayGap, Continue
  <2>2. /\ ook' \in OokState /\ ook'.data_counter = ook.data_counter + 1
        /\ ook'.ook_state = "GAP" /\ ook'.pulse_length = w
    BY <1>2, <2>1, OokToType DEF OokStates
  <2>3. FskAccounted'
    BY <1>1, <2>1, <2>2 DEF FskAccounted, fskVars, Consumed
  <2>4. OpenPulse' = OpenPulse BY <1>1, <2>1, <2>2 DEF OpenPulse
  <2>5. CleanSlots' BY <1>1, <2>1, <2>2 DEF CleanSlots
  <2>6. OpenPulse + w = OpenPulse + ook.pulse_length + 1
    BY <1>1, <1>2, OpenNumbers
  <2> QED
    BY <1>1, <2>1, <2>2, <2>3, <2>4, <2>5, <2>6, UnchangedSums
<1>5. CASE NewPulse(am)
  <2>1. /\ pulses' = d /\ d.num_pulses < PD_MAX_PULSES /\ OokTo("PULSE", 0)
        /\ start' = m /\ Consumed
    BY <1>5 DEF NewPulse, MarkOokStart, Continue, d, m
  <2>2. /\ ook'.data_counter = ook.data_counter + 1
        /\ ook'.ook_state = "PULSE" /\ ook'.pulse_length = 0
    BY <1>2, <2>1, OokToType DEF OokStates
  <2>3. Ahead' = Ago - 1 /\ Returned' /\ input_pos' = input_pos /\ fpdm' = fpdm
    BY <1>1, <2>1, <2>2, ConsumedAhead
  <2>4. OpenPackageConserved'
    <3>1. OpenPulse' = 0 BY <2>2 DEF OpenPulse
    <3>2. StoredWidths(pulses') = pulses.start_ago - Ago
      BY <1>3, <2>1 DEF StoredWidths
    <3>3. pulses'.start_ago = pulses.start_ago BY <1>3, <2>1
    <3> QED BY <1>2, <2>2, <2>3, <3>1, <3>2, <3>3 DEF OpenPackageConserved
  <2>5. CleanSlots'
    <3>1. n + 1 \in Slots /\ n + 1 > n /\ (\A i \in Slots : i > n + 1 => i > n)
      BY <1>2, <1>3, <2>1, MaxPulsesAssumption DEF Slots
    <3>2. d.pulse[n + 1] = 0 /\ \A i \in Slots : i > n + 1 => d.pulse[i] = 0
      BY <1>1, <1>3, <3>1 DEF CleanSlots
    <3> QED BY <1>3, <2>1, <2>2, <3>2 DEF CleanSlots
  <2>6. StartMarked'
    <3>1. n + 1 # 0 BY <1>2
    <3> QED BY <1>3, <2>1, <2>3, <3>1 DEF StartMarked
  <2>7. FskAccounted'
    <3>1. n + 1 # 0 BY <1>2
    <3> QED BY <1>1, <1>3, <2>1, <2>3, <3>1 DEF FskAccounted, fskVars
  <2> QED BY <2>3, <2>4, <2>5, <2>6, <2>7 DEF SumInv
<1>6. CASE ReturnFull(am)
  <2>1. /\ pulses' = [d EXCEPT !.end_ago = Ago] /\ start' = m /\ Return("OOK", w, am)
    BY <1>6 DEF ReturnFull, MarkOokStart, d, m
  <2> QED BY <1>1, <1>3, <2>1, OokReturnSums
<1>7. CASE ReturnOok(am)
  <2>1. start' = m BY <1>7 DEF ReturnOok, m
  <2>2. CASE am = "hi"
    <3> DEFINE g == GapClosed(d, 0)
    <3>1. /\ pulses' = [g EXCEPT !.end_ago = Ago] /\ Return("OOK", 0, am)
          /\ d.num_pulses < PD_MAX_PULSES
      BY <1>7, <2>2 DEF ReturnOok, d
    <3>2. n + 1 \in Slots /\ n + 1 > n
      BY <1>2, <1>3, <3>1, MaxPulsesAssumption DEF Slots
    <3>3. d.pulse[n + 1] = 0 BY <1>1, <1>3, <3>2 DEF CleanSlots
    <3>4. /\ g \in PulseTrain /\ g.num_pulses = n + 1 + 1
          /\ g.offset = d.offset /\ g.start_ago = d.start_ago
      BY <1>3, <3>1, GapClosedType
    <3>5. g.pulse = d.pulse /\ Covered(g, n + 1 + 1) = Covered(d, n + 1) + 0 + 0
      BY <1>3, <3>1, <3>3, CoveredClosed DEF GapClosed
    <3> HIDE DEF g
    <3>6. Covered(g, g.num_pulses) = g.start_ago - Ago
      BY <1>2, <1>3, <3>4, <3>5
    <3> QED BY <1>1, <1>3, <2>1, <3>1, <3>4, <3>5, <3>6, OokReturnSums
  <2>3. CASE am # "hi"
    <3>1. pulses' = [d EXCEPT !.end_ago = Ago] /\ Return("OOK", w, am)
      BY <1>7, <2>3 DEF ReturnOok, d
    <3> QED BY <1>1, <1>3, <2>1, <3>1, OokReturnSums
  <2> QED BY <2>2, <2>3
<1> QED BY <1>4, <1>5, <1>6, <1>7

LEMMA SumStep ==
  ASSUME IInv, SumInv, [Next]_vars
  PROVE  SumInv'
<1>1. CASE (\E n \in Chunks : Deliver(n)) \/ Enter \/ OutOfData
  BY <1>1, EntrySums
<1>2. CASE \E am \in Levels, fm \in Fm : Process(am, fm)
  BY <1>2, IdleSums, PulseSums, GapStartSums, GapSums DEF Process
<1>3. CASE UNCHANGED vars
  BY <1>3
  DEF vars, fskVars, ookVars, callVars, SumInv, OpenPackageConserved, CleanSlots,
      StartMarked, FskAccounted, Returned, OokPackageSpan, FskPackageSpan,
      StartMarksFirstPulse, StoredWidths, OpenPulse, Open, Ahead, Ago
<1> QED BY <1>1, <1>2, <1>3 DEF Next, Run

LEMMA DetectSums == Spec => []SumInv
<1>1. Init => SumInv BY SumInit
<1>2. IInv /\ SumInv /\ [Next]_vars => SumInv' BY SumStep
<1>3. QED BY <1>1, <1>2, DetectInvariant, PTL DEF Spec

\* However the stream is cut into buffers and whatever spurious pulses and gaps
\* are merged, no sample of an open package is lost or counted twice.
THEOREM DetectConserves == Spec => []OpenPackageConserved
<1>1. SumInv => OpenPackageConserved BY DEF SumInv
<1>2. QED BY <1>1, DetectSums, PTL

\* The widths of a returned OOK package add up to the stretch its ages name.
THEOREM DetectOokPackageSpan == Spec => []OokPackageSpan
<1>1. SumInv => OokPackageSpan BY DEF SumInv, Returned
<1>2. QED BY <1>1, DetectSums, PTL

\* So do those of a returned FSK package of the classic detector.
THEOREM DetectFskPackageSpan == Spec => []FskPackageSpan
<1>1. SumInv => FskPackageSpan BY DEF SumInv, Returned
<1>2. QED BY <1>1, DetectSums, PTL

\* The start mark of a returned OOK package is at one end of its first pulse.
THEOREM DetectStartMarksFirstPulse == Spec => []StartMarksFirstPulse
<1>1. SumInv => StartMarksFirstPulse BY DEF SumInv, Returned
<1>2. QED BY <1>1, DetectSums, PTL

-----------------------------------------------------------------------------
(* The callback's loop ends: what is left to do gets less with every step.  *)

\* The samples of the buffer that are left; a package that is open can still be returned
\* before the next of them is taken, and a call entered.
Work ==
  IF pc = "wait" THEN 0
    ELSE 4 * (len - ook.data_counter) + (IF Open THEN 2 ELSE 0) + (IF pc = "call" THEN 2 ELSE 1)

InBuffer == pc # "wait" => ook.data_counter <= len

\* A sample is taken, or a package returned in its place.
LEMMA SampleTaken ==
  ASSUME IInv, NEW am \in Levels, NEW fm \in Fm, Process(am, fm)
  PROVE  /\ Scanning /\ ook' \in OokState
         /\ \/ Consumed /\ ook'.data_counter = ook.data_counter + 1
            \/ /\ Open /\ pc' = "call" /\ len' = len
               /\ ook'.data_counter = ook.data_counter /\ ook'.ook_state = "IDLE"
<1>1. Scanning
  BY DEF Process, StartPackage, StayIdle, StayPulse, EndPulse, SpuriousPulse, ResumePulse,
         StayGapStart, ConfirmGap, ReturnFsk, StayGap, NewPulse, ReturnFull, ReturnOok
<1>2. ook \in OokState
  BY DEF IInv, TypeOK
<1>3. /\ ook.data_counter \in Nat
      /\ DOMAIN ook = {"ook_state", "pulse_length", "max_pulse", "data_counter", "lead_in_counter"}
  BY <1>2, OokFields
<1>4. ook' \in OokState
  <2>1. IInv'
    BY DetectStep DEF Next, Run
  <2> QED
    BY <2>1 DEF IInv, TypeOK
<1>5. \A s, w : OokTo(s, w) => ook'.data_counter = ook.data_counter + 1
  BY <1>3 DEF OokTo
<1>6. \A type, w : Return(type, w, am) =>
        /\ pc' = "call" /\ len' = len
        /\ ook'.data_counter = ook.data_counter /\ ook'.ook_state = "IDLE"
  BY <1>3 DEF Return
<1>7. Open <=> ook.ook_state # "IDLE"
  BY DEF Open
<1>8. CASE StartPackage(am) \/ StayIdle(am)
  BY <1>1, <1>3, <1>4, <1>8 DEF StartPackage, StayIdle, Continue
<1>9. CASE StayPulse(am, fm) \/ SpuriousPulse(am, fm)
  BY <1>1, <1>4, <1>5, <1>9 DEF StayPulse, SpuriousPulse, Continue
<1>10. CASE EndPulse(am, fm)
  BY <1>1, <1>3, <1>4, <1>10 DEF EndPulse, Continue
<1>11. CASE ResumePulse(am, fm) \/ StayGapStart(am, fm) \/ ConfirmGap(am, fm)
  BY <1>1, <1>4, <1>5, <1>11 DEF ResumePulse, StayGapStart, ConfirmGap, Continue
<1>12. CASE StayGap(am) \/ NewPulse(am)
  BY <1>1, <1>4, <1>5, <1>12 DEF StayGap, NewPulse, Continue
<1>13. CASE ReturnFsk(am) \/ ReturnFull(am) \/ ReturnOok(am)
  BY <1>1, <1>4, <1>6, <1>7, <1>13 DEF ReturnFsk, ReturnFull, ReturnOok
<1> QED
  BY <1>8, <1>9, <1>10, <1>11, <1>12, <1>13 DEF Process

LEMMA WorkFalls ==
  ASSUME IInv, InBuffer, Run
  PROVE  Work \in Nat /\ Work' \in Nat /\ Work' < Work /\ InBuffer'
<1>1. TypeOK /\ ook \in OokState /\ ook.data_counter \in Nat /\ len \in Nat
      /\ pc \in {"wait", "call", "scan"}
  BY OokFields, DetectAssumption DEF IInv, TypeOK
<1>2. CASE Enter
  <2>1. pc = "call" /\ pc' = "scan" /\ ook' = ook /\ len' = len
    BY <1>2 DEF Enter
  <2> QED
    BY <1>1, <2>1 DEF Work, InBuffer, Open
<1>3. CASE OutOfData
  <2>1. pc = "scan" /\ pc' = "wait"
    BY <1>3 DEF OutOfData
  <2> QED
    BY <1>1, <2>1 DEF Work, InBuffer
<1>4. ASSUME NEW am \in Levels, NEW fm \in Fm, Process(am, fm)
      PROVE  Work \in Nat /\ Work' \in Nat /\ Work' < Work /\ InBuffer'
  <2>1. pc = "scan" /\ ook.data_counter < len
    BY <1>4, SampleTaken DEF Scanning
  <2>2. CASE Consumed /\ ook'.data_counter = ook.data_counter + 1
    BY <1>1, <2>1, <2>2 DEF Consumed, Work, InBuffer
  <2>3. CASE /\ Open /\ pc' = "call" /\ len' = len
             /\ ook'.data_counter = ook.data_counter /\ ook'.ook_state = "IDLE"
    BY <1>1, <2>1, <2>3 DEF Work, InBuffer, Open
  <2> QED
    BY <1>4, <2>2, <2>3, SampleTaken
<1> QED
  BY <1>2, <1>3, <1>4 DEF Run

\* The callback's loop ends, however many packages a buffer holds: each step of it leaves
\* less to do, a natural number that is at most four times the samples of the buffer and
\* four.  With a step always possible, which TLC checks, this is BufferConsumed.
THEOREM DetectLoopEnds == Spec => [][Run => Work' \in Nat /\ Work' < Work]_vars
<1>1. Init => InBuffer
  BY DEF Init, InBuffer
<1>2. IInv /\ InBuffer /\ [Next]_vars => InBuffer'
  <2> SUFFICES ASSUME IInv, InBuffer, [Next]_vars
               PROVE  InBuffer'
    OBVIOUS
  <2>1. ASSUME NEW n \in Chunks, Deliver(n)
        PROVE  InBuffer'
    <3>1. pc = "wait" /\ ook' = ook /\ len' = n /\ n \in Nat
      BY <2>1, DetectAssumption DEF Deliver, ookVars
    <3>2. ook.data_counter = 0
      BY <3>1 DEF IInv
    <3> QED
      BY <3>1, <3>2 DEF InBuffer
  <2>2. CASE Run
    BY <2>2, WorkFalls
  <2>3. CASE UNCHANGED vars
    BY <2>3 DEF vars, ookVars, callVars, InBuffer
  <2> QED
    BY <2>1, <2>2, <2>3 DEF Next
<1>3. IInv /\ InBuffer /\ [Next]_vars => [Run => Work' \in Nat /\ Work' < Work]_vars
  BY WorkFalls
<1> QED
  BY <1>1, <1>2, <1>3, DetectInvariant, PTL DEF Spec

==============================================================================

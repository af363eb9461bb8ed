----------------------------- MODULE PulseDetect -----------------------------
(***************************************************************************)
(* pulse_detect_package (src/src/pulse_detect.c): OOK packages are cut out *)
(* of a sample stream that arrives in buffers; during the first pulse of a *)
(* package every sample also feeds an FSK detector.  The function returns  *)
(* when a package is complete and is called again for the same buffer,     *)
(* until the buffer is used up (sdr_callback, src/src/rtl_433.c:657-822).  *)
(*                                                                         *)
(* An envelope sample is "hi" above threshold + hysteresis, "lo" below     *)
(* threshold - hysteresis, "mid" between: the state machine decides on     *)
(* nothing else.  With a fixed level (ook_fixed_high_level) the threshold  *)
(* is a constant, so every sequence of classes is a possible input.        *)
(***************************************************************************)
EXTENDS FskDetect

CONSTANTS
  PD_MIN_PULSES,        \* an FSK package has more pulses than this
  MinGap, MaxGap,       \* PD_MIN_GAP_MS, PD_MAX_GAP_MS in samples
  PD_MAX_GAP_RATIO,
  OOK_EST_LOW_RATIO,    \* lead-in samples before a package may start
  Fm,                   \* classes of frequency samples the signal shows
  Chunks,               \* lengths of the buffers the SDR delivers
  MaxStream             \* bound: samples of the whole stream

ASSUME DetectAssumption ==
  /\ PD_MIN_PULSES \in Nat /\ PD_MAX_GAP_RATIO \in Nat /\ OOK_EST_LOW_RATIO \in Nat
  /\ MinGap \in Nat /\ MaxGap \in Nat
  /\ Fm \subseteq FmClasses
  /\ Chunks \subseteq Nat \ {0} /\ MaxStream \in Nat

VARIABLES
  ook,               \* the scalar fields of struct pulse_detect
  pulses,            \* the OOK pulse train being built
  start,             \* *start: first OOK pulse, relative to the current buffer
  pc,                \* where the callback is: "wait", "call" or "scan"
  len,               \* samples of the current buffer
  fpdm,              \* the FSK detector (FskStream models retuning)
  eop_on_spurious,   \* local variable of pulse_detect_package
  returned,          \* package_type of a call that just returned a package
  unread,            \* class of a sample examined but not consumed
  input_pos          \* samples of the stream before the current buffer

ookVars  == <<ook, pulses, start>>
callVars == <<pc, len, fpdm, eop_on_spurious, returned, unread, input_pos>>
vars     == <<fskVars, ookVars, callVars>>

OokStates == {"IDLE", "PULSE", "GAP_START", "GAP"}
Levels    == {"lo", "mid", "hi"}
Detectors == {"classic", "minmax"}
Packages  == {"none", "OOK", "FSK"}

OokState ==
  [ ook_state: OokStates, pulse_length: Nat, max_pulse: Nat, data_counter: Nat,
    lead_in_counter: 0 .. OOK_EST_LOW_RATIO + 1 ]

MaxOf(a, b) == IF a > b THEN a ELSE b

\* Samples from the one being processed to the end of the buffer.
Ago == len - ook.data_counter

Init ==
  /\ ook = [ ook_state |-> "IDLE", pulse_length |-> 0, max_pulse |-> 0,
             data_counter |-> 0, lead_in_counter |-> 0 ]
  /\ pulses = pulse_data_clear /\ start = 0
  /\ fsk = pulse_detect_fsk_init /\ fsk_pulses = pulse_data_clear /\ startFsk = 0
  /\ pc = "wait" /\ len = 0 /\ fpdm \in Detectors /\ eop_on_spurious = FALSE
  /\ returned = "none" /\ unread = "none" /\ input_pos = 0

-----------------------------------------------------------------------------
(* The callback and the entry and exit of pulse_detect_package.             *)

\* sdr_callback gets a buffer of n samples.
Deliver(n) ==
  /\ pc = "wait" /\ input_pos + n <= MaxStream
  /\ pc' = "call" /\ len' = n
  /\ returned' = "none"
  /\ UNCHANGED <<fskVars, ookVars, fpdm, eop_on_spurious, unread, input_pos>>

\* Faulty: an open package does not age with the buffers.
EnterUnaged ==
  /\ pc = "call"
  /\ pc' = "scan" /\ eop_on_spurious' = FALSE /\ returned' = "none"
  /\ UNCHANGED <<fskVars, ookVars, len, fpdm, unread, input_pos>>

\* Faulty: every call reads the buffer from its first sample.
EnterRewound ==
  /\ pc = "call"
  /\ pc' = "scan" /\ eop_on_spurious' = FALSE /\ returned' = "none"
  /\ ook' = [ook EXCEPT !.data_counter = 0]
  /\ pulses' = [pulses EXCEPT !.start_ago = @ + len]
  /\ fsk_pulses' = [fsk_pulses EXCEPT !.start_ago = @ + len]
  /\ unread' = "none"
  /\ UNCHANGED <<fsk, startFsk, start, len, fpdm, input_pos>>

\* Entry: the trains age when the buffer is fresh, the locals are initialised.
Enter ==
  /\ pc = "call"
  /\ pc' = "scan" /\ eop_on_spurious' = FALSE /\ returned' = "none"
  /\ LET Aged(data) == IF ook.data_counter = 0
                       THEN [data EXCEPT !.start_ago = @ + len] ELSE data
     IN  pulses' = Aged(pulses) /\ fsk_pulses' = Aged(fsk_pulses)
  /\ UNCHANGED <<fsk, startFsk, ook, start, len, fpdm, unread, input_pos>>

\* Faulty: the start mark is not moved past the buffer.
OutOfDataUnmoved ==
  /\ pc = "scan" /\ ook.data_counter = len
  /\ pc' = "wait"
  /\ ook' = [ook EXCEPT !.data_counter = 0]
  /\ start' = FirstStart(start, pulses, ook.data_counter)
  /\ startFsk' = startFsk - len
  /\ input_pos' = input_pos + len
  /\ UNCHANGED <<fsk, fsk_pulses, pulses, len, fpdm, eop_on_spurious, returned, unread>>

\* Out of data: the callback's loop ends, and it moves the start marks and the
\* stream position past the buffer.
OutOfData ==
  /\ pc = "scan" /\ ook.data_counter = len
  /\ pc' = "wait"
  /\ ook' = [ook EXCEPT !.data_counter = 0]
  /\ start' = FirstStart(start, pulses, ook.data_counter) - len
  /\ startFsk' = startFsk - len
  /\ input_pos' = input_pos + len
  /\ UNCHANGED <<fsk, fsk_pulses, pulses, len, fpdm, eop_on_spurious, returned, unread>>

\* One more sample of the buffer is done.
Scanning == pc = "scan" /\ ook.data_counter < len

OokTo(state, length) ==
  ook' = [ook EXCEPT !.ook_state = state, !.pulse_length = length,
                     !.data_counter = @ + 1]

Consumed == unread' = "none" /\ UNCHANGED <<pc, len, fpdm, returned, input_pos>>
Continue == Consumed /\ UNCHANGED eop_on_spurious

MarkOokStart(length) == start' = FirstStart(start, pulses, ook.data_counter - length)

\* Only the first pulse of a package, and the gap after it, feed the FSK
\* detector.
FskSample(fm) ==
  IF pulses.num_pulses = 0
  THEN \/ fpdm = "classic" /\ pulse_detect_fsk_classic(fm, ook.data_counter)
       \/ fpdm = "minmax" /\ pulse_detect_fsk_minmax(fm, ook.data_counter)
  ELSE UNCHANGED fskVars

GapClosed(data, w) == NextPulse(StoreGap(data, w))

\* A complete package is returned; the sample that ended it is not consumed,
\* and as no estimate changed it has the same class when it is read again.
Return(type, length, am) ==
  /\ ook' = [ook EXCEPT !.ook_state = "IDLE", !.pulse_length = length]
  /\ returned' = type /\ unread' = am /\ pc' = "call"
  /\ UNCHANGED <<len, fpdm, eop_on_spurious, input_pos>>

-----------------------------------------------------------------------------
(* PD_OOK_STATE_IDLE                                                        *)

LeadInDone == ook.lead_in_counter > OOK_EST_LOW_RATIO

\* Faulty: the offset is that of the buffer.
StartPackageAtBuffer(am) ==
  /\ Scanning /\ ook.ook_state = "IDLE" /\ am = "hi" /\ LeadInDone
  /\ LET fresh == [pulse_data_clear EXCEPT !.offset = input_pos, !.start_ago = Ago]
     IN  pulses' = fresh /\ fsk_pulses' = fresh
  /\ start' = 0 /\ startFsk' = 0
  /\ fsk' = pulse_detect_fsk_init
  /\ ook' = [ook EXCEPT !.ook_state = "PULSE", !.pulse_length = 0, !.max_pulse = 0,
                        !.data_counter = @ + 1]
  /\ Continue

StartPackage(am) ==
  /\ Scanning /\ ook.ook_state = "IDLE" /\ am = "hi" /\ LeadInDone
  /\ LET fresh == [pulse_data_clear EXCEPT !.offset = input_pos + ook.data_counter,
                                           !.start_ago = Ago]
     IN  pulses' = fresh /\ fsk_pulses' = fresh
  /\ start' = 0 /\ startFsk' = 0
  /\ fsk' = pulse_detect_fsk_init
  /\ ook' = [ook EXCEPT !.ook_state = "PULSE", !.pulse_length = 0, !.max_pulse = 0,
                        !.data_counter = @ + 1]
  /\ Continue

\* Faulty: the lead-in counter is not capped.
StayIdleUncapped(am) ==
  /\ Scanning /\ ook.ook_state = "IDLE" /\ ~(am = "hi" /\ LeadInDone)
  /\ ook' = [ook EXCEPT !.lead_in_counter = @ + 1, !.data_counter = @ + 1]
  /\ UNCHANGED <<fskVars, pulses, start>> /\ Continue

StayIdle(am) ==
  /\ Scanning /\ ook.ook_state = "IDLE" /\ ~(am = "hi" /\ LeadInDone)
  /\ ook' = [ook EXCEPT !.lead_in_counter = IF LeadInDone THEN @ ELSE @ + 1,
                        !.data_counter = @ + 1]
  /\ UNCHANGED <<fskVars, pulses, start>> /\ Continue

-----------------------------------------------------------------------------
(* PD_OOK_STATE_PULSE                                                       *)

StayPulse(am, fm) ==
  /\ Scanning /\ ook.ook_state = "PULSE" /\ am # "lo"
  /\ OokTo("PULSE", ook.pulse_length + 1)
  /\ UNCHANGED <<pulses, start>> /\ FskSample(fm) /\ Continue

EndPulse(am, fm) ==
  LET w == ook.pulse_length + 1 IN
  /\ Scanning /\ ook.ook_state = "PULSE" /\ am = "lo" /\ w >= PD_MIN_PULSE_SAMPLES
  /\ pulses' = StorePulse(pulses, w)
  /\ MarkOokStart(w)
  /\ ook' = [ook EXCEPT !.ook_state = "GAP_START", !.pulse_length = 0,
                        !.max_pulse = MaxOf(w, @), !.data_counter = @ + 1]
  /\ FskSample(fm) /\ Continue

\* A spurious short pulse: at the start of a package it is forgotten, later it
\* asks for the end of the package at the next sample.
SpuriousPulse(am, fm) ==
  LET w == ook.pulse_length + 1 IN
  /\ Scanning /\ ook.ook_state = "PULSE" /\ am = "lo" /\ w < PD_MIN_PULSE_SAMPLES
  /\ IF pulses.num_pulses <= 1
     THEN OokTo("IDLE", w) /\ UNCHANGED eop_on_spurious
     ELSE OokTo("GAP", w) /\ eop_on_spurious' = TRUE
  /\ UNCHANGED <<pulses, start>> /\ FskSample(fm) /\ Consumed

-----------------------------------------------------------------------------
(* PD_OOK_STATE_GAP_START                                                   *)

\* Faulty: the width of the pulse that goes on is forgotten.
ResumePulseLossy(am, fm) ==
  /\ Scanning /\ ook.ook_state = "GAP_START" /\ am = "hi"
  /\ OokTo("PULSE", ook.pulse_length + 1)
  /\ UNCHANGED <<pulses, start>> /\ FskSample(fm) /\ Continue

\* The gap was spurious: the pulse goes on.
ResumePulse(am, fm) ==
  /\ Scanning /\ ook.ook_state = "GAP_START" /\ am = "hi"
  /\ OokTo("PULSE", ook.pulse_length + 1 + pulses.pulse[pulses.num_pulses])
  /\ UNCHANGED <<pulses, start>> /\ FskSample(fm) /\ Continue

StayGapStart(am, fm) ==
  LET w == ook.pulse_length + 1 IN
  /\ Scanning /\ ook.ook_state = "GAP_START" /\ am # "hi" /\ w < PD_MIN_PULSE_SAMPLES
  /\ OokTo("GAP_START", w)
  /\ UNCHANGED <<pulses, start>> /\ FskSample(fm) /\ Continue

IsFsk == fsk_pulses.num_pulses > PD_MIN_PULSES

ConfirmGap(am, fm) ==
  LET w == ook.pulse_length + 1 IN
  /\ Scanning /\ ook.ook_state = "GAP_START" /\ am # "hi" /\ w >= PD_MIN_PULSE_SAMPLES
  /\ ~IsFsk
  /\ OokTo("GAP", w)
  /\ UNCHANGED <<pulses, start>> /\ FskSample(fm) /\ Continue

\* The first pulse was modulated: it is returned as an FSK package.
ReturnFsk(am) ==
  LET w == ook.pulse_length + 1 IN
  /\ Scanning /\ ook.ook_state = "GAP_START" /\ am # "hi" /\ w >= PD_MIN_PULSE_SAMPLES
  /\ IsFsk
  /\ IF fpdm = "classic"
     THEN /\ fsk' = WrapUpState /\ startFsk' = WrapUpStart(ook.data_counter)
          /\ fsk_pulses' = [WrapUpPulses EXCEPT !.end_ago = Ago]
     ELSE /\ UNCHANGED <<fsk, startFsk>>
          /\ fsk_pulses' = [fsk_pulses EXCEPT !.end_ago = Ago]
  /\ pulses' = [pulses EXCEPT !.end_ago = Ago]
  /\ UNCHANGED start
  /\ Return("FSK", w, am)

-----------------------------------------------------------------------------
(* PD_OOK_STATE_GAP                                                         *)

\* The gap, w samples so far, is long enough to end the package.
GapEndsPackage(w) ==
  \/ eop_on_spurious
  \/ w > PD_MAX_GAP_RATIO * ook.max_pulse /\ w > MinGap
  \/ w > MaxGap

StayGap(am) ==
  LET w == ook.pulse_length + 1 IN
  /\ Scanning /\ ook.ook_state = "GAP" /\ am # "hi" /\ ~GapEndsPackage(w)
  /\ OokTo("GAP", w)
  /\ UNCHANGED <<fskVars, pulses, start>> /\ Continue

\* Faulty: no test for a full train.
NewPulseUnbounded(am) ==
  LET w == ook.pulse_length + 1 IN
  /\ Scanning /\ ook.ook_state = "GAP" /\ am = "hi" /\ ~GapEndsPackage(0)
  /\ MarkOokStart(w)
  /\ pulses' = GapClosed(pulses, w)
  /\ OokTo("PULSE", 0)
  /\ UNCHANGED fskVars /\ Continue

\* A new pulse.  The counter restarts, so the tests for the end of the package
\* that follow in the code can only see a pending spurious pulse.
NewPulse(am) ==
  LET w == ook.pulse_length + 1
      d == GapClosed(pulses, w)
  IN
  /\ Scanning /\ ook.ook_state = "GAP" /\ am = "hi"
  /\ d.num_pulses < PD_MAX_PULSES /\ ~GapEndsPackage(0)
  /\ MarkOokStart(w)
  /\ pulses' = d
  /\ OokTo("PULSE", 0)
  /\ UNCHANGED fskVars /\ Continue

\* End of package: too many pulses.
ReturnFull(am) ==
  LET w == ook.pulse_length + 1
      d == GapClosed(pulses, w)
  IN
  /\ Scanning /\ ook.ook_state = "GAP" /\ am = "hi" /\ d.num_pulses >= PD_MAX_PULSES
  /\ MarkOokStart(w)
  /\ pulses' = [d EXCEPT !.end_ago = Ago]
  /\ UNCHANGED fskVars
  /\ Return("OOK", w, am)

\* Faulty: the sample that ends the package is not counted.
ReturnOokShort(am) ==
  LET w == ook.pulse_length
      d == IF am = "hi" THEN GapClosed(pulses, w) ELSE pulses
      u == IF am = "hi" THEN 0 ELSE w
  IN
  /\ Scanning /\ ook.ook_state = "GAP" /\ GapEndsPackage(IF am = "hi" THEN 0 ELSE w + 1)
  /\ am = "hi" => d.num_pulses < PD_MAX_PULSES
  /\ start' = FirstStart(start, pulses, ook.data_counter - w)
  /\ pulses' = [GapClosed(d, u) EXCEPT !.end_ago = Ago]
  /\ UNCHANGED fskVars
  /\ Return("OOK", u, am)

\* End of package: the gap is too long, or a pulse was spurious.  If this very
\* sample also starts a pulse, both stores happen.
ReturnOok(am) ==
  LET w == ook.pulse_length + 1
      d == IF am = "hi" THEN GapClosed(pulses, w) ELSE pulses
      u == IF am = "hi" THEN 0 ELSE w
  IN
  /\ Scanning /\ ook.ook_state = "GAP" /\ GapEndsPackage(u)
  /\ am = "hi" => d.num_pulses < PD_MAX_PULSES
  /\ start' = FirstStart(start, pulses, ook.data_counter - w)
  /\ pulses' = [GapClosed(d, u) EXCEPT !.end_ago = Ago]
  /\ UNCHANGED fskVars
  /\ Return("OOK", u, am)

-----------------------------------------------------------------------------
Process(am, fm) ==
  /\ unread \in {"none", am}
  /\ \/ StartPackage(am) \/ StayIdle(am)
     \/ StayPulse(am, fm) \/ EndPulse(am, fm) \/ SpuriousPulse(am, fm)
     \/ ResumePulse(am, fm) \/ StayGapStart(am, fm) \/ ConfirmGap(am, fm)
     \/ ReturnFsk(am)
     \/ StayGap(am) \/ NewPulse(am) \/ ReturnFull(am) \/ ReturnOok(am)

\* One step of the callback: the loop of sdr_callback around the detector.
Run == Enter \/ OutOfData \/ \E am \in Levels, fm \in Fm : Process(am, fm)

Next == (\E n \in Chunks : Deliver(n)) \/ Run

Spec == Init /\ [][Next]_vars

\* The callback runs to its end on the thread that delivers the buffer.
FairSpec == Spec /\ WF_vars(Run)

-----------------------------------------------------------------------------
TypeOK ==
  /\ ook \in OokState /\ pulses \in PulseTrain /\ start \in Int
  /\ fsk \in FskState /\ fsk_pulses \in PulseTrain /\ startFsk \in Int
  /\ pc \in {"wait", "call", "scan"} /\ len \in Chunks \cup {0}
  /\ fpdm \in Detectors /\ eop_on_spurious \in BOOLEAN
  /\ returned \in Packages /\ unread \in Levels \cup {"none"}
  /\ input_pos \in Nat

Open == ook.ook_state # "IDLE"

\* Every slot the detector addresses exists: while a package is open, pulse[n]
\* and gap[n] for n = num_pulses are inside the arrays, at every store of
\* pulse_detect.c (348, 379, 425, 449), also when one sample stores twice.
SlotsInRange ==
  /\ Open => pulses.num_pulses < PD_MAX_PULSES
  /\ Open => fsk_pulses.num_pulses < PD_MAX_PULSES
  /\ Open /\ fsk.fsk_state = "FH" => fsk_pulses.num_pulses >= 1

\* Samples of the buffer not yet processed that start_ago already counts.
Ahead == IF pc = "scan" \/ ook.data_counter > 0 THEN Ago ELSE 0

\* start_ago ages by whole buffers, when a call starts at the first sample of
\* one (pulse_detect.c:276-280), offset is absolute: however often the function
\* returned and was called again, both locate the trigger of the open package
\* at the same sample.
TriggerLocated ==
  Open => pulses.offset + pulses.start_ago = input_pos + ook.data_counter + Ahead

StoredWidths(data) == Covered(data, data.num_pulses)

\* The pulse whose gap is still running.
OpenPulse ==
  IF ook.ook_state \in {"GAP_START", "GAP"} THEN pulses.pulse[pulses.num_pulses] ELSE 0

\* While a package is open, however the stream was cut into buffers and
\* whatever spurious pulses and gaps were merged, the stored widths account
\* for every sample since the trigger.
OpenPackageConserved ==
  Open => StoredWidths(pulses) + OpenPulse + ook.pulse_length
            = pulses.start_ago - Ahead - 1

\* A returned OOK package covers exactly the samples between the ages it
\* reports, from start_ago to end_ago (pulse_data.h:33-34).
OokPackageSpan ==
  returned = "OOK" => StoredWidths(pulses) = pulses.start_ago - pulses.end_ago

\* The same for a package of the classic FSK detector, whose last pulse is
\* wrapped up, as long as nothing was shifted out of its train.
FskPackageSpan ==
  /\ returned = "FSK" /\ pulses.num_pulses = 0
  /\ fpdm = "classic" /\ fsk_pulses.offset = pulses.offset
  =>
    StoredWidths(fsk_pulses) = fsk_pulses.start_ago - fsk_pulses.end_ago

\* *start, relative to the current buffer, is where the first pulse begins.  0
\* also means "not set", so a package triggered by the first sample of a buffer
\* is marked at the end of its first pulse instead.
StartMarksFirstPulse ==
  returned = "OOK" =>
    input_pos + start \in {pulses.offset, pulses.offset + pulses.pulse[0]}

\* The detector keeps the promise of PackageStream, for the stretch between
\* the two ages a returned package reports.
Abstract ==
  INSTANCE PackageStream WITH
    now  <- input_pos + ook.data_counter,
    open <- IF Open THEN pulses.offset ELSE -1,
    out  <- IF returned = "none" THEN <<-1, -1>>
            ELSE <<pulses.offset, pulses.offset + pulses.start_ago - pulses.end_ago>>

ImplementsPackageStream == Abstract!Spec

\* Every buffer is used up: no sequence of packages keeps the callback's loop
\* from ending.
BufferConsumed == pc = "call" ~> pc = "wait"

==============================================================================

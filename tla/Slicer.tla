------------------------------- MODULE Slicer -------------------------------
(***************************************************************************)
(* The slicers (src/src/pulse_slicer.c): one call of the slicer of one     *)
(* device on one pulse train.  A step is one turn of the slicer's loop,    *)
(* which looks at one pulse and its gap, or, where both can be symbols, at *)
(* one of the two.  What account_event gives to the decoder is recorded.   *)
(* The slicer of test data looks at one row of the code in a step.         *)
(***************************************************************************)
EXTENDS BitBuffer, SequencesExt

CONSTANTS
  Devices,          \* [modulation, short_width, long_width, gap_limit, reset_limit, sync_width, tolerance]
  Signals,          \* for each device what it may receive: [train, sent]
  SamplesPerMs,     \* the sample rate; widths of devices are in us
  BehindTrain,      \* sums of a pulse and a gap that may be read behind the train
  MinRzPreamble,    \* 4: toggles from which the bit period is tuned, RZ
  MinNrzPreamble,   \* 12: the same, NRZ
  MinRzMeasured,    \* 8: bits anywhere from which it is tuned, RZ
  MinNrzMeasured    \* 20: the same, NRZ

DeviceType ==
  [ modulation : STRING, short_width : Nat \ {0}, long_width : Nat, gap_limit : Nat,
    reset_limit : Nat, sync_width : Nat, tolerance : Nat ]

Codes  == [bits : Seq(0 .. 1), width : Nat \cup {-1}]
Pulses == {p \in [pulse : Nat, gap : Nat] : p.pulse + p.gap > 0}

\* Every device has a short width, and a PCM device a bit period.  The detectors count
\* widths from 1: only the first pulse of a train can be empty, which stands for the gap
\* that an FSK transmission starts with, and the last gap, when it ends with a pulse.
\* Where a bit period is measured this must be so, of others the sum of both is enough.
\* Two empty widths may count for up to three bits each, which must not be enough to tune.
ASSUME SlicerAssumption ==
  /\ SamplesPerMs \in Nat
  /\ BehindTrain # {} /\ BehindTrain \subseteq Nat
  /\ {MinRzPreamble, MinNrzPreamble} \subseteq Nat \ 0 .. 1
  /\ {MinRzMeasured, MinNrzMeasured} \subseteq Nat \ 0 .. 5
  /\ Devices \subseteq DeviceType
  /\ \A d \in Devices : d.modulation = "PCM" => d.long_width > 0
  /\ \A d \in Devices : \A signal \in Signals[d] :
       /\ signal.train \in Seq(IF d.modulation = "STRING" THEN Codes ELSE Pulses)
       /\ d.modulation = "PCM" =>
            \A k \in 2 .. Len(signal.train) :
              signal.train[k].pulse > 0 /\ signal.train[k - 1].gap > 0

VARIABLES
  device,           \* the r_device
  train,            \* pulse_data_t: a sequence of [pulse, gap]
  sent,             \* auxiliary: the rows of bits the train was made from
  n,                \* the pulse or symbol that is next, from 0
  bits,             \* the bit buffer
  l,                \* samples since the row began
  time_since_last,  \* Manchester: samples since the last bit
  rate,             \* PCM: f_short and f_long
  manbit,           \* OSV1: 1 in the first half of a bit
  events,           \* auxiliary: what the decoder was given
  undefined         \* auxiliary: the code has no defined behaviour any more

given == <<device, train, sent, rate>>
vars  == <<device, train, sent, rate, n, bits, l, time_since_last, manbit, events, undefined>>

-----------------------------------------------------------------------------
(* The device's widths in samples.                                          *)

Samples(width) == (width * SamplesPerMs) \div 1000

s_short     == Samples(device.short_width)
s_long      == Samples(device.long_width)
s_reset     == Samples(device.reset_limit)
s_gap       == Samples(device.gap_limit)
s_sync      == Samples(device.sync_width)
s_tolerance == Samples(device.tolerance)

\* No slicer runs when a width is rounded to zero.
RateTooLow(d) ==
  \E w \in {d.short_width, d.long_width, d.reset_limit, d.gap_limit, d.sync_width, d.tolerance} :
    w > 0 /\ Samples(w) = 0

num_pulses == Len(train)

\* Those of the train, k < num_pulses.
Pulse(k) == train[k + 1].pulse
Gap(k)   == train[k + 1].gap

Symbol(k) == IF k % 2 = 0 THEN Pulse(k \div 2) ELSE Gap(k \div 2)

Least(a, b)    == IF a < b THEN a ELSE b
Distance(a, b) == IF a < b THEN b - a ELSE a - b

LastPulse == n = num_pulses - 1

-----------------------------------------------------------------------------
(* The slicers work on the buffer and the length of its row.                *)

Buffer == [bits |-> bits, l |-> l]

Longer(s, width) == [s EXCEPT !.l = @ + width]

Add(s, bit, count) ==
  LET added[k \in 0 .. count] ==
        IF k = 0 THEN s.bits ELSE bitbuffer_add_bit(added[k - 1], bit)
  IN  IF count <= 0 THEN s ELSE [s EXCEPT !.bits = added[count]]

\* Mutant: the length goes on in the next row.
EndRowGoingOn(s) == [bits |-> bitbuffer_add_row(s.bits, s.l), l |-> s.l]

EndRow(s) == [bits |-> bitbuffer_add_row(s.bits, s.l), l |-> 0]

Sync(s) ==
  [ bits |-> bitbuffer_add_sync(s.bits, s.l),
    l    |-> IF SyncEndsRow(s.bits) THEN 0 ELSE s.l ]

\* Mutant: the end of a message leaves the length of the last row out.
LastLenForgotten(s) == s

LastLen(s) == [s EXCEPT !.bits = bitbuffer_add_last_len(@, s.l)]

HasRow(s)  == s.bits.num_rows > 0
RowHasBits(s) == HasRow(s) /\ s.bits.bits_per_row[CurrentRow(s.bits)] > 0

\* "Only if data has been accumulated", as PCM and PPM ask it.
Accumulated(s) == s.bits.bits_per_row[0] > 0 \/ s.bits.num_rows > 1

RowBitsOf(b, r) == [i \in 1 .. b.bits_per_row[r] |-> b.bb[Index(r, i - 1)]]

\* A last row without a length is taken back.
Unmeasured(b) == b.len_rows[CurrentRow(b)] = 0
DropRow(b)    == IF Unmeasured(b) THEN [b EXCEPT !.num_rows = @ - 1] ELSE b

\* What the decoder is given: its rows, the bits of the row taken back, and whether
\* there was no row left.
Event(b) ==
  [ rows    |-> [r \in 1 .. DropRow(b).num_rows |->
                  [bits |-> RowBitsOf(b, r - 1), len |-> b.len_rows[r - 1]]],
    dropped |-> IF Unmeasured(b) THEN b.bits_per_row[CurrentRow(b)] ELSE 0,
    full    |-> NoMoreRows(b),
    last    |-> n ]

\* The buffer as the decoder leaves it; decoders invert it in place.
Decoded(b) == {DropRow(b), bitbuffer_invert(DropRow(b))}

\* Without any row account_event looks in front of the array, and when it finds
\* a 0 there the buffer has 65535 rows.
account_event(b) ==
  IF b.num_rows > 0
    THEN events' = Append(events, Event(b)) /\ undefined' = FALSE
    ELSE \/ events' = Append(events, [rows |-> <<>>, dropped |-> 0, full |-> FALSE, last |-> n]) /\ undefined' = FALSE
         \/ events' = events /\ undefined' = TRUE

Continue(s) ==
  bits' = s.bits /\ l' = s.l /\ UNCHANGED <<events, undefined>>

\* The event, and an empty buffer; the length goes on.
EndMessage(s) ==
  account_event(s.bits) /\ bits' = bitbuffer_clear /\ l' = s.l

\* The event, and the buffer goes on as the decoder left it.
EndMessageKept(s) ==
  /\ account_event(s.bits)
  /\ IF HasRow(s) THEN bits' \in Decoded(s.bits) ELSE bits' = s.bits
  /\ l' = s.l

Slicing(modulation) == device.modulation = modulation /\ ~undefined

EachPulse(modulation) ==
  Slicing(modulation) /\ n < num_pulses /\ n' = n + 1

-----------------------------------------------------------------------------
(* PCM: each bit period starts with a pulse or not.                         *)

RZ == s_short # s_long

GapLimit     == IF s_gap > 0 THEN s_gap ELSE s_reset
MaxZeros     == GapLimit \div s_long
PcmTolerance == IF s_tolerance > 0 THEN s_tolerance ELSE s_long \div 4

\* Bit periods in a width; a rate is [bits, samples], rounded half up.
Periods(width, by) == (2 * width * by.bits + by.samples) \div (2 * by.samples)

Around(width, nominal) == Distance(width, nominal) <= PcmTolerance

RzBit(p) == Around(p.pulse, s_short) /\ Around(p.pulse + p.gap, s_long)

Rate(count, samples) == [bits |-> count, samples |-> samples]
Rates(short, long)   == [f_short |-> short, f_long |-> long]

\* One bit in a device's width, which is not rounded to samples here.
Nominal(width) == Rate(1000, width * SamplesPerMs)

\* A run of bit-wide toggles is measured; one at least as long as the last tunes.
Tuning ==
  [ f_short |-> Nominal(device.short_width), f_long |-> Nominal(device.long_width), preamble |-> 0,
    min_count |-> IF RZ THEN MinRzPreamble ELSE MinNrzPreamble,
    count |-> 0, swidth |-> 0, lwidth |-> 0 ]

Toggle(t, p) ==
  IF RZ THEN RzBit(p)
        ELSE Periods(p.pulse, t.f_short) = 1 /\ Periods(p.gap, t.f_long) = 1

Measure(t, p) ==
  [ t EXCEPT !.count  = @ + (IF RZ THEN 1 ELSE 2),
             !.swidth = @ + p.pulse + (IF RZ THEN 0 ELSE p.gap),
             !.lwidth = @ + p.pulse + p.gap ]

EndRun(t) ==
  LET none == [t EXCEPT !.count = 0, !.swidth = 0, !.lwidth = 0]
  IN  IF t.count < t.min_count THEN none
        ELSE [ none EXCEPT !.f_short = Rate(t.count, t.swidth), !.f_long = Rate(t.count, t.lwidth),
                           !.min_count = t.count, !.preamble = t.count ]

Preamble ==
  LET run[k \in 0 .. num_pulses] ==
        IF k = 0 THEN Tuning
          ELSE LET t == run[k - 1]
               IN  IF Toggle(t, train[k]) THEN Measure(t, train[k]) ELSE EndRun(t)
  IN  EndRun(run[num_pulses])

\* Without a preamble all bits within tolerance are measured.
MeasuredRz(t, p) == IF RzBit(p) THEN Measure(t, p) ELSE t

MeasuredAs(t, width, count, nominal) ==
  IF Around(width, nominal)
    THEN [t EXCEPT !.count = @ + count, !.swidth = @ + width, !.lwidth = @ + width] ELSE t

\* With a wide tolerance it may be both one bit and two.
MeasuredNrz(t, width, short) ==
  MeasuredAs(MeasuredAs(t, width, 1, short), width, 2, 2 * short)

Measured ==
  LET upto[k \in 0 .. num_pulses] ==
        IF k = 0 THEN Tuning
          ELSE LET t == upto[k - 1]
                   p == train[k]
               IN  IF RZ THEN MeasuredRz(t, p)
                         ELSE MeasuredNrz(MeasuredNrz(t, p.pulse, s_short), p.gap, s_long)
  IN  upto[num_pulses]

\* The bit period the train is cut with.
Tuned ==
  LET t   == Preamble
      all == Measured
  IN  IF t.preamble = 0 /\ all.count > (IF RZ THEN MinRzMeasured ELSE MinNrzMeasured)
        THEN Rates(Rate(all.count, all.swidth), Rate(all.count, all.lwidth))
        ELSE Rates(t.f_short, t.f_long)

PcmHighs == Periods(Pulse(n), rate.f_short)
PcmLows  == Least(Periods(Gap(n) + s_short - s_long, rate.f_long), MaxZeros)

PcmBits ==
  LET last_l == (Pulse(n) + Gap(n)) % (UINT16_MAX + 1)
  IN  Add(Add(Longer(Buffer, last_l), 1, PcmHighs), 0, PcmLows)

Corrupt == RZ /\ Distance(Pulse(n), s_short) > PcmTolerance

PcmRow ==
  IF Corrupt THEN [PcmBits EXCEPT !.bits = bitbuffer_clear]
    ELSE IF Gap(n) > GapLimit /\ Gap(n) <= s_reset THEN EndRow(PcmBits) ELSE PcmBits

pulse_slicer_pcm ==
  /\ EachPulse("PCM")
  /\ LET s == PcmRow
     IN  IF (LastPulse \/ Gap(n) > s_reset) /\ Accumulated(s)
           THEN EndMessage(EndRow(s)) ELSE Continue(s)
  /\ UNCHANGED <<time_since_last, manbit>>

-----------------------------------------------------------------------------
(* PPM and PWM: the width of a gap or of a pulse is a bit.  Bounds are       *)
(* exclusive.                                                               *)

INT_MAX == 2147483647

Between(width, bound) == width > bound[1] /\ width < bound[2]
Near(nominal) == <<nominal - s_tolerance, nominal + s_tolerance>>
Middle(a, b)  == (a + b) \div 2 + 1
NoSync        == <<0, 0>>

PpmBounds ==
  IF s_tolerance > 0
    THEN [ zero |-> Near(s_short), one |-> Near(s_long),
           sync |-> IF s_sync > 0 THEN Near(s_sync) ELSE NoSync ]
    ELSE [ zero |-> <<0, Middle(s_short, s_long)>>,
           one  |-> <<Middle(s_short, s_long) - 1, GapLimit>>, sync |-> NoSync ]

PpmGap ==
  LET s == Longer(Buffer, Pulse(n) + Gap(n))
      w == Gap(n)
  IN  IF Between(w, PpmBounds.zero) THEN Add(s, 0, 1)
        ELSE IF Between(w, PpmBounds.one) THEN Add(s, 1, 1)
        ELSE IF Between(w, PpmBounds.sync) THEN Sync(s)
        ELSE IF w < s_reset THEN EndRow(s)
        ELSE s

pulse_slicer_ppm ==
  /\ EachPulse("PPM")
  /\ LET s == PpmGap
     IN  IF (LastPulse \/ Gap(n) >= s_reset) /\ Accumulated(s)
           THEN EndMessage(LastLen(s)) ELSE Continue(s)
  /\ UNCHANGED <<time_since_last, manbit>>

\* Without a tolerance the widths lie in the order of their lengths.
PwmBounds ==
  LET upto(w)    == <<0, w>>
      from(w, v) == <<w - 1, v>>
      mid        == Middle(s_short, s_long)
  IN  IF s_tolerance > 0
        THEN [ one |-> Near(s_short), zero |-> Near(s_long),
               sync |-> IF s_sync > 0 THEN Near(s_sync) ELSE NoSync ]
      ELSE IF s_sync <= 0
        THEN [one |-> upto(mid), zero |-> from(mid, INT_MAX), sync |-> NoSync]
      ELSE IF s_sync < s_short
        THEN [ sync |-> upto(Middle(s_sync, s_short)),
               one |-> from(Middle(s_sync, s_short), mid), zero |-> from(mid, INT_MAX) ]
      ELSE IF s_sync < s_long
        THEN [ one |-> upto(Middle(s_short, s_sync)),
               sync |-> from(Middle(s_short, s_sync), Middle(s_sync, s_long)),
               zero |-> from(Middle(s_sync, s_long), INT_MAX) ]
        ELSE [ one |-> upto(mid), zero |-> from(mid, Middle(s_long, s_sync)),
               sync |-> from(Middle(s_long, s_sync), INT_MAX) ]

PwmPulse ==
  LET s == Longer(Buffer, Pulse(n) + Gap(n))
      w == Pulse(n)
  IN  IF Between(w, PwmBounds.one) THEN Add(s, 1, 1)
        ELSE IF Between(w, PwmBounds.zero) THEN Add(s, 0, 1)
        ELSE IF Between(w, PwmBounds.sync) THEN Sync(s)
        ELSE IF w <= PwmBounds.one[1] THEN s
        ELSE EndRow(s)

pulse_slicer_pwm ==
  /\ EachPulse("PWM")
  /\ LET s == PwmPulse
     IN  CASE (LastPulse \/ Gap(n) > s_reset) /\ HasRow(s) -> EndMessage(LastLen(s))
           [] OTHER -> Continue(IF s_gap > 0 /\ Gap(n) > s_gap /\ RowHasBits(s) THEN EndRow(s) ELSE s)
  /\ UNCHANGED <<time_since_last, manbit>>

-----------------------------------------------------------------------------
(* Manchester with a zero bit in front: an edge more than 1.5 half periods   *)
(* after the last bit is a bit.                                             *)

s_shortBy1p5 == (s_short * 3) \div 2
Longest      == s_short * 2 + s_tolerance

DataEdge(width) == width + time_since_last > s_shortBy1p5

BadWidth(width) == width < s_short - s_tolerance \/ width > Longest
Invalid == s_tolerance > 0 /\ (BadWidth(Pulse(n)) \/ BadWidth(Gap(n)))

\* A long last pulse is a one; a row begins with a zero.
InvalidPulse ==
  LET s == Longer(Buffer, Pulse(n) + Gap(n))
  IN  Add(EndRow(Add(s, 1, IF Pulse(n) > s_shortBy1p5 /\ Pulse(n) <= Longest THEN 1 ELSE 0)), 0, 1)

FallingEdge ==
  LET s == Longer(Buffer, Pulse(n) + Gap(n))
  IN  IF Invalid THEN InvalidPulse
        ELSE IF DataEdge(Pulse(n)) THEN Add(s, 1, 1) ELSE s

\* Mutant: the pulse of a data edge counts for the next bit.
SinceFallingEdgeOnly == IF Invalid THEN 0 ELSE time_since_last + Pulse(n)

SinceFallingEdge == IF Invalid \/ DataEdge(Pulse(n)) THEN 0 ELSE time_since_last + Pulse(n)

pulse_slicer_manchester_zerobit ==
  /\ EachPulse("MC")
  /\ LET s     == FallingEdge
         since == SinceFallingEdge
     IN  IF (LastPulse \/ Gap(n) > s_reset) /\ HasRow(s)
           THEN /\ account_event(LastLen(s).bits)
                /\ bits' = bitbuffer_add_bit(bitbuffer_clear, 0)
                /\ l' = s.l /\ time_since_last' = 0
         ELSE IF Gap(n) + since > s_shortBy1p5
           THEN Continue(Add(s, 0, 1)) /\ time_since_last' = 0
           ELSE Continue(s) /\ time_since_last' = since + Gap(n)
  /\ UNCHANGED manbit

-----------------------------------------------------------------------------
(* The slicers for which pulses and gaps are symbols.  n counts symbols; the *)
(* length is taken from pulse n and its gap all the same: in the second half *)
(* from slots behind the train, which hold what an earlier or a shifted      *)
(* train left, and from half of PD_MAX_PULSES pulses on from memory behind   *)
(* the arrays.                                                               *)

num_symbols == num_pulses * 2

LastSymbol == n = num_symbols - 1

EachSymbol(modulation, step) ==
  Slicing(modulation) /\ n < num_symbols /\ n' = n + step

Close(width, nominal) == Distance(width, nominal) < s_tolerance
Reset(width) == width >= s_reset - s_tolerance

\* The buffer, with the length of the row at this symbol.
Lengthened ==
  {Longer(Buffer, width) : width \in IF n < num_pulses THEN {Pulse(n) + Gap(n)} ELSE BehindTrain}

NextSymbol == IF n + 1 < num_symbols THEN Symbol(n + 1) ELSE 0

\* Mutant: the second half of a one is skipped without a look at the end of the train.
DmcOneUnbounded(s) ==
  /\ Slicing("DMC") /\ Close(Symbol(n), s_short)
  /\ EachSymbol("DMC", 2) /\ Continue(Add(s, 1, 1))

\* A short symbol is a one with the short symbol after it.  When the message ends
\* instead, the end is looked at next; anything else ends the row.
DmcOne(s) ==
  /\ Slicing("DMC") /\ Close(Symbol(n), s_short)
  /\ LET one == Add(s, 1, 1)
         bad == Distance(NextSymbol, s_short) > s_tolerance
     IN  /\ Continue(IF bad /\ ~Reset(NextSymbol) THEN EndRow(one) ELSE one)
         /\ EachSymbol("DMC", IF n + 1 < num_symbols /\ ~(bad /\ Reset(NextSymbol)) THEN 2 ELSE 1)

DmcOther(s) ==
  /\ EachSymbol("DMC", 1) /\ ~Close(Symbol(n), s_short)
  /\ IF Close(Symbol(n), s_long) THEN Continue(Add(s, 0, 1))
       ELSE IF Reset(Symbol(n)) /\ HasRow(s) THEN EndMessageKept(LastLen(s))
       ELSE Continue(s)

pulse_slicer_dmc ==
  /\ Slicing("DMC") /\ n < num_symbols
  /\ \E s \in Lengthened : DmcOne(s) \/ DmcOther(s)
  /\ UNCHANGED <<time_since_last, manbit>>

EndPiwm(s) ==
  IF (LastSymbol \/ Symbol(n) > s_reset) /\ HasRow(s)
    THEN EndMessageKept(LastLen(s)) ELSE Continue(s)

\* As many bits as the symbol is long.
PiwmRun(s) ==
  LET w == Periods(Symbol(n), Nominal(device.short_width))
  IN  IF Symbol(n) > s_long THEN EndRow(s)
        ELSE IF Close(Symbol(n), w * s_short) THEN Add(s, 1 - (n % 2), w)
        ELSE IF Symbol(n) < s_reset /\ RowHasBits(s) THEN EndRow(s)
        ELSE s

pulse_slicer_piwm_raw ==
  /\ EachSymbol("PIWM_RAW", 1)
  /\ \E s \in Lengthened : EndPiwm(PiwmRun(s))
  /\ UNCHANGED <<time_since_last, manbit>>

PiwmBit(s) ==
  IF Close(Symbol(n), s_short) THEN Add(s, 1, 1)
    ELSE IF Close(Symbol(n), s_long) THEN Add(s, 0, 1)
    ELSE IF Symbol(n) < s_reset /\ RowHasBits(s) THEN EndRow(s)
    ELSE s

pulse_slicer_piwm_dc ==
  /\ EachSymbol("PIWM_DC", 1)
  /\ \E s \in Lengthened : EndPiwm(PiwmBit(s))
  /\ UNCHANGED <<time_since_last, manbit>>

-----------------------------------------------------------------------------
(* NRZS: a pulse is a zero, after a one for each time it holds the limit.    *)

NrzsPulse ==
  LET s == Longer(Buffer, Pulse(n) + Gap(n))
  IN  IF Pulse(n) = s_short THEN s
        ELSE Add(Add(s, 1, IF Pulse(n) > s_short THEN Pulse(n) \div s_short ELSE 0), 0, 1)

pulse_slicer_nrzs ==
  /\ EachPulse("NRZS")
  /\ IF LastPulse \/ Gap(n) >= s_reset
       THEN EndMessageKept(LastLen(NrzsPulse)) ELSE Continue(NrzsPulse)
  /\ UNCHANGED <<time_since_last, manbit>>

-----------------------------------------------------------------------------
(* Oregon Scientific v1: twelve pulses, a sync pulse, Manchester.            *)

halfbit_min == s_short \div 2
halfbit_max == (s_short * 3) \div 2
sync_min    == 2 * halfbit_max

PREAMBLE == 12

\* The last gap of the preamble, or else the end of the train, ends it.
PreambleComplete ==
  /\ num_pulses >= PREAMBLE
  /\ \A k \in 0 .. PREAMBLE - 1 : Pulse(k) > halfbit_min /\ Gap(k) > halfbit_min
  /\ \A k \in 0 .. PREAMBLE - 2 : Gap(k) <= halfbit_max
  /\ Gap(PREAMBLE - 1) > halfbit_max \/ num_pulses = PREAMBLE

\* Without a pulse behind the preamble the code looks at a free slot; no bit follows,
\* so that no message comes of it whatever that slot holds.
Synced ==
  num_pulses > PREAMBLE /\ Pulse(PREAMBLE) >= sync_min /\ Gap(PREAMBLE) >= sync_min

\* The gap of the sync holds half a bit when it is longer than the pulse.
Osv1Start ==
  /\ Slicing("OSV1") /\ n = 0 /\ num_pulses > 0
  /\ n' = IF PreambleComplete /\ Synced THEN PREAMBLE + 1 ELSE num_pulses
  /\ manbit' = IF PreambleComplete /\ Synced /\ Gap(PREAMBLE) > Pulse(PREAMBLE) THEN 1 ELSE 0
  /\ Continue(Add(Buffer, 0, manbit'))
  /\ UNCHANGED time_since_last

\* Half a bit, or two, at one level: the first half of a bit is the bit.
HalfBits(s, bit, half, width) ==
  LET long == width > halfbit_max IN Add(s, bit, IF half = 0 \/ long THEN 1 ELSE 0)

AfterHalves(half, width) == IF width > halfbit_max THEN half ELSE 1 - half

Osv1Bits ==
  /\ Slicing("OSV1") /\ n \in PREAMBLE + 1 .. num_pulses - 1
  /\ LET s    == HalfBits(Longer(Buffer, Pulse(n) + Gap(n)), 1, manbit, Pulse(n))
         half == AfterHalves(manbit, Pulse(n))
     IN  \/ /\ (LastPulse \/ Gap(n) > s_reset) /\ HasRow(s)
            /\ EndMessage(LastLen(s)) /\ n' = num_pulses /\ UNCHANGED manbit
         \/ /\ ~((LastPulse \/ Gap(n) > s_reset) /\ HasRow(s))
            /\ Continue(HalfBits(s, 0, half, Gap(n))) /\ n' = n + 1
            /\ manbit' = AfterHalves(half, Gap(n))
  /\ UNCHANGED time_since_last

pulse_slicer_osv1 == Osv1Start \/ Osv1Bits

-----------------------------------------------------------------------------
(* Test data: rows of bits, each with a width (-1: none given).              *)

AddBits(b, bs) ==
  LET added[k \in 0 .. Len(bs)] ==
        IF k = 0 THEN b ELSE bitbuffer_add_bit(added[k - 1], bs[k])
  IN  added[Len(bs)]

\* bitbuffer_parse passes no lengths.
ParsedRow ==
  LET code == train[n + 1]
      b    == AddBits(IF n = 0 THEN bits ELSE bitbuffer_add_row(bits, 0), code.bits)
  IN  [bits |-> IF code.width >= 0 THEN bitbuffer_set_width(b, code.width) ELSE b, l |-> 0]

pulse_slicer_string ==
  /\ EachPulse("STRING")
  /\ LET s == ParsedRow IN IF LastPulse THEN EndMessage(s) ELSE Continue(s)
  /\ UNCHANGED <<time_since_last, manbit>>

-----------------------------------------------------------------------------

SymbolSlicers == {"DMC", "PIWM_RAW", "PIWM_DC"}
End == IF device.modulation \in SymbolSlicers THEN num_symbols ELSE num_pulses

Init ==
  /\ device \in Devices
  /\ \E signal \in Signals[device] : train = signal.train /\ sent = signal.sent
  /\ rate = IF device.modulation = "PCM" /\ ~RateTooLow(device)
              THEN Tuned ELSE Rates(Rate(1, 1), Rate(1, 1))
  /\ n = IF device.modulation # "STRING" /\ RateTooLow(device) THEN End ELSE 0
  /\ bits = IF device.modulation = "MC" THEN bitbuffer_add_bit(bitbuffer_clear, 0)
                                        ELSE bitbuffer_clear
  /\ l = 0 /\ time_since_last = 0 /\ manbit = 0 /\ events = <<>> /\ undefined = FALSE

Next ==
  /\ \/ pulse_slicer_pcm \/ pulse_slicer_ppm \/ pulse_slicer_pwm
     \/ pulse_slicer_manchester_zerobit
     \/ pulse_slicer_dmc \/ pulse_slicer_piwm_raw \/ pulse_slicer_piwm_dc
     \/ pulse_slicer_nrzs \/ pulse_slicer_osv1 \/ pulse_slicer_string
  /\ UNCHANGED given

Spec == Init /\ [][Next]_vars

-----------------------------------------------------------------------------
(* Properties.                                                              *)

TypeOK ==
  /\ device \in Devices
  /\ bits \in Bitbuffers
  /\ n \in 0 .. End
  /\ l \in Nat /\ time_since_last \in Nat /\ manbit \in 0 .. 1 /\ undefined \in BOOLEAN

\* The row account_event takes back has no data in it - the Manchester slicer's own
\* zero aside - and it always has one to look at: the slicers that start with an
\* empty buffer for each message lose no row of it.
RowsKept ==
  device.modulation \in {"PCM", "PPM", "PWM", "MC", "OSV1"} =>
    /\ ~undefined
    /\ \A i \in DOMAIN events :
         events[i].dropped <= (IF device.modulation = "MC" THEN 1 ELSE 0)

SumUpTo(f, k) ==
  LET sum[j \in 0 .. k] == IF j = 0 THEN 0 ELSE sum[j - 1] + f[j]
  IN  sum[k]

\* The samples of the first k pulses and their gaps, and of the rows of an event.
SamplesUpTo(k) == SumUpTo([j \in 1 .. k |-> Pulse(j - 1) + Gap(j - 1)], k)
LengthOf(event) ==
  SumUpTo([r \in DOMAIN event.rows |-> event.rows[r].len], Len(event.rows))

\* The lengths of the rows of a train's first message, from which the plugin cuts the
\* row out of the display, add up to what the message took - unless the buffer got full,
\* and a row that did not fit any more was counted with none.
LengthsAddUp ==
  device.modulation \in {"PPM", "PWM", "MC"} /\ events # <<>> =>
    events[1].full \/ LengthOf(events[1]) = SamplesUpTo(events[1].last + 1)

\* The rows with bits; one that another spilled over counts as a row, but has none.
Received ==
  SelectSeq(FlattenSeq([i \in DOMAIN events |-> events[i].rows]), LAMBDA row : row.bits # <<>>)

\* A row and no more than zeros behind it, which the last gap of PCM looks like.
Reads(row, bs) ==
  /\ Len(row) >= Len(bs) /\ SubSeq(row, 1, Len(bs)) = bs
  /\ \A i \in Len(bs) + 1 .. Len(row) : device.modulation = "PCM" /\ row[i] = 0

ReadsAll ==
  /\ Len(Received) = Len(sent)
  /\ \A i \in DOMAIN sent : Reads(Received[i].bits, sent[i])

Done == n = End

\* The decoder is given the rows that were sent, whatever the deviation of the pulses
\* and, with a preamble, of the clock.
DecodesWhatWasSent ==
  Done /\ sent # <<>> /\ device.modulation # "STRING" => ReadsAll

\* "Verify decoding of demodulated test data": the decoder is given the rows of the
\* code (help of -y, src/src/rtl_433.c).
TestDataDecoded ==
  Done /\ device.modulation = "STRING" => ReadsAll
=============================================================================

------------------------------ MODULE MCSlicer ------------------------------
(* Instance: one device of each kind, or two where the code has two cases, with *)
(* the short messages of a sender whose pulses deviate by a quarter of a unit,  *)
(* and with all trains of up to three pulses of a few widths.                   *)
EXTENDS Slicer, SlicerSender

U == 8          \* samples of a unit

\* us: two for each sample.
Dev(modulation, short, long, gap, reset, sync, tolerance) ==
  [ modulation |-> modulation, short_width |-> 2 * U * short, long_width |-> 2 * U * long,
    gap_limit |-> 2 * U * gap, reset_limit |-> 2 * U * reset, sync_width |-> 2 * U * sync,
    tolerance |-> 2 * tolerance ]

NrzDevice    == Dev("PCM", 1, 1, 7, 12, 0, 0)
RzDevice     == Dev("PCM", 1, 2, 0, 15, 0, 3)
PpmRaw       == Dev("PPM", 1, 2, 4, 8, 0, 0)
PpmPrecise   == Dev("PPM", 1, 2, 0, 8, 0, 3)
PwmRaw       == Dev("PWM", 1, 3, 4, 8, 0, 0)
PwmPrecise   == Dev("PWM", 1, 3, 0, 8, 5, 3)
PwmSyncShort == Dev("PWM", 3, 5, 0, 8, 1, 0)
PwmSyncMid   == Dev("PWM", 1, 5, 0, 8, 3, 0)
PwmSyncLong  == Dev("PWM", 1, 3, 0, 8, 5, 0)
McRaw        == Dev("MC", 1, 0, 0, 8, 0, 0)
McTolerant   == Dev("MC", 1, 0, 0, 8, 0, 3)
DmcDevice    == Dev("DMC", 1, 2, 0, 8, 0, 3)
PiwmRaw      == Dev("PIWM_RAW", 1, 6, 0, 8, 0, 3)
PiwmDcDevice == Dev("PIWM_DC", 1, 2, 0, 8, 0, 3)
NrzsDevice   == Dev("NRZS", 2, 2, 0, 8, 0, 0)
Osv1Device   == Dev("OSV1", 1, 1, 0, 8, 0, 0)
\* 8.5 samples, of which the test of a width keeps 8: short runs only.
NrzFine      == [NrzDevice EXCEPT !.short_width = 17, !.long_width = 17]
PiwmFine     == [PiwmRaw EXCEPT !.short_width = 17]
Tester       == Dev("STRING", 1, 1, 0, 8, 0, 0)
TooFine      == [NrzDevice EXCEPT !.long_width = 1]

MCTest  == {Tester}

MCDevices ==
  { NrzDevice, RzDevice, PpmRaw, PpmPrecise, PwmRaw, PwmPrecise, PwmSyncShort, PwmSyncMid,
    PwmSyncLong, McRaw, McTolerant, DmcDevice, PiwmRaw, PiwmDcDevice, NrzsDevice, Osv1Device,
    NrzFine, PiwmFine, Tester, TooFine }

\* Rows of bits.
BitsUpTo(k) == UNION {[1 .. i -> 0 .. 1] : i \in 1 .. k}
RowSeqs(some) == {<<r>> : r \in some} \cup {<<r, q>> : r \in some, q \in some}

First(row) == row[1]
Final(row) == row[Len(row)]
EndsInOnes(row) == Len(row) > 1 /\ Final(row) = 1 /\ row[Len(row) - 1] = 1

\* `ends' are the silences behind the last row, `between' those between two rows.
SentBy(unit, dev, rowSets, wave(_), between, ends) ==
  { [ train |-> TrainOf(WithGaps([i \in DOMAIN rs |-> wave(rs[i])],
                                 IF Len(rs) = 1 THEN <<e>> ELSE <<b, e>>), unit, late),
      sent  |-> rs ] :
    rs \in rowSets, b \in between, e \in ends, late \in {0 - dev, 0, dev} }

Sent(rowSets, wave(_), between, ends) == SentBy(U, U \div 4, rowSets, wave, between, ends)

\* A clock that is an eighth fast or slow, with more zeros in the data than can be
\* told apart without measuring it.
OffClock(rows, wave(_)) ==
  { [ train |-> TrainOf(wave(r) \o Low(20), u, 0), sent |-> <<r>> ] : r \in rows, u \in {U - 1, U + 1} }

After(preamble) == {preamble \o d : d \in {<<1, 0, 0, 0, 0, 0, 1>>, <<1, 1, 0, 0, 0, 1>>}}

\* Without a preamble the clock is measured from all bits of one or two units; this is
\* the shortest row of NRZ with enough of them, and as long as the buffer can hold.
NrzBroken == <<1, 0, 1, 0, 1, 1, 0, 0, 1, 0, 1, 0, 1, 1, 0, 0, 1, 0, 1, 1, 0, 0, 0, 0, 1>>
RzBroken  == FlattenSeq([i \in 1 .. 3 |-> <<1, 1, 1, 1, 0>>])

\* Noise: any few pulses.
Noise(pulses, gaps) ==
  LET some == [pulse : pulses, gap : gaps]
  IN  {[train |-> t, sent |-> <<>>] : t \in UNION {[1 .. i -> some] : i \in 1 .. 3}}

OneFirst(some) == {r \in some : First(r) = 1}

MCSignals ==
  [ d \in MCDevices |->
    CASE d \in {NrzDevice, NrzFine} ->
           Sent(RowSeqs(OneFirst(BitsUpTo(3))), Nrz, {8, 16}, {0, 16})
             \cup OffClock({NrzBroken} \cup After(<<1, 0, 1, 0, 1, 0, 1, 0, 1, 0, 1, 0>>), Nrz)
             \cup Noise({1, 8, 20}, {8, 64, 200})
      [] d = RzDevice ->
           Sent(RowSeqs(OneFirst(BitsUpTo(3))), Rz, {18}, {0, 18})
             \cup OffClock(After(<<1, 1, 1, 1>>) \cup After(RzBroken), Rz)
             \cup Noise({1, 8, 20}, {8, 64, 200})
      [] d \in {PpmRaw, PpmPrecise} ->
           Sent(RowSeqs(BitsUpTo(3)), Ppm, {6, 10}, {0, 10}) \cup Noise({8}, {0, 8, 16, 40, 64, 200})
      [] d \in {PwmRaw, PwmPrecise, PwmSyncShort, PwmSyncMid, PwmSyncLong} ->
           LET short == d.short_width \div (2 * U)
               long  == d.long_width \div (2 * U)
               wave(r) == Pwm(r, short, long)
           IN  Sent(IF d = PwmRaw THEN RowSeqs(BitsUpTo(3)) ELSE {<<r>> : r \in BitsUpTo(4)}, wave, {5, 10}, {0, 10})
                 \cup Noise({1, 8, 24, 40}, {8, 200})
      [] d = McRaw ->
           Sent({<<r>> : r \in {r \in BitsUpTo(5) : First(r) = 0}}, LAMBDA r : Tail(Manchester(r)), {10}, {0, 10})
             \cup Noise({8, 16, 40}, {8, 16, 200})
      [] d = McTolerant ->
           Sent({<<r>> : r \in {r \in BitsUpTo(5) : First(r) = 0 /\ ~EndsInOnes(r)}},
                LAMBDA r : Tail(Manchester(r)), {10}, {10})
             \cup Noise({8, 16, 40}, {8, 16, 200})
      [] d = DmcDevice ->
           Sent({<<r>> : r \in {r \in BitsUpTo(4) : Final(r) = 1 \/ Final(Dmc(r)) = 1}}, Dmc, {10}, {10})
             \cup Noise({8, 16, 40}, {8, 16, 200})
      [] d \in {PiwmRaw, PiwmFine} ->
           Sent({<<r>> : r \in {r \in BitsUpTo(IF d = PiwmFine THEN 3 ELSE 5) : First(r) = 1 /\ Final(r) = 1}}, Nrz, {10}, {10})
             \cup Noise({8, 16, 60}, {8, 60, 200})
      [] d = PiwmDcDevice ->
           Sent({<<r>> : r \in {r \in BitsUpTo(5) : Len(r) % 2 = 1}}, PiwmDc, {10}, {10})
             \cup Noise({8, 16, 40}, {8, 16, 200})
      [] d = NrzsDevice ->
           Sent({<<r>> : r \in {r \in BitsUpTo(5) : Final(r) = 0}}, Nrzs, {10}, {0, 10})
             \cup Noise({8, 16, 40}, {8, 200})
      [] d = Osv1Device ->
           SentBy(U \div 2, 1, {<<r>> : r \in BitsUpTo(4)}, Osv1, {20}, {20}) \cup Noise({8, 16}, {8, 16})
      [] d = Tester ->
           {[train |-> [i \in DOMAIN rs |-> [bits |-> rs[i], width |-> w]],
             sent  |-> [i \in DOMAIN rs |-> IF w = -1 THEN rs[i] ELSE SubSeq(rs[i], 1, w)]] :
             rs \in RowSeqs([1 .. 4 -> 0 .. 1]), w \in {-1, 3}}
      [] OTHER -> {[train |-> <<[pulse |-> 8, gap |-> 200]>>, sent |-> <<>>]} ]
=============================================================================

---------------------------- MODULE SlicerSender ----------------------------
(***************************************************************************)
(* Transmitters for the slicers: the waveforms that                        *)
(* src/include/pulse_slicer.h describes, as levels (1: pulse, 0: gap) of    *)
(* one unit of time each, and the pulse train that is seen of them.        *)
(***************************************************************************)
EXTENDS Integers, SequencesExt

\* Every level takes `unit' samples; pulses are seen `late' samples longer, and the
\* gaps behind them shorter, than they are.
TrainOf(levels, unit, late) ==
  LET at(i)  == IF i \in DOMAIN levels THEN levels[i] ELSE 0
      edges  == SelectSeq([i \in 1 .. Len(levels) |-> i], LAMBDA i : at(i) = 1 /\ at(i - 1) = 0)
      falls  == SelectSeq([i \in 1 .. Len(levels) + 1 |-> i], LAMBDA i : at(i) = 0 /\ at(i - 1) = 1)
      next   == Append(Tail(edges), Len(levels) + 1)
      gap(k) == IF next[k] = falls[k] THEN 0 ELSE (next[k] - falls[k]) * unit - late
  IN  [k \in DOMAIN edges |->
        [pulse |-> (falls[k] - edges[k]) * unit + late, gap |-> gap(k)]]

High(count) == [i \in 1 .. count |-> 1]
Low(count)  == [i \in 1 .. count |-> 0]

Each(bs, wave(_)) == FlattenSeq([i \in DOMAIN bs |-> wave(i)])

\* "Presence of a pulse equals 1", for the whole period or its first half.
Nrz(bs) == bs
Rz(bs)  == Each(bs, LAMBDA i : <<bs[i], 0>>)

\* "Short gap will add a 0 bit"; a pulse ends the last gap.
Ppm(bs) == Append(Each(bs, LAMBDA i : <<1>> \o Low(1 + bs[i])), 1)

\* "Short pulse will add a 1 bit".
Pwm(bs, short, long) == Each(bs, LAMBDA i : High(IF bs[i] = 1 THEN short ELSE long) \o <<0>>)

\* "Rising edge means bit = 0, falling edge means bit = 1".
Manchester(bs) == Each(bs, LAMBDA i : <<bs[i], 1 - bs[i]>>)

\* "Each clock cycle begins with a level shift"; a shift within it is a 1.
Dmc(bs) ==
  LET zeros(i) == Len(SelectSeq(SubSeq(bs, 1, i - 1), LAMBDA b : b = 0))
      level(i) == 1 - (zeros(i) % 2)
  IN  Each(bs, LAMBDA i : <<level(i), IF bs[i] = 1 THEN 1 - level(i) ELSE level(i)>>)

\* "Each level shift is a new bit"; "a short interval is a logic 1".
PiwmDc(bs) == Each(bs, LAMBDA i : [k \in 1 .. 2 - bs[i] |-> i % 2])

\* A pulse for each 0, longer by two units for each 1 before it.
Nrzs(bs) == Each(bs, LAMBDA i : <<1, bs[i]>>)

\* Twelve pulses, a sync pulse and a gap a little shorter, Manchester with 1 as high,
\* low; a half bit takes two units.
Osv1(bs) ==
  Each(High(12), LAMBDA i : <<1, 1, 0, 0>>) \o Low(4) \o High(8) \o Low(7)
    \o Each(Manchester(bs), LAMBDA i : <<Manchester(bs)[i], Manchester(bs)[i]>>)

\* The rows with silence behind each.
WithGaps(rows, silence) == FlattenSeq([i \in DOMAIN rows |-> rows[i] \o Low(silence[i])])
=============================================================================

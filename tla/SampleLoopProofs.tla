--------------------------- MODULE SampleLoopProofs ---------------------------
(***************************************************************************)
(* Sessions, for any options, buffers, samples and lists of frequencies:   *)
(* limits are accounted for, the index of the frequency is in range and a  *)
(* duration is kept over any number of sessions; of the first session also *)
(* that it ends for a reason it was given and leaves no frequency too soon.*)
(***************************************************************************)
EXTENDS SampleLoop, SequenceTheorems, TLAPS

CfgSet ==
  [ frequency : Seq(Nat), frequency_index : Nat, hop_time : Seq(Nat), hop_start_time : Int,
    hop_now : BOOLEAN, exit_async : BOOLEAN, duration : Nat, stop_time : Nat,
    bytes_to_read : Nat, events_flag : 0 .. 2 ]

\* The index of the current frequency is one of the list.
InList(c) == c.frequency_index < Len(c.frequency)

\* What both lists of the options are and stay.
Lists(c) == /\ Len(c.frequency) <= MAX_FREQS /\ Len(c.hop_time) <= MAX_FREQS

\* Two configurations differ in what the callback changes only.
SameOptions(c, d) ==
  /\ c.hop_time = d.hop_time /\ c.duration = d.duration /\ c.stop_time = d.stop_time
  /\ c.events_flag = d.events_flag /\ Len(c.frequency) = Len(d.frequency)

-----------------------------------------------------------------------------
(* The parts of sdr_callback.                                               *)

LEMMA CfgFields ==
  ASSUME NEW c \in CfgSet
  PROVE  /\ c.frequency \in Seq(Nat) /\ c.frequency_index \in Nat /\ c.hop_time \in Seq(Nat)
         /\ c.hop_start_time \in Int /\ c.hop_now \in BOOLEAN /\ c.exit_async \in BOOLEAN
         /\ c.duration \in Nat /\ c.stop_time \in Nat /\ c.bytes_to_read \in Nat
         /\ c.events_flag \in 0 .. 2
         /\ Len(c.frequency) \in Nat /\ Len(c.hop_time) \in Nat
BY DEF CfgSet

\* The first frequency follows the plugin, the length of the list stays.
LEMMA TunedFields ==
  ASSUME cfg \in CfgSet, InList(cfg), _frequency \in Nat
  PROVE  /\ Tuned \in CfgSet /\ SameOptions(Tuned, cfg)
         /\ Tuned.frequency_index = cfg.frequency_index
         /\ Tuned.bytes_to_read = cfg.bytes_to_read
         /\ Tuned.hop_now = cfg.hop_now /\ Tuned.exit_async = cfg.exit_async
         /\ Tuned.hop_start_time = cfg.hop_start_time
<1> DEFINE f == [cfg.frequency EXCEPT ![1] = _frequency]
<1>1. f \in Seq(Nat) /\ Len(f) = Len(cfg.frequency)
  <2>1. cfg.frequency \in Seq(Nat) /\ 1 \in 1 .. Len(cfg.frequency)
    BY CfgFields DEF InList
  <2> QED
    BY <2>1, ExceptSeq
<1>2. Tuned = [cfg EXCEPT !.frequency = f]
  BY DEF Tuned
<1> HIDE DEF f
<1> QED
  BY <1>1, <1>2 DEF CfgSet, SameOptions

LEMMA TakesBound ==
  ASSUME cfg \in CfgSet, NEW len \in Nat
  PROVE  /\ Takes(len) \in Nat /\ Takes(len) <= len
         /\ cfg.bytes_to_read > 0 => Takes(len) <= cfg.bytes_to_read
         /\ LastBuffer(len) => Takes(len) = cfg.bytes_to_read
         /\ LastBuffer(len) \in BOOLEAN
BY CfgFields DEF Takes, LastBuffer

LEMMA CountedDownFields ==
  ASSUME cfg \in CfgSet, NEW len \in Nat, NEW c \in CfgSet, c.bytes_to_read = cfg.bytes_to_read
  PROVE  LET d == CountedDown(c, len) IN
         /\ d \in CfgSet /\ SameOptions(d, c)
         /\ d.frequency_index = c.frequency_index /\ d.frequency = c.frequency
         /\ d.bytes_to_read = IF c.bytes_to_read > 0 THEN c.bytes_to_read - Takes(len)
                                                     ELSE c.bytes_to_read
         /\ d.hop_now = c.hop_now /\ d.exit_async = c.exit_async
         /\ d.hop_start_time = c.hop_start_time
<1> DEFINE b == IF c.bytes_to_read > 0 THEN c.bytes_to_read - Takes(len) ELSE c.bytes_to_read
<1>1. b \in Nat
  BY TakesBound, CfgFields
<1>2. CountedDown(c, len) = [c EXCEPT !.bytes_to_read = b]
  BY DEF CountedDown
<1> HIDE DEF b
<1>3. /\ [c EXCEPT !.bytes_to_read = b] \in CfgSet
      /\ SameOptions([c EXCEPT !.bytes_to_read = b], c)
      /\ [c EXCEPT !.bytes_to_read = b].frequency_index = c.frequency_index
      /\ [c EXCEPT !.bytes_to_read = b].frequency = c.frequency
      /\ [c EXCEPT !.bytes_to_read = b].bytes_to_read = b
      /\ [c EXCEPT !.bytes_to_read = b].hop_now = c.hop_now
      /\ [c EXCEPT !.bytes_to_read = b].exit_async = c.exit_async
      /\ [c EXCEPT !.bytes_to_read = b].hop_start_time = c.hop_start_time
  BY <1>1 DEF CfgSet, SameOptions
<1> QED
  BY <1>2, <1>3 DEF b

\* Two flags are set.
Flagged(c, hop, exit) == [c EXCEPT !.hop_now = hop, !.exit_async = exit]

LEMMA FlaggedFields ==
  ASSUME NEW c \in CfgSet, NEW hop \in BOOLEAN, NEW exit \in BOOLEAN
  PROVE  LET d == Flagged(c, hop, exit) IN
         /\ d \in CfgSet /\ SameOptions(d, c)
         /\ d.frequency_index = c.frequency_index /\ d.frequency = c.frequency
         /\ d.bytes_to_read = c.bytes_to_read
         /\ d.hop_now = hop /\ d.exit_async = exit
         /\ d.hop_start_time = c.hop_start_time
BY DEF Flagged, CfgSet, SameOptions

LEMMA WithEventsFields ==
  ASSUME NEW c \in CfgSet, NEW events \in BOOLEAN
  PROVE  WithEvents(c, events) =
           Flagged(c, c.hop_now \/ (events /\ c.events_flag = 2),
                      c.exit_async \/ (events /\ c.events_flag = 1))
BY Zenon DEF WithEvents, Flagged, CfgSet

LEMMA WithClockFields ==
  ASSUME NEW c \in CfgSet
  PROVE  WithClock(c) = Flagged(c, c.hop_now \/ TimeToHop(c), c.exit_async \/ TimeIsUp(c))
BY Zenon DEF WithClock, Flagged, CfgSet

LEMMA HoppedFields ==
  ASSUME NEW c \in CfgSet, InList(c), clock \in Nat
  PROVE  LET d == Hopped(c) IN
         /\ d \in CfgSet /\ SameOptions(d, c) /\ InList(d)
         /\ d.bytes_to_read = c.bytes_to_read /\ d.exit_async = c.exit_async
         /\ d.hop_now => c.hop_now /\ c.exit_async
         /\ d.frequency_index # c.frequency_index => c.hop_now /\ ~c.exit_async
<1>1. CASE c.hop_now /\ ~c.exit_async
  <2>1. NextIndex(c) \in Nat /\ NextIndex(c) < Len(c.frequency)
    BY CfgFields DEF NextIndex, InList
  <2> DEFINE d == [ c EXCEPT !.hop_now = FALSE, !.hop_start_time = clock,
                             !.frequency_index = NextIndex(c) ]
  <2>2. Hopped(c) = d
    BY <1>1 DEF Hopped
  <2>3. d \in CfgSet
    <3>1. Flagged(c, FALSE, c.exit_async) \in CfgSet
      BY CfgFields, FlaggedFields
    <3>2. d = [ Flagged(c, FALSE, c.exit_async) EXCEPT
                  !.hop_start_time = clock, !.frequency_index = NextIndex(c) ]
      BY DEF Flagged, CfgSet
    <3> HIDE DEF d
    <3> DEFINE s == Flagged(c, FALSE, c.exit_async)
               j == NextIndex(c)
    <3>3. d = [s EXCEPT !.hop_start_time = clock, !.frequency_index = j]
      BY <3>2
    <3>4. s \in CfgSet /\ j \in Nat
      BY <2>1, <3>1
    <3> HIDE DEF s, j
    <3>5. clock \in Int
      OBVIOUS
    <3> QED
      BY <3>3, <3>4, <3>5 DEF CfgSet
  <2>4. /\ SameOptions(d, c) /\ d.bytes_to_read = c.bytes_to_read
        /\ d.frequency = c.frequency /\ d.frequency_index = NextIndex(c)
    BY DEF CfgSet, SameOptions
  <2>5. d.exit_async = c.exit_async /\ d.hop_now = FALSE
    BY DEF CfgSet
  <2> HIDE DEF d
  <2>6. InList(d)
    BY <2>1, <2>4 DEF InList
  <2> QED
    BY <1>1, <2>2, <2>3, <2>4, <2>5, <2>6
<1>2. CASE ~(c.hop_now /\ ~c.exit_async)
  <2>1. Hopped(c) = c
    BY <1>2 DEF Hopped
  <2> QED
    BY <1>2, <2>1 DEF SameOptions
<1> QED
  BY <1>1, <1>2

-----------------------------------------------------------------------------
(* The whole callback.                                                      *)

\* The configuration stays the one of the session, and its index in its list.
Kept ==
  /\ cfg' \in CfgSet /\ SameOptions(cfg', cfg) /\ InList(cfg')
  /\ detector' \in {detector, "classic", "minmax"}

\* What is left of the limit, and that its last buffer ends the session.
LimitCounted(len) ==
  /\ LastBuffer(len) => cfg'.exit_async
  /\ cfg'.bytes_to_read =
       IF cfg.bytes_to_read > 0 /\ Takes(len) >= sample_size
         THEN cfg.bytes_to_read - Takes(len) ELSE cfg.bytes_to_read

\* What may end the session.
Reasons(len) ==
  cfg'.exit_async => cfg.exit_async \/ LastBuffer(len) \/ cfg.events_flag = 1 \/ TimeIsUp(cfg)

\* What may make it hop.
HopReasons ==
  /\ cfg'.hop_now => cfg.hop_now \/ cfg.events_flag = 2 \/ cfg'.exit_async
  /\ cfg'.frequency_index # cfg.frequency_index =>
       cfg.hop_now \/ cfg.events_flag = 2 \/ TimeToHop(cfg)

\* A buffer that is processed after the end of the duration ends the session.
TimeNoticed(len) == Takes(len) >= sample_size /\ TimeIsUp(cfg) => cfg'.exit_async

LEMMA TimesAlike ==
  ASSUME NEW c \in CfgSet, NEW d \in CfgSet, SameOptions(c, d),
         c.frequency_index = d.frequency_index, c.hop_start_time = d.hop_start_time
  PROVE  (TimeToHop(c) <=> TimeToHop(d)) /\ (TimeIsUp(c) <=> TimeIsUp(d))
BY DEF SameOptions, TimeToHop, HopIndex, TimeIsUp

LEMMA CallbackKeeps ==
  ASSUME cfg \in CfgSet, InList(cfg), _frequency \in Nat, clock \in Nat,
         NEW len \in Nat, NEW events \in BOOLEAN, sdr_callback(len, events)
  PROVE  Kept /\ LimitCounted(len) /\ Reasons(len) /\ HopReasons /\ TimeNoticed(len)
<1> DEFINE c1 == [Tuned EXCEPT !.exit_async = @ \/ LastBuffer(len)]
           c2 == CountedDown(c1, len)
           c3 == WithEvents(c2, events)
           c4 == WithClock(c3)
<1>1. /\ c1 \in CfgSet /\ SameOptions(c1, cfg)
      /\ c1.frequency_index = cfg.frequency_index
      /\ c1.bytes_to_read = cfg.bytes_to_read
      /\ c1.hop_now = cfg.hop_now
      /\ c1.exit_async = (cfg.exit_async \/ LastBuffer(len))
      /\ c1.hop_start_time = cfg.hop_start_time
  <2>1. (Tuned.exit_async \/ LastBuffer(len)) \in BOOLEAN /\ Tuned \in CfgSet /\ Tuned.hop_now \in BOOLEAN
    BY TunedFields, CfgFields
  <2>2. c1 = Flagged(Tuned, Tuned.hop_now, Tuned.exit_async \/ LastBuffer(len))
    BY <2>1, Zenon DEF Flagged, CfgSet
  <2> HIDE DEF c1
  <2> DEFINE h == Tuned.hop_now
             e == Tuned.exit_async \/ LastBuffer(len)
  <2>3. h \in BOOLEAN /\ e \in BOOLEAN /\ c1 = Flagged(Tuned, h, e)
    BY <2>1, <2>2
  <2>4. h = cfg.hop_now /\ e = (cfg.exit_async \/ LastBuffer(len))
    BY TunedFields
  <2>5. Tuned \in CfgSet
    BY TunedFields
  <2> HIDE DEF h, e
  <2>6. /\ c1 \in CfgSet /\ SameOptions(c1, Tuned)
        /\ c1.frequency_index = Tuned.frequency_index
        /\ c1.bytes_to_read = Tuned.bytes_to_read
        /\ c1.hop_now = h /\ c1.exit_async = e
        /\ c1.hop_start_time = Tuned.hop_start_time
    <3> DEFINE t == Tuned
    <3>1. t \in CfgSet
      BY <2>5
    <3> HIDE DEF t
    <3>2. LET d == Flagged(t, h, e) IN
          /\ d \in CfgSet /\ SameOptions(d, t)
          /\ d.frequency_index = t.frequency_index /\ d.frequency = t.frequency
          /\ d.bytes_to_read = t.bytes_to_read
          /\ d.hop_now = h /\ d.exit_async = e
          /\ d.hop_start_time = t.hop_start_time
      BY <2>3, <3>1, FlaggedFields
    <3> QED
      BY <2>3, <3>2 DEF t
  <2> QED
    BY <2>4, <2>6, TunedFields DEF SameOptions
<1>2. CASE Takes(len) < sample_size
  <2>1. cfg' = c1 /\ detector' = detector
    BY <1>2 DEF sdr_callback
  <2> HIDE DEF c1
  <2>2. Kept
    BY <1>1, <2>1 DEF Kept, InList, SameOptions
  <2>3. LimitCounted(len)
    BY <1>1, <1>2, <2>1, TakesBound, LoopAssumption DEF LimitCounted
  <2>4. TimeNoticed(len)
    BY <1>2, TakesBound, LoopAssumption DEF TimeNoticed
  <2> QED
    BY <1>1, <2>1, <2>2, <2>3, <2>4 DEF Reasons, HopReasons
<1>3. CASE ~(Takes(len) < sample_size)
  <2>1. cfg' = Hopped(c4) /\ detector' \in {"classic", "minmax"}
    BY <1>3 DEF sdr_callback, FskDetector, DetectorFor
  <2> HIDE DEF c1
  <2>2. /\ c2 \in CfgSet /\ SameOptions(c2, c1)
        /\ c2.frequency_index = c1.frequency_index
        /\ c2.bytes_to_read = IF c1.bytes_to_read > 0 THEN c1.bytes_to_read - Takes(len)
                                                      ELSE c1.bytes_to_read
        /\ c2.hop_now = c1.hop_now /\ c2.exit_async = c1.exit_async
        /\ c2.hop_start_time = c1.hop_start_time
    BY <1>1, CountedDownFields
  <2> HIDE DEF c2
  <2>3. /\ c3 \in CfgSet /\ SameOptions(c3, c2)
        /\ c3.frequency_index = c2.frequency_index /\ c3.bytes_to_read = c2.bytes_to_read
        /\ c3.hop_now = (c2.hop_now \/ (events /\ c2.events_flag = 2))
        /\ c3.exit_async = (c2.exit_async \/ (events /\ c2.events_flag = 1))
        /\ c3.hop_start_time = c2.hop_start_time
    <3> DEFINE h == c2.hop_now \/ (events /\ c2.events_flag = 2)
               e == c2.exit_async \/ (events /\ c2.events_flag = 1)
    <3>1. h \in BOOLEAN /\ e \in BOOLEAN /\ c3 = Flagged(c2, h, e)
      BY <2>2, WithEventsFields, Zenon DEF c3
    <3>2. h = (c2.hop_now \/ (events /\ c2.events_flag = 2)) /\ e = (c2.exit_async \/ (events /\ c2.events_flag = 1))
      OBVIOUS
    <3> HIDE DEF h, e
    <3>3. /\ c3 \in CfgSet /\ SameOptions(c3, c2)
          /\ c3.frequency_index = c2.frequency_index
          /\ c3.bytes_to_read = c2.bytes_to_read
          /\ c3.hop_now = h /\ c3.exit_async = e
          /\ c3.hop_start_time = c2.hop_start_time
      BY <2>2, <3>1, FlaggedFields
    <3> QED
      BY <3>2, <3>3
  <2> HIDE DEF c3
  <2>4. /\ c4 \in CfgSet /\ SameOptions(c4, c3)
        /\ c4.frequency_index = c3.frequency_index /\ c4.bytes_to_read = c3.bytes_to_read
        /\ c4.hop_now = (c3.hop_now \/ TimeToHop(c3))
        /\ c4.exit_async = (c3.exit_async \/ TimeIsUp(c3))
    <3> DEFINE h == c3.hop_now \/ TimeToHop(c3)
               e == c3.exit_async \/ TimeIsUp(c3)
    <3>1. h \in BOOLEAN /\ e \in BOOLEAN /\ c4 = Flagged(c3, h, e)
      BY <2>3, WithClockFields, Zenon DEF c4
    <3>2. h = (c3.hop_now \/ TimeToHop(c3)) /\ e = (c3.exit_async \/ TimeIsUp(c3))
      OBVIOUS
    <3> HIDE DEF h, e
    <3>3. /\ c4 \in CfgSet /\ SameOptions(c4, c3)
          /\ c4.frequency_index = c3.frequency_index
          /\ c4.bytes_to_read = c3.bytes_to_read
          /\ c4.hop_now = h /\ c4.exit_async = e
          /\ c4.hop_start_time = c3.hop_start_time
      BY <2>3, <3>1, FlaggedFields
    <3> QED
      BY <3>2, <3>3
  <2> HIDE DEF c4
  <2>5. /\ SameOptions(c4, cfg) /\ SameOptions(c3, cfg) /\ InList(c4)
        /\ c4.frequency_index = cfg.frequency_index
        /\ c3.frequency_index = cfg.frequency_index
        /\ c3.hop_start_time = cfg.hop_start_time
        /\ c2.events_flag = cfg.events_flag
    BY <1>1, <2>2, <2>3, <2>4 DEF SameOptions, InList
  <2>6. (TimeToHop(c3) <=> TimeToHop(cfg)) /\ (TimeIsUp(c3) <=> TimeIsUp(cfg))
    BY <2>3, <2>5, TimesAlike
  <2>7. /\ Hopped(c4) \in CfgSet /\ SameOptions(Hopped(c4), c4) /\ InList(Hopped(c4))
        /\ Hopped(c4).bytes_to_read = c4.bytes_to_read
        /\ Hopped(c4).exit_async = c4.exit_async
        /\ Hopped(c4).hop_now => c4.hop_now /\ c4.exit_async
        /\ Hopped(c4).frequency_index # c4.frequency_index => c4.hop_now
    BY <2>4, <2>5, HoppedFields
  <2>8. Kept
    BY <2>1, <2>5, <2>7 DEF Kept, SameOptions
  <2>9. LimitCounted(len)
    <3>1. cfg'.bytes_to_read = IF cfg.bytes_to_read > 0 THEN cfg.bytes_to_read - Takes(len)
                                                        ELSE cfg.bytes_to_read
      BY <1>1, <2>1, <2>2, <2>3, <2>4, <2>7
    <3>2. LastBuffer(len) => cfg'.exit_async
      BY <1>1, <2>1, <2>2, <2>3, <2>4, <2>7
    <3>3. Takes(len) >= sample_size
      BY <1>3, TakesBound, LoopAssumption
    <3> QED
      BY <3>1, <3>2, <3>3 DEF LimitCounted
  <2>10. Reasons(len)
    BY <1>1, <2>1, <2>2, <2>3, <2>4, <2>5, <2>6, <2>7 DEF Reasons
  <2>11. HopReasons
    BY <1>1, <2>1, <2>2, <2>3, <2>4, <2>5, <2>6, <2>7 DEF HopReasons
  <2>12. TimeNoticed(len)
    BY <2>1, <2>4, <2>6, <2>7 DEF TimeNoticed
  <2> QED
    BY <2>8, <2>9, <2>10, <2>11, <2>12
<1> QED
  BY <1>2, <1>3

-----------------------------------------------------------------------------
(* The start of a session.                                                  *)

LEMMA BoundedType ==
  ASSUME NEW s \in Seq(Nat)
  PROVE  /\ Bounded(s) \in Seq(Nat)
         /\ Len(Bounded(s)) = IF Len(s) > MAX_FREQS THEN MAX_FREQS ELSE Len(s)
<1>1. Len(s) \in Nat /\ MAX_FREQS \in Nat \ {0} /\ \A k \in 1 .. Len(s) : s[k] \in Nat
  BY LoopAssumption
<1>2. CASE Len(s) > MAX_FREQS
  <2>1. \A k \in 1 .. MAX_FREQS : s[k] \in Nat
    BY <1>1, <1>2
  <2>2. SubSeq(s, 1, MAX_FREQS) \in Seq(Nat) /\ Len(SubSeq(s, 1, MAX_FREQS)) = MAX_FREQS
    BY <1>1, <2>1, SubSeqProperties
  <2> QED
    BY <1>2, <2>2 DEF Bounded
<1>3. CASE ~(Len(s) > MAX_FREQS)
  BY <1>3 DEF Bounded
<1> QED
  BY <1>2, <1>3

LEMMA ConfiguredLists ==
  ASSUME cfg \in CfgSet, Lists(cfg), NEW o \in OptionSet
  PROVE  /\ FrequencyOrDefault(o) \in Seq(Nat) /\ HopTime(o) \in Seq(Nat)
         /\ Len(FrequencyOrDefault(o)) \in 1 .. MAX_FREQS
         /\ Len(FrequencyOrDefault(o)) >= Len(cfg.frequency)
         /\ Len(HopTime(o)) <= MAX_FREQS
<1>1. /\ cfg.frequency \in Seq(Nat) /\ cfg.hop_time \in Seq(Nat)
      /\ o.f \in Seq(Nat) /\ o.H \in Seq(Nat)
      /\ MAX_FREQS \in Nat \ {0} /\ DEFAULT_FREQUENCY \in Nat /\ DEFAULT_HOP_TIME \in Nat
  BY LoopAssumption DEF CfgSet, OptionSet
<1> DEFINE f == cfg.frequency \o o.f
           H == cfg.hop_time \o o.H
<1>2. /\ f \in Seq(Nat) /\ Len(f) = Len(cfg.frequency) + Len(o.f) /\ H \in Seq(Nat)
      /\ Len(cfg.frequency) \in Nat /\ Len(o.f) \in Nat /\ Len(H) \in Nat
  <2>1. f \in Seq(Nat) /\ Len(f) = Len(cfg.frequency) + Len(o.f)
    BY <1>1, ConcatProperties
  <2>2. H \in Seq(Nat)
    BY <1>1, ConcatProperties
  <2> HIDE DEF f, H
  <2> QED
    BY <1>1, <2>1, <2>2
<1>3. Frequency(o) = Bounded(f)
  BY DEF Frequency
<1>4. HopTime(o) = <<DEFAULT_HOP_TIME>> \/ HopTime(o) = Bounded(H)
  BY DEF HopTime
<1> HIDE DEF f, H
<1>5. /\ Frequency(o) \in Seq(Nat) /\ Len(Frequency(o)) <= MAX_FREQS
      /\ Len(Frequency(o)) >= Len(cfg.frequency) /\ Len(Frequency(o)) \in Nat
  <2>1. /\ Bounded(f) \in Seq(Nat)
        /\ Len(Bounded(f)) = IF Len(f) > MAX_FREQS THEN MAX_FREQS ELSE Len(f)
    BY <1>2, BoundedType
  <2> QED
    <3> DEFINE n == Len(cfg.frequency)
               k == Len(f)
               b == Len(Bounded(f))
    <3>1. n \in Nat /\ n <= MAX_FREQS
      BY <1>1 DEF Lists
    <3>2. k \in Nat /\ k >= n
      <4>1. Len(o.f) \in Nat /\ Len(f) = n + Len(o.f)
        BY <1>2
      <4> HIDE DEF n, k
      <4> DEFINE j == Len(o.f)
      <4>2. j \in Nat /\ k = n + j
        BY <4>1 DEF k
      <4> HIDE DEF j
      <4> QED
        BY <3>1, <4>2
    <3>3. b = IF k > MAX_FREQS THEN MAX_FREQS ELSE k
      BY <2>1
    <3>4. MAX_FREQS \in Nat
      BY <1>1
    <3> HIDE DEF n, k, b
    <3>5. b \in Nat /\ b <= MAX_FREQS /\ b >= n
      BY <3>1, <3>2, <3>3, <3>4
    <3> QED
      BY <1>3, <2>1, <3>5 DEF n, b
<1>6. Bounded(H) \in Seq(Nat) /\ Len(Bounded(H)) <= MAX_FREQS
  <2>1. /\ Bounded(H) \in Seq(Nat)
        /\ Len(Bounded(H)) = IF Len(H) > MAX_FREQS THEN MAX_FREQS ELSE Len(H)
    BY <1>2, BoundedType
  <2> QED
    BY <1>1, <1>2, <2>1
<1>7. /\ <<DEFAULT_FREQUENCY>> \in Seq(Nat) /\ Len(<<DEFAULT_FREQUENCY>>) = 1
      /\ <<DEFAULT_HOP_TIME>> \in Seq(Nat) /\ Len(<<DEFAULT_HOP_TIME>>) = 1
  BY <1>1
<1>8. HopTime(o) \in Seq(Nat) /\ Len(HopTime(o)) <= MAX_FREQS
  <2>1. CASE HopTime(o) = Bounded(H)
    BY <1>6, <2>1
  <2>2. CASE HopTime(o) = <<DEFAULT_HOP_TIME>>
    <3>1. 1 <= MAX_FREQS
      BY <1>1
    <3> QED
      BY <1>7, <2>2, <3>1
  <2> QED
    BY <1>4, <2>1, <2>2
<1>9. CASE Frequency(o) = <<>>
  <2>1. FrequencyOrDefault(o) = <<DEFAULT_FREQUENCY>> /\ Len(Frequency(o)) = 0
    BY <1>9 DEF FrequencyOrDefault
  <2> QED
    BY <1>1, <1>2, <1>5, <1>7, <1>8, <2>1
<1>10. CASE Frequency(o) # <<>>
  <2>1. FrequencyOrDefault(o) = Frequency(o) /\ Len(Frequency(o)) # 0
    BY <1>5, <1>10, EmptySeq DEF FrequencyOrDefault
  <2> QED
    BY <1>1, <1>5, <1>8, <2>1
<1> QED
  BY <1>9, <1>10

LEMMA ConfiguredFields ==
  ASSUME cfg \in CfgSet, Lists(cfg), clock \in Nat, NEW o \in OptionSet
  PROVE  /\ Configured(o) \in CfgSet /\ Lists(Configured(o))
         /\ Len(Configured(o).frequency) \in Nat \ {0}
         /\ Len(Configured(o).frequency) >= Len(cfg.frequency)
         /\ Configured(o).frequency_index = cfg.frequency_index
         /\ Configured(o).exit_async = FALSE /\ Configured(o).hop_now = cfg.hop_now
         /\ Configured(o).duration = Given(o.T, cfg.duration)
         /\ Configured(o).bytes_to_read = Given(2 * o.n, cfg.bytes_to_read)
         /\ Configured(o).events_flag = Given(o.E, cfg.events_flag)
         /\ o.T > 0 => Configured(o).stop_time = clock + o.T
<1> DEFINE F == FrequencyOrDefault(o)
           H == HopTime(o)
           d == Given(o.T, cfg.duration)
           s == IF d > 0 THEN clock + d ELSE cfg.stop_time
           b == Given(2 * o.n, cfg.bytes_to_read)
           E == Given(o.E, cfg.events_flag)
           h == IF o.files = <<>> THEN clock ELSE cfg.hop_start_time
           c == [ cfg EXCEPT !.exit_async = FALSE, !.frequency = F, !.hop_time = H,
                    !.duration = d, !.stop_time = s, !.bytes_to_read = b, !.events_flag = E,
                    !.hop_start_time = h ]
<1>1. Configured(o) = c
  BY DEF Configured
<1>2. /\ F \in Seq(Nat) /\ H \in Seq(Nat) /\ Len(F) \in Nat \ {0} /\ Len(F) <= MAX_FREQS
      /\ Len(F) >= Len(cfg.frequency) /\ Len(H) <= MAX_FREQS
  BY ConfiguredLists, LoopAssumption
<1>3. /\ d \in Nat /\ s \in Nat /\ b \in Nat /\ E \in 0 .. 2 /\ h \in Int
      /\ o.T > 0 => s = clock + o.T
  BY CfgFields DEF Given, OptionSet
<1> HIDE DEF F, H, d, s, b, E, h
<1>4. /\ c.frequency = F /\ c.hop_time = H /\ c.duration = d /\ c.stop_time = s
      /\ c.bytes_to_read = b /\ c.events_flag = E /\ c.exit_async = FALSE
      /\ c.frequency_index = cfg.frequency_index
  BY DEF CfgSet
<1>5. c.hop_now = cfg.hop_now
  BY DEF CfgSet
<1>6. c \in CfgSet
  BY <1>2, <1>3 DEF CfgSet
<1> HIDE DEF c
<1> QED
  BY <1>1, <1>2, <1>3, <1>4, <1>5, <1>6 DEF Lists, d, b, E

-----------------------------------------------------------------------------
(* The inductive invariant.                                                 *)

LoopTyped ==
  /\ TypeOK /\ cfg \in CfgSet /\ Lists(cfg)
  /\ opts \in OptionSet /\ files \in Seq(Nat) /\ 2 * opts.n <= MaxTaken

\* Before the first session the list of frequencies may be empty.
IndexInList == InList(cfg) \/ (session = "none" /\ cfg.frequency_index = 0)

\* When no sample is left of the limit, the session has ended: 0 would mean none.
LimitEnds ==
  session = "device" /\ opts.n > 0 /\ cfg.bytes_to_read = 0 => cfg.exit_async

IInv == LoopTyped /\ IndexInList /\ LimitAccounted /\ LimitEnds

LEMMA LoopInit ==
  ASSUME Init
  PROVE  IInv
<1>1. <<>> \in Seq(Nat) /\ Len(<<>>) = 0
  OBVIOUS
<1>2. NoOptions \in OptionSet /\ NoOptions.n = 0
  BY <1>1 DEF NoOptions, OptionSet
<1>3. cfg \in CfgSet /\ Lists(cfg)
  BY <1>1, LoopAssumption DEF Init, CfgSet, Lists, LongAgo
<1>4. TypeOK
  BY <1>1, LoopAssumption DEF Init, TypeOK
<1> QED
  BY <1>1, <1>2, <1>3, <1>4, LoopAssumption
  DEF Init, IInv, LoopTyped, IndexInList, LimitAccounted, LimitEnds

LEMMA TypesHere ==
  ASSUME IInv
  PROVE  /\ clock \in Nat /\ clock \in 0 .. MaxClock /\ _frequency \in Nat /\ _frequency \in Frequencies
         /\ cfg \in CfgSet /\ Lists(cfg) /\ opts \in OptionSet /\ files \in Seq(Nat)
         /\ 2 * opts.n <= MaxTaken /\ opts.n \in Nat /\ opts.T \in Nat /\ opts.E \in 0 .. 2
         /\ unread \in Nat /\ taken \in 0 .. MaxTaken /\ MaxTaken \in Nat
         /\ started \in 0 .. MaxClock /\ sessions \in 0 .. MaxSessions
         /\ detector \in {"none", "classic", "minmax"}
         /\ sample_size \in Nat \ {0} /\ DEFAULT_BUF_LENGTH \in Nat \ {0}
BY LoopAssumption DEF IInv, LoopTyped, TypeOK, OptionSet

\* TypeOK, from what is proved of the configuration and of the rest.
RestTyped ==
  /\ clock \in 0 .. MaxClock /\ _frequency \in Frequencies
  /\ session \in {"none", "device", "open", "read", "flush", "exited"}
  /\ unread \in Nat /\ taken \in 0 .. MaxTaken
  /\ detector \in {"none", "classic", "minmax"}
  /\ started \in 0 .. MaxClock /\ sessions \in 0 .. MaxSessions
  /\ opts \in OptionSet /\ files \in Seq(Nat) /\ 2 * opts.n <= MaxTaken

LEMMA CfgTyped ==
  ASSUME NEW c \in CfgSet
  PROVE  /\ DOMAIN c = { "frequency", "frequency_index", "hop_time", "hop_start_time",
                         "hop_now", "exit_async", "duration", "stop_time", "bytes_to_read",
                         "events_flag" }
         /\ c.bytes_to_read \in Nat /\ c.exit_async \in BOOLEAN /\ c.hop_now \in BOOLEAN
BY DEF CfgSet

LEMMA LoopTypedParts == LoopTyped => RestTyped
BY Zenon DEF LoopTyped, TypeOK, RestTyped

LEMMA LoopTypedAfter ==
  ASSUME RestTyped', cfg' \in CfgSet, Lists(cfg)'
  PROVE  LoopTyped'
<1>1. /\ DOMAIN cfg' = { "frequency", "frequency_index", "hop_time", "hop_start_time",
                         "hop_now", "exit_async", "duration", "stop_time", "bytes_to_read",
                         "events_flag" }
      /\ cfg'.bytes_to_read \in Nat /\ cfg'.exit_async \in BOOLEAN
      /\ cfg'.hop_now \in BOOLEAN
  BY CfgTyped
<1> QED
  BY <1>1, Zenon DEF LoopTyped, TypeOK, RestTyped, Lists

\* A callback, whatever it is given, keeps the configuration typed and hopping in its list.
LEMMA CallbackKeepsList ==
  ASSUME IInv, InList(cfg), NEW len \in Nat, NEW events \in BOOLEAN, sdr_callback(len, events)
  PROVE  /\ cfg' \in CfgSet /\ Lists(cfg)' /\ InList(cfg)'
         /\ detector' \in {"none", "classic", "minmax"}
         /\ LimitCounted(len) /\ Reasons(len) /\ HopReasons /\ SameOptions(cfg', cfg)
         /\ TimeNoticed(len)
<1>1. Kept /\ LimitCounted(len) /\ Reasons(len) /\ HopReasons /\ TimeNoticed(len)
  BY TypesHere, CallbackKeeps
<1>2. Lists(cfg)
  BY TypesHere
<1>3. detector \in {"none", "classic", "minmax"}
  BY TypesHere
<1> QED
  BY <1>1, <1>2, <1>3 DEF Kept, Lists, SameOptions, InList

\* What is taken of a buffer under a limit is what is no longer left of it.
LEMMA LimitKept ==
  ASSUME IInv, session = "device", opts.n > 0, ~cfg.exit_async,
         NEW len \in Nat, LimitCounted(len)
  PROVE  /\ TakenWith(len) + cfg'.bytes_to_read = 2 * opts.n
         /\ cfg'.bytes_to_read = 0 => cfg'.exit_async
<1> DEFINE b == cfg.bytes_to_read
           t == Takes(len)
           N == 2 * opts.n
<1>1. /\ b \in Nat /\ N \in Nat /\ N <= MaxTaken /\ taken \in Nat /\ MaxTaken \in Nat
      /\ sample_size \in Nat \ {0}
  BY TypesHere, CfgFields
<1>2. taken + b = N
  BY DEF IInv, LimitAccounted
<1>3. b > 0
  BY <1>1 DEF IInv, LimitEnds
<1>4. t \in Nat /\ t <= b
  BY TypesHere, TakesBound, <1>3
<1>5. TakenWith(len) = IF t < sample_size THEN taken
                       ELSE IF taken + t > MaxTaken THEN MaxTaken ELSE taken + t
  BY DEF TakenWith
<1>6. cfg'.bytes_to_read = IF b > 0 /\ t >= sample_size THEN b - t ELSE b
  BY DEF LimitCounted
<1>7. LastBuffer(len) <=> b > 0 /\ b <= len
  BY DEF LastBuffer
<1>8. t = b => b <= len
  BY TypesHere, TakesBound
<1>9. LastBuffer(len) => cfg'.exit_async
  BY DEF LimitCounted
<1> HIDE DEF b, t, N
<1>10. TakenWith(len) + cfg'.bytes_to_read = N
  BY <1>1, <1>2, <1>3, <1>4, <1>5, <1>6
<1>11. cfg'.bytes_to_read = 0 => t = b
  BY <1>1, <1>3, <1>4, <1>6
<1> QED
  BY <1>3, <1>7, <1>8, <1>9, <1>10, <1>11 DEF N

LEMMA TakenType ==
  ASSUME IInv, NEW len \in Nat
  PROVE  TakenWith(len) \in 0 .. MaxTaken
<1>1. Takes(len) \in Nat /\ taken \in 0 .. MaxTaken /\ MaxTaken \in Nat /\ sample_size \in Nat
  BY TypesHere, TakesBound
<1> DEFINE t == Takes(len)
<1>2. t \in Nat /\ TakenWith(len) = IF t < sample_size THEN taken
                                    ELSE IF taken + t > MaxTaken THEN MaxTaken ELSE taken + t
  BY <1>1 DEF TakenWith
<1> HIDE DEF t
<1> QED
  BY <1>1, <1>2

-----------------------------------------------------------------------------
(* Every step keeps the invariant.                                          *)

LEMMA CallMainStep ==
  ASSUME IInv, NEW o \in Options, CallMain(o)
  PROVE  IInv'
<1>1. o \in OptionSet /\ 2 * o.n <= MaxTaken
  BY LoopAssumption
<1>2. /\ o.n \in Nat /\ o.files \in Seq(Nat) /\ o.T \in Nat
  BY <1>1 DEF OptionSet
<1>3. /\ cfg' \in CfgSet /\ Lists(cfg)'
      /\ Len(cfg'.frequency) \in Nat \ {0}
      /\ Len(cfg'.frequency) >= Len(cfg.frequency)
      /\ cfg'.frequency_index = cfg.frequency_index
      /\ cfg'.bytes_to_read = Given(2 * o.n, cfg.bytes_to_read)
  <2>1. cfg' = Configured(o)
    BY DEF CallMain
  <2>2. Lists(Configured(o)) => Lists(cfg)'
    BY <2>1 DEF Lists
  <2> QED
    BY <1>1, <2>1, <2>2, TypesHere, ConfiguredFields
<1>4. InList(cfg)'
  <2>1. cfg.frequency_index \in Nat /\ Len(cfg.frequency) \in Nat
    BY TypesHere, CfgFields
  <2> QED
    BY <1>3, <2>1 DEF IInv, IndexInList, InList
<1>5. RestTyped'
  <2>1. sessions' = sessions + 1 /\ sessions < MaxSessions /\ MaxSessions \in Nat
    BY LoopAssumption DEF CallMain
  <2>2. sessions' \in 0 .. MaxSessions
    BY <2>1, TypesHere
  <2>3. taken' \in 0 .. MaxTaken /\ unread' \in Nat
    BY TypesHere DEF CallMain
  <2>4. opts' = o /\ files' = o.files /\ clock' = clock /\ _frequency' = _frequency
        /\ started' = clock /\ detector' = "none" /\ session' \in {"device", "open"}
    BY DEF CallMain
  <2> QED
    BY <1>1, <1>2, <2>2, <2>3, <2>4, TypesHere DEF RestTyped
<1>6. LoopTyped'
  BY <1>3, <1>5, LoopTypedAfter
<1>7. LimitAccounted' /\ LimitEnds'
  <2>1. opts' = o /\ taken' = 0
    BY DEF CallMain
  <2>2. o.n > 0 => Given(2 * o.n, cfg.bytes_to_read) = 2 * o.n
    BY <1>2 DEF Given
  <2> QED
    BY <1>2, <1>3, <2>1, <2>2 DEF LimitAccounted, LimitEnds
<1> QED
  BY <1>4, <1>6, <1>7 DEF IInv, IndexInList

LEMMA ReceiveStep ==
  ASSUME IInv, NEW len \in Buffers, ReceiveBuffer(len)
  PROVE  IInv'
<1>1. len \in Nat /\ InList(cfg) /\ session = "device"
  BY LoopAssumption DEF IInv, IndexInList, ReceiveBuffer
<1>2. UNCHANGED <<clock, _frequency, session, opts, files, started, sessions, unread>>
  BY DEF ReceiveBuffer, loopVars
<1>3. CASE cfg.exit_async
  <2>1. UNCHANGED <<cfg, taken, detector>>
    BY <1>3 DEF ReceiveBuffer
  <2>2. UNCHANGED vars
    BY <1>2, <2>1 DEF vars
  <2> QED
    BY <2>2, Zenon DEF vars, IInv, LoopTyped, TypeOK, Lists, IndexInList, InList, LimitAccounted, LimitEnds
<1>4. CASE ~cfg.exit_async
  <2>1. PICK events \in BOOLEAN : sdr_callback(len, events)
    BY <1>4 DEF ReceiveBuffer
  <2>2. taken' = TakenWith(len)
    BY <1>4 DEF ReceiveBuffer
  <2>3. /\ cfg' \in CfgSet /\ Lists(cfg)' /\ InList(cfg)'
        /\ detector' \in {"none", "classic", "minmax"} /\ LimitCounted(len)
    BY <1>1, <2>1, CallbackKeepsList
  <2>4. RestTyped'
    <3>1. taken' \in 0 .. MaxTaken
      BY <1>1, <2>2, TakenType
    <3>2. RestTyped
      BY LoopTypedParts DEF IInv
    <3> QED
      BY <1>2, <2>3, <3>1, <3>2 DEF RestTyped
  <2>5. LoopTyped'
    BY <2>3, <2>4, LoopTypedAfter
  <2>6. opts.n > 0 => /\ taken' + cfg'.bytes_to_read = 2 * opts.n
                      /\ cfg'.bytes_to_read = 0 => cfg'.exit_async
    BY <1>1, <1>4, <2>2, <2>3, LimitKept
  <2>7. LimitAccounted' /\ LimitEnds'
    BY <1>2, <2>6 DEF LimitAccounted, LimitEnds
  <2> QED
    BY <2>3, <2>5, <2>7 DEF IInv, IndexInList
<1> QED
  BY <1>3, <1>4

LEMMA FileStep ==
  ASSUME IInv, OpenFile \/ ReadBlock \/ FlushFile
  PROVE  IInv'
<1>1. session # "none" /\ session # "device" /\ session' # "none" /\ session' # "device"
      /\ session' \in {"open", "read", "flush", "exited"}
  BY DEF OpenFile, ReadBlock, FlushFile
<1>2. InList(cfg)
  BY <1>1 DEF IInv, IndexInList
<1>3. UNCHANGED <<clock, _frequency, opts, started, sessions>>
  BY DEF OpenFile, ReadBlock, FlushFile, loopVars
<1>4. /\ cfg' \in CfgSet /\ Lists(cfg)' /\ InList(cfg)'
      /\ detector' \in {"none", "classic", "minmax"}
      /\ taken' \in 0 .. MaxTaken /\ unread' \in Nat /\ files' \in Seq(Nat)
  <2>1. CASE UNCHANGED <<cfg, detector, taken, unread>> /\ files' = files
    BY <1>2, <2>1, TypesHere DEF Lists, InList
  <2>2. CASE OpenFile /\ files # <<>>
    <3>1. files' = Tail(files) /\ unread' = Head(files) /\ UNCHANGED <<cfg, detector, taken>>
      BY <2>2 DEF OpenFile
    <3>2. files' \in Seq(Nat) /\ unread' \in Nat
      BY <2>2, <3>1, TypesHere, HeadTailProperties
    <3> QED
      BY <1>2, <3>1, <3>2, TypesHere DEF Lists, InList
  <2>3. CASE ReadBlock
    <3> DEFINE len == IF unread < DEFAULT_BUF_LENGTH THEN unread ELSE DEFAULT_BUF_LENGTH
    <3>1. len \in Nat /\ len <= unread
      BY TypesHere
    <3>2. files' = files
      BY <2>3 DEF ReadBlock, loopVars
    <3>3. CASE len = 0
      <4>1. UNCHANGED <<cfg, unread, taken, detector>>
        BY <2>3, <3>3 DEF ReadBlock
      <4> QED
        BY <1>2, <3>2, <4>1, TypesHere DEF Lists, InList
    <3>4. CASE len # 0
      <4>1. PICK events \in BOOLEAN : /\ sdr_callback(len, events)
                                      /\ unread' = unread - len
                                      /\ taken' = TakenWith(len)
        BY <2>3, <3>4 DEF ReadBlock
      <4> HIDE DEF len
      <4>2. unread' \in Nat /\ taken' \in 0 .. MaxTaken
        <5>1. unread \in Nat /\ taken' \in 0 .. MaxTaken
          BY <3>1, <4>1, TypesHere, TakenType
        <5> QED
          BY <3>1, <4>1, <5>1
      <4> QED
        BY <1>2, <3>1, <3>2, <4>1, <4>2, TypesHere, CallbackKeepsList
    <3> QED
      BY <3>3, <3>4
  <2>4. CASE FlushFile
    <3>1. PICK events \in BOOLEAN : sdr_callback(DEFAULT_BUF_LENGTH, events)
      BY <2>4 DEF FlushFile
    <3>2. files' = files /\ taken' = taken /\ unread' = unread
      BY <2>4 DEF FlushFile, loopVars
    <3>3. DEFAULT_BUF_LENGTH \in Nat
      BY TypesHere
    <3> QED
      BY <1>2, <3>1, <3>2, <3>3, TypesHere, CallbackKeepsList
  <2>5. CASE OpenFile /\ files = <<>>
    BY <2>1, <2>5 DEF OpenFile
  <2> QED
    BY <2>2, <2>3, <2>4, <2>5
<1>5. RestTyped'
  BY <1>1, <1>3, <1>4, TypesHere DEF RestTyped
<1>6. LoopTyped'
  BY <1>4, <1>5, LoopTypedAfter
<1> QED
  BY <1>1, <1>4, <1>6 DEF IInv, IndexInList, LimitAccounted, LimitEnds

LEMMA LoopStep ==
  ASSUME IInv, [Next]_vars
  PROVE  IInv'
<1>1. CASE \E o \in Options : CallMain(o)
  BY <1>1, CallMainStep
<1>2. CASE \E len \in Buffers : ReceiveBuffer(len)
  BY <1>2, ReceiveStep
<1>3. CASE OpenFile \/ ReadBlock \/ FlushFile
  BY <1>3, FileStep
<1>4. CASE stop_sdr \/ setFrequency \/ Tick \/ UNCHANGED vars
  <2>1. UNCHANGED <<cfg, opts, files, started, sessions, unread, taken, detector>>
    BY <1>4 DEF stop_sdr, setFrequency, Tick, vars, loopVars
  <2>2. clock' \in 0 .. MaxClock
    <3>1. clock' = clock \/ (clock < MaxClock /\ clock' = clock + 1)
      BY <1>4 DEF stop_sdr, setFrequency, Tick, vars
    <3>2. MaxClock \in Nat /\ clock \in 0 .. MaxClock
      BY TypesHere, LoopAssumption
    <3> QED
      BY <3>1, <3>2
  <2>3. _frequency' \in Frequencies
    BY <1>4, TypesHere DEF stop_sdr, setFrequency, Tick, vars
  <2>4. session' = session \/ (session = "device" /\ session' = "none")
    BY <1>4 DEF stop_sdr, setFrequency, Tick, vars
  <2>5. RestTyped'
    <3>1. RestTyped
      BY LoopTypedParts DEF IInv
    <3> QED
      BY <2>1, <2>2, <2>3, <2>4, <3>1 DEF RestTyped
  <2>6. cfg' \in CfgSet /\ Lists(cfg)'
    BY <2>1, TypesHere DEF Lists
  <2>7. LoopTyped'
    BY <2>5, <2>6, LoopTypedAfter
  <2> QED
    BY <2>1, <2>4, <2>7 DEF IInv, IndexInList, InList, LimitAccounted, LimitEnds
<1> QED
  BY <1>1, <1>2, <1>3, <1>4 DEF Next

\* Type correctness: lists stay within MAX_FREQS, limits are never negative.
THEOREM LoopTypeOK == Spec => []TypeOK
<1>1. IInv => TypeOK
  BY DEF IInv, LoopTyped
<1> QED
  BY LoopInit, LoopStep, <1>1, PTL DEF Spec

\* In every session of buffers with a limit, what was taken and what is left is the limit.
THEOREM LoopLimitAccounted == Spec => []LimitAccounted
<1>1. IInv => LimitAccounted
  BY DEF IInv
<1> QED
  BY LoopInit, LoopStep, <1>1, PTL DEF Spec

\* In every session the index is one of a frequency, although it is never set back.
THEOREM LoopHopInRange == Spec => []HopInRange
<1>1. IInv => HopInRange
  BY DEF IInv, IndexInList, InList, HopInRange
<1> QED
  BY LoopInit, LoopStep, <1>1, PTL DEF Spec

-----------------------------------------------------------------------------
(* The end of the duration, in every session.                               *)

\* The end that main sets is the one the options of this session ask for.
EndTimed ==
  session = "device" /\ opts.T > 0 =>
    cfg.duration = opts.T /\ cfg.stop_time = started + opts.T

LEMMA EndTimedStep ==
  ASSUME IInv, EndTimed, [Next]_vars
  PROVE  EndTimed'
<1>1. ASSUME NEW o \in Options, CallMain(o)
      PROVE  EndTimed'
  <2>1. o \in OptionSet /\ o.T \in Nat
    BY LoopAssumption DEF OptionSet
  <2>2. cfg' = Configured(o) /\ opts' = o /\ started' = clock
    BY <1>1 DEF CallMain
  <2>3. /\ cfg'.duration = Given(o.T, cfg.duration)
        /\ o.T > 0 => cfg'.stop_time = clock + o.T
    BY <2>1, <2>2, TypesHere, ConfiguredFields
  <2> QED
    BY <2>1, <2>2, <2>3 DEF EndTimed, Given
<1>2. ASSUME NEW len \in Buffers, ReceiveBuffer(len), ~cfg.exit_async
      PROVE  EndTimed'
  <2>1. PICK events \in BOOLEAN : sdr_callback(len, events)
    BY <1>2 DEF ReceiveBuffer
  <2>2. len \in Nat /\ InList(cfg)
    BY <1>2, LoopAssumption DEF IInv, IndexInList, ReceiveBuffer
  <2>3. SameOptions(cfg', cfg)
    BY <2>1, <2>2, CallbackKeepsList
  <2>4. UNCHANGED <<session, opts, started>>
    BY <1>2 DEF ReceiveBuffer, loopVars
  <2> QED
    BY <2>3, <2>4 DEF EndTimed, SameOptions
<1>3. CASE OpenFile \/ ReadBlock \/ FlushFile
  <2>1. session' # "device"
    BY <1>3 DEF OpenFile, ReadBlock, FlushFile
  <2> QED
    BY <2>1 DEF EndTimed
<1>4. CASE \/ stop_sdr \/ setFrequency \/ Tick \/ UNCHANGED vars
           \/ \E len \in Buffers : ReceiveBuffer(len) /\ cfg.exit_async
  <2>1. UNCHANGED <<cfg, opts, started>> /\ session' \in {session, "none"}
    BY <1>4 DEF stop_sdr, setFrequency, Tick, ReceiveBuffer, vars, loopVars
  <2> QED
    BY <2>1 DEF EndTimed
<1> QED
  BY <1>1, <1>2, <1>3, <1>4 DEF Next

\* A session of buffers that was given a duration ends with the first buffer that holds a
\* sample and comes after it, be it cut by a limit or not, in every session.  With a clock
\* that runs and buffers that are delivered, which TLC assumes, this is DurationEnds.
THEOREM LoopEndsOnTime ==
  Spec => [][\A len \in Buffers :
               ReceiveBuffer(len) /\ len >= sample_size
                 /\ opts.T > 0 /\ clock >= started + opts.T => cfg'.exit_async]_vars
<1>1. Init => EndTimed
  BY DEF Init, EndTimed
<1>2. ASSUME IInv, EndTimed, NEW len \in Buffers, ReceiveBuffer(len), len >= sample_size,
             opts.T > 0, clock >= started + opts.T
      PROVE  cfg'.exit_async
  <2>1. CASE cfg.exit_async
    BY <1>2, <2>1 DEF ReceiveBuffer
  <2>2. CASE ~cfg.exit_async
    <3>1. PICK events \in BOOLEAN : sdr_callback(len, events)
      BY <1>2, <2>2 DEF ReceiveBuffer
    <3>2. len \in Nat /\ InList(cfg) /\ session = "device"
      BY <1>2, LoopAssumption DEF IInv, IndexInList, ReceiveBuffer
    <3>3. LimitCounted(len) /\ TimeNoticed(len)
      BY <1>2, <3>1, <3>2, CallbackKeepsList
    <3>4. TimeIsUp(cfg)
      BY <1>2, <3>2 DEF EndTimed, TimeIsUp
    <3>5. ~LastBuffer(len) => Takes(len) = len
      BY DEF Takes
    <3> QED
      BY <1>2, <3>3, <3>4, <3>5 DEF LimitCounted, TimeNoticed
  <2> QED
    BY <2>1, <2>2
<1>3. IInv /\ EndTimed /\ [Next]_vars => EndTimed'
  BY EndTimedStep
<1>4. IInv /\ EndTimed =>
        [\A len \in Buffers :
           ReceiveBuffer(len) /\ len >= sample_size
             /\ opts.T > 0 /\ clock >= started + opts.T => cfg'.exit_async]_vars
  BY <1>2
<1> QED
  BY LoopInit, LoopStep, <1>1, <1>3, <1>4, PTL DEF Spec

-----------------------------------------------------------------------------
(* The first session: nothing is left of one before.                        *)

FirstSession ==
  /\ session # "none" => sessions # 0
  /\ sessions = 0 =>
       /\ cfg.duration = 0 /\ cfg.bytes_to_read = 0 /\ cfg.events_flag = 0 /\ ~cfg.hop_now
  /\ session = "device" =>
       /\ cfg.duration = opts.T /\ cfg.events_flag = opts.E
       /\ cfg.bytes_to_read > 0 => opts.n > 0
       /\ opts.T > 0 => cfg.stop_time = started + opts.T
       /\ cfg.hop_now => cfg.exit_async \/ opts.E = 2
  /\ EndsOnlyAsAsked

\* The configuration that main makes of the one of r_init_cfg.
LEMMA FirstConfigured ==
  ASSUME IInv, FirstSession, NEW o \in Options, CallMain(o), sessions = 0
  PROVE  FirstSession'
<1>1. o \in OptionSet /\ o.T \in Nat /\ o.E \in 0 .. 2 /\ o.n \in Nat
  BY LoopAssumption DEF OptionSet
<1>2. /\ cfg.duration = 0 /\ cfg.bytes_to_read = 0 /\ cfg.events_flag = 0 /\ ~cfg.hop_now
  BY DEF FirstSession
<1>3. cfg' = Configured(o) /\ opts' = o /\ started' = clock /\ sessions' = 1
  BY DEF CallMain
<1>4. /\ cfg'.exit_async = FALSE /\ cfg'.hop_now = cfg.hop_now
      /\ cfg'.duration = Given(o.T, cfg.duration)
      /\ cfg'.bytes_to_read = Given(2 * o.n, cfg.bytes_to_read)
      /\ cfg'.events_flag = Given(o.E, cfg.events_flag)
      /\ o.T > 0 => cfg'.stop_time = clock + o.T
  BY <1>1, <1>3, TypesHere, ConfiguredFields
<1>5. /\ cfg'.duration = o.T /\ cfg'.events_flag = o.E /\ cfg'.bytes_to_read = 2 * o.n
  BY <1>1, <1>2, <1>4 DEF Given
<1> QED
  BY <1>1, <1>2, <1>3, <1>4, <1>5 DEF FirstSession, EndsOnlyAsAsked

LEMMA FirstReceive ==
  ASSUME IInv, FirstSession, NEW len \in Buffers, ReceiveBuffer(len), ~cfg.exit_async
  PROVE  FirstSession'
<1>1. /\ len \in Nat /\ InList(cfg) /\ session = "device" /\ sample_size \in Nat \ {0}
  BY LoopAssumption DEF IInv, IndexInList, ReceiveBuffer
<1>2. UNCHANGED <<clock, session, opts, started, sessions>>
  BY DEF ReceiveBuffer, loopVars
<1>3. PICK events \in BOOLEAN : sdr_callback(len, events)
  BY DEF ReceiveBuffer
<1>4. LimitCounted(len) /\ Reasons(len) /\ HopReasons /\ SameOptions(cfg', cfg)
  BY <1>1, <1>3, CallbackKeepsList
<1>5. /\ cfg.duration = opts.T /\ cfg.events_flag = opts.E
      /\ cfg.bytes_to_read > 0 => opts.n > 0
      /\ opts.T > 0 => cfg.stop_time = started + opts.T
      /\ cfg.hop_now => opts.E = 2
      /\ sessions # 0
  BY <1>1 DEF FirstSession
<1> DEFINE b == cfg.bytes_to_read
           t == Takes(len)
<1>6. b \in Nat /\ t \in Nat /\ (b > 0 => t <= b) /\ (LastBuffer(len) => t = b)
  BY <1>1, TypesHere, TakesBound, CfgFields
<1>7. cfg'.bytes_to_read = IF b > 0 /\ t >= sample_size THEN b - t ELSE b
  BY <1>4 DEF LimitCounted
<1>8. LastBuffer(len) => b > 0
  BY DEF LastBuffer
<1>9. b > 0 => opts.n > 0
  BY <1>5
<1> HIDE DEF b, t
<1>10. (cfg'.bytes_to_read > 0 => opts.n > 0)
       /\ (LastBuffer(len) => opts.n > 0 /\ cfg'.bytes_to_read < sample_size)
  BY <1>1, <1>6, <1>7, <1>8, <1>9
<1>11. cfg'.exit_async => \/ opts.n > 0 /\ cfg'.bytes_to_read < sample_size
                          \/ opts.T > 0 /\ clock >= started + opts.T
                          \/ opts.E = 1
  <2>1. TimeIsUp(cfg) => opts.T > 0 /\ clock >= started + opts.T
    BY <1>5 DEF TimeIsUp
  <2> QED
    BY <1>4, <1>5, <1>10, <2>1 DEF Reasons
<1>12. cfg'.hop_now => cfg'.exit_async \/ opts.E = 2
  BY <1>4, <1>5 DEF HopReasons
<1>13. cfg'.duration = opts.T /\ cfg'.events_flag = opts.E /\ cfg'.stop_time = cfg.stop_time
  BY <1>4, <1>5 DEF SameOptions
<1> QED
  BY <1>1, <1>2, <1>5, <1>10, <1>11, <1>12, <1>13 DEF FirstSession, EndsOnlyAsAsked

LEMMA FirstStep ==
  ASSUME MaxSessions = 1, IInv, FirstSession, [Next]_vars
  PROVE  FirstSession'
<1>1. CASE \E o \in Options : CallMain(o)
  <2>1. PICK o \in Options : CallMain(o)
    BY <1>1
  <2>2. sessions = 0
    BY <2>1, TypesHere DEF CallMain
  <2> QED
    BY <2>1, <2>2, FirstConfigured
<1>2. CASE \E len \in Buffers : ReceiveBuffer(len) /\ ~cfg.exit_async
  BY <1>2, FirstReceive
<1>3. CASE OpenFile \/ ReadBlock \/ FlushFile
  <2>1. session # "none" /\ session' # "device" /\ sessions' = sessions
    BY <1>3 DEF OpenFile, ReadBlock, FlushFile, loopVars
  <2> QED
    BY <2>1 DEF FirstSession, EndsOnlyAsAsked
<1>4. CASE \/ stop_sdr \/ setFrequency \/ Tick \/ UNCHANGED vars
           \/ \E len \in Buffers : ReceiveBuffer(len) /\ cfg.exit_async
  <2>1. UNCHANGED <<cfg, opts, started, sessions>>
    BY <1>4 DEF stop_sdr, setFrequency, Tick, ReceiveBuffer, vars, loopVars
  <2>2. session' = session \/ (session = "device" /\ session' = "none")
    BY <1>4 DEF stop_sdr, setFrequency, Tick, ReceiveBuffer, vars
  <2>3. clock' >= clock
    <3>1. clock' = clock \/ clock' = clock + 1
      BY <1>4 DEF stop_sdr, setFrequency, Tick, ReceiveBuffer, vars
    <3> QED
      BY <3>1, TypesHere
  <2>4. /\ clock \in Nat /\ clock' \in Int
        /\ started \in Nat /\ opts.T \in Nat
    <3>1. clock' = clock \/ clock' = clock + 1
      BY <1>4 DEF stop_sdr, setFrequency, Tick, ReceiveBuffer, vars
    <3> QED
      BY <3>1, TypesHere
  <2>5. clock >= started + opts.T => clock' >= started + opts.T
    BY <2>3, <2>4
  <2>6. EndsOnlyAsAsked'
    BY <2>1, <2>2, <2>5 DEF FirstSession, EndsOnlyAsAsked
  <2> QED
    BY <2>1, <2>2, <2>6 DEF FirstSession
<1> QED
  BY <1>1, <1>2, <1>3, <1>4 DEF Next

LEMMA FirstInit ==
  ASSUME Init
  PROVE  FirstSession
BY DEF Init, FirstSession, EndsOnlyAsAsked

\* The first session of buffers ends for no reason but those it was given.
THEOREM LoopEndsOnlyAsAsked ==
  ASSUME MaxSessions = 1
  PROVE  Spec => []EndsOnlyAsAsked
<1>1. IInv /\ FirstSession /\ [Next]_vars => FirstSession'
  BY FirstStep
<1>2. FirstSession => EndsOnlyAsAsked
  BY DEF FirstSession
<1> QED
  BY LoopInit, FirstInit, LoopStep, <1>1, <1>2, PTL DEF Spec

\* The first session leaves no frequency before its hop time, unless events make it hop.
LEMMA HopStep ==
  ASSUME IInv, FirstSession, [Next]_vars, Hops, session = "device", opts.E # 2
  PROVE  clock - cfg.hop_start_time >= OwnHopTime(cfg.frequency_index)
<1>1. PICK len \in Buffers : ReceiveBuffer(len) /\ ~cfg.exit_async
  BY DEF Hops, Next, CallMain, stop_sdr, setFrequency, Tick, ReceiveBuffer, OpenFile,
         ReadBlock, FlushFile, vars
<1>2. PICK events \in BOOLEAN : sdr_callback(len, events)
  BY <1>1 DEF ReceiveBuffer
<1>3. HopReasons
  BY <1>2, LoopAssumption, CallbackKeepsList DEF IInv, IndexInList
<1>4. TimeToHop(cfg)
  BY <1>1, <1>3 DEF HopReasons, Hops, FirstSession
<1>5. cfg.hop_time[HopIndex(cfg)] = OwnHopTime(cfg.frequency_index)
  BY DEF HopIndex, OwnHopTime, Last
<1> QED
  BY <1>4, <1>5 DEF TimeToHop

THEOREM LoopDwellsOnFrequency ==
  ASSUME MaxSessions = 1
  PROVE  Spec => DwellsOnFrequency
<1>1. IInv /\ FirstSession /\ [Next]_vars => FirstSession'
  BY FirstStep
<1>2. IInv /\ FirstSession /\ [Next]_vars =>
        [Hops /\ session = "device" /\ opts.E # 2
           => clock - cfg.hop_start_time >= OwnHopTime(cfg.frequency_index)]_vars
  BY HopStep
<1> QED
  BY LoopInit, FirstInit, LoopStep, <1>1, <1>2, PTL DEF Spec, DwellsOnFrequency
===============================================================================

------------------------------ MODULE SampleLoop ------------------------------
(***************************************************************************)
(* What decides when a session starts, ends and hops (src/src/rtl_433.c):  *)
(* main sets up the one static configuration, for device buffers that the  *)
(* plugin delivers or for recorded files, and every call of sdr_callback   *)
(* takes its limits, its events and the clock into account.                *)
(*                                                                         *)
(* A session that reads files ends the process, one that takes buffers     *)
(* ends with stop_sdr, after which rtl_433_call_main may be called again:  *)
(* the configuration keeps what r_init_cfg and main do not set.  Calls of  *)
(* the plugin do not overlap; only setFrequency comes at any time.         *)
(***************************************************************************)
EXTENDS Integers, SequencesExt

CONSTANTS
  MAX_FREQS,                  \* length of the lists of frequencies and hop times
  DEFAULT_FREQUENCY, DEFAULT_HOP_TIME, FSK_PULSE_DETECTOR_LIMIT,
  DEFAULT_BUF_LENGTH,         \* bytes of a block of a file
  sample_size,                \* bytes of a sample
  Options,                    \* the command lines a session may be started with
  Frequencies,                \* frequencies the plugin tunes to
  Buffers,                    \* bytes of the buffers the plugin delivers
  MaxClock,                   \* bound: seconds
  MaxTaken,                   \* bound: bytes of a session that are counted
  MaxSessions                 \* bound

\* f and H: the values of all options -f and -H; n, T: 0 if not given;
\* E: 0, 1 "quit", 2 "hop"; files: the lengths of the input files.
OptionSet ==
  [ f: Seq(Nat), H: Seq(Nat), n: Nat, T: Nat, E: 0 .. 2, files: Seq(Nat) ]

ASSUME LoopAssumption ==
  /\ MAX_FREQS \in Nat \ {0} /\ DEFAULT_FREQUENCY \in Nat /\ DEFAULT_HOP_TIME \in Nat
  /\ FSK_PULSE_DETECTOR_LIMIT \in Nat
  /\ sample_size \in Nat \ {0} /\ DEFAULT_BUF_LENGTH \in Nat \ {0}
  /\ Frequencies \subseteq Nat /\ Buffers \subseteq Nat \ {0}
  /\ MaxClock \in Nat /\ MaxTaken \in Nat /\ MaxSessions \in Nat
  /\ Options \subseteq OptionSet
  /\ \A o \in Options : 2 * o.n <= MaxTaken    \* what -n asks for can be counted

VARIABLES
  clock,         \* time()
  _frequency,    \* what setFrequency last said the plugin is tuned to
  cfg,           \* the part of r_cfg_t that decides
  session,       \* "none", "device", "open" a file, "read" it, "flush", "exited"
  opts,          \* the options of this session
  files,         \* lengths of the files not opened yet
  unread,        \* bytes of the open file not read yet
  taken,         \* auxiliary: bytes of samples this session processed, up to MaxTaken
  detector,      \* auxiliary: the FSK detector chosen for the newest buffer
  started,       \* auxiliary: when the session started
  sessions       \* auxiliary: sessions started

loopVars == <<opts, files, started, sessions>>
vars ==
  <<clock, _frequency, cfg, session, opts, files, unread, taken, detector, started, sessions>>

\* Time 0 of the system, long before the first session.
LongAgo == -1000

NoOptions == [f |-> <<>>, H |-> <<>>, n |-> 0, T |-> 0, E |-> 0, files |-> <<>>]

Init ==
  /\ clock = 0 /\ _frequency \in Frequencies
  /\ cfg = [ frequency |-> <<>>, frequency_index |-> 0, hop_time |-> <<>>,
             hop_start_time |-> LongAgo, hop_now |-> FALSE, exit_async |-> FALSE,
             duration |-> 0, stop_time |-> 0, bytes_to_read |-> 0, events_flag |-> 0 ]
  /\ session = "none" /\ opts = NoOptions /\ files = <<>> /\ unread = 0
  /\ taken = 0 /\ detector = "none" /\ started = 0 /\ sessions = 0

\* The plugin is tuned to another frequency.
setFrequency ==
  /\ session = "device"
  /\ _frequency' \in Frequencies
  /\ UNCHANGED <<clock, cfg, session, loopVars, unread, taken, detector>>

Tick ==
  /\ clock < MaxClock /\ clock' = clock + 1
  /\ UNCHANGED <<_frequency, cfg, session, loopVars, unread, taken, detector>>

-----------------------------------------------------------------------------
(* Start and end of a session.                                              *)

\* A list holds at most MAX_FREQS values, the rest is refused with a message.
Bounded(s) == IF Len(s) > MAX_FREQS THEN SubSeq(s, 1, MAX_FREQS) ELSE s

\* An option that is not given leaves what the session before has set.
Given(value, before) == IF value # 0 THEN value ELSE before

\* parse_conf_option, then the defaults.
Frequency(o) == Bounded(cfg.frequency \o o.f)
FrequencyOrDefault(o) == IF Frequency(o) = <<>> THEN <<DEFAULT_FREQUENCY>> ELSE Frequency(o)
HopTime(o) ==
  LET given == Bounded(cfg.hop_time \o o.H)
  IN  IF Len(FrequencyOrDefault(o)) > 1 /\ given = <<>> THEN <<DEFAULT_HOP_TIME>> ELSE given

Configured(o) ==
  [ cfg EXCEPT
      !.exit_async = FALSE,
      !.frequency = FrequencyOrDefault(o),
      !.hop_time = HopTime(o),
      !.duration = Given(o.T, @),
      !.stop_time = IF Given(o.T, cfg.duration) > 0 THEN clock + Given(o.T, cfg.duration) ELSE @,
      !.bytes_to_read = Given(2 * o.n, @),
      !.events_flag = Given(o.E, @),
      !.hop_start_time = IF o.files = <<>> THEN clock ELSE @ ]

\* rtl_433_call_main: the session takes buffers, or reads the files it was given.
CallMain(o) ==
  /\ session = "none" /\ sessions < MaxSessions /\ clock + o.T <= MaxClock
  /\ cfg' = Configured(o)
  /\ session' = IF o.files = <<>> THEN "device" ELSE "open"
  /\ opts' = o /\ files' = o.files /\ unread' = 0 /\ taken' = 0 /\ detector' = "none"
  /\ started' = clock /\ sessions' = sessions + 1
  /\ UNCHANGED <<clock, _frequency>>

stop_sdr ==
  /\ session = "device" /\ session' = "none"
  /\ UNCHANGED <<clock, _frequency, cfg, loopVars, unread, taken, detector>>

-----------------------------------------------------------------------------
(* sdr_callback.                                                            *)

\* Faulty: the frequency of the options stays.
Untuned == cfg

\* The frequency the plugin is tuned to becomes the first of the list.
Tuned == [cfg EXCEPT !.frequency[1] = _frequency]

\* The limit of option -n is reached with this buffer.
LastBuffer(len) == cfg.bytes_to_read > 0 /\ cfg.bytes_to_read <= len

Takes(len) == IF LastBuffer(len) THEN cfg.bytes_to_read ELSE len

DetectorFor(f) == IF f > FSK_PULSE_DETECTOR_LIMIT THEN "minmax" ELSE "classic"
FskDetector(c) == DetectorFor(c.frequency[c.frequency_index + 1])

\* Faulty: the limit is not counted down.
UncountedDown(c, len) == c

CountedDown(c, len) == [c EXCEPT !.bytes_to_read = IF @ > 0 THEN @ - Takes(len) ELSE @]

\* Faulty: any option -E ends the session.
WithEventsQuit(c, events) ==
  [c EXCEPT !.exit_async = @ \/ (events /\ c.events_flag > 0)]

\* Option -E: an event ends the session or asks for a hop.
WithEvents(c, events) ==
  [ c EXCEPT !.exit_async = @ \/ (events /\ c.events_flag = 1),
             !.hop_now    = @ \/ (events /\ c.events_flag = 2) ]

\* Faulty: always the last hop time.
LastHopIndex(c) == Len(c.hop_time)

\* The hop time of the frequency, or the last one if there are too few.
HopIndex(c) ==
  IF Len(c.hop_time) > c.frequency_index THEN c.frequency_index + 1 ELSE Len(c.hop_time)

TimeToHop(c) ==
  /\ Len(c.hop_time) > 0 /\ Len(c.frequency) > 1
  /\ clock - c.hop_start_time >= c.hop_time[HopIndex(c)]

\* Faulty: the second of the end may be missed.
TimeIsUpExactly(c) == c.duration > 0 /\ clock = c.stop_time

TimeIsUp(c) == c.duration > 0 /\ clock >= c.stop_time

WithClock(c) ==
  [ c EXCEPT !.hop_now = @ \/ TimeToHop(c), !.exit_async = @ \/ TimeIsUp(c) ]

\* Faulty: the index runs through the whole array.
NextIndexUnused(c) == (c.frequency_index + 1) % MAX_FREQS

NextIndex(c) == (c.frequency_index + 1) % Len(c.frequency)

Hopped(c) ==
  IF c.hop_now /\ ~c.exit_async
  THEN [ c EXCEPT !.hop_now = FALSE, !.hop_start_time = clock, !.frequency_index = NextIndex(c) ]
  ELSE c

\* A buffer with less than a sample is not processed, but may be the last.
sdr_callback(len, events) ==
  LET c == [Tuned EXCEPT !.exit_async = @ \/ LastBuffer(len)]
  IN  IF Takes(len) < sample_size
      THEN cfg' = c /\ UNCHANGED detector
      ELSE /\ cfg' = Hopped(WithClock(WithEvents(CountedDown(c, len), events)))
           /\ detector' = FskDetector(c)

TakenWith(len) ==
  IF Takes(len) < sample_size THEN taken
  ELSE IF taken + Takes(len) > MaxTaken THEN MaxTaken ELSE taken + Takes(len)

\* receive_buffer_cb: a buffer of the plugin, unless the session is to end.
ReceiveBuffer(len) ==
  /\ session = "device"
  /\ IF cfg.exit_async
     THEN UNCHANGED <<cfg, taken, detector>>
     ELSE /\ \E events \in BOOLEAN : sdr_callback(len, events)
          /\ taken' = TakenWith(len)
  /\ UNCHANGED <<clock, _frequency, session, loopVars, unread>>

-----------------------------------------------------------------------------
(* Files.                                                                   *)

OpenFile ==
  /\ session = "open"
  /\ IF files = <<>>
     THEN session' = "exited" /\ UNCHANGED <<files, unread>>
     ELSE session' = "read" /\ unread' = Head(files) /\ files' = Tail(files)
  /\ UNCHANGED <<clock, _frequency, cfg, opts, taken, detector, started, sessions>>

\* One turn of the loop over the blocks of a file.
ReadBlock ==
  /\ session = "read"
  /\ LET len == IF unread < DEFAULT_BUF_LENGTH THEN unread ELSE DEFAULT_BUF_LENGTH
     IN  IF len = 0
         THEN session' = "flush" /\ UNCHANGED <<cfg, unread, taken, detector>>
         ELSE \E events \in BOOLEAN :
                /\ sdr_callback(len, events)
                /\ unread' = unread - len
                /\ taken' = TakenWith(len)
                /\ session' = IF cfg'.exit_async THEN "flush" ELSE "read"
  /\ UNCHANGED <<clock, _frequency, loopVars>>

\* The cleared samples after a file, then the next file.
FlushFile ==
  /\ session = "flush" /\ session' = "open"
  /\ \E events \in BOOLEAN : sdr_callback(DEFAULT_BUF_LENGTH, events)
  /\ UNCHANGED <<clock, _frequency, loopVars, unread, taken>>

Next ==
  \/ \E o \in Options : CallMain(o)
  \/ stop_sdr \/ setFrequency \/ Tick
  \/ (\E len \in Buffers : ReceiveBuffer(len))
  \/ OpenFile \/ ReadBlock \/ FlushFile

Spec == Init /\ [][Next]_vars

\* The clock runs, and the plugin goes on delivering buffers that hold a sample.
Samples == \E len \in Buffers : len >= sample_size /\ ReceiveBuffer(len)
FairSpec == Spec /\ WF_vars(Tick) /\ WF_vars(Samples)

-----------------------------------------------------------------------------
(* What is right about it.                                                  *)

TypeOK ==
  /\ clock \in 0 .. MaxClock /\ _frequency \in Frequencies
  /\ session \in {"none", "device", "open", "read", "flush", "exited"}
  /\ DOMAIN cfg = { "frequency", "frequency_index", "hop_time", "hop_start_time", "hop_now",
                    "exit_async", "duration", "stop_time", "bytes_to_read", "events_flag" }
  /\ Len(cfg.frequency) <= MAX_FREQS /\ Len(cfg.hop_time) <= MAX_FREQS
  /\ cfg.bytes_to_read \in Nat /\ cfg.exit_async \in BOOLEAN /\ cfg.hop_now \in BOOLEAN
  /\ unread \in Nat /\ taken \in 0 .. MaxTaken
  /\ detector \in {"none", "classic", "minmax"}
  /\ started \in 0 .. MaxClock /\ sessions \in 0 .. MaxSessions

(***************************************************************************)
(* Of the samples asked for with -n, those not yet processed are still to  *)
(* be read, through cut buffers, buffers shorter than a sample, and events *)
(* (:526-529, :955).                                                       *)
(***************************************************************************)
LimitAccounted ==
  session = "device" /\ opts.n > 0 => taken + cfg.bytes_to_read = 2 * opts.n

(***************************************************************************)
(* A session of buffers is over only for a reason its options give: its    *)
(* samples are taken but for less than one, its time is up, or it was to   *)
(* quit after an event (README.md:80, 100, 101).                           *)
(***************************************************************************)
EndsOnlyAsAsked ==
  session = "device" /\ cfg.exit_async =>
    \/ opts.n > 0 /\ cfg.bytes_to_read < sample_size
    \/ opts.T > 0 /\ clock >= started + opts.T
    \/ opts.E = 1

\* The index of the current frequency is one of a frequency (:613, :973, :999).
HopInRange == session # "none" => cfg.frequency_index < Len(cfg.frequency)

(***************************************************************************)
(* Without -E hop a frequency is left no sooner than its own hop time, or  *)
(* the last one given, after it was entered (:972-979, :996-1000).         *)
(***************************************************************************)
OwnHopTime(i) == IF i < Len(cfg.hop_time) THEN cfg.hop_time[i + 1] ELSE Last(cfg.hop_time)
Hops == cfg'.frequency_index # cfg.frequency_index
DwellsOnFrequency ==
  [][Hops /\ session = "device" /\ opts.E # 2
       => clock - cfg.hop_start_time >= OwnHopTime(cfg.frequency_index)]_vars

\* A session uses the frequencies of its own options, or the default (README.md:70).
FrequenciesAsGiven ==
  session = "device" => Len(cfg.frequency) = IF opts.f = <<>> THEN 1 ELSE Len(opts.f)

(***************************************************************************)
(* A session that was given a duration ends, if the clock runs and buffers *)
(* are delivered (:980-986).                                               *)
(***************************************************************************)
DurationEnds == session = "device" /\ opts.T > 0 ~> cfg.exit_async \/ session = "none"

===============================================================================

# TLA+ models of the rtl_433 DLL for SDRSharp

This directory is the verification project of this repository: a fork of
rtl_433 built as a DLL that an SDRSharp plugin loads.  The plugin delivers I/Q
samples (or the DLL reads a recording), the DLL finds packages of pulses in
them, slices the pulses into bits, offers the bits to some 250 device decoders,
and hands decoded events, pulse trains and recorded frames back.

The modules model the code under `src/src` and `src/include`; the comments cite
the lines they stand for, `PROJECT.json` maps every definition to them.

## 1. The system

`DLL_RTL_433` is always defined (`include/dll_rtl_433.h:68`) and `THREADS` is
not, so the branches for the stand-alone program are dead code here.  Two
threads meet: the plugin's thread calls the exported functions (`setFrequency`,
`stop_sdr`, ...), another one delivers buffers, for which the sample callback
runs to its end.

| Component | State it keeps | Operations | Interacts with |
|---|---|---|---|
| pulse trains (`pulse_data.c`) | `pulse[]`, `gap[]`, `num_pulses`, `offset`, `start_ago`, `end_ago` | clear, shift, store, load/dump | written by the detectors, read by the slicers |
| FSK detectors (`pulse_detect_fsk.c`) | state INIT/FH/FL, width in progress, estimators, skip counter | init, classic, minmax, wrap_up | fed sample by sample by the package detector |
| package detector (`pulse_detect.c`) | OOK state, width in progress, longest pulse, position in the buffer, lead-in | `pulse_detect_package`, create, reset, set_levels | called by the callback until the buffer is used up; feeds the FSK detectors |
| sample callback (`rtl_433.c:510-1002`) | `input_pos`, `frame_start_ago`, `frame_end_ago`, counters of the report, hop timers | one call per buffer | detector, demodulators, sample grabber, outputs, hop |
| sample grabber (`samp_grab.c`) | ring of the last samples, fill level, write index | create, push, reset, write | pushed and flushed by the callback |
| device registry (`list.c`, `r_api.c:246-330`) | list of registered devices, `no_default_devices` | register, unregister, register all, clear | filled by the options, iterated by the demodulators |
| demodulators (`r_api.c:482-610`) | priority, next priority, events of a package | `run_ook_demods`, `run_fsk_demods` | device registry, slicers |
| slicers (`pulse_slicer.c`) | place in the train, time since the last bit, measured bit period, length of the row | one per modulation, `account_event` | pulse trains, bit buffer, decoders |
| bit buffer (`bitbuffer.c`) | rows of bits, lengths, syncs, first free row | add bit/row/sync, width, invert, NRZ decode, extract, search, Manchester, repeats | filled by the slicers, changed and read by decoders |
| baseband (`baseband.c`) | filter and discriminator state | envelope, low-pass, FM | called by the callback before the detector |
| bit utilities (`bit_util.c`) | none | reflection, checksums, digests, whitening, line codes | called by decoders |
| SDR source (`sdr.c`) | device handle, running flag, buffers | open, start, stop, set parameters, events | delivers buffers to the callback |
| DLL life cycle (`rtl_433.c:110-200, 1690-2260`) | `g_cfg`, `exit_async`, the plugin's callbacks | call_main, stop_sdr, setFrequency, get/free | both threads |
| options and configuration (`optparse.c`, `confparse.c`) | none | parse | run once at start |
| data and outputs (`data.c`, `output_*.c`, `http_server.c`) | lists of output handlers, sockets, ring of events | create, append, print, free | called for each event |
| device decoders (`devices/*.c`) | mostly none; `secplus_v1.c` keeps half a message and its time | decode a bit buffer | called by `account_event` |
| analysers and dumpers (`pulse_analyzer.c`, `am_analyze.c`, `write_sigrok.c`, `rfraw.c`) | histograms | analyse, print | optional |

### What is hard

* State machines that span buffers: a call returns in mid-buffer with a package
  and is called again; a package spans several buffers, and what is kept in
  local variables is lost between them.
* Arrays at their limit: a full train is shifted or returned; one sample can
  store twice; a rewind reads the slot before the current one.
* Ages in samples that several parts must keep consistent (`start_ago`,
  `end_ago`, `offset`, the ring of the sample grabber).
* Rows of bits are consecutive in memory and may grow over those behind them;
  decoders transform them in place and slicers go on with what is left.
* A decoder finds a message at any place in a row, sent with a line code of which
  it may have missed the first half bit, and relies on a checksum alone.
* Bits are what widths round to: nominal widths, tolerances and a measured clock
  must agree with what a real sender does.
* The list of devices changes while it is iterated, and each pass over it looks
  for the priority of the next.
* A decoder keeps half a message between packages and ages it by the wall clock.
* The detector for FSK is chosen anew for each buffer, from a frequency another
  thread changes.
* Limits that count down to the value that also means "no limit", and static
  configuration that outlives a session.
* The plugin's thread stops the DLL and frees its configuration while the
  callback may still run.

`PROJECT.json` lists these hazards one by one, at the line where they bite,
with the properties that would catch them.

### What makes each part correct

| Component | Correct if |
|---|---|
| pulse trains, FSK detectors | no slot outside the arrays is addressed; stored widths, pulse in progress and what was shifted out account for every sample; no stored width is spurious |
| package detector | the same across buffers and calls; a package lies where its ages and its offset say; packages do not overlap; every call uses up samples |
| frames and sample grabber | the ring holds the newest bytes of the stream; a frame is closed by the first buffer after it, covers all packages in it, and its file holds all of it |
| sessions | a session ends for a reason it was given and at the latest when its time is up; it takes no more samples than asked for; a frequency is not left before its hop time |
| device registry | the list always ends; it holds what the options ask for, in order |
| demodulators | a package goes to the devices of its modulation by rising priority, to all of the first priority that decodes it and to none of a later one; the search ends |
| bit buffer | rows hold the bits added, in order, spilling over free rows only; a full buffer damages no row but the last; unused bits are 0; repeated rows are found |
| bit utilities | a decoder gets the message that was sent, and no other one from a disturbed row |
| slicers | the decoder is given the rows that were sent, whatever the pulses deviate within the tolerance; slicers that begin a message with an empty buffer (PCM, PPM, PWM, Manchester, OSV1) take back no row with data; in the first message of PPM, PWM and Manchester the lengths of rows add up |
| secplus v1 | halves are joined only within a press of the button, each once, and are not given up while they are fresh |
| life cycle | nothing freed is used by a callback, each object is freed once (not modelled, section 6) |

## 2. Modules

| Module | Models | Uses |
|---|---|---|
| `PulseData` | `pulse_data_t`, clear, shift, the stores | |
| `FskDetect` | both FSK detectors and `wrap_up`, one action per branch | `PulseData` |
| `FskStream` | one FSK transmission of any samples, with the detector changed in between | `FskDetect` |
| `PackageStream` | abstract: packages of a stream by position, one at a time | |
| `PulseDetect` | `pulse_detect_package` and the loop of `sdr_callback` that calls it | `FskDetect`, implements `PackageStream` |
| `SampGrab` | `samp_grab.c`: ring of bytes and the file cut from it | |
| `FrameStream` | abstract: frames by position, collected, closed, kept | |
| `FrameGrab` | the frames of `sdr_callback`, for device buffers and files | `SampGrab`, implements `FrameStream` |
| `SampleLoop` | start and end of sessions, `-n`, `-T`, `-E`, `-f`, `-H`, the loop over files, hopping | |
| `List` | `list.c`: a list with a terminating NULL in memory of undefined contents | |
| `Selection` | what an option of `-R` and the defaults ask for, as filters of a sequence | |
| `DeviceSet` | abstract: the sequence of devices the options ask for | `Selection` |
| `Demods` | `-R`, the registry, the priority loops over it | `List`, `Selection`, implements `DeviceSet` |
| `BitBuffer` | `bitbuffer_t` as one array of bits, its operations as operators | |
| `BitRows` | abstract: rows of any length, the last of which a full buffer may lose | |
| `BitReads` | what decoders read: search, extraction, comparison and repeats of rows, Manchester codes | `BitBuffer` |
| `BitBufferCalls` | the life of a buffer: filled by a slicer or the parser, transformed by a decoder, cleared | `BitReads`, implements `BitRows` |
| `BitUtil` | `bit_util.c`: reflection, CRCs, digests, sums, whitening, UART, stuffed nibbles, symbols | |
| `TelegramSender` | the same from the transmitter's side: remainders of polynomials, the sequence of x^9 + x^5 + 1, line codes | |
| `Telegram` | a decoder: finds the sync word, undoes line code and order, checks; a channel that flips bits | `BitReads`, `BitUtil`, `TelegramSender` |
| `Slicer` | every slicer of `pulse_slicer.c` on one train, one pulse or symbol per step, and `account_event` | `BitBuffer` |
| `SlicerSender` | waveforms of the senders that `pulse_slicer.h` describes | |
| `SecPlus` | the cache of half a message in `secplus_v1.c`, its age, a transmitter whose bursts get lost | |
| `FskDetectProofs`, `FskStreamProofs`, `PulseDetectProofs`, `FrameGrabProofs`, `SampleLoopProofs`, `SlicerProofs` | lemmas and theorems | the module they are named after |
| `BitBufferProofs` | the same for the bit buffer, the checksums, reflections and framed line codes | `BitBufferCalls`, `BitUtil`, `TelegramSender` |
| `DevicesProofs` | the same for what runs the decoders and for the one that keeps state | `Demods`, `SecPlus` |

`MC...` modules instantiate these for TLC; every `.cfg` is one question.
Operators whose comment starts with "Faulty:" or "Mutant:" are plausible mistakes: replacing
the definition they follow by them must violate the property that
`PROJECT.json` pairs them with, which shows that the property can fail.

### State and actions

*Samples.*  The detectors decide only whether an envelope sample is above,
below or between the hysteresis limits (`hi`, `lo`, `mid`), and on which side of
its estimate a frequency sample lies (`up`, `down`, `near`).  The estimators
follow the samples, so any sequence of classes is an input, with the exception
stated at `MinMaxClass`.  A model of `FskDetect`, `FskStream` or `PulseDetect`
takes one such sample per step; each branch of the code is an action, and all
it does to the trains, counters and marks is part of it.

*Trains* are records with the fields of the C struct; `pulse` and `gap` are
functions on the slots `0 .. PD_MAX_PULSES - 1`, so a store outside them is
visible as `num_pulses` out of range.

*Buffers.*  `PulseDetect` delivers a buffer (`Deliver`), enters the function
(`Enter`, where ages grow), takes samples (`Process`), returns with a package
and enters again, until `OutOfData`.  `FrameGrab` takes the callback in three
steps (`Buffer`: ages and ring; `Detect`: any packages the detector may return
for the buffer; `Finish`: end of frame and save).  `SampleLoop` takes one call
of `sdr_callback` in one step, since nothing of the control it models can come
in between, except that the plugin may retune, which the code reads once, at its
start.

*The ring* holds positions of the stream instead of bytes, so that a file can be
compared with the stretch of the stream it should be.  Slots never written hold
a mark: what `malloc` leaves in them is undefined.

*Bits* are 0 and 1, a buffer is one array of them in which row `r` starts at
`r * RowBits` and may go on behind its end, as in memory.  `num_rows` and
`free_row` have the values of the code; `bits_per_row` keeps its value for rows
that no longer count, since the code never clears it.

*Slicers.*  Widths are integers in samples and every comparison, rounding and
exclusive bound is that of the code; the floats of the PCM slicer are kept as
ratios, of which it only needs the rounded products.  A step is one turn of
the slicer's loop.  `Init` chooses a device, a signal and, for PCM, the bit
period that the loops before the main one measure.  A decoder may invert the
buffer it is given.  `account_event` on an empty buffer reads in front of the
array, so that both outcomes are possible.  DMC, PIWM and NRZS read lengths at the
number of a symbol, in the second half of a train behind its last pulse and, of
a long train, behind the arrays: any of `BehindTrain`.

*Telegrams.*  A message is the sequence of its bits, a register one of as many bits
as it has, so that shifting loses what the C type loses.  The loops of
`bit_util.c` are folds over these; the transmitter is defined without them, as a
division of polynomials (sets of exponents), a sum of numbers or a waveform.
Line codes are sent as `bit_util.h` documents them: symbols with one mark before
and one behind the data, UART with the parity bit for the parity asked for.
`Accepted` is what decoders such as `deltadore_x3d.c:265-308` do with a row;
which functions they use is the `format`.

*Demodulators.*  A step of the priority loop looks at one device; which devices
decode something is free.  `unregister_protocol` takes its loop entry by entry.
Slots of a list that `realloc` adds or a removal leaves hold `Junk`.

*Security+.*  A half message is the number of the burst it came in.  Bursts are
lost, come alone, or two in a row, of which the decoder may find both, then
keeps the first, or only the second.

*Ghosts* (marked as auxiliary in the modules): samples seen and shifted out in
`FskStream`, the newest package end and the saved span in `FrameGrab`, the
bytes taken, the start and the chosen detector in `SampleLoop`, what could not be
stored in `BitBufferCalls`, the rows sent and delivered in `Slicer`, who was run
and who decoded in `Demods`, what was heard and reported in `SecPlus`.

## 3. What TLC checks

| Run | Question | Bounds |
|---|---|---|
| `fsk_stream` | slots, conservation of samples and suppression of spurious widths by the FSK detectors | 4 slots, 15 samples, 2 changes of the detector |
| `packages` | packages of both kinds: slots, trigger, conservation, spans, start marks, refinement of `PackageStream`, progress of the callback's loop | 3 slots, 15 samples, all classes of frequency samples, buffers of 1 and 8, both FSK detectors |
| `frame_grab` | ring, closing of frames, files, refinement of `FrameStream` | ring of 20 samples, blocks of 4, buffers of 4 and 8, 28 samples |
| `session` | one session of every kind: accounting, ends, hops, end by time | 6 seconds, buffers of 2, 4 and 7 bytes, samples of 4 bytes |
| `options_kept` | violated: frequencies of a second session | 2 sessions |
| `bit_buffer` | room for each bit, rows apart, unused bits, repeats, refinement of `BitRows`, when filled by slicers and the parser and transformed by decoders | 3 rows of 2 bytes of 2 bits, 7 operations, 1 transformation |
| `slicer` | rows given to the decoder against rows sent, by every slicer; rows taken back (not DMC, PIWM, NRZS); lengths (PPM, PWM, Manchester) | 20 devices; rows of up to 3 to 5 bits, two rows; PCM rows that tune the clock with a preamble and without one; noise of up to 3 pulses; 0 and 24 behind the train |
| `string_rows` | violated: the last row of test data | |
| `demods` | the list ends, order of devices, first priority that decodes, refinement of `DeviceSet`, end of the loop | 5 protocols, 3 options, 5 entries |
| `secplus` | halves of one press, each used once | seconds of 5 units, 6 bursts in 3 seconds |
| `half_age` | violated: a fresh half is given up | as above |
| `telegram` | what was sent is decoded; what noise made of it is not accepted | 24 formats: every check and order, every line code but UART with parity; 2 messages of 2 bytes, 2 leads, every burst within 5 bits |

*Why the bounds are enough.*  The thresholds are scaled together (2 samples for
`PD_MIN_PULSE_SAMPLES`, 2 and 4 for the gap limits): each comparison goes both
ways.  3 or 4 slots fill up within the stream, so trains are shifted, with more
than one slot moved, and returned full.  Buffers of 1 and 8 samples in any order
put a boundary before, in and after each pulse, gap and package, and let a
package return and another one begin within a buffer.  The
ring of 20 samples is wrapped and overwritten within 28; a frame can be longer
than it.  In `FrameGrab` the block of a file is half a buffer and the pad an
eighth of one, as in the code.  6 seconds hold a hop, a second one and the end
of a session; buffers of 2, 4 and 7 bytes are too short, exact and unaligned.

The buffer of 3 rows is filled, overfilled, and one row can spill over both
others; a byte of 2 bits has boundaries inside a row and at its end.
`UINT16_MAX` as the longest row is out of reach with 3 rows as with the 50 of
the code, where the buffer is full long before.  A device has 8 samples per
unit, so that a deviation of a quarter of a unit, a tolerance of 3 samples and a
clock off by an eighth fall on both sides of the bounds.  Two devices have 8.5,
of which a width is compared with 8 while runs are counted with 8.5; what they
get are short runs.  Clocks are measured from a preamble, which replaces what was
measured before, or from the bits of a whole row, for which the rows `NrzBroken`
and `RzBroken` have just enough.  Senders transmit what
`pulse_slicer.h` promises a slicer can read, and the constraints on what they
send (a PCM row begins with a 1, a tolerant Manchester row does not end with two
ones) are said in `MCSlicer`.  The five protocols have three priorities, both
modulations, two of one name, one disabled by default and one of the highest
priority, which is never run; a list of first size 1 grows.
The polynomials and keys of the telegrams are those of decoders in `devices`.  A
lead of three bits and one of one put the sync word at even and odd places, and
one of them makes the search fail within the sync word and start over.  A burst
of 5 bits is longer than the ones a sum of nibbles and a parity find and shorter
than those of a CRC of 7 bits and more; `NoiseDetected` says for each check what
it promises (`DetectedBurst`).  A message has a 1 in it: an all-zero one in
differential Manchester code is read with a 1 at its end, see section 5.  Five units make a
second, and a half may be 4 of them old.

*Fairness.*  `BufferConsumed` assumes `WF(Run)`: the callback runs to its end on
the thread that delivered the buffer and waits for nothing.  `DurationEnds`
assumes that the clock runs and that buffers with at least a sample go on being
delivered; with buffers that are too short the code returns before it looks at
the clock (`rtl_433.c:539`), and without buffers nothing looks at it.
`PackageEnds` assumes `WF(Package)`: the priority loop is sequential code that
waits for nothing.

*Deadlock* is not checked: every stream, clock and count of sessions is bounded,
so every model stops at its bound.

*Types.*  `TypeOK` of `FskStream`, `SampleLoop`, `Demods` and `BitBufferCalls` is
proved (section 4) and in no run; `SecPlus` needs its own (`SecPlusTyped`) for its
proofs only.

## 4. What is proved

All theorems hold for every value of the constants that the assumptions named
in the modules allow: any capacity of a train of at least two slots, any
thresholds, lengths of buffers and stream, sizes of ring, block and sample.

* `FskStreamProofs`: types, slots and suppression of spurious widths.  The
  invariant `FskOK` ties the detector's state to the number of stored pulses
  (`FH` of the classic detector has a gap to rewind to); `ClassicClean` says that
  what is stored, and the pulse that waits for its gap, is not spurious.  Both
  are preserved by each action whoever takes it (`FskDetectProofs`), and the
  package detector uses the same lemmas.  Types and slots hold for up to two
  changes of the detector, as many as the run makes, which `FskOK` alone does not
  give: `Changed` says that a pulse with no gap before it takes minmax to set its
  trackers, classic to go back to the initial state, and minmax again to leave it, and
  `FreeSlots` that a slot is left until the train is full.  A third change, to classic,
  does go wrong, see below.  `SamplesConserved` follows from `Accounted`: what the slots cover, the
  width in progress, the pulse that waits for its gap and what was shifted out
  add up to the samples seen; for the other detector it needs the slots not yet
  reached to be empty (`MinMaxFresh`).
* `PulseDetectProofs`: types, slots, `TriggerLocated`, the refinement of
  `PackageStream`, conservation and spans of packages, and start marks.  The invariant adds `FskOK` while a package is open, and what
  the program counter says about the position in the buffer: a call starts with
  nothing returned but the last call's package, and a buffer starts at 0.  For the
  sums, `SumInv` adds that slots not reached are empty (`CleanSlots`), that the
  start mark of an open package is unset or at an end of its first pulse
  (`StartMarked`), that the FSK
  detector accounts for the samples of the first pulse (`FskAccounted`), and what
  held when a package was returned.  A sum over a train is the recursive function
  `Covered`; that a store changes it by the width stored, and by nothing else, is
  shown for all trains by the least slot where it would not (`LeastOf`).  Each step of
  the loop over a buffer lowers `Work`, which counts samples left, a package that can
  still be returned and a call to enter (`DetectLoopEnds`): the safety half of
  `BufferConsumed`.
* `FrameGrabProofs`: types, `RingHoldsStream`, `FrameClosedInTime`,
  `FileHoldsFrame` and the refinement of `FrameStream`.  The invariant has to
  say that ages and positions agree (`AgesAgree`) and when a frame may be open
  at each point of the callback (`FrameTimely`); `PushHoldsLast` and
  `WriteInOrder` are the facts about the ring.  `FrameAssumption` demands that a
  buffer fits the ring.
* `SampleLoopProofs`: types, `LimitAccounted` and `HopInRange` for any number of
  sessions; `EndsOnlyAsAsked` and `DwellsOnFrequency` for one session
  (`MaxSessions = 1`), since a second one inherits the configuration of the
  first.  The invariant is `LoopTyped /\ IndexInList /\ LimitAccounted /\ LimitEnds`:
  the index of the frequency stays in the list although options append to it,
  and a limit used up means a session that is over.  `LoopEndsOnTime`, the safety half
  of `DurationEnds`, for any number of sessions: the first buffer with a sample after
  the end of a duration ends the session, because the end is always that of the
  session's own options (`EndTimed`).
* `DevicesProofs`, devices: types, `DevicesTerminated`, `RanInOrder`,
  `LowestPriorityWins` for any protocols, priorities and answers of decoders.  The
  invariant adds that `next_priority` is above the current priority and not above
  any that is still to come among the devices passed (`Searching`), and that all
  that was decoded was decoded at the current one (`DecodedNow`).  The loop of
  `register_all_protocols` is handled by the least device for which the list would
  not be terminated.  `DemodsImplementsDeviceSet` is the refinement: each option
  maps to the filter of `Selection` that the abstract set applies, although
  `unregister_protocol` removes from the list it iterates over.  For that, `SetInv`
  adds that the devices the loop has passed are those to keep (`Passed`) and that
  the list is empty, with the defaults still to come, until the first option
  (`GivenFirst`).  `DemodsSearchAdvances`, the safety half of `PackageEnds`: each step of
  the search goes on in the list or to a higher priority, or ends it.
* `DevicesProofs`, Security+: `SamePress` and `UsedOnce` for any bound on bursts and
  time.  The invariant says what the cache holds: a half that was heard at the time
  it says, and that is in no message yet (`CacheUnused`).  The definitions of
  `SecPlus` have names of their own (`SecPlusSpec`, ...) so that both modules can be
  extended.
* `BitBufferProofs`, for a buffer of any size: types, `RoomForBit`, `RowsApart`,
  `UnusedBitsClear`, `RepeatsFound` and the refinement of `BitRows`.  The invariant is
  `TypeOK /\ RowsOK(bits)`: the current row ends before `free_row`, the row that is
  filled and every row with bits start behind the end of those before them, and
  rows that are not active are empty.  Each operator of `BitBuffer` has a lemma that
  it preserves it, so that the decoder's transformations and the slicer's additions
  need no more.  `RowsInv` adds what is promised to the rows to come: the free rows start
  right behind the last one and have no syncs (`Tidy`), and memory that no row uses is
  0 unless something did not fit (`Clean`).  With it
  each operation changes the abstract rows as `BitRows` says, and comparing whole
  bytes of two rows is comparing their bits, which is what `RepeatsFound` rests on.
* `BitBufferProofs`, the functions of `bit_util.c`, for messages of any length, any
  polynomial and any initial value: the CRCs, fed whole bytes, are the remainders of
  polynomial division as soon as the message has the bytes that the initial value is
  added to (`Crc8IsRemainder`, ...), messages that differ in a burst no longer
  than the CRC is wide leave different ones (`Crc8FindsBursts`, ..., for polynomials
  that end with a 1), and a message followed by its CRC leaves 0 (`Crc8OfOwnIsZero`, ...).
  All go through one picture, the register that is fed a bit at a time (`Serial`):
  feeding is linear (`SerialXor`), a nonzero register never becomes 0 by itself
  (`SerialNonzero`), and up to `w` bits may be added at once (`SerialLoad`), which is
  what adding bytes does (`Bytewise`).  The CRCs that shift to the right are these in a
  mirror (`RolledMirror`).  The definitions are folds; `FoldExists` shows that what a fold
  chooses exists, and `Beginnings` reads it as a recursion.  Reflection is undone for
  any message (`ReflectUndone`), and so are the line codes of equal frames, with any
  bits before and behind them (`UartUndone`, `StuffedUndone`).  Of UART with a parity bit
  the decoder takes every message sent with even parity, and not a byte of one sent with
  odd parity, which is what its header documents (`UartParityDecoded`, see section 5).
* `SlicerProofs`, for any devices, sample rate and trains: types, `RowsKept`,
  `LengthsAddUp`, and that the bit period of PCM is never measured from nothing
  (`SlicerRateMeasured`).  The invariant `SlicersInv` counts: the lengths of the rows
  that are closed, and the samples since then (`l`), are the samples of the pulses so
  far (`Counting`), the row that is filled has no length yet (`Open`), and the rows
  behind it have neither bits nor lengths (`Zeroed`); none of this holds for a length
  that the full buffer did not take, which `NoMoreRows` excludes.  `Counted` is shown
  of each operation on the buffer, then of each slicer.  What `account_event` takes
  back is empty since a row that is told its length has a pulse in it.
  Sums and repeated additions are recursive functions; what they compute is shown by
  the least place where it would be wrong (`UpTo`, `Iterates`).  The bit period needs
  `Runs` and `Seen`: bits measured without any width are too few to tune by.

*Assumptions.*  `SlicerAssumption` says of trains what the detectors guarantee: no
pulse and gap are both 0, and where a bit period is measured only the first pulse and
the last gap can be 0, as pulses are counted from 1 sample and an FSK train may begin
with a gap.  A PCM device has a long width.  A bit period is measured from at least 6
bits that are no preamble (8 and 20 in the code): the two widths that can be 0 count
for up to three bits each.  What is read behind a train is some number.
`FrameAssumption` and the thresholds of the detectors are named in their modules; TLC evaluates each with the values of a run.

*Only model-checked.*  `DecodesWhatWasSent`, `TestDataDecoded`, `TelegramDecoded` and
`NoiseDetected` relate a row to the message it was made from, through searches and
recursions over all bits and pulses of both sides, for which there is no inductive
invariant short of the codes themselves.  Of the telegrams the parts named above are
proved, for messages of any length; that the sync word is found, and how a decoder
puts the parts together, is checked, as are the digests, sums and parities, whitening,
and the codes whose symbols differ in length or are decoded into a second buffer
(Manchester).  Whitening is out of reach because the sequence that the sender adds is
a fold that reads what it has not made yet on some of the sets `FoldLeft` ranges over,
so that no set of values can be named for it.  Liveness under fairness (`BufferConsumed`,
`DurationEnds`, `PackageEnds`) is beyond the prover; that each step leads on towards it
is proved, as said above, and that a step is always possible and taken is checked.

## 5. What was found

Runs that violate a property, each quoted in `PROJECT.json` under "findings":

* `options_kept`: a second session keeps the frequencies of the first
  (`rtl_433.c:1737`).
* `string_rows`: the last row of the test data of `-y` is taken back before it
  reaches the decoder, since it has no length (`pulse_slicer.c:31`); most codes
  have one row.
* `half_age`: over a full second the time difference has a second too many and
  negative microseconds (`compat_time.c:55`), so two halves of a Security+
  message on either side of it are not joined (`secplus_v1.c:216`).

Observed while modelling, with no run of their own:

* `pulse_data_shift` adds a number of pulses to an offset in samples
  (`pulse_data.c:32`).
* The request to end a package at a spurious pulse is a local variable and is
  lost when the buffer ends there (`pulse_detect.c:282`): an OOK package can then
  hold a spurious pulse that is not its last.
* A signal near the start is saved with bytes never recorded (`samp_grab.c:114`),
  and the last signal of the last file is not saved (`rtl_433.c:826`).
* `-n` does not limit further files (`rtl_433.c:1992`, `:2120`), and counts 2
  bytes per sample also with 16 bit I/Q (`:1222` against `:310`).
* After a hop the FSK detector is that of a frequency the plugin is not tuned to
  (`rtl_433.c:517`, `:613`).
* If the detector changes three times in one transmission, `FH` can be entered
  by minmax with no pulse stored (`pulse_detect_fsk.c:190`), and classic rewinds
  to slot -1 (`:88`); `MaxRetunes = 3` in `MCFskStream.cfg` violates
  `SlotsInRange`.
* `PD_MAX_PULSE_MS` is used nowhere.  Whether a package is FSK is decided before
  the FSK detector sees the sample (`pulse_detect.c:386`), so an FSK package can
  be returned after the second OOK pulse.
* A Manchester message that ends in two ones loses the last one with a
  tolerance: its long gap is an invalid width, and the pulse before it is short
  (`pulse_slicer.c:465-472`).
* DMC, PIWM and NRZS do not clear the buffer after a decoder ran, so a later end
  of a message delivers the same bits again, as the decoder left them.  DMC and
  PIWM count symbols but take the length from `pulse[n]` and `gap[n]`
  (`pulse_slicer.c:542-543`, `:601`, `:649`), which in the second half of a train are
  slots behind the last pulse, and with more than half of `PD_MAX_PULSES` pulses
  memory behind the arrays: rows there get a length that is not theirs or none, and
  those without one are taken back with their data.  `RowsKept` and `LengthsAddUp` leave
  these slicers out, since neither holds of them.
* PIWM raw counts a run in units that are not truncated and compares it with as many
  truncated ones (`pulse_slicer.c:593`, `:607`): of a unit of 8.5 samples each bit
  of a run takes half a sample of the tolerance.
* NRZS with nothing but pulses of exactly the short width gives `account_event` a buffer without rows,
  whose `num_rows - 1` is in front of the array (`pulse_slicer.c:31`).
* Up to the first long level the differential Manchester decoder tells a 0 from the
  bits around it (`bitbuffer.c:190-200`): of a message of zeros only that ends low,
  the last one is read as a 1.
* `extract_bits_symbols` skips a sync wherever it comes (`bit_util.c:164`), where
  `bit_util.h:82` lets one that is not at the start end the data.  What is sent in
  `telegram` has one before the data and one behind it and then nothing else, for
  which both readings give the same; what comes behind a terminating sync is not
  in any property.
* `extract_bytes_uart_parity` accepts a frame whose byte and parity bit have an even
  number of ones (`bit_util.c:120`), where `bit_util.h:66` documents odd parity, as does
  the one decoder that uses it (`rosstech_dcu706.c`).  `UartParityDecoded` proves that
  no frame with odd parity is taken; a receiver that inverts all 9 bits turns one
  parity into the other.  A device that sent what the header says would not be decoded,
  so the code is no part of `TelegramDecoded`.
* With a full buffer the `bitbuffer_add_row` that ends a PCM message clears the
  last row.  A row that spills over others fills the buffer with fewer rows than
  `BITBUF_ROWS`: the proof of `LengthsAddUp` showed that its exception for a buffer with
  all its rows was too small, so it excepts a full one.
* `(int32_t)fixed / 27` is negative for `fixed` from 2^31 (`secplus_v1.c:342`).
* Ages of Security+ halves are those of the wall clock, also for recordings.

## 6. What is not modelled

Level estimation, squelch, baseband filters: numbers the state machines see only
as classes.  Statistics, reports, dumpers, outputs, parsing: text.  Network
outputs and the HTTP server are commented out or excluded in the DLL.  Vendored
code (mongoose, jsmn, getopt).  Errors of the file system.  The device decoders
other than the cache of `secplus_v1.c`: they are some 250 functions from a bit
buffer to text, without state and independent of each other, about half of the
lines of the repository, and each would be a model that repeats its table of
fields.  With mongoose and the other vendored code they are three quarters of all
lines, and most of the rest is text: options, help, printing, outputs.  The models
cover what keeps state or computes, which is a small part of the lines.  `stop_sdr` while a callback runs: which calls overlap is decided by
the plugin, which is not in this repository; the models let none overlap.
UART with a parity bit is in `BitUtil` and proved about, but in no run.
`bitbuffer_parse` as text, `bitbuffer_print` and `reverse32` of `bit_util.c`.
`samp_grab_reset` has no caller, and `pulse_detect_reset` only `reset_sdr_callback`,
whose own calls are commented out.

## 7. Plan

Pulse detection, frames, sessions, the device registry with the priority loops,
bit buffer, slicers, telegrams and the cache of `secplus_v1.c` are done.  In
this order, each with an abstract specification where one is named:

1. *Life cycle* (`rtl_433.c:174-200`, `r_api.c:191-240`): `stop_sdr` and a second
   start concurrent with the callback, step by step through `r_free_cfg`;
   properties: no use of freed objects, each freed once.  Composes with
   `SampleLoop`; what the plugin may call at once has to be settled first.
2. *Retuning* in `PulseDetect`, unaligned buffers in `FrameGrab`, and the
   composition of `PulseDetect` with `FrameGrab`, whose `Detect` step takes any
   packages the abstract stream allows.
3. *Proofs* about the functions of `bit_util.c` that are only checked so far: the
   digests as products with a matrix, the sums and the parity, and symbols.
4. *Statistics and reports* (`rtl_433.c:987-994`, `r_api.c:888-960`): counters that are
   flushed by a timer while packages count them.

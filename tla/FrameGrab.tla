------------------------------ MODULE FrameGrab -------------------------------
(***************************************************************************)
(* Signal saving in sdr_callback (src/src/rtl_433.c): the packages found   *)
(* in a buffer are collected into a frame that is known by the ages of its *)
(* ends, counted back from the end of the newest buffer; a frame that is   *)
(* over is cut out of the sample grabber's ring and written to a file.     *)
(*                                                                         *)
(* The package detector is represented by its contract (PackageStream,     *)
(* which PulseDetect implements): packages are stretches of the stream     *)
(* that come in order, do not overlap, and end within the newest buffer.   *)
(***************************************************************************)
EXTENDS SampGrab

CONSTANTS
  Chunks,         \* n_samples of the buffers a device delivers
  FileChunk,      \* n_samples of the blocks of a file, and of its last, cleared one
  MaxStream,      \* bound: samples of the whole stream
  MaxEvents       \* bound: events of a package, and of a frame

ASSUME FrameAssumption ==
  /\ Chunks \subseteq Nat \ {0} /\ FileChunk \in Nat \ {0}
  /\ \A n \in Chunks \cup {FileChunk} : sample_size * n <= sg_size
  /\ MaxStream \in Nat /\ MaxEvents \in Nat \ {0}

VARIABLES
  sg,                  \* the grabber
  grab_mode,           \* option -S: 0 none, 1 all, 2 unknown, 3 known
  frame_start_ago,     \* age of the start of the frame in samples, 0: no frame
  frame_end_ago,       \* age of its end
  frame_event_count,   \* events of the frame in the buffers before
  d_events,            \* events decoded in the newest buffer
  pc,                  \* "wait" for a buffer, "detect" packages, "eof" of all input
  n_samples,           \* length of the newest buffer
  phase,               \* the newest buffer is of a "device", "file", its "tail", or "flush"
  input_pos,           \* samples before the newest buffer
  last,                \* auxiliary: end of the last package in the stream
  grab,                \* auxiliary: the last call of samp_grab_write
  file                 \* the bytes it wrote

frameVars == <<frame_start_ago, frame_end_ago, frame_event_count>>
grabVars  == <<grab, file>>
vars == <<sg, grab_mode, frameVars, d_events, pc, n_samples, phase, input_pos,
          last, grabVars>>

NoGrab == [grab_len |-> 0, grab_end |-> 0, pad |-> 0]

\* Samples received, the newest buffer included.
Received == input_pos + n_samples

Init ==
  /\ sg = samp_grab_create /\ grab_mode \in 0 .. 3
  /\ frame_start_ago = 0 /\ frame_end_ago = 0 /\ frame_event_count = 0 /\ d_events = 0
  /\ pc = "wait" /\ n_samples = 0 /\ phase \in {"device", "file"} /\ input_pos = 0
  /\ last = 0 /\ grab = NoGrab /\ file = <<>>

-----------------------------------------------------------------------------
(* One buffer: it is aged and recorded, its packages are found, the frame   *)
(* is closed.                                                               *)

\* An age that is 0 stands for no frame and stays 0.
Aged(ago, n) == IF ago # 0 THEN ago + n ELSE 0

\* A buffer of n samples arrives.
Buffer(n) ==
  /\ pc = "wait" /\ Received + n <= MaxStream
  /\ pc' = "detect" /\ n_samples' = n /\ input_pos' = Received
  /\ frame_start_ago' = Aged(frame_start_ago, n)
  /\ frame_end_ago' = Aged(frame_end_ago, n)
  /\ sg' = samp_grab_push(sg, sample_size * Received, sample_size * n)
  /\ d_events' = 0 /\ grab' = NoGrab /\ file' = <<>>
  /\ UNCHANGED <<grab_mode, frame_event_count, last>>

\* A device delivers buffers of any of its lengths.
DeviceBuffer == phase = "device" /\ UNCHANGED phase /\ \E n \in Chunks : Buffer(n)

\* A file is read in blocks of one length, of which the last may be shorter.
FileBlock == phase \in {"file", "flush"} /\ phase' = "file" /\ Buffer(FileChunk)

FileTail ==
  /\ phase \in {"file", "flush"} /\ phase' = "tail"
  /\ \E n \in Chunks : n < FileChunk /\ Buffer(n)

\* After the end of a file the callback runs once more, on a cleared buffer.
Flush == phase # "device" /\ phase' = "flush" /\ Buffer(FileChunk)

\* That was the last file.
EndOfInput ==
  /\ phase = "flush" /\ pc = "wait" /\ pc' = "eof"
  /\ UNCHANGED <<sg, grab_mode, frameVars, d_events, n_samples, phase, input_pos, last, grabVars>>

\* Faulty: every package restarts the frame.
PackageRestarts(from, to, events) ==
  /\ pc = "detect" /\ last <= from /\ from < to
  /\ last' = to
  /\ frame_start_ago' = Received - from
  /\ frame_end_ago' = Received - to
  /\ d_events' = d_events + events
  /\ UNCHANGED <<sg, grab_mode, frame_event_count, pc, n_samples, phase, input_pos, grabVars>>

\* The detector hands out the package of the samples from .. to - 1, and the
\* decoders make events out of it.
Package(from, to, events) ==
  /\ pc = "detect" /\ last <= from /\ from < to
  /\ last' = to
  /\ frame_start_ago' = IF frame_start_ago = 0 THEN Received - from ELSE frame_start_ago
  /\ frame_end_ago' = Received - to
  /\ d_events' = d_events + events
  /\ UNCHANGED <<sg, grab_mode, frame_event_count, pc, n_samples, phase, input_pos, grabVars>>

Detect ==
  \E from \in 0 .. Received - 1, to \in input_pos .. Received - 1, events \in 0 .. MaxEvents :
     /\ phase = "flush" => from < input_pos     \* nothing starts in silence
     /\ frame_event_count + d_events + events <= MaxEvents
     /\ Package(from, to, events)

\* Faulty: a package that ends at the first sample of the buffer is missed.
FrameOverEarly == frame_start_ago # 0 /\ frame_end_ago >= n_samples

FrameOver == frame_start_ago # 0 /\ frame_end_ago > n_samples

\* Option -S on the frame with so many events.
Grabbed(events) ==
  \/ grab_mode = 1
  \/ grab_mode = 2 /\ events = 0
  \/ grab_mode = 3 /\ events > 0

FramePad == n_samples \div 8

\* The stretch to be saved, a pad longer than the frame at both ends.
Padded ==
  [ grab_len |-> (frame_start_ago + FramePad) - (frame_end_ago - FramePad),
    grab_end |-> frame_end_ago - FramePad, pad |-> FramePad ]

\* The buffer is done: a frame no package of the buffer belongs to is closed.
Finish ==
  /\ pc = "detect"
  /\ pc' = "wait"
  /\ d_events' = 0
  /\ IF FrameOver
     THEN /\ frame_start_ago' = 0 /\ frame_event_count' = 0
          /\ IF Grabbed(frame_event_count + d_events)
             THEN /\ grab' = Padded
                  /\ file' = samp_grab_write(sg, Padded.grab_len, Padded.grab_end)
             ELSE UNCHANGED grabVars
     ELSE /\ frame_event_count' = frame_event_count + d_events
          /\ UNCHANGED <<frame_start_ago, grabVars>>
  /\ UNCHANGED <<sg, grab_mode, frame_end_ago, n_samples, phase, input_pos, last>>

Next == DeviceBuffer \/ FileBlock \/ FileTail \/ Flush \/ Detect \/ Finish \/ EndOfInput

Spec == Init /\ [][Next]_vars

-----------------------------------------------------------------------------
(* What is right about it.                                                  *)

TypeOK ==
  /\ sg \in Ring /\ grab_mode \in 0 .. 3
  /\ frame_start_ago \in Nat /\ frame_end_ago \in Nat
  /\ frame_event_count \in 0 .. MaxEvents /\ d_events \in 0 .. MaxEvents
  /\ pc \in {"wait", "detect", "eof"} /\ phase \in {"device", "file", "tail", "flush"}
  /\ n_samples \in Nat /\ input_pos \in Nat /\ last \in Nat
  /\ grab \in [grab_len: Nat, grab_end: Nat, pad: Nat]
  /\ DOMAIN file \subseteq 1 .. sg_size

(***************************************************************************)
(* The slots behind sg_index are the last sg_len bytes of the stream, the  *)
(* newest next to it: pushing around the end of the ring, in buffers of    *)
(* any lengths, neither loses nor misplaces a byte (samp_grab.c:59-81).    *)
(***************************************************************************)
RingHoldsStream == HoldsLast(sg, sample_size * Received)

(***************************************************************************)
(* At the end of each buffer a frame is open exactly if a package ended in *)
(* that buffer, whatever the lengths of the buffers: no frame is left open *)
(* and none is cut between two packages of adjacent buffers (:826-839).    *)
(***************************************************************************)
FrameClosedInTime ==
  pc = "wait" => (frame_start_ago # 0 <=> (n_samples > 0 /\ last > 0 /\ last >= input_pos))

\* Positions of the stream for ages counted from the end of the newest buffer.
FrameSpan == <<Received - frame_start_ago, Received - frame_end_ago>>
SavedSpan == <<Received - grab.grab_len - grab.grab_end + grab.pad, Received - grab.grab_end - grab.pad>>

(***************************************************************************)
(* Ages implement the frames of FrameStream, which are collected, closed   *)
(* and saved by positions in the stream.                                   *)
(***************************************************************************)
AbsFrame ==
  IF frame_start_ago = 0 THEN [from |-> -1, to |-> -1, events |-> 0]
  ELSE [ from |-> FrameSpan[1], to |-> FrameSpan[2], events |-> frame_event_count + d_events ]

AbsKept == IF grab = NoGrab THEN <<-1, -1>> ELSE SavedSpan

Frames == INSTANCE FrameStream WITH
  now <- Received, fresh <- input_pos, frame <- AbsFrame, kept <- AbsKept, mode <- grab_mode

ImplementsFrameStream == Frames!Spec

\* What is to be saved, in whole blocks, is still in the ring.
StillRecorded == Rounded(grab.grab_len) + sample_size * grab.grab_end <= sg.sg_len

InOrder == \A k, l \in DOMAIN file : file[k] - file[l] = k - l

(***************************************************************************)
(* The file is one stretch of the stream that has every byte of the frame, *)
(* if the ring still holds all that the rounding to blocks asks for        *)
(* (samp_grab.c:111-152).                                                  *)
(***************************************************************************)
FileHoldsFrame ==
  grab # NoGrab /\ StillRecorded =>
    /\ InOrder
    /\ \E k \in DOMAIN file : file[k] = sample_size * SavedSpan[1]
    /\ \E k \in DOMAIN file : file[k] = sample_size * SavedSpan[2] - 1

===============================================================================

---------------------------- MODULE FrameGrabProofs ----------------------------
(***************************************************************************)
(* Proofs about FrameGrab, for rings, blocks, samples and buffers of any   *)
(* size: the ring holds the end of the stream, a frame is closed by the    *)
(* first buffer without a package, and the ages implement FrameStream.     *)
(***************************************************************************)
EXTENDS FrameGrab, TLAPS

-----------------------------------------------------------------------------
(* The ring.                                                                *)

\* A push keeps the ring a ring: the index stays a slot, the length is capped.
LEMMA PushType ==
  ASSUME NEW g \in Ring, NEW first \in Nat, NEW n \in Nat, n <= sg_size
  PROVE  samp_grab_push(g, first, n) \in Ring
<1> DEFINE index == Wrapped(g.sg_index + n)
<1>1. /\ g.sg_index \in RingSlots /\ g.sg_len \in 0 .. sg_size
      /\ g.sg_buf \in [RingSlots -> Nat \cup {Unwritten}]
  BY DEF Ring
<1>2. index \in RingSlots
  BY <1>1, GrabAssumption DEF RingSlots, Wrapped
<1>3. \A i \in RingSlots :
         Behind(i, index) < n => first + n - 1 - Behind(i, index) \in Nat
  BY <1>2, GrabAssumption DEF RingSlots, Behind
<1>4. Capped(g.sg_len + n) \in 0 .. sg_size
  BY <1>1, GrabAssumption DEF Capped
<1> HIDE DEF index
<1>5. [i \in RingSlots |->
         IF Behind(i, index) < n THEN first + n - 1 - Behind(i, index) ELSE g.sg_buf[i]]
        \in [RingSlots -> Nat \cup {Unwritten}]
  BY <1>1, <1>3
<1> QED BY <1>2, <1>4, <1>5 DEF samp_grab_push, Ring, index

\* A push of the next n bytes of the stream, around the end of the ring or not,
\* leaves the last sg_len bytes behind the index.
LEMMA PushHoldsLast ==
  ASSUME NEW g \in Ring, NEW first \in Nat, NEW n \in Nat, n <= sg_size,
         HoldsLast(g, first)
  PROVE  HoldsLast(samp_grab_push(g, first, n), first + n)
<1> DEFINE h == samp_grab_push(g, first, n)
<1> DEFINE index == Wrapped(g.sg_index + n)
<1>1. /\ g.sg_index \in RingSlots /\ g.sg_len \in 0 .. sg_size
  BY DEF Ring
<1>2. index \in RingSlots
  BY <1>1, GrabAssumption DEF RingSlots, Wrapped
<1>3. /\ h.sg_index = index /\ h.sg_len = Capped(g.sg_len + n)
      /\ \A i \in RingSlots :
           h.sg_buf[i] = IF Behind(i, index) < n
                         THEN first + n - 1 - Behind(i, index) ELSE g.sg_buf[i]
  BY DEF samp_grab_push
<1> HIDE DEF h, index
<1>4. ASSUME NEW i \in RingSlots, Behind(i, index) < Capped(g.sg_len + n)
      PROVE  h.sg_buf[i] = first + n - 1 - Behind(i, index)
  <2>1. CASE Behind(i, index) < n
    BY <1>3, <2>1
  <2>2. CASE ~(Behind(i, index) < n)
    <3>1. Behind(i, index) = Behind(i, g.sg_index) + n
      BY <1>1, <1>2, <2>2, GrabAssumption DEF RingSlots, Wrapped, Behind, index
    <3>2. Behind(i, index) < g.sg_len + n
      BY <1>1, <1>2, <1>4, GrabAssumption DEF RingSlots, Capped, Behind
    <3>3. Behind(i, g.sg_index) < g.sg_len
      BY <1>1, <3>1, <3>2, GrabAssumption DEF RingSlots, Behind
    <3>4. g.sg_buf[i] = first - 1 - Behind(i, g.sg_index)
      BY <3>3 DEF HoldsLast
    <3> QED BY <1>1, <1>3, <2>2, <3>1, <3>4, GrabAssumption DEF RingSlots, Behind
  <2> QED BY <2>1, <2>2
<1>5. HoldsLast(h, first + n)
  <2> SUFFICES ASSUME NEW i \in RingSlots, Behind(i, h.sg_index) < h.sg_len
               PROVE  h.sg_buf[i] = (first + n) - 1 - Behind(i, h.sg_index)
    BY DEF HoldsLast
  <2>1. Behind(i, index) < Capped(g.sg_len + n)
    BY <1>3
  <2>2. h.sg_buf[i] = first + n - 1 - Behind(i, index)
    BY <1>4, <2>1
  <2>3. Behind(i, h.sg_index) = Behind(i, index) /\ Behind(i, index) \in Int
    BY <1>2, <1>3, GrabAssumption DEF RingSlots, Behind
  <2> QED BY <2>2, <2>3
<1> QED BY <1>5 DEF h

-----------------------------------------------------------------------------
(* The inductive invariant.                                                 *)

StateOK ==
  /\ grab_mode \in 0 .. 3
  /\ frame_start_ago \in Nat /\ frame_end_ago \in Nat
  /\ frame_event_count \in Nat /\ d_events \in Nat
  /\ frame_event_count + d_events <= MaxEvents
  /\ pc \in {"wait", "detect", "eof"} /\ phase \in {"device", "file", "tail", "flush"}
  /\ n_samples \in Nat /\ input_pos \in Nat /\ last \in Nat

GrabOK ==
  /\ grab \in [grab_len: Nat, grab_end: Nat, pad: Nat]
  /\ DOMAIN file \subseteq 1 .. sg_size
  /\ pc = "detect" => grab = NoGrab

\* The end of an open frame is the end of the last package, its start is before.
AgesAgree ==
  /\ last > 0 => last < Received
  /\ frame_start_ago # 0 =>
       /\ last > 0 /\ frame_end_ago = Received - last
       /\ frame_start_ago > frame_end_ago /\ frame_start_ago <= Received
  /\ frame_start_ago = 0 => frame_event_count = 0 /\ d_events = 0

\* While its packages are being found, a buffer may lack a frame only if it has
\* shown no package; between buffers a frame is open only if it has shown one.
FrameTimely ==
  /\ pc = "detect" => n_samples > 0 /\ (last > 0 /\ last >= input_pos => frame_start_ago # 0)
  /\ pc # "detect" => d_events = 0
  /\ FrameClosedInTime

IInv ==
  /\ sg \in Ring /\ RingHoldsStream
  /\ StateOK /\ GrabOK /\ AgesAgree /\ FrameTimely

LEMMA InitInvariant == Init => IInv
<1> SUFFICES ASSUME Init PROVE IInv
  OBVIOUS
<1>1. sg \in Ring
  BY GrabAssumption DEF Init, samp_grab_create, Ring, RingSlots
<1>2. RingHoldsStream
  BY GrabAssumption DEF Init, samp_grab_create, RingHoldsStream, HoldsLast, Behind, RingSlots
<1>3. StateOK /\ AgesAgree /\ FrameTimely
  BY FrameAssumption
  DEF Init, StateOK, AgesAgree, FrameTimely, FrameClosedInTime, Received
<1>4. GrabOK
  BY DEF Init, GrabOK, NoGrab
<1> QED BY <1>1, <1>2, <1>3, <1>4 DEF IInv

\* Ages grow with the buffer and the ring takes it up.
LEMMA BufferKeepsInvariant ==
  ASSUME IInv, NEW n \in Chunks \cup {FileChunk}, Buffer(n),
         phase' \in {"device", "file", "tail", "flush"}
  PROVE  IInv'
<1>1. n \in Nat \ {0} /\ sample_size * n <= sg_size
  BY FrameAssumption
<1>2. StateOK' /\ AgesAgree' /\ FrameTimely'
  BY <1>1
  DEF IInv, Buffer, Aged, StateOK, AgesAgree, FrameTimely, FrameClosedInTime, Received
<1>3. GrabOK'
  BY DEF Buffer, GrabOK, NoGrab
<1>4. sg' \in Ring /\ RingHoldsStream'
  <2>1. /\ Received \in Nat /\ Received' = Received + n
        /\ sample_size * Received \in Nat /\ sample_size * n \in Nat
        /\ sample_size * Received' = sample_size * Received + sample_size * n
    BY <1>1, GrabAssumption DEF IInv, StateOK, Buffer, Received
  <2>2. /\ sg \in Ring /\ HoldsLast(sg, sample_size * Received)
        /\ sg' = samp_grab_push(sg, sample_size * Received, sample_size * n)
    BY DEF IInv, RingHoldsStream, Buffer
  <2>3. sg' \in Ring
    BY <1>1, <2>1, <2>2, PushType
  <2>4. HoldsLast(sg', sample_size * Received + sample_size * n)
    BY <1>1, <2>1, <2>2, PushHoldsLast
  <2> QED BY <2>1, <2>3, <2>4 DEF RingHoldsStream, HoldsLast
<1> QED BY <1>2, <1>3, <1>4 DEF IInv

LEMMA DetectKeepsInvariant ==
  ASSUME IInv, Detect
  PROVE  IInv'
<1> PICK from \in 0 .. Received - 1, to \in input_pos .. Received - 1,
         events \in 0 .. MaxEvents :
      /\ frame_event_count + d_events + events <= MaxEvents
      /\ Package(from, to, events)
  BY DEF Detect
<1>1. StateOK' /\ AgesAgree' /\ FrameTimely'
  BY FrameAssumption
  DEF IInv, Package, frameVars, StateOK, AgesAgree, FrameTimely, FrameClosedInTime, Received
<1>2. sg' \in Ring /\ RingHoldsStream'
  BY DEF IInv, Package, RingHoldsStream, HoldsLast, Received
<1>3. GrabOK'
  BY DEF IInv, Package, GrabOK, grabVars
<1> QED BY <1>1, <1>2, <1>3 DEF IInv

\* What is saved is longer than the frame by a pad at both ends.
LEMMA PaddedFrame ==
  ASSUME IInv, pc = "detect", FrameOver
  PROVE  /\ Padded \in [grab_len: Nat, grab_end: Nat, pad: Nat]
         /\ FramePad \in Nat /\ FramePad <= n_samples
         /\ Padded.grab_len = frame_start_ago - frame_end_ago + 2 * FramePad
         /\ Padded.grab_len > 0
         /\ Padded.grab_end = frame_end_ago - FramePad /\ Padded.pad = FramePad
<1>1. FramePad \in Nat /\ FramePad <= n_samples
  BY DEF IInv, StateOK, FramePad
<1> HIDE DEF FramePad
<1>2. /\ frame_start_ago \in Nat /\ frame_end_ago \in Nat /\ n_samples \in Nat
      /\ frame_start_ago > frame_end_ago /\ frame_end_ago > n_samples
  BY DEF IInv, StateOK, AgesAgree, FrameOver
<1> QED BY <1>1, <1>2 DEF Padded

LEMMA WriteDomain ==
  ASSUME NEW g \in Ring, NEW grab_len \in Nat, NEW grab_end \in Nat
  PROVE  DOMAIN samp_grab_write(g, grab_len, grab_end) \subseteq 1 .. sg_size
<1>1. g.sg_len \in 0 .. sg_size
  BY DEF Ring
<1>2. sample_size * grab_len \in Nat
  BY GrabAssumption
<1>3. Rounded(grab_len) \in Int
  BY <1>2, GrabAssumption DEF Rounded
<1>4. SignalBytes(g, grab_len) \in Int /\ SignalBytes(g, grab_len) <= sg_size
  BY <1>1, <1>3, GrabAssumption DEF SignalBytes
<1>5. DOMAIN samp_grab_write(g, grab_len, grab_end) = 1 .. SignalBytes(g, grab_len)
  BY DEF samp_grab_write
<1> QED BY <1>4, <1>5, GrabAssumption

LEMMA FinishKeepsInvariant ==
  ASSUME IInv, Finish
  PROVE  IInv'
<1>1. sg' \in Ring /\ RingHoldsStream'
  BY DEF IInv, Finish, RingHoldsStream, HoldsLast, Received
<1>2. StateOK' /\ AgesAgree' /\ FrameTimely'
  <2>1. UNCHANGED <<grab_mode, frame_end_ago, n_samples, phase, input_pos, last, Received>>
        /\ pc = "detect" /\ pc' = "wait" /\ d_events' = 0
    BY DEF Finish, Received
  <2>2. CASE FrameOver
    <3>1. frame_start_ago' = 0 /\ frame_event_count' = 0
      BY <2>2 DEF Finish
    <3>2. last < input_pos
      BY <2>2 DEF IInv, StateOK, AgesAgree, FrameOver, Received
    <3> QED BY <2>1, <3>1, <3>2, FrameAssumption
            DEF IInv, StateOK, AgesAgree, FrameTimely, FrameClosedInTime
  <2>3. CASE ~FrameOver
    <3>1. frame_start_ago' = frame_start_ago /\ frame_event_count' = frame_event_count + d_events
      BY <2>3 DEF Finish
    <3>2. frame_start_ago # 0 => last > 0 /\ last >= input_pos
      BY <2>3 DEF IInv, StateOK, AgesAgree, FrameOver, Received
    <3> QED BY <2>1, <3>1, <3>2 DEF IInv, StateOK, AgesAgree, FrameTimely, FrameClosedInTime
  <2> QED BY <2>2, <2>3
<1>3. GrabOK'
  <2>1. CASE grab' = Padded /\ FrameOver
             /\ file' = samp_grab_write(sg, Padded.grab_len, Padded.grab_end)
    BY <2>1, PaddedFrame, WriteDomain DEF IInv, Finish, GrabOK
  <2>2. CASE UNCHANGED grabVars
    BY <2>2 DEF IInv, Finish, GrabOK, grabVars
  <2> QED BY <2>1, <2>2 DEF Finish
<1> QED BY <1>1, <1>2, <1>3 DEF IInv

LEMMA EndOfInputKeepsInvariant ==
  ASSUME IInv, EndOfInput
  PROVE  IInv'
<1>1. sg' \in Ring /\ RingHoldsStream'
  BY DEF IInv, EndOfInput, RingHoldsStream, HoldsLast, Received
<1>2. StateOK' /\ AgesAgree' /\ FrameTimely'
  BY DEF IInv, EndOfInput, frameVars, StateOK, AgesAgree, FrameTimely, FrameClosedInTime, Received
<1>3. GrabOK'
  BY DEF IInv, EndOfInput, GrabOK, grabVars
<1> QED BY <1>1, <1>2, <1>3 DEF IInv

LEMMA StutterKeepsInvariant ==
  ASSUME IInv, UNCHANGED vars
  PROVE  IInv'
<1>1. sg' \in Ring /\ RingHoldsStream'
  BY DEF IInv, vars, RingHoldsStream, HoldsLast, Received
<1>2. StateOK' /\ AgesAgree' /\ FrameTimely' /\ GrabOK'
  BY DEF IInv, vars, frameVars, grabVars, StateOK, AgesAgree, FrameTimely, FrameClosedInTime,
         Received, GrabOK
<1> QED BY <1>1, <1>2 DEF IInv

LEMMA NextKeepsInvariant ==
  ASSUME IInv, [Next]_vars
  PROVE  IInv'
<1>1. CASE DeviceBuffer
  BY <1>1, BufferKeepsInvariant DEF DeviceBuffer, IInv, StateOK
<1>2. CASE FileBlock
  BY <1>2, BufferKeepsInvariant DEF FileBlock
<1>3. CASE FileTail
  BY <1>3, BufferKeepsInvariant DEF FileTail
<1>4. CASE Flush
  BY <1>4, BufferKeepsInvariant DEF Flush
<1>5. CASE Detect
  BY <1>5, DetectKeepsInvariant
<1>6. CASE Finish
  BY <1>6, FinishKeepsInvariant
<1>7. CASE EndOfInput
  BY <1>7, EndOfInputKeepsInvariant
<1>8. CASE UNCHANGED vars
  BY <1>8, StutterKeepsInvariant
<1> QED BY <1>1, <1>2, <1>3, <1>4, <1>5, <1>6, <1>7, <1>8 DEF Next

LEMMA AlwaysInvariant == Spec => []IInv
  BY InitInvariant, NextKeepsInvariant, PTL DEF Spec

-----------------------------------------------------------------------------
(* The theorems.                                                            *)

\* Every slot, age, count and file length stays within its type.
THEOREM GrabTypeOK == Spec => []TypeOK
<1>1. IInv => TypeOK
  BY FrameAssumption DEF IInv, StateOK, GrabOK, TypeOK
<1> QED BY <1>1, AlwaysInvariant, PTL

\* The ring holds the last bytes of the stream, however they were delivered.
THEOREM GrabRingHoldsStream == Spec => []RingHoldsStream
<1>1. IInv => RingHoldsStream
  BY DEF IInv
<1> QED BY <1>1, AlwaysInvariant, PTL

\* Between buffers a frame is open exactly if a package ended in the last one.
THEOREM GrabFrameClosedInTime == Spec => []FrameClosedInTime
<1>1. IInv => FrameClosedInTime
  BY DEF IInv, FrameTimely
<1> QED BY <1>1, AlwaysInvariant, PTL

-----------------------------------------------------------------------------
(* The refinement of FrameStream, one lemma per kind of step.               *)

LEMMA InitFrames == Init => Frames!Init
  BY DEF Init, Frames!Init, Frames!NoFrame, Frames!Nothing, Received, AbsFrame, AbsKept

\* A new buffer moves the ages, and with them no position.
LEMMA BufferArrives ==
  ASSUME IInv, NEW n \in Chunks \cup {FileChunk}, Buffer(n)
  PROVE  Frames!Arrive
<1>1. n \in Nat \ {0}
  BY FrameAssumption
<1>2. /\ Received \in Nat /\ Received' = Received + n
      /\ input_pos' = Received /\ grab_mode' = grab_mode
  BY <1>1 DEF IInv, StateOK, Buffer, Received
<1>3. AbsKept' = <<-1, -1>>
  BY DEF Buffer, AbsKept, NoGrab
<1>4. UNCHANGED AbsFrame
  <2>1. CASE frame_start_ago = 0
    BY <2>1 DEF Buffer, Aged, AbsFrame
  <2>2. CASE frame_start_ago # 0
    <3>1. /\ frame_start_ago' = frame_start_ago + n /\ frame_end_ago' = frame_end_ago + n
          /\ frame_start_ago' # 0
          /\ frame_event_count' + d_events' = frame_event_count + d_events
      BY <1>1, <2>2
      DEF IInv, StateOK, AgesAgree, FrameTimely, Buffer, Aged, Received
    <3>2. UNCHANGED FrameSpan
      BY <1>1, <1>2, <3>1 DEF IInv, StateOK, FrameSpan
    <3> QED BY <2>2, <3>1, <3>2 DEF AbsFrame
  <2> QED BY <2>1, <2>2
<1> QED BY <1>1, <1>2, <1>3, <1>4 DEF Frames!Arrive, Frames!Nothing

\* A package opens the frame or moves its end.
LEMMA DetectCollects ==
  ASSUME IInv, Detect
  PROVE  Frames!Collect
<1> PICK from \in 0 .. Received - 1, to \in input_pos .. Received - 1,
         events \in 0 .. MaxEvents : Package(from, to, events)
  BY DEF Detect
<1>1. UNCHANGED <<Received, input_pos, grab_mode, grab, n_samples, AbsKept>>
  BY DEF Package, grabVars, Received, AbsKept, SavedSpan
<1>2. from < to /\ last <= from /\ events \in Nat /\ from \in Nat /\ to \in Nat
      /\ Received \in Nat
  BY FrameAssumption DEF Package, IInv, StateOK, Received
<1>3. AbsFrame' = [ from   |-> IF frame_start_ago = 0 THEN from ELSE FrameSpan[1],
                    to     |-> to,
                    events |-> frame_event_count + d_events + events ]
  <2>1. frame_start_ago' # 0 /\ frame_end_ago' = Received - to
        /\ frame_event_count' + d_events' = frame_event_count + d_events + events
    BY <1>2 DEF Package, IInv, StateOK
  <2>2. FrameSpan'[2] = to
    BY <1>1, <1>2, <2>1 DEF FrameSpan
  <2>3. FrameSpan'[1] = IF frame_start_ago = 0 THEN from ELSE FrameSpan[1]
    BY <1>1, <1>2 DEF FrameSpan, Package
  <2> QED BY <2>1, <2>2, <2>3 DEF AbsFrame
<1>4. CASE frame_start_ago = 0
  <2>1. AbsFrame = Frames!NoFrame /\ AbsFrame.events = 0
    BY <1>4 DEF AbsFrame, Frames!NoFrame
  <2>2. frame_event_count + d_events + events = events
    BY <1>4, <1>2 DEF IInv, AgesAgree
  <2> QED BY <1>1, <1>2, <1>3, <1>4, <2>1, <2>2 DEF Frames!Collect
<1>5. CASE frame_start_ago # 0
  <2>1. AbsFrame = [from |-> FrameSpan[1], to |-> last, events |-> frame_event_count + d_events]
    BY <1>2, <1>5 DEF AbsFrame, FrameSpan, IInv, AgesAgree, StateOK
  <2>2. AbsFrame # Frames!NoFrame
    BY <1>5, <2>1 DEF Frames!NoFrame, IInv, AgesAgree, StateOK
  <2>3. frame_event_count + d_events + events >= frame_event_count + d_events
    BY <1>2 DEF IInv, StateOK
  <2> QED BY <1>1, <1>2, <1>3, <1>5, <2>1, <2>2, <2>3 DEF Frames!Collect
<1> QED BY <1>4, <1>5

\* The last step of a buffer closes the frame that no package prolonged.
LEMMA FinishCloses ==
  ASSUME IInv, Finish
  PROVE  Frames!Close \/ UNCHANGED Frames!frameVars
<1>1. UNCHANGED <<Received, input_pos, grab_mode>> /\ pc = "detect" /\ d_events' = 0
      /\ Received \in Nat
  BY DEF Finish, Received, IInv, StateOK
<1>2. CASE FrameOver
  <2>1. /\ AbsFrame = [from |-> FrameSpan[1], to |-> FrameSpan[2],
                       events |-> frame_event_count + d_events]
        /\ FrameSpan[2] = last /\ last \in Nat /\ last < input_pos
    BY <1>1, <1>2
    DEF FrameOver, AbsFrame, FrameSpan, IInv, AgesAgree, StateOK, Received
  <2>2. AbsFrame # Frames!NoFrame
    BY <2>1 DEF Frames!NoFrame
  <2>3. AbsFrame' = Frames!NoFrame
    BY <1>2 DEF Finish, AbsFrame, Frames!NoFrame
  <2>4. AbsKept' = IF Grabbed(frame_event_count + d_events)
                   THEN <<FrameSpan[1], FrameSpan[2]>> ELSE <<-1, -1>>
    <3>1. CASE Grabbed(frame_event_count + d_events)
      <4>1. grab' = Padded
        BY <1>2, <3>1 DEF Finish
      <4>2. grab' # NoGrab
        BY <1>1, <1>2, <4>1, PaddedFrame DEF NoGrab
      <4>3. SavedSpan' = <<FrameSpan[1], FrameSpan[2]>>
        <5>1. /\ grab'.grab_len = frame_start_ago - frame_end_ago + 2 * FramePad
              /\ grab'.grab_end = frame_end_ago - FramePad
              /\ grab'.pad = FramePad /\ FramePad \in Nat
          BY <1>1, <1>2, <4>1, PaddedFrame
        <5> QED BY <1>1, <5>1 DEF SavedSpan, FrameSpan, IInv, StateOK
      <4> QED BY <3>1, <4>2, <4>3 DEF AbsKept
    <3>2. CASE ~Grabbed(frame_event_count + d_events)
      BY <1>1, <1>2, <3>2 DEF Finish, grabVars, AbsKept, IInv, GrabOK
    <3> QED BY <3>1, <3>2
  <2>5. Grabbed(frame_event_count + d_events) = Frames!Wanted(frame_event_count + d_events)
    BY DEF Grabbed, Frames!Wanted
  <2> QED BY <1>1, <2>1, <2>2, <2>3, <2>4, <2>5 DEF Frames!Close, Frames!Nothing
<1>3. CASE ~FrameOver
  <2>1. UNCHANGED <<frame_start_ago, frame_end_ago, grab>>
        /\ frame_event_count' + d_events' = frame_event_count + d_events
    BY <1>1, <1>3 DEF Finish, grabVars, IInv, StateOK
  <2> QED BY <1>1, <2>1 DEF Frames!frameVars, AbsFrame, AbsKept, FrameSpan, SavedSpan
<1> QED BY <1>2, <1>3

LEMMA StepFrames ==
  ASSUME IInv, [Next]_vars
  PROVE  [Frames!Next]_(Frames!frameVars)
<1>1. CASE DeviceBuffer \/ FileBlock \/ FileTail \/ Flush
  BY <1>1, BufferArrives DEF DeviceBuffer, FileBlock, FileTail, Flush, Frames!Next
<1>2. CASE Detect
  BY <1>2, DetectCollects DEF Frames!Next
<1>3. CASE Finish
  BY <1>3, FinishCloses DEF Frames!Next
<1>4. CASE EndOfInput \/ UNCHANGED vars
  BY <1>4 DEF EndOfInput, vars, frameVars, grabVars, Frames!frameVars, AbsFrame, AbsKept,
              FrameSpan, SavedSpan, Received
<1> QED BY <1>1, <1>2, <1>3, <1>4 DEF Next

\* The ages of sdr_callback implement frames that are kept by position: a frame
\* spans exactly its packages and is saved exactly if option -S asks for it.
THEOREM GrabImplementsFrameStream == Spec => ImplementsFrameStream
<1>1. Spec => Frames!Spec
  BY InitFrames, StepFrames, AlwaysInvariant, PTL DEF Spec, Frames!Spec
<1> QED BY <1>1 DEF ImplementsFrameStream

-----------------------------------------------------------------------------
(* The file.                                                                *)

\* The rounding asks for more than the signal, by at most one block.
LEMMA RoundedUp ==
  ASSUME NEW grab_len \in Nat
  PROVE  /\ Rounded(grab_len) \in Nat /\ sample_size * grab_len \in Nat
         /\ Rounded(grab_len) > sample_size * grab_len
<1>1. sample_size * grab_len \in Nat
  BY GrabAssumption
<1>2. \A m \in Nat : m % BLOCK_SIZE \in 0 .. BLOCK_SIZE - 1
  BY GrabAssumption
<1> QED BY <1>1, <1>2, GrabAssumption DEF Rounded

\* If all that is asked for is still in the ring, the file is that stretch of
\* the stream, around the end of the ring or not.
LEMMA WriteInOrder ==
  ASSUME NEW g \in Ring, NEW end \in Nat, HoldsLast(g, end),
         NEW grab_len \in Nat, NEW grab_end \in Nat,
         Rounded(grab_len) + sample_size * grab_end <= g.sg_len
  PROVE  LET written == samp_grab_write(g, grab_len, grab_end)
             from    == end - sample_size * grab_end - Rounded(grab_len)
         IN  /\ DOMAIN written = 1 .. Rounded(grab_len)
             /\ \A k \in DOMAIN written : written[k] = from + k - 1
<1> DEFINE S == Rounded(grab_len)
           e == sample_size * grab_end
           end_pos == Below(g.sg_index, e)
           start_pos == Below(end_pos, S)
<1>1. S \in Nat /\ S > 0 /\ e \in Nat /\ S + e <= g.sg_len
  BY RoundedUp, GrabAssumption
<1>2. g.sg_index \in RingSlots /\ g.sg_len \in 0 .. sg_size
  BY DEF Ring
<1>3. SignalBytes(g, grab_len) = S
  BY <1>1, <1>2, GrabAssumption DEF SignalBytes
<1>4. samp_grab_write(g, grab_len, grab_end)
        = [k \in 1 .. S |-> g.sg_buf[Wrapped(start_pos + k - 1)]]
  BY <1>3 DEF samp_grab_write
<1> HIDE DEF S, e
<1>5. ASSUME NEW k \in 1 .. S
      PROVE  g.sg_buf[Wrapped(start_pos + k - 1)] = end - e - S + k - 1
  <2> DEFINE slot == Wrapped(start_pos + k - 1)
  <2>1. start_pos \in RingSlots
    BY <1>1, <1>2, GrabAssumption DEF Below, RingSlots
  <2>2. slot \in RingSlots /\ Behind(slot, g.sg_index) = e + S - k
    BY <1>1, <1>2, <2>1, GrabAssumption DEF Below, Wrapped, Behind, RingSlots
  <2> HIDE DEF slot
  <2>3. g.sg_buf[slot] = end - 1 - Behind(slot, g.sg_index)
    BY <1>1, <1>2, <2>2, GrabAssumption DEF HoldsLast
  <2> QED BY <1>1, <2>2, <2>3 DEF slot
<1> QED BY <1>4, <1>5 DEF S, e

LEMMA FinishHoldsFrame ==
  ASSUME IInv, Finish, grab' # NoGrab, StillRecorded'
  PROVE  FileHoldsFrame'
<1> DEFINE S == Rounded(Padded.grab_len)
           from == sample_size * Received - sample_size * Padded.grab_end - S
<1>1. FrameOver /\ grab' = Padded /\ pc = "detect"
      /\ file' = samp_grab_write(sg, Padded.grab_len, Padded.grab_end)
  BY DEF Finish, grabVars, IInv, GrabOK
<1>2. /\ Padded.grab_len \in Nat /\ Padded.grab_end \in Nat /\ Padded.pad \in Nat
      /\ Padded.grab_len > 2 * Padded.pad
      /\ sg' = sg /\ Received' = Received /\ Received \in Nat
  BY <1>1, PaddedFrame DEF IInv, StateOK, AgesAgree, FrameOver, Finish, Received
<1> HIDE DEF Padded
<1>3. /\ sample_size * Received \in Nat /\ sample_size * Padded.grab_end \in Nat
      /\ S \in Nat /\ S > sample_size * Padded.grab_len
  BY <1>2, RoundedUp, GrabAssumption
<1>4. /\ DOMAIN file' = 1 .. S
      /\ \A k \in DOMAIN file' : file'[k] = from + k - 1
  BY <1>1, <1>2, <1>3, WriteInOrder DEF IInv, RingHoldsStream, StillRecorded
<1>5. from \in Int
  BY <1>3
<1> HIDE DEF S, from
<1>6. InOrder'
  BY <1>3, <1>4, <1>5 DEF InOrder
<1>7. /\ sample_size * SavedSpan'[1] = from + S - sample_size * Padded.grab_len
                                          + sample_size * Padded.pad
      /\ sample_size * SavedSpan'[2] = from + S - sample_size * Padded.pad
  BY <1>1, <1>2, <1>3, GrabAssumption DEF SavedSpan, from
<1>8. /\ sample_size * Padded.pad \in Nat /\ sample_size * Padded.grab_len \in Nat
      /\ sample_size * Padded.grab_len > 2 * (sample_size * Padded.pad)
  BY <1>2, GrabAssumption
<1>9. \E k \in DOMAIN file' : file'[k] = sample_size * SavedSpan'[1]
  <2>1. S - sample_size * Padded.grab_len + sample_size * Padded.pad + 1 \in 1 .. S
    BY <1>3, <1>8
  <2> QED BY <1>3, <1>4, <1>5, <1>7, <1>8, <2>1
<1>10. \E k \in DOMAIN file' : file'[k] = sample_size * SavedSpan'[2] - 1
  <2>1. S - sample_size * Padded.pad \in 1 .. S
    BY <1>3, <1>8
  <2> QED BY <1>3, <1>4, <1>5, <1>7, <1>8, <2>1
<1> QED BY <1>6, <1>9, <1>10 DEF FileHoldsFrame

\* A saved file is one stretch of the stream and has the whole frame, if the
\* ring still holds the blocks that were asked for.
THEOREM GrabFileHoldsFrame == Spec => []FileHoldsFrame
<1>1. Init => FileHoldsFrame
  BY DEF Init, FileHoldsFrame
<1>2. ASSUME IInv, FileHoldsFrame, [Next]_vars
      PROVE  FileHoldsFrame'
  <2>1. CASE DeviceBuffer \/ FileBlock \/ FileTail \/ Flush
    BY <2>1 DEF DeviceBuffer, FileBlock, FileTail, Flush, Buffer, FileHoldsFrame
  <2>2. CASE Detect
    BY <1>2, <2>2 DEF IInv, GrabOK, Detect, Package, grabVars, FileHoldsFrame
  <2>3. CASE Finish
    BY <1>2, <2>3, FinishHoldsFrame DEF FileHoldsFrame
  <2>4. CASE EndOfInput \/ UNCHANGED vars
    BY <1>2, <2>4 DEF EndOfInput, vars, grabVars, FileHoldsFrame, StillRecorded, InOrder,
                      SavedSpan, Received
  <2> QED BY <1>2, <2>1, <2>2, <2>3, <2>4 DEF Next
<1> QED BY <1>1, <1>2, AlwaysInvariant, PTL DEF Spec

================================================================================

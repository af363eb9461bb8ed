----------------------------- MODULE FrameStream ------------------------------
(***************************************************************************)
(* What signal saving promises, in positions of the stream and without     *)
(* ages: the packages handed out between two quiet buffers make one frame, *)
(* from the start of the first to the end of the last.  A frame is closed  *)
(* by the first buffer no package ended in, and kept or not by its events. *)
(***************************************************************************)
EXTENDS Integers

VARIABLES
  now,       \* samples received
  fresh,     \* samples received before the newest buffer
  frame,     \* the frame being collected, or NoFrame
  kept,      \* the stretch <<from, to>> of the frame just kept, or Nothing
  mode       \* which frames are wanted: 0 none, 1 all, 2 unknown, 3 known

frameVars == <<now, fresh, frame, kept, mode>>

\* A frame is known when one of its packages was decoded.
Wanted(events) ==
  \/ mode = 1
  \/ mode = 2 /\ events = 0
  \/ mode = 3 /\ events > 0

NoFrame == [from |-> -1, to |-> -1, events |-> 0]
Nothing == <<-1, -1>>

Init == now = 0 /\ fresh = 0 /\ frame = NoFrame /\ kept = Nothing /\ mode \in 0 .. 3

Arrive ==
  /\ now' \in Nat /\ now' > now
  /\ fresh' = now /\ kept' = Nothing
  /\ UNCHANGED <<frame, mode>>

\* A package of the newest buffer, and the events decoded from it.
Collect ==
  /\ \E from \in 0 .. now - 1, to \in fresh .. now - 1 :
       /\ from < to
       /\ frame # NoFrame => frame.to <= from
       /\ frame' = [ from   |-> IF frame = NoFrame THEN from ELSE frame.from,
                     to     |-> to,
                     events |-> frame'.events ]
  /\ frame'.events >= frame.events
  /\ UNCHANGED <<now, fresh, kept, mode>>

Close ==
  /\ frame # NoFrame /\ frame.to < fresh
  /\ kept' = IF Wanted(frame.events) THEN <<frame.from, frame.to>> ELSE Nothing
  /\ frame' = NoFrame
  /\ UNCHANGED <<now, fresh, mode>>

Next == Arrive \/ Collect \/ Close

Spec == Init /\ [][Next]_frameVars

===============================================================================

---------------------------- MODULE PackageStream ----------------------------
(***************************************************************************)
(* What a package detector promises, whatever the buffers: the stream is   *)
(* read sample by sample, a package is open from the sample that triggered *)
(* it, and every package handed out covers exactly the stretch from its    *)
(* trigger to the sample at which it is returned.  Packages are therefore  *)
(* disjoint and come in stream order.  An open package may be dropped.     *)
(***************************************************************************)
EXTENDS Integers

VARIABLES
  now,      \* samples of the stream that are done
  open,     \* position of the trigger of the open package, or Closed
  out       \* the stretch <<from, to>> being handed out, or NoPackage

streamVars == <<now, open, out>>

Closed == -1
NoPackage == <<-1, -1>>

Init == now = 0 /\ open = Closed /\ out = NoPackage

\* The sample at position now opens a package, closes one or changes nothing.
Sample ==
  /\ now' = now + 1
  /\ \/ open = Closed /\ open' = now
     \/ open' = Closed
     \/ UNCHANGED open
  /\ out' = NoPackage

HandOut ==
  /\ open # Closed
  /\ out' = <<open, now>>
  /\ open' = Closed
  /\ UNCHANGED now

\* The client is done with the package.
Taken == out' = NoPackage /\ UNCHANGED <<now, open>>

Next == Sample \/ HandOut \/ Taken

Spec == Init /\ [][Next]_streamVars

==============================================================================

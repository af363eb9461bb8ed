------------------------------ MODULE DeviceSet ------------------------------
(***************************************************************************)
(* What -R promises (help of -R, src/src/rtl_433.c): enable a device,      *)
(* disable one, disable all.                                               *)
(***************************************************************************)
EXTENDS Selection

CONSTANTS
  Protocols,          \* the devices of the program
  NameOf,             \* their names, by device
  Defaults            \* the sequences of devices that are enabled by default

VARIABLES
  enabled,            \* sequence of devices
  given               \* options given in this session

Init == enabled = <<>> /\ given = 0

Enable(p) == enabled' = Append(enabled, p) /\ given' = given + 1

DisableIn(devices, p) == Only(devices, {q \in Protocols : NameOf[q] # NameOf[p]})

\* A first -R with a negative number is about the default devices.
Disable(p) ==
  /\ \E devices \in IF given = 0 THEN Defaults ELSE {enabled} :
       enabled' = DisableIn(devices, p)
  /\ given' = given + 1

DisableAll == enabled' = <<>> /\ given' = given + 1

\* A session with no option has the default devices.
Default == given = 0 /\ (\E d \in Defaults : enabled' = d) /\ UNCHANGED given

EndSession == enabled' = <<>> /\ given' = 0

Next ==
  \/ \E p \in Protocols : Enable(p) \/ Disable(p)
  \/ DisableAll \/ Default \/ EndSession

Spec == Init /\ [][Next]_<<enabled, given>>
=============================================================================

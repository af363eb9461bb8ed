------------------------------ MODULE MCDemods ------------------------------
(* Instance: five protocols of three priorities, two with one name, one disabled *)
(* by default and one hidden, in a list that is short enough to grow.            *)
EXTENDS Demods

MCTable ==
  << [name |-> "a", modulation |-> "OOK", priority |-> 1, disabled |-> 0],
     [name |-> "b", modulation |-> "OOK", priority |-> 0, disabled |-> 0],
     [name |-> "a", modulation |-> "FSK", priority |-> 0, disabled |-> 1],
     [name |-> "c", modulation |-> "OOK", priority |-> 2, disabled |-> 0],
     [name |-> "d", modulation |-> "FSK", priority |-> 3, disabled |-> 3] >>
=============================================================================

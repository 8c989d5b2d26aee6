------------------------------- MODULE MCHost -------------------------------
(* The host's side of the daemon, for TLC: its interfaces, its main loop    *)
(* and the record sets of its services.  They share nothing here, so a      *)
(* behaviour is one of one of them, the subject.                            *)
EXTENDS HostInterfaces, PosixLoop, ServiceRecords, TLC

CONSTANTS e0v4, e0v6, e1v4, lo, bad

VARIABLE subject

hostVars == <<subject, interfaceVars, loopVars, serviceVars>>

HostInit ==
  /\ subject \in {"interfaces", "loop", "services"}
  /\ InterfaceInit /\ LoopInit /\ ServiceInit
  /\ subject # "interfaces" => system = {}

HostNext ==
  /\ \/ subject = "interfaces" /\ InterfaceNext /\ UNCHANGED <<loopVars, serviceVars>>
     \/ subject = "loop" /\ LoopNext /\ UNCHANGED <<interfaceVars, serviceVars>>
     \/ subject = "services" /\ ServiceNext /\ UNCHANGED <<interfaceVars, loopVars>>
  /\ UNCHANGED subject

(* The process is given time, and what a record waits for comes.            *)
HostSpec ==
  /\ HostInit /\ [][HostNext]_hostVars
  /\ WF_loopVars(subject = "loop" /\ Main)
  /\ ServiceFairness

---------------------------------------------------------------------------
(* Two interfaces, one with an address of each version and one with one,    *)
(* the loopback interface and an address whose mask is not valid.           *)
address(name, index, type, loopback, mask) ==
  [name |-> name, index |-> index, type |-> type, usable |-> TRUE, loopback |-> loopback, mask |-> mask]
MCAttributes ==
  e0v4 :> address("eth0", 2, "v4", FALSE, TRUE) @@ e0v6 :> address("eth0", 2, "v6", FALSE, TRUE) @@
  e1v4 :> address("eth1", 40, "v4", FALSE, TRUE) @@ lo :> address("lo", 1, "v4", TRUE, TRUE) @@
  bad :> address("eth1", 40, "v6", FALSE, FALSE)
MCEnumeration == <<lo, e0v4, e1v4, e0v6, bad>>
=============================================================================

------------------------------ MODULE MCThreads ------------------------------
(***************************************************************************)
(* Three parts of the Ct library in which threads wait for each other: the *)
(* timer, the condition and stream sockets.  They share nothing, so a      *)
(* behaviour is one of one of them, the subject; the others stay as they   *)
(* began, where none of their fair steps is enabled.                       *)
(***************************************************************************)
EXTENDS CtTimer, CtCondition, CtTcp

VARIABLE subject

threadsVars == <<subject, vars, conditionVars, tcpVars>>

ThreadsInit ==
  /\ subject \in {"timer", "condition", "tcp"}
  /\ Init /\ ConditionInit /\ TcpInit

ThreadsNext ==
  /\ \/ subject = "timer" /\ Next /\ UNCHANGED <<conditionVars, tcpVars>>
     \/ subject = "condition" /\ ConditionNext /\ UNCHANGED <<vars, tcpVars>>
     \/ subject = "tcp" /\ TcpNext /\ UNCHANGED <<vars, conditionVars>>
  /\ UNCHANGED subject

ThreadsSpec ==
  /\ ThreadsInit /\ [][ThreadsNext]_threadsVars
  /\ Fairness /\ ConditionFairness /\ TcpFairness

---------------------------------------------------------------------------
(* The variables of the three keep their types.                            *)
TypesHold == TypeOK /\ ConditionTypeOK /\ TcpTypeOK
=============================================================================

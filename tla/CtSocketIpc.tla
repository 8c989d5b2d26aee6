---------------------------- MODULE CtSocketIpc ----------------------------
(***************************************************************************)
(* The loopback datagram socket a loop thread is woken through             *)
(* (src/CtSocket/src/CtSocketIpc.c): the datagrams waiting in the socket's *)
(* receive buffer, oldest first.  A message is abstracted to the type its  *)
(* text stands for; the text itself is kept by no property.                *)
(***************************************************************************)
EXTENDS Naturals, Sequences

CONSTANT RcvBuf     \* how many datagrams the receive buffer holds

ASSUME RcvBufAssumption == RcvBuf \in Nat \ {0}

IpcMsgType == {"STOP", "RESELECT", "USER_DEFINED"}

(* CtSocketIpc_Send.  The kernel drops a datagram that finds the receive   *)
(* buffer full, and the sender is told nothing.                            *)
CtSocketIpc_Send(q, type) == IF Len(q) < RcvBuf THEN Append(q, type) ELSE q

(* The type CtSocketIpc_Recv leaves in a message whose type was old: it is *)
(* assigned for the two control messages only.                             *)
RecvType(q, old) == IF Head(q) = "USER_DEFINED" THEN old ELSE Head(q)
=============================================================================

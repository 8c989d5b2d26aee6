---------------------------- MODULE DnsSdClient ----------------------------
(***************************************************************************)
(* The client library for the DNS-SD daemon                                *)
(* (mdnsresponder/mDNSShared/dnssd_clientstub.c), as far as CtBonjour uses *)
(* it: one connection to the daemon, shared by subordinate operations.     *)
(* op is the heap of DNSServiceOp objects; the operators give the heap     *)
(* after each library routine.  What a request or a reply says is left     *)
(* out, except the uid that routes a reply and what kind of reply it is.   *)
(***************************************************************************)
EXTENDS Naturals

CONSTANTS
  Ops,   \* the addresses malloc may return for a DNSServiceOp
  NoOp   \* the null DNSServiceRef

ASSUME OpsAssumption == NoOp \notin Ops

(* sdr->op, for the requests CtBonjour makes.                              *)
SubKind == {"browse", "resolve", "addrinfo"}
OpKind == {"connection"} \cup SubKind

(* uid counts the requests made so far in a primary, and is the identity   *)
(* of the request in a subordinate.  reply and more tell whether           *)
(* ProcessReply and moreptr are set; subs is the primary's list.           *)
ServiceOp ==
  [kind : OpKind \cup {"free"}, uid : Nat, primary : Ops \cup {NoOp},
   subs : SUBSET Ops, reply : BOOLEAN, more : BOOLEAN]

(* What FreeDNSServiceOp leaves: no field of a freed object means anything. *)
Freed == [kind |-> "free", uid |-> 0, primary |-> NoOp, subs |-> {},
          reply |-> FALSE, more |-> FALSE]

NewOp(kind, uid, primary) ==
  [kind |-> kind, uid |-> uid, primary |-> primary, subs |-> {},
   reply |-> TRUE, more |-> FALSE]

Allocated(op) == {o \in Ops : op[o].kind # "free"}

(* ConnectToServer without kDNSServiceFlagsShareConnection, at address o.  *)
ConnectPrimary(op, o) == [op EXCEPT ![o] = NewOp("connection", 0, NoOp)]

(* The primary, once o is in its list and its counter incremented.         *)
WithSubordinate(primary, o) ==
  [primary EXCEPT !.subs = @ \cup {o}, !.uid = @ + 1]

(* Mutant: the counter is read before it is incremented, so that an        *)
(* operation gets the uid of the one before it.                            *)
ConnectSharedPostincrement(op, p, o, kind) ==
  [op EXCEPT ![p] = WithSubordinate(@, o),
             ![o] = NewOp(kind, IF op[p].uid = 0 THEN 1 ELSE op[p].uid, p)]

(* ConnectToServer with that flag, for the primary p: the new operation is *)
(* appended to p's list and takes the incremented uid.                     *)
ConnectShared(op, p, o, kind) ==
  [op EXCEPT ![p] = WithSubordinate(@, o),
             ![o] = NewOp(kind, op[p].uid + 1, p)]

(* Mutant: the operation stays in its primary's list.                      *)
DeallocateSubordinateLinked(op, o) == [op EXCEPT ![o] = Freed]

(* DNSServiceRefDeallocate of a subordinate.                               *)
DeallocateSubordinate(op, o) ==
  [op EXCEPT ![op[o].primary].subs = @ \ {o}, ![o] = Freed]

(* Mutant: the subordinates are not freed with their primary.              *)
DeallocatePrimaryAlone(op, p) == [op EXCEPT ![p] = Freed]

(* The end of DNSServiceRefDeallocate of a primary: it and its list.       *)
DeallocatePrimary(op, p) ==
  [o \in Ops |-> IF o = p \/ o \in op[p].subs THEN Freed ELSE op[o]]

(* The subordinates ConnectionResponse may find for a reply with this uid. *)
Addressees(op, p, uid) == {o \in op[p].subs : op[o].uid = uid}

(* The replies the daemon sends to each kind of operation.                 *)
ReplyTypes(kind) ==
  CASE kind = "browse" -> {"add", "remove"}
    [] kind = "resolve" -> {"resolved"}
    [] kind = "addrinfo" -> {"address"}
ReplyType == UNION {ReplyTypes(k) : k \in SubKind}
Request == [uid : Nat, kind : SubKind]
Reply == [uid : Nat, type : ReplyType]
=============================================================================

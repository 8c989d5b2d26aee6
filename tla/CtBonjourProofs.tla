-------------------------- MODULE CtBonjourProofs --------------------------
(* Proofs about CtBonjour.                                                 *)
EXTENDS CtBonjour, TLAPS

USE DEF AppAt, EventAt

-----------------------------------------------------------------------------
(* Types: what each helper returns.                                        *)

LEMMA ThreadTypes ==
  ASSUME NEW t \in ThreadObject({EventThread}), NEW x \in {EventThread, NoThread}
  PROVE  /\ CtThread_Construct \in ThreadObject({EventThread})
         /\ CtThread_Initialize(t) \in ThreadObject({EventThread})
         /\ CtThread_Start(t, x) \in ThreadObject({EventThread})
         /\ CtThread_Joined(t, x) \in ThreadObject({EventThread})
         /\ JoinTarget(t) \in {EventThread, NoThread}
  BY DEF ThreadObject, ThreadStatus, CtThread_Construct, CtThread_Initialize,
         CtThread_Start, CtThread_Joined, JoinTarget

LEMMA AtType == ASSUME NEW pc \in EventPC PROVE At(pc) \in EventState
  BY DEF At, EventState, Refs

LEMMA GotoType ==
  ASSUME ev \in EventState, NEW pc \in EventPC, Goto(pc)
  PROVE  ev' \in EventState /\ ev'.pc = pc
  BY DEF Goto, EventState

LEMMA FieldType == Field \in {"resolveRef", "resolveAddrRef"}
  BY DEF Field

LEMMA SetFieldType ==
  ASSUME obj \in Object, NEW o \in Refs, SetField(o)
  PROVE  /\ obj' \in Object
         /\ obj'.shareRef = obj.shareRef
         /\ obj'.started = obj.started
         /\ obj'.shouldExit = obj.shouldExit
         /\ obj'[Field] = o
<1>1. CASE Field = "resolveRef"
  BY <1>1 DEF SetField, Object
<1>2. CASE Field = "resolveAddrRef"
  BY <1>2 DEF SetField, Object
<1> QED
  BY <1>1, <1>2, FieldType

LEMMA SubRefType == obj \in Object => SubRef \in Refs
<1> SUFFICES ASSUME obj \in Object PROVE SubRef \in Refs
  OBVIOUS
<1>1. CASE Field = "resolveRef"
  BY <1>1 DEF SubRef, Object
<1>2. CASE Field = "resolveAddrRef"
  BY <1>2 DEF SubRef, Object
<1> QED
  BY <1>1, <1>2, FieldType

LEMMA FreedType == Freed \in ServiceOp
  BY DEF Freed, ServiceOp, OpKind

LEMMA NewOpType ==
  ASSUME NEW kind \in OpKind, NEW uid \in Nat, NEW p \in Ops \cup {NoOp}
  PROVE  NewOp(kind, uid, p) \in ServiceOp
  BY DEF NewOp, ServiceOp, OpKind

LEMMA ConnectPrimaryType ==
  ASSUME NEW h \in [Ops -> ServiceOp], NEW o \in Ops
  PROVE  ConnectPrimary(h, o) \in [Ops -> ServiceOp]
  BY NewOpType DEF ConnectPrimary, OpKind

LEMMA ConnectSharedType ==
  ASSUME NEW h \in [Ops -> ServiceOp], NEW p \in Ops, NEW o \in Ops, NEW kind \in SubKind
  PROVE  ConnectShared(h, p, o, kind) \in [Ops -> ServiceOp]
<1>1. h[p] \in ServiceOp
  OBVIOUS
<1>2. h[p].uid + 1 \in Nat /\ h[p].subs \cup {o} \in SUBSET Ops
  BY <1>1 DEF ServiceOp
<1>3. NewOp(kind, h[p].uid + 1, p) \in ServiceOp
  BY <1>2, NewOpType DEF OpKind
<1>4. WithSubordinate(h[p], o) \in ServiceOp
  BY <1>1, <1>2 DEF ServiceOp, WithSubordinate
<1> QED
  BY <1>3, <1>4 DEF ConnectShared

LEMMA DeallocateSubordinateType ==
  ASSUME NEW h \in [Ops -> ServiceOp], NEW o \in Ops
  PROVE  DeallocateSubordinate(h, o) \in [Ops -> ServiceOp]
<1> DEFINE p == h[o].primary
<1>1. CASE p \in Ops
  <2>1. [h[p] EXCEPT !.subs = @ \ {o}] \in ServiceOp
    BY <1>1 DEF ServiceOp
  <2> QED
    BY <2>1, FreedType DEF DeallocateSubordinate
<1>2. CASE p \notin Ops
  BY <1>2, FreedType DEF DeallocateSubordinate
<1> QED
  BY <1>1, <1>2

LEMMA DeallocatePrimaryType ==
  ASSUME NEW h \in [Ops -> ServiceOp], NEW p \in Ops
  PROVE  DeallocatePrimary(h, p) \in [Ops -> ServiceOp]
  BY FreedType DEF DeallocatePrimary

LEMMA SetFlagType ==
  ASSUME NEW h \in [Ops -> ServiceOp], NEW p \in Ops, NEW b \in BOOLEAN
  PROVE  /\ [h EXCEPT ![p].reply = b] \in [Ops -> ServiceOp]
         /\ [h EXCEPT ![p].more = b] \in [Ops -> ServiceOp]
<1>1. [h[p] EXCEPT !.reply = b] \in ServiceOp /\ [h[p] EXCEPT !.more = b] \in ServiceOp
  BY DEF ServiceOp
<1> QED
  BY <1>1

LEMMA NoConnectionType ==
  /\ NoConnection \in Connection
  /\ [NoConnection EXCEPT !.open = TRUE, !.peer = TRUE] \in Connection
<1>1. <<>> \in Seq(Reply)
  OBVIOUS
<1> QED
  BY <1>1 DEF NoConnection, Connection

LEMMA ServeType ==
  ASSUME NEW c \in Connection, NEW uid \in Nat, NEW kind \in SubKind
  PROVE  Serve(c, uid, kind) \in Connection
<1>1. [uid |-> uid, kind |-> kind] \in Request
  BY DEF Request
<1> QED
  BY <1>1 DEF Serve, Connection

LEMMA QueueType ==
  ASSUME NEW c \in Connection, NEW m \in Reply
  PROVE  /\ [c EXCEPT !.queue = Append(@, m)] \in Connection
         /\ c.queue # <<>> =>
              /\ [c EXCEPT !.queue = Tail(@)] \in Connection
              /\ Head(c.queue) \in Reply
<1>1. c.queue \in Seq(Reply)
  BY DEF Connection
<1>2. Append(c.queue, m) \in Seq(Reply)
  BY <1>1
<1>3. c.queue # <<>> => Tail(c.queue) \in Seq(Reply) /\ Head(c.queue) \in Reply
  BY <1>1
<1> QED
  BY <1>2, <1>3 DEF Connection
LEMMA ConstructedType == Constructed \in Object
  BY DEF Constructed, Object, Refs

LEMMA NewThreadType == CtThread_Construct \in ThreadObject({EventThread})
  BY DEF CtThread_Construct, ThreadObject, ThreadStatus

LEMMA InitTypes == Init => TypeOK
<1> SUFFICES ASSUME Init PROVE TypeOK
  OBVIOUS
<1>1. ev \in EventState
  BY AtType DEF Init, EventPC
<1>2. op \in [Ops -> ServiceOp]
  BY FreedType DEF Init
<1> QED
  BY <1>1, <1>2, ConstructedType, NewThreadType, NoConnectionType DEF Init, TypeOK, AppPC

-----------------------------------------------------------------------------
(* Who may be where, and which references are then not NULL.               *)

Running == ev.pc \notin {"none", "exited"}

Control ==
  /\ Running => /\ obj.started
                /\ thread.status = "Running" /\ thread.handler = EventThread
  /\ Running => ~freed /\ app \notin {"browse", "undo", "create", "delete"}
  /\ Running /\ app = "idle" => obj.shareRef # NoOp
  /\ freed => app = "idle"

References ==
  /\ app \in {"browse", "undo", "create", "more", "clear", "close", "free"} =>
       obj.shareRef \in Ops
  /\ ev.pc \in {"recv", "dispatch", "after"} \cup RequestPC => ev.ref \in Ops
  /\ ev.pc \in RequestPC => ev.call # "none"
  /\ ev.pc \in {"deliver", "answer", "deallocate"} => SubRef \in Ops

ControlInv == TypeOK /\ Control /\ References

(* What an event step leaves alone.                                        *)
EventFrame ==
  /\ Running
  /\ UNCHANGED <<appVars, up>>
  /\ obj'.shareRef = obj.shareRef /\ obj'.started = obj.started

LEMMA EventKeepsControl ==
  ASSUME Control, EventFrame PROVE Control'
  BY DEF Control, EventFrame, Running, appVars

(* event_loop and event_poll.                                              *)
LEMMA PollInductive ==
  ASSUME ControlInv,
         \/ LoopHead \/ LoadRef("poll", "sockfd") \/ SockFD
         \/ SelectReadable \/ SelectTimeout \/ LoadRef("load", "process")
  PROVE  ControlInv'
<1> USE DEF ControlInv
<1>1. /\ EventFrame
      /\ UNCHANGED <<obj, op, conn>>
      /\ undefined' \in BOOLEAN
  BY DEF LoopHead, LoadRef, SockFD, SelectReadable, SelectTimeout, EventFrame,
         Running, TypeOK
<1>2. /\ ev' \in EventState
      /\ ev'.pc \in LoopPC \cup {"exited", "process"}
  <2>1. CASE LoopHead
    BY <2>1, AtType DEF LoopHead, At, EventPC, LoopPC
  <2>2. ASSUME NEW from \in EventPC, NEW to \in {"sockfd", "process"}, LoadRef(from, to)
        PROVE  ev' \in EventState /\ ev'.pc = to
    BY <2>2 DEF LoadRef, TypeOK, EventState, Object, EventPC, LoopPC, ProcessPC
  <2>3. CASE SockFD
    BY <2>3, GotoType DEF SockFD, TypeOK, EventPC, LoopPC
  <2>4. CASE SelectReadable
    BY <2>4, GotoType DEF SelectReadable, TypeOK, EventPC, LoopPC
  <2>5. CASE SelectTimeout
    BY <2>5, AtType DEF SelectTimeout, At, EventPC, LoopPC
  <2> QED
    BY <2>1, <2>2, <2>3, <2>4, <2>5 DEF EventPC, LoopPC, ProcessPC
<1>3. Control'
  BY <1>1, EventKeepsControl
<1>4. TypeOK'
  BY <1>1, <1>2 DEF TypeOK, EventFrame, appVars
<1>5. References'
  BY <1>1, <1>2 DEF References, EventFrame, appVars, LoopPC, RequestPC
<1> QED
  BY <1>3, <1>4, <1>5
(* DNSServiceProcessResult, up to the call of a reply function and after.  *)
LEMMA ProcessInductive ==
  ASSUME ControlInv, ProcessResult \/ Recv \/ Dispatch \/ AfterCallback
  PROVE  ControlInv'
<1> USE DEF ControlInv
<1>1. EventFrame /\ UNCHANGED obj /\ undefined' \in BOOLEAN
  BY DEF ProcessResult, Recv, Dispatch, AfterCallback, EventFrame, Running, TypeOK
<1>2. Control'
  BY <1>1, EventKeepsControl
<1>3. CASE ProcessResult
  <2>1. /\ ev' \in EventState
        /\ ev'.pc \in {"head", "recv"}
        /\ ev'.pc = "recv" => ev'.ref \in Ops
    <3>1. PICK pc \in {"head", "recv"} : Goto(pc) /\ (pc = "recv" => ev.ref \in Ops)
      BY <1>3 DEF ProcessResult, Allocated
    <3> QED
      BY <3>1, GotoType DEF Goto, TypeOK, EventState, EventPC, LoopPC, ProcessPC
  <2>2. TypeOK'
    BY <1>1, <1>3, <2>1 DEF ProcessResult, TypeOK, EventFrame, appVars
  <2> QED
    BY <1>1, <1>2, <2>1, <2>2 DEF References, EventFrame, appVars, RequestPC
<1>4. CASE Recv
  <2>1. ev.ref \in Ops
    BY <1>4 DEF Recv, References
  <2>2. op' \in [Ops -> ServiceOp] /\ conn' \in Connection
    <3>1. CASE UNCHANGED <<op, conn>>
      BY <3>1 DEF TypeOK
    <3>2. CASE op' = [op EXCEPT ![ev.ref].reply = FALSE] /\ UNCHANGED conn
      BY <3>2, <2>1, SetFlagType DEF TypeOK
    <3>3. CASE /\ conn.queue # <<>>
               /\ conn' = [conn EXCEPT !.queue = Tail(@)]
               /\ \E more \in BOOLEAN : op' = [op EXCEPT ![ev.ref].more = more]
      <4>1. conn.queue \in Seq(Reply)
        BY DEF TypeOK, Connection
      <4>2. Head(conn.queue) \in Reply
        BY <3>3, <4>1
      <4>3. PICK more \in BOOLEAN : op' = [op EXCEPT ![ev.ref].more = more]
        BY <3>3
      <4>4. op' \in [Ops -> ServiceOp]
        BY <4>3, <2>1, SetFlagType DEF TypeOK
      <4>5. conn' \in Connection
        BY <3>3, <4>2, QueueType DEF TypeOK
      <4> QED
        BY <4>4, <4>5
    <3> QED
      BY <1>4, <3>1, <3>2, <3>3 DEF Recv
  <2>3. /\ ev' \in EventState
        /\ ev'.pc \in {"head", "dispatch"} /\ (ev'.pc = "dispatch" => ev'.ref \in Ops)
    <3>1. CASE Goto("head")
      BY <3>1, GotoType DEF TypeOK, EventPC, LoopPC
    <3>2. CASE ev' = At("head")
      BY <3>2, AtType DEF At, EventPC, LoopPC
    <3>3. CASE /\ conn.queue # <<>>
               /\ \E more \in BOOLEAN :
                    ev' = [ev EXCEPT !.pc = "dispatch", !.msg = Head(conn.queue), !.more = more]
      <4>1. conn.queue \in Seq(Reply)
        BY DEF TypeOK, Connection
      <4>2. Head(conn.queue) \in Reply
        BY <3>3, <4>1
      <4> QED
        BY <3>3, <4>2, <2>1 DEF TypeOK, EventState, EventPC, ProcessPC
    <3> QED
      BY <1>4, <3>1, <3>2, <3>3 DEF Recv
  <2>4. TypeOK'
    BY <1>1, <2>2, <2>3 DEF TypeOK, EventFrame, appVars
  <2> QED
    BY <1>1, <1>2, <2>3, <2>4 DEF References, EventFrame, appVars, RequestPC
<1>5. CASE Dispatch
  <2>1. ev.ref \in Ops /\ UNCHANGED <<op, conn>>
    BY <1>5 DEF Dispatch, References
  <2>2. /\ ev' \in EventState
        /\ ev'.pc \in {"dispatch", "after", "assign"} /\ ev'.ref \in Ops
        /\ ev'.pc = "assign" => ev'.call # "none"
    <3>1. CASE UNCHANGED ev
      BY <1>5, <2>1, <3>1 DEF Dispatch, TypeOK
    <3>2. CASE \E call \in {"none", "resolve", "addrinfo"} :
                 ev' = [ev EXCEPT !.pc = IF call = "none" THEN "after" ELSE "assign",
                                  !.call = call]
      BY <2>1, <3>2 DEF TypeOK, EventState, EventPC, ProcessPC, RequestPC
    <3> QED
      BY <1>5, <3>1, <3>2 DEF Dispatch, CallOf
  <2>3. TypeOK'
    BY <1>1, <2>1, <2>2 DEF TypeOK, EventFrame, appVars
  <2> QED
    BY <1>1, <1>2, <2>2, <2>3 DEF References, EventFrame, appVars, RequestPC
<1>6. CASE AfterCallback
  <2>1. ev.ref \in Ops /\ UNCHANGED conn
    BY <1>6 DEF AfterCallback, References
  <2>2. op' \in [Ops -> ServiceOp]
    <3>1. CASE UNCHANGED op
      BY <3>1 DEF TypeOK
    <3>2. CASE op' = [op EXCEPT ![ev.ref].more = FALSE]
      BY <3>2, <2>1, SetFlagType DEF TypeOK
    <3> QED
      BY <1>6, <3>1, <3>2 DEF AfterCallback
  <2>3. ev' \in EventState /\ ev'.pc \in {"head", "recv"} /\ (ev'.pc = "recv" => ev'.ref \in Ops)
    <3>1. CASE ev' = At("head")
      BY <3>1, AtType DEF At, EventPC, LoopPC
    <3>2. CASE ev' = [At("recv") EXCEPT !.ref = ev.ref]
      BY <3>2, <2>1 DEF At, EventState, EventPC, ProcessPC, Refs
    <3> QED
      BY <1>6, <3>1, <3>2 DEF AfterCallback
  <2>4. TypeOK'
    BY <1>1, <2>1, <2>2, <2>3 DEF TypeOK, EventFrame, appVars
  <2> QED
    BY <1>1, <1>2, <2>3, <2>4 DEF References, EventFrame, appVars, RequestPC
<1> QED
  BY <1>3, <1>4, <1>5, <1>6
(* A request made from a reply function.                                   *)
LEMMA RequestInductive ==
  ASSUME ControlInv, SubordinateRequest
  PROVE  ControlInv'
<1> USE DEF ControlInv
<1>1. ev.ref \in Ops /\ ev.call \in SubKind /\ ev.pc \in RequestPC
  BY DEF References, SubordinateRequest, AssignRef, ConnectRef, Deliver, Answer,
         DeallocateRef, RequestPC, TypeOK, EventState, SubKind
<1>2. SubRef \in Refs
  BY SubRefType DEF TypeOK
<1>3. undefined' \in BOOLEAN /\ UNCHANGED <<appVars, up>>
  BY DEF SubordinateRequest, AssignRef, ConnectRef, Deliver, Answer, DeallocateRef, TypeOK
<1>4. PICK pc \in {"connect", "deliver", "answer", "deallocate", "after"} : Goto(pc)
  BY DEF SubordinateRequest, AssignRef, ConnectRef, Deliver, Answer, DeallocateRef
<1>5. /\ ev' \in EventState
      /\ ev'.pc = pc /\ ev'.ref = ev.ref /\ ev'.call = ev.call
      /\ Field' = Field
  <2>1. ev' \in EventState /\ ev'.pc = pc
    BY <1>4, GotoType DEF TypeOK, EventPC, RequestPC, ProcessPC
  <2>2. ev'.ref = ev.ref /\ ev'.call = ev.call
    BY <1>4 DEF Goto, TypeOK, EventState
  <2> QED
    BY <2>1, <2>2 DEF Field
<1> DEFINE Pending == ev'.pc \in {"deliver", "answer", "deallocate"}
           Good == /\ obj' \in Object
                   /\ obj'.shareRef = obj.shareRef /\ obj'.started = obj.started
                   /\ Pending => SubRef' \in Ops
<1>a. ASSUME UNCHANGED obj, Pending => SubRef \in Ops PROVE Good
  BY <1>a, <1>5 DEF TypeOK, SubRef
<1>b. ASSUME NEW o \in Refs, SetField(o), Pending => o \in Ops PROVE Good
  <2>1. obj'[Field] = o
    BY <1>b, SetFieldType DEF TypeOK
  <2> QED
    BY <1>b, <2>1, <1>5, SetFieldType DEF TypeOK, SubRef
<1>6. Good
  <2>1. ASSUME NEW there, Goto(there) PROVE ev'.pc = there
    BY <2>1 DEF Goto, TypeOK, EventState
  <2>2. NoOp \in Refs /\ Ops \subseteq Refs
    BY DEF Refs
  <2> HIDE DEF Good
  <2>3. CASE AssignRef
    <3>1. obj.shareRef \in Refs /\ SetField(obj.shareRef) /\ ~Pending
      BY <2>1, <2>3 DEF AssignRef, TypeOK, Object
    <3> QED
      BY <3>1, <1>b
  <2>4. CASE ConnectRef
    <3>1. CASE Goto("after") /\ (UNCHANGED obj \/ SetField(NoOp))
      BY <3>1, <2>1, <2>2, <1>a, <1>b
    <3>2. CASE \E o \in Ops : SetField(o)
      BY <3>2, <2>2, <1>b
    <3> QED
      BY <2>4, <3>1, <3>2 DEF ConnectRef, Free
  <2>5. CASE Deliver
    BY <1>a, <2>5 DEF Deliver, References
  <2>6. CASE Answer
    BY <1>a, <2>6 DEF Answer, References
  <2>7. CASE DeallocateRef
    BY <2>1, <2>2, <2>7, <1>b DEF DeallocateRef
  <2> QED
    BY <2>3, <2>4, <2>5, <2>6, <2>7 DEF SubordinateRequest
<1>7. op' \in [Ops -> ServiceOp]
  <2>1. CASE UNCHANGED op
    BY <2>1 DEF TypeOK
  <2>2. CASE ConnectRef /\ op' # op
    <3>1. PICK o \in Ops : op' = ConnectShared(op, SubRef, o, ev.call) /\ SubRef \in Ops
      BY <2>2 DEF ConnectRef, Free, Allocated
    <3> QED
      BY <3>1, <1>1, ConnectSharedType DEF TypeOK
  <2>3. CASE DeallocateRef /\ op' # op
    <3>1. SubRef \in Ops /\ op' = DeallocateSubordinate(op, SubRef)
      BY <2>3 DEF DeallocateRef, References
    <3> QED
      BY <3>1, DeallocateSubordinateType DEF TypeOK
  <2> QED
    BY <2>1, <2>2, <2>3 DEF SubordinateRequest, AssignRef, Deliver, Answer
<1>8. conn' \in Connection
  <2>1. CASE UNCHANGED conn
    BY <2>1 DEF TypeOK
  <2>2. CASE Answer /\ conn' # conn
    <3>1. SubRef \in Ops /\ conn' = Serve(conn, op[SubRef].uid, ev.call)
      BY <2>2 DEF Answer, References
    <3>2. op[SubRef].uid \in Nat
      BY <3>1 DEF TypeOK, ServiceOp
    <3> QED
      BY <3>1, <3>2, <1>1, ServeType DEF TypeOK
  <2> QED
    BY <2>1, <2>2 DEF SubordinateRequest, AssignRef, ConnectRef, Deliver, DeallocateRef
<1>9. TypeOK'
  BY <1>3, <1>5, <1>6, <1>7, <1>8 DEF TypeOK, appVars
<1>10. EventFrame
  BY <1>1, <1>3, <1>6 DEF EventFrame, Running, RequestPC
<1>11. Control'
  BY <1>10, EventKeepsControl
<1>12. References'
  <2>1. UNCHANGED app
    BY <1>3 DEF appVars
  <2>2. ev'.call # "none" /\ ev'.ref \in Ops
    BY <1>1, <1>5 DEF SubKind
  <2> QED
    BY <2>1, <2>2, <1>6 DEF References
<1> QED
  BY <1>9, <1>11, <1>12
LEMMA EventInductive == ControlInv /\ Event => ControlInv'
  BY PollInductive, ProcessInductive, RequestInductive DEF Event

(* The daemon writes to the socket only.                                   *)
LEMMA DaemonInductive ==
  ASSUME ControlInv, Daemon
  PROVE  ControlInv'
<1> USE DEF ControlInv
<1>1. UNCHANGED <<appVars, obj, op, ev, undefined>> /\ up' \in BOOLEAN
  BY DEF Daemon, DaemonReply, DaemonDies, DaemonRestarts, TypeOK
<1>2. conn' \in Connection
  <2>1. CASE DaemonReply
    <3>1. PICK r \in conn.served : \E type \in ReplyTypes(r.kind) :
            conn' = [conn EXCEPT !.queue = Append(@, [uid |-> r.uid, type |-> type])]
      BY <2>1 DEF DaemonReply
    <3>2. PICK type \in ReplyTypes(r.kind) :
            conn' = [conn EXCEPT !.queue = Append(@, [uid |-> r.uid, type |-> type])]
      BY <3>1
    <3>3. r \in Request
      BY DEF TypeOK, Connection
    <3>4. [uid |-> r.uid, type |-> type] \in Reply
      BY <3>3 DEF Request, Reply, ReplyType
    <3> QED
      BY <3>2, <3>4, QueueType DEF TypeOK
  <2>2. CASE DaemonDies \/ DaemonRestarts
    BY <2>2 DEF DaemonDies, DaemonRestarts, TypeOK, Connection
  <2> QED
    BY <2>1, <2>2 DEF Daemon
<1>3. TypeOK'
  BY <1>1, <1>2 DEF TypeOK, appVars
<1>4. Control'
  BY <1>1 DEF Control, Running, appVars
<1>5. References'
  BY <1>1 DEF References, SubRef, Field, appVars
<1> QED
  BY <1>3, <1>4, <1>5

(* While no event thread runs, nothing is required of its references.      *)
LEMMA QuietReferences ==
  ASSUME ~Running', TypeOK',
         app' \in {"browse", "undo", "create", "more", "clear", "close", "free"} =>
           obj'.shareRef \in Ops
  PROVE  References'
  BY DEF References, Running, RequestPC

(* DiscoverService: no event thread runs before it returns.                *)
LEMMA DiscoverInductive ==
  ASSUME ControlInv,
         \/ CtBonjour_DiscoverService \/ CtBonjour_Browse
         \/ CtBonjour_Undo \/ CtBonjour_CreateThread
  PROVE  ControlInv'
<1> USE DEF ControlInv
<1>1. CASE CtBonjour_DiscoverService
  <2>1. ~Running /\ UNCHANGED <<ev, freed, thread, deleting, up, undefined>>
    BY <1>1 DEF CtBonjour_DiscoverService, Control
  <2>2. /\ obj' \in Object /\ obj'.started = obj.started
        /\ app' \in {"idle", "browse"} /\ (app' = "browse" => obj'.shareRef \in Ops)
    BY <1>1 DEF CtBonjour_DiscoverService, TypeOK, Object, Refs, Free
  <2>3. op' \in [Ops -> ServiceOp]
    BY <1>1, ConnectPrimaryType DEF CtBonjour_DiscoverService, TypeOK, Free
  <2>4. conn' \in Connection
    BY <1>1, NoConnectionType DEF CtBonjour_DiscoverService, TypeOK
  <2>5. TypeOK'
    BY <2>1, <2>2, <2>3, <2>4 DEF TypeOK, AppPC
  <2>6. Control'
    BY <1>1, <2>1, <2>2 DEF Control, Running, CtBonjour_DiscoverService
  <2> QED
    BY <2>1, <2>2, <2>5, <2>6, QuietReferences DEF Running
<1>2. CASE CtBonjour_Browse
  <2>1. ~Running /\ obj.shareRef \in Ops /\ UNCHANGED <<ev, freed, thread, deleting, up, undefined>>
    BY <1>2 DEF CtBonjour_Browse, Control, References
  <2>2. /\ obj' \in Object /\ obj'.started = obj.started
        /\ obj'.shareRef = obj.shareRef
        /\ app' \in {"undo", "create"}
    BY <1>2 DEF CtBonjour_Browse, TypeOK, Object, Refs, Free
  <2>3. \A o \in Free : ConnectShared(op, obj.shareRef, o, "browse") \in [Ops -> ServiceOp]
    BY <2>1, ConnectSharedType DEF TypeOK, Free, SubKind
  <2>4. op' \in [Ops -> ServiceOp]
    BY <1>2, <2>3, DeallocateSubordinateType DEF CtBonjour_Browse, TypeOK, Free
  <2>5. conn' \in Connection
    <3>1. CASE UNCHANGED conn
      BY <3>1 DEF TypeOK
    <3>2. CASE \E o \in Ops : conn' = Serve(conn, op'[o].uid, "browse")
      <4>1. PICK o \in Ops : conn' = Serve(conn, op'[o].uid, "browse")
        BY <3>2
      <4>2. op'[o].uid \in Nat
        BY <2>4 DEF ServiceOp
      <4> QED
        BY <4>1, <4>2, ServeType DEF TypeOK, SubKind
    <3> QED
      BY <1>2, <3>1, <3>2 DEF CtBonjour_Browse, Free
  <2>6. TypeOK'
    BY <2>1, <2>2, <2>4, <2>5 DEF TypeOK, AppPC
  <2>7. Control'
    BY <1>2, <2>1, <2>2 DEF Control, Running, CtBonjour_Browse
  <2> QED
    BY <2>1, <2>2, <2>6, <2>7, QuietReferences DEF Running
<1>3. CASE CtBonjour_Undo
  <2>1. ~Running /\ obj.shareRef \in Ops
    BY <1>3 DEF CtBonjour_Undo, Control, References
  <2>2. TypeOK'
    BY <1>3, <2>1, DeallocatePrimaryType, NoConnectionType
    DEF CtBonjour_Undo, TypeOK, AppPC, Object, Refs
  <2>3. Control'
    BY <1>3, <2>1 DEF CtBonjour_Undo, Control, Running
  <2> QED
    BY <1>3, <2>1, <2>2, <2>3, QuietReferences DEF CtBonjour_Undo, Running
<1>4. CASE CtBonjour_CreateThread
  <2>1. ~Running /\ obj.shareRef \in Ops /\ ~freed
    BY <1>4 DEF CtBonjour_CreateThread, Control, References
  <2>2. PICK t \in {EventThread, NoThread} :
          /\ thread' = CtThread_Start(CtThread_Initialize(thread), t)
          /\ \/ t = EventThread /\ ev' = At("head")
             \/ t = NoThread /\ ev' = ev
    BY <1>4 DEF CtBonjour_CreateThread
  <2>3. /\ thread' \in ThreadObject({EventThread})
        /\ thread'.status = "Running" /\ thread'.handler = t
    BY <2>2, ThreadTypes
    DEF TypeOK, CtThread_Start, CtThread_Initialize, ThreadObject
  <2>4. ev' \in EventState /\ (Running' => t = EventThread /\ ev'.pc = "head")
    BY <2>1, <2>2, AtType DEF TypeOK, EventPC, LoopPC, At, Running
  <2>5. obj' \in Object /\ obj'.started /\ obj'.shareRef = obj.shareRef /\ app' = "idle"
    BY <1>4 DEF CtBonjour_CreateThread, TypeOK, Object
  <2>6. TypeOK'
    BY <1>4, <2>3, <2>4, <2>5 DEF CtBonjour_CreateThread, TypeOK, AppPC
  <2>7. Control'
    BY <1>4, <2>1, <2>3, <2>4, <2>5, OpsAssumption DEF CtBonjour_CreateThread, Control
  <2>8. References'
    BY <2>4, <2>5 DEF References, Running, RequestPC
  <2> QED
    BY <2>6, <2>7, <2>8
<1> QED
  BY <1>1, <1>2, <1>3, <1>4
(* StopServiceDiscovery, Delete and New.                                   *)
LEMMA StopInductive ==
  ASSUME ControlInv, CtBonjour_StopServiceDiscovery \/ Stop
  PROVE  ControlInv'
<1> USE DEF ControlInv
<1>1. CASE CtBonjour_StopServiceDiscovery
  <2>1. app' = "test" /\ UNCHANGED <<obj, ev, freed, thread, op, conn, deleting, up, undefined>>
    BY <1>1 DEF CtBonjour_StopServiceDiscovery
  <2> QED
    BY <1>1, <2>1
    DEF CtBonjour_StopServiceDiscovery, TypeOK, AppPC, StopPC, Control, References, Running,
        SubRef, Field
<1>2. CASE StopTest
  <2>1. /\ app' \in {"more", "flag"} /\ (app' = "more" => obj.shareRef \in Ops)
        /\ UNCHANGED <<obj, ev, freed, thread, op, conn, deleting, up, undefined>>
    BY <1>2 DEF StopTest, AppGoto, TypeOK, Object, Refs
  <2> QED
    BY <1>2, <2>1
    DEF StopTest, TypeOK, AppPC, StopPC, Control, References, Running, SubRef, Field
<1>3. CASE StopMore
  <2>1. /\ app' \in {"clear", "close"}
        /\ UNCHANGED <<obj, ev, freed, thread, op, conn, deleting, up, undefined>>
    BY <1>3 DEF StopMore, AppGoto
  <2> QED
    BY <1>3, <2>1
    DEF StopMore, TypeOK, AppPC, StopPC, Control, References, Running, SubRef, Field
<1>4. CASE StopClear
  <2>1. /\ app' = "close" /\ undefined' \in BOOLEAN
        /\ UNCHANGED <<obj, freed, thread, op, conn, deleting, up>>
    BY <1>4 DEF StopClear, AppGoto, TypeOK
  <2>2. /\ ev' \in EventState /\ ev'.pc = ev.pc /\ ev'.ref = ev.ref /\ ev'.call = ev.call
    BY <1>4 DEF StopClear, TypeOK, EventState
  <2> QED
    BY <1>4, <2>1, <2>2
    DEF StopClear, TypeOK, AppPC, StopPC, Control, References, Running, SubRef, Field
<1>5. CASE StopClose
  <2>1. /\ app' = "free" /\ conn' \in Connection
        /\ UNCHANGED <<obj, ev, freed, thread, op, deleting, up, undefined>>
    BY <1>5, NoConnectionType DEF StopClose, AppGoto
  <2> QED
    BY <1>5, <2>1
    DEF StopClose, TypeOK, AppPC, StopPC, Control, References, Running, SubRef, Field
<1>6. CASE StopFree
  <2>1. obj.shareRef \in Ops
    BY <1>6 DEF StopFree, References
  <2>2. /\ app' = "null" /\ op' \in [Ops -> ServiceOp]
        /\ UNCHANGED <<obj, ev, freed, thread, conn, deleting, up, undefined>>
    BY <1>6, <2>1, DeallocatePrimaryType DEF StopFree, AppGoto, TypeOK
  <2> QED
    BY <1>6, <2>2
    DEF StopFree, TypeOK, AppPC, StopPC, Control, References, Running, SubRef, Field
<1>7. CASE StopNull \/ StopFlag
  <2>1. /\ app' \in {"flag", "join"} /\ obj' \in Object /\ obj'.started = obj.started
        /\ obj'.resolveRef = obj.resolveRef /\ obj'.resolveAddrRef = obj.resolveAddrRef
        /\ UNCHANGED <<ev, freed, thread, op, conn, deleting, up, undefined>>
    BY <1>7 DEF StopNull, StopFlag, AppGoto, TypeOK, Object, Refs
  <2>2. SubRef' = SubRef
    <3>1. CASE Field = "resolveRef"
      BY <3>1, <2>1 DEF SubRef, Field
    <3>2. CASE Field = "resolveAddrRef"
      BY <3>2, <2>1 DEF SubRef, Field
    <3> QED
      BY <3>1, <3>2, FieldType
  <2>3. TypeOK'
    BY <2>1 DEF TypeOK, AppPC, StopPC
  <2>4. Control'
    BY <1>7, <2>1 DEF StopNull, StopFlag, Control, Running
  <2> QED
    BY <2>1, <2>2, <2>3, <2>4 DEF References
<1>8. CASE StopJoin
  <2>1. /\ app' \in {"wait", "idle", "delete"}
        /\ app' # "wait" => ~Running
        /\ UNCHANGED <<obj, ev, freed, thread, op, conn, deleting, up, undefined>>
    BY <1>8 DEF StopJoin, AppGoto, Return, MustJoin, Control
  <2>2. TypeOK'
    BY <2>1 DEF TypeOK, AppPC, StopPC
  <2>3. Control'
    BY <1>8, <2>1 DEF StopJoin, Control, Running
  <2> QED
    BY <2>1, <2>2, <2>3 DEF References, SubRef, Field
<1>9. CASE StopWait
  <2>1. /\ app' \in {"idle", "delete"} /\ ev' = At("none") /\ ~Running'
        /\ UNCHANGED <<obj, freed, op, conn, deleting, up, undefined>>
    BY <1>9 DEF StopWait, AppGoto, Return, At, Running
  <2>2. thread' \in ThreadObject({EventThread})
    BY <1>9, ThreadTypes DEF StopWait, TypeOK
  <2>3. TypeOK'
    BY <2>1, <2>2, AtType DEF TypeOK, AppPC, EventPC
  <2>4. Control'
    BY <1>9, <2>1 DEF StopWait, Control
  <2> QED
    BY <2>1, <2>3, <2>4, QuietReferences
<1> QED
  BY <1>1, <1>2, <1>3, <1>4, <1>5, <1>6, <1>7, <1>8, <1>9 DEF Stop

LEMMA DeleteInductive ==
  ASSUME ControlInv, CtBonjour_Delete \/ DeleteObject \/ CtBonjour_New
  PROVE  ControlInv'
<1> USE DEF ControlInv
<1>1. CASE CtBonjour_Delete
  <2>1. /\ app' \in {"test", "delete"} /\ deleting' \in BOOLEAN /\ (app' = "delete" => ~Running)
        /\ UNCHANGED <<obj, ev, freed, thread, op, conn, up, undefined>>
    BY <1>1 DEF CtBonjour_Delete, AppGoto, Control
  <2>2. TypeOK'
    BY <2>1 DEF TypeOK, AppPC, StopPC
  <2>3. Control'
    BY <1>1, <2>1 DEF CtBonjour_Delete, Control, Running
  <2> QED
    BY <2>1, <2>2, <2>3 DEF References, SubRef, Field
<1>2. CASE DeleteObject
  <2>1. /\ app' = "idle" /\ freed' /\ deleting' \in BOOLEAN /\ freed' \in BOOLEAN /\ ~Running
        /\ UNCHANGED <<obj, ev, thread, op, conn, up, undefined>>
    BY <1>2 DEF DeleteObject, AppGoto, Control
  <2>2. TypeOK'
    BY <2>1 DEF TypeOK, AppPC
  <2>3. Control'
    BY <2>1 DEF Control, Running
  <2> QED
    BY <2>1, <2>2, <2>3 DEF References, SubRef, Field
<1>3. CASE CtBonjour_New
  <2>1. /\ ~Running /\ app = "idle" /\ freed' \in BOOLEAN /\ ~freed'
        /\ UNCHANGED <<app, ev, deleting, op, conn, up, undefined>>
    BY <1>3 DEF CtBonjour_New, Control
  <2>2. TypeOK'
    BY <1>3, <2>1, ConstructedType, NewThreadType DEF CtBonjour_New, TypeOK
  <2>3. Control'
    BY <2>1 DEF Control, Running
  <2> QED
    BY <2>1, <2>2, <2>3, QuietReferences DEF Running
<1> QED
  BY <1>1, <1>2, <1>3

LEMMA ControlInductive == ControlInv /\ [Next]_vars => ControlInv'
<1> SUFFICES ASSUME ControlInv, [Next]_vars PROVE ControlInv'
  OBVIOUS
<1>1. CASE App
  BY <1>1, DiscoverInductive, StopInductive, DeleteInductive DEF App
<1>2. CASE Event
  BY <1>2, EventInductive
<1>3. CASE Daemon
  BY <1>3, DaemonInductive
<1>4. CASE UNCHANGED vars
  BY <1>4 DEF vars, ControlInv, TypeOK, Control, References, Running, SubRef, Field
<1> QED
  BY <1>1, <1>2, <1>3, <1>4 DEF Next, AnythingGoes

LEMMA InitControl == Init => ControlInv
<1> SUFFICES ASSUME Init PROVE ControlInv
  OBVIOUS
<1>1. ev.pc = "none"
  BY DEF Init, At
<1> QED
  BY <1>1, InitTypes DEF Init, ControlInv, Control, References, Running, RequestPC

LEMMA ControlHolds == Spec => []ControlInv
  BY InitControl, ControlInductive, PTL DEF Spec

(* Every variable keeps its type, whatever the bounds and the number of    *)
(* addresses.                                                              *)
THEOREM TypeCorrect == Spec => []TypeOK
<1>1. ControlInv => TypeOK
  BY DEF ControlInv
<1> QED
  BY <1>1, ControlHolds, PTL

(* Once Stop or Delete has returned, the event thread has ended.           *)
THEOREM QuiescenceHolds == Spec => []QuiescentAfterStop
<1>1. ControlInv => QuiescentAfterStop
  BY DEF ControlInv, Control, Running, QuiescentAfterStop
<1> QED
  BY <1>1, ControlHolds, PTL

-----------------------------------------------------------------------------
(* What the routines of the library do to the heap.                         *)

LEMMA ConnectPrimaryHeap ==
  ASSUME NEW h \in [Ops -> ServiceOp], NEW o \in Ops
  PROVE  /\ Allocated(ConnectPrimary(h, o)) = Allocated(h) \cup {o}
         /\ ConnectPrimary(h, o)[o] = NewOp("connection", 0, NoOp)
<1>1. NewOp("connection", 0, NoOp).kind = "connection"
  BY DEF NewOp
<1> QED
  BY <1>1 DEF ConnectPrimary, Allocated

LEMMA ConnectSharedHeap ==
  ASSUME NEW h \in [Ops -> ServiceOp], NEW p \in Allocated(h), NEW o \in Ops \ Allocated(h),
         NEW kind \in SubKind
  PROVE  LET new == ConnectShared(h, p, o, kind) IN
         /\ Allocated(new) = Allocated(h) \cup {o}
         /\ new[p].kind = h[p].kind /\ new[p].uid = h[p].uid + 1
         /\ new[p].subs = h[p].subs \cup {o}
         /\ new[o].kind = kind /\ new[o].uid = h[p].uid + 1 /\ new[o].primary = p
         /\ \A q \in Ops \ {p, o} : new[q] = h[q]
<1> DEFINE new == ConnectShared(h, p, o, kind)
<1>1. p \in Ops /\ p # o
  BY DEF Allocated
<1>2. h[p] \in ServiceOp
  BY <1>1
<1>3. new[p] = WithSubordinate(h[p], o) /\ new[o] = NewOp(kind, h[p].uid + 1, p)
  BY <1>1 DEF ConnectShared
<1>4. \A q \in Ops \ {p, o} : new[q] = h[q]
  BY DEF ConnectShared
<1>5. new[p].kind = h[p].kind /\ new[p].uid = h[p].uid + 1 /\ new[p].subs = h[p].subs \cup {o}
  BY <1>2, <1>3 DEF WithSubordinate, ServiceOp
<1>6. new[o].kind = kind /\ new[o].uid = h[p].uid + 1 /\ new[o].primary = p
  BY <1>3 DEF NewOp
<1>7. kind # "free"
  BY DEF SubKind
<1>8. Allocated(new) = Allocated(h) \cup {o}
  BY <1>1, <1>4, <1>5, <1>6, <1>7 DEF Allocated
<1> QED
  BY <1>4, <1>5, <1>6, <1>8

LEMMA DeallocateSubordinateHeap ==
  ASSUME NEW h \in [Ops -> ServiceOp], NEW o \in Ops, NEW p \in Ops \ {o}, h[o].primary = p
  PROVE  LET new == DeallocateSubordinate(h, o) IN
         /\ Allocated(new) = Allocated(h) \ {o}
         /\ new[p].kind = h[p].kind /\ new[p].uid = h[p].uid
         /\ new[p].subs = h[p].subs \ {o}
         /\ \A q \in Ops \ {p, o} : new[q] = h[q]
<1> DEFINE new == DeallocateSubordinate(h, o)
<1>1. new[o] = Freed /\ new[p] = [h[p] EXCEPT !.subs = @ \ {o}]
  BY DEF DeallocateSubordinate
<1>2. \A q \in Ops \ {p, o} : new[q] = h[q]
  BY DEF DeallocateSubordinate
<1>3. new[o].kind = "free"
  BY <1>1 DEF Freed
<1>4. new[p].kind = h[p].kind /\ new[p].uid = h[p].uid /\ new[p].subs = h[p].subs \ {o}
  BY <1>1 DEF ServiceOp
<1>5. Allocated(new) = Allocated(h) \ {o}
  BY <1>2, <1>3, <1>4 DEF Allocated
<1> QED
  BY <1>2, <1>4, <1>5

LEMMA DeallocatePrimaryHeap ==
  ASSUME NEW h \in [Ops -> ServiceOp], NEW p \in Ops
  PROVE  Allocated(DeallocatePrimary(h, p)) = Allocated(h) \ ({p} \cup h[p].subs)
<1>1. Freed.kind = "free"
  BY DEF Freed
<1> QED
  BY <1>1 DEF DeallocatePrimary, Allocated

-----------------------------------------------------------------------------
(* The heap.  While the connection is live, what is allocated is its        *)
(* operation and those in its list, and nothing is when it is not.          *)
Live == obj.shareRef \in Allocated(op)
Listed == op[obj.shareRef].subs

Heap ==
  /\ Live => /\ op[obj.shareRef].kind = "connection"
             /\ Allocated(op) = {obj.shareRef} \cup Listed
             /\ \A o \in Listed : op[o].kind \in SubKind /\ op[o].primary = obj.shareRef
  /\ ~Live => Allocated(op) = {}

(* Between which of its steps the application thread has a connection.      *)
Handle ==
  /\ obj.shareRef # NoOp /\ app # "null" => Live
  /\ app = "null" => ~Live
  /\ app \in {"flag", "join", "wait", "delete"} => obj.shareRef = NoOp
  /\ freed \/ (app = "idle" /\ ~obj.started) => obj.shareRef = NoOp
  /\ conn.open => Live /\ app # "free"
  /\ conn.peer => conn.open
  /\ undefined => app \in StopPC

(* What the event thread holds is the live connection, and a request on it. *)
Held ==
  /\ Live /\ ev.pc \in {"sockfd", "process", "recv", "dispatch", "after"} \cup RequestPC =>
       ev.ref = obj.shareRef
  /\ Live /\ ev.pc = "connect" => SubRef = obj.shareRef
  /\ Live /\ ev.pc \in {"deliver", "answer", "deallocate"} =>
       SubRef \in Listed /\ op[SubRef].kind = ev.call

(* The operations of the list that the daemon may know: all but the one     *)
(* whose request it has not answered.                                       *)
Known == IF ev.pc \in {"deliver", "answer", "deallocate"} THEN Listed \ {SubRef} ELSE Listed

(* Uids are not shared, and what the daemon serves and has sent is for one  *)
(* of the operations it may know.                                           *)
Routes ==
  /\ Live => \A o \in Listed : op[o].uid <= op[obj.shareRef].uid
  /\ Live => \A o, q \in Listed : op[o].uid = op[q].uid => o = q
  /\ \A r \in conn.served :
       conn.open /\ \E o \in Known : op[o].uid = r.uid /\ op[o].kind = r.kind
  /\ \A i \in DOMAIN conn.queue :
       conn.open /\ \E o \in Known : /\ op[o].uid = conn.queue[i].uid
                                    /\ conn.queue[i].type \in ReplyTypes(op[o].kind)
  /\ Live /\ ev.pc = "dispatch" =>
       \E o \in Listed : op[o].uid = ev.msg.uid /\ ev.msg.type \in ReplyTypes(op[o].kind)

HeapInv == ControlInv /\ Heap /\ Handle /\ Held /\ Routes

(* Steps that change neither who is allocated nor who is listed.            *)
SameShape ==
  /\ obj'.shareRef = obj.shareRef
  /\ \A o \in Ops : /\ op'[o].kind = op[o].kind /\ op'[o].uid = op[o].uid
                    /\ op'[o].primary = op[o].primary /\ op'[o].subs = op[o].subs

LEMMA ShapeKept ==
  ASSUME HeapInv, SameShape
  PROVE  /\ Allocated(op') = Allocated(op) /\ Live' = Live /\ (Live => Listed' = Listed)
         /\ Heap'
<1>1. Allocated(op') = Allocated(op)
  BY DEF Allocated, SameShape
<1>2. Live => obj.shareRef \in Ops /\ Listed \subseteq Ops
  BY DEF Live, Allocated, Listed, HeapInv, ControlInv, TypeOK, ServiceOp
<1>3. Live' <=> Live
  BY <1>1 DEF Live, SameShape
<1>4. Live => Listed' = Listed
  BY <1>2 DEF Listed, SameShape
<1>5. Heap'
  BY <1>1, <1>2, <1>3, <1>4 DEF Heap, HeapInv, SameShape
<1> QED
  BY <1>1, <1>3, <1>4, <1>5

(* A flag of an operation is not its shape.                                 *)
LEMMA FlagKeepsShape ==
  ASSUME op \in [Ops -> ServiceOp], NEW p \in Ops, NEW b, obj'.shareRef = obj.shareRef,
         op' = [op EXCEPT ![p].reply = b] \/ op' = [op EXCEPT ![p].more = b]
  PROVE  SameShape
<1>1. op[p] \in ServiceOp
  OBVIOUS
<1>2. op'[p] = [op[p] EXCEPT !.reply = b] \/ op'[p] = [op[p] EXCEPT !.more = b]
  OBVIOUS
<1>3. \A o \in Ops \ {p} : op'[o] = op[o]
  OBVIOUS
<1>4. /\ op'[p].kind = op[p].kind /\ op'[p].uid = op[p].uid
      /\ op'[p].primary = op[p].primary /\ op'[p].subs = op[p].subs
  BY <1>1, <1>2 DEF ServiceOp
<1> QED
  BY <1>3, <1>4 DEF SameShape

(* The event thread runs on a live connection, unless a Stop is under way.  *)
LEMMA EventLive ==
  ASSUME HeapInv, Running, app \notin StopPC
  PROVE  app = "idle" /\ Live
  BY DEF HeapInv, ControlInv, TypeOK, AppPC, Control, Handle

LEMMA GotoFields ==
  ASSUME ev \in EventState, NEW pc, Goto(pc)
  PROVE  ev'.pc = pc /\ ev'.ref = ev.ref /\ ev'.call = ev.call /\ ev'.msg = ev.msg
  BY DEF Goto, EventState

LEMMA AtFields == ASSUME NEW pc PROVE At(pc).pc = pc /\ At(pc).ref = NoOp
  BY DEF At

(* What follows from an unchanged shape, when the event thread has not      *)
(* taken a reply and is not making a request.                               *)
Pending == {"connect", "deliver", "answer", "deallocate"}

LEMMA QuietKeepsHeap ==
  ASSUME HeapInv, ControlInv', SameShape, UNCHANGED <<appVars, obj, conn>>,
         ev.pc \notin Pending, ev'.pc \notin Pending, ev'.pc = "dispatch" => UNCHANGED ev,
         undefined' => undefined \/ app \in StopPC,
         Live /\ ev'.pc \in {"sockfd", "process", "recv", "after", "assign"} => ev'.ref = obj.shareRef
  PROVE  HeapInv'
<1>1. Allocated(op') = Allocated(op) /\ Live' = Live /\ (Live => Listed' = Listed) /\ Heap'
  BY ShapeKept
<1>2. Handle'
  BY <1>1 DEF HeapInv, Handle, appVars
<1>3. Held'
  BY <1>1 DEF HeapInv, Held, Pending, RequestPC
<1>4. Live => Known = Listed /\ Known' = Listed
  BY <1>1 DEF Known, Pending
<1>5. Live => Listed \subseteq Ops /\ obj.shareRef \in Ops
  BY DEF Live, Allocated, Listed, HeapInv, ControlInv, TypeOK, ServiceOp
<1>6. conn.open => Live
  BY DEF HeapInv, Handle
<1>7. Routes'
  BY <1>1, <1>4, <1>5, <1>6 DEF HeapInv, Routes, SameShape
<1> QED
  BY <1>1, <1>2, <1>3, <1>7 DEF HeapInv

LEMMA PollHeap ==
  ASSUME HeapInv, ControlInv',
         \/ LoopHead \/ LoadRef("poll", "sockfd") \/ SockFD
         \/ SelectReadable \/ SelectTimeout \/ LoadRef("load", "process")
  PROVE  HeapInv'
<1>1. UNCHANGED <<appVars, obj, op, conn>>
  BY DEF LoopHead, LoadRef, SockFD, SelectReadable, SelectTimeout
<1>2. SameShape
  BY <1>1 DEF SameShape
<1>3. ev \in EventState /\ ev.pc \in LoopPC
  BY DEF HeapInv, ControlInv, TypeOK, LoopPC, LoopHead, LoadRef, SockFD, SelectReadable, SelectTimeout
<1>4. /\ ev'.pc \in {"exited", "head", "poll", "sockfd", "select", "load", "process"}
      /\ ev'.pc \in {"sockfd", "process"} => ev'.ref = obj.shareRef
  <2>1. CASE LoopHead \/ SelectTimeout
    BY <2>1, AtFields DEF LoopHead, SelectTimeout
  <2>2. CASE LoadRef("poll", "sockfd") \/ LoadRef("load", "process")
    BY <1>3, <2>2 DEF LoadRef, EventState
  <2>3. CASE SockFD \/ SelectReadable
    BY <1>3, <2>3, GotoFields DEF SockFD, SelectReadable
  <2> QED
    BY <2>1, <2>2, <2>3
<1>5. undefined' => undefined \/ app \in StopPC
  <2>1. CASE SockFD
    <3>1. Live => ev.ref \in Allocated(op)
      BY <2>1 DEF HeapInv, Held, SockFD, Live
    <3>2. Running
      BY <1>3 DEF Running, LoopPC
    <3> QED
      BY <2>1, <3>1, <3>2, EventLive DEF SockFD
  <2> QED
    BY <2>1 DEF LoopHead, LoadRef, SelectReadable, SelectTimeout
<1> QED
  BY <1>1, <1>2, <1>3, <1>4, <1>5, QuietKeepsHeap DEF Pending, LoopPC

LEMMA ProcessHeap ==
  ASSUME HeapInv, ControlInv', ProcessResult \/ Dispatch \/ AfterCallback
  PROVE  HeapInv'
<1>1. UNCHANGED <<appVars, obj, conn>>
  BY DEF ProcessResult, Dispatch, AfterCallback
<1>2. ev \in EventState /\ op \in [Ops -> ServiceOp] /\ ev.pc \in {"process", "dispatch", "after"}
  BY DEF HeapInv, ControlInv, TypeOK, ProcessResult, Dispatch, AfterCallback
<1>3. SameShape
  <2>1. CASE UNCHANGED op
    BY <1>1, <2>1 DEF SameShape
  <2>2. CASE op' = [op EXCEPT ![ev.ref].more = FALSE] /\ ev.pc = "after"
    <3>1. ev.ref \in Ops
      BY <2>2 DEF HeapInv, ControlInv, References
    <3> QED
      BY <1>1, <1>2, <2>2, <3>1, FlagKeepsShape
  <2> QED
    BY <2>1, <2>2 DEF ProcessResult, Dispatch, AfterCallback
<1>4. /\ ev'.pc \in {"head", "recv", "after", "assign", "dispatch"}
      /\ ev'.pc # "head" => ev'.ref = ev.ref
      /\ ev'.pc = "dispatch" => UNCHANGED ev
  <2>1. CASE ProcessResult
    <3>1. PICK pc \in {"head", "recv"} : Goto(pc)
      BY <2>1 DEF ProcessResult
    <3> QED
      BY <1>2, <3>1, GotoFields
  <2>2. CASE Dispatch
    <3>1. CASE UNCHANGED ev
      BY <1>2, <2>2, <3>1 DEF Dispatch
    <3>2. ASSUME NEW call, NEW pc \in {"after", "assign"}, ev' = [ev EXCEPT !.pc = pc, !.call = call]
          PROVE  ev'.pc = pc /\ ev'.ref = ev.ref
      BY <1>2, <3>2 DEF EventState
    <3>3. CASE \E call, pc : /\ pc \in {"after", "assign"}
                             /\ ev' = [ev EXCEPT !.pc = pc, !.call = call]
      BY <3>2, <3>3
    <3> QED
      BY <2>2, <3>1, <3>3 DEF Dispatch
  <2>3. CASE AfterCallback
    <3>1. CASE ev' = At("head")
      BY <3>1, AtFields
    <3>2. CASE ev' = [At("recv") EXCEPT !.ref = ev.ref]
      BY <3>2 DEF At
    <3> QED
      BY <2>3, <3>1, <3>2 DEF AfterCallback
  <2> QED
    BY <2>1, <2>2, <2>3
<1>5. Live => ev.ref = obj.shareRef
  BY <1>2 DEF HeapInv, Held
<1>6. undefined' => undefined \/ app \in StopPC
  <2>1. Running
    BY <1>2 DEF Running
  <2>2. ASSUME app \notin StopPC PROVE ev.ref \in Allocated(op)
    BY <1>5, <2>1, <2>2, EventLive DEF Live
  <2>3. ASSUME app \notin StopPC PROVE \A o \in op[ev.ref].subs : ~IsFreed(o)
    BY <1>2, <1>5, <2>1, <2>3, EventLive DEF HeapInv, Heap, IsFreed, Allocated, Listed
  <2> QED
    BY <2>2, <2>3, OpsAssumption DEF ProcessResult, Dispatch, AfterCallback, Allocated, IsFreed
<1> QED
  BY <1>1, <1>2, <1>3, <1>4, <1>5, <1>6, QuietKeepsHeap DEF Pending

(* The reply that is taken from the queue is for a listed operation.        *)
LEMMA RecvHeap == ASSUME HeapInv, ControlInv', Recv PROVE HeapInv'
<1>1. UNCHANGED <<appVars, obj>>
  BY DEF Recv
<1>2. ev \in EventState /\ op \in [Ops -> ServiceOp] /\ ev.pc = "recv" /\ ev.ref \in Ops
  BY DEF HeapInv, ControlInv, TypeOK, References, Recv
<1>3. Live => ev.ref = obj.shareRef
  BY <1>2 DEF HeapInv, Held
<1>4. Running
  BY <1>2 DEF Running
<1>5. CASE UNCHANGED conn
  <2>1. SameShape
    <3>1. CASE UNCHANGED op
      BY <1>1, <3>1 DEF SameShape
    <3>2. CASE op' = [op EXCEPT ![ev.ref].reply = FALSE]
      BY <1>1, <1>2, <3>2, FlagKeepsShape
    <3>3. CASE \E more : op' = [op EXCEPT ![ev.ref].more = more]
      BY <1>1, <1>2, <3>3, FlagKeepsShape
    <3> QED
      BY <3>1, <3>2, <3>3 DEF Recv
  <2>2. CASE ev'.pc = "head"
    <3>1. undefined' => undefined \/ app \in StopPC
      <4>1. ASSUME app \notin StopPC PROVE ~IsFreed(ev.ref)
        BY <1>2, <1>3, <1>4, <4>1, EventLive DEF Live, IsFreed, Allocated
      <4> QED
        BY <4>1 DEF Recv
    <3> QED
      BY <1>1, <1>2, <1>5, <2>1, <2>2, <3>1, QuietKeepsHeap DEF Pending
  <2>3. CASE conn' = [conn EXCEPT !.queue = Tail(@)] /\ conn.queue # <<>>
    <3>1. conn.queue \in Seq(Reply) /\ conn \in Connection
      BY DEF HeapInv, ControlInv, TypeOK, Connection
    <3>2. conn'.queue = Tail(conn.queue)
      BY <2>3, <3>1 DEF Connection
    <3>3. Len(Tail(conn.queue)) # Len(conn.queue)
      BY <2>3, <3>1
    <3> QED
      BY <1>5, <3>2, <3>3
  <2>4. ev'.pc = "head" \/ (conn' = [conn EXCEPT !.queue = Tail(@)] /\ conn.queue # <<>>)
    BY <1>2, GotoFields, AtFields DEF Recv
  <2> QED
    BY <2>2, <2>3, <2>4
<1>6. CASE /\ conn.open /\ conn.queue # <<>>
           /\ conn' = [conn EXCEPT !.queue = Tail(@)]
           /\ UNCHANGED undefined
           /\ \E more \in BOOLEAN :
                /\ ev' = [ev EXCEPT !.pc = "dispatch", !.msg = Head(conn.queue), !.more = more]
                /\ op' = [op EXCEPT ![ev.ref].more = more]
  <2>1. SameShape
    BY <1>1, <1>2, <1>6, FlagKeepsShape
  <2>2. Allocated(op') = Allocated(op) /\ Live' = Live /\ (Live => Listed' = Listed) /\ Heap'
    BY <2>1, ShapeKept
  <2>3. Live /\ obj.shareRef \in Ops /\ Listed \subseteq Ops
    BY <1>6 DEF HeapInv, Handle, ControlInv, TypeOK, ServiceOp, Live, Allocated, Listed
  <2>4. ev'.pc = "dispatch" /\ ev'.ref = ev.ref /\ ev'.msg = Head(conn.queue)
    BY <1>2, <1>6 DEF EventState
  <2>5. conn.queue \in Seq(Reply) /\ conn \in Connection
    BY DEF HeapInv, ControlInv, TypeOK, Connection
  <2>6. /\ conn'.queue = Tail(conn.queue) /\ conn'.open = conn.open
        /\ conn'.peer = conn.peer /\ conn'.served = conn.served
    BY <1>6, <2>5 DEF Connection
  <2>7. /\ 1 \in DOMAIN conn.queue /\ Head(conn.queue) = conn.queue[1]
        /\ \A i \in DOMAIN conn'.queue : i + 1 \in DOMAIN conn.queue /\ conn'.queue[i] = conn.queue[i + 1]
    BY <1>6, <2>5, <2>6
  <2>8. Known = Listed /\ Known' = Listed
    BY <1>2, <2>2, <2>3, <2>4 DEF Known
  <2>9. Handle'
    BY <1>1, <1>6, <2>2, <2>6 DEF HeapInv, Handle, appVars
  <2>10. Held'
    BY <1>1, <1>3, <2>2, <2>4 DEF Held, RequestPC
  <2>11. Routes'
    <3>1. /\ \A o \in Listed : op'[o].uid <= op'[obj.shareRef].uid
          /\ \A o, q \in Listed : op'[o].uid = op'[q].uid => o = q
      BY <2>1, <2>3 DEF HeapInv, Routes, SameShape
    <3>2. \A r \in conn'.served : conn'.open /\ \E o \in Listed : op'[o].uid = r.uid /\ op'[o].kind = r.kind
      BY <2>1, <2>3, <2>6, <2>8 DEF HeapInv, Routes, SameShape
    <3>3. \A i \in DOMAIN conn'.queue :
            \E o \in Listed : /\ op'[o].uid = conn'.queue[i].uid
                              /\ conn'.queue[i].type \in ReplyTypes(op'[o].kind)
      BY <2>1, <2>3, <2>7, <2>8 DEF HeapInv, Routes, SameShape
    <3>4. \E o \in Listed : op'[o].uid = ev'.msg.uid /\ ev'.msg.type \in ReplyTypes(op'[o].kind)
      BY <2>1, <2>3, <2>4, <2>7, <2>8 DEF HeapInv, Routes, SameShape
    <3> QED
      BY <1>1, <1>6, <2>2, <2>3, <2>6, <2>8, <3>1, <3>2, <3>3, <3>4 DEF Routes
  <2> QED
    BY <2>2, <2>9, <2>10, <2>11 DEF HeapInv
<1> QED
  BY <1>5, <1>6 DEF Recv

(* A step of a request that leaves the shape, and tells the daemon nothing. *)
LEMMA RequestKeepsHeap ==
  ASSUME HeapInv, ControlInv', SameShape, UNCHANGED <<appVars, conn>>, obj'.started = obj.started,
         ev.pc \in RequestPC, ev'.pc \in Pending \cup {"after"}, ev'.ref = ev.ref,
         undefined' => undefined \/ app \in StopPC,
         Live /\ ev'.pc = "connect" => SubRef' = obj.shareRef,
         Live /\ ev'.pc \in {"deliver", "answer", "deallocate"} =>
           SubRef' \in Listed /\ op[SubRef'].kind = ev'.call,
         Live => Known \subseteq Known'
  PROVE  HeapInv'
<1>1. Allocated(op') = Allocated(op) /\ Live' = Live /\ (Live => Listed' = Listed) /\ Heap'
  BY ShapeKept
<1>2. Live => Listed \subseteq Ops /\ obj.shareRef \in Ops
  BY DEF Live, Allocated, Listed, HeapInv, ControlInv, TypeOK, ServiceOp
<1>3. Handle'
  BY <1>1 DEF HeapInv, Handle, appVars, SameShape
<1>4. Held'
  BY <1>1, <1>2 DEF HeapInv, Held, RequestPC, Pending, SameShape
<1>5. conn.open => Live
  BY DEF HeapInv, Handle
<1>6. Live => Known \subseteq Listed
  BY DEF Known
<1>7. Routes'
  BY <1>1, <1>2, <1>5, <1>6 DEF HeapInv, Routes, SameShape, Pending
<1> QED
  BY <1>1, <1>3, <1>4, <1>7 DEF HeapInv

LEMMA AssignHeap == ASSUME HeapInv, ControlInv', AssignRef PROVE HeapInv'
<1>1. ev \in EventState /\ obj \in Object /\ ev.pc = "assign" /\ obj.shareRef \in Refs
  BY DEF HeapInv, ControlInv, TypeOK, Object, AssignRef
<1>2. ev'.pc = "connect" /\ ev'.ref = ev.ref /\ ev'.call = ev.call
  BY <1>1, GotoFields DEF AssignRef
<1>3. obj'.shareRef = obj.shareRef /\ obj'.started = obj.started /\ obj'[Field] = obj.shareRef
  BY <1>1, SetFieldType DEF AssignRef
<1>4. SubRef' = obj.shareRef
  BY <1>2, <1>3 DEF SubRef, Field
<1>5. SameShape
  BY <1>3 DEF AssignRef, SameShape
<1>6. Live => Known \subseteq Known'
  BY <1>1, <1>2, <1>5, ShapeKept DEF Known
<1> QED
  BY <1>1, <1>2, <1>3, <1>4, <1>5, <1>6, RequestKeepsHeap DEF AssignRef, RequestPC, Pending

LEMMA DeliverHeap ==
  ASSUME HeapInv, ControlInv', Deliver \/ (Answer /\ UNCHANGED conn)
  PROVE  HeapInv'
<1>1. ev \in EventState /\ obj \in Object /\ ev.pc \in {"deliver", "answer"}
  BY DEF HeapInv, ControlInv, TypeOK, Deliver, Answer
<1>2. PICK pc \in {"answer", "deallocate", "after"} : Goto(pc)
  BY DEF Deliver, Answer
<1>3. ev'.pc = pc /\ ev'.ref = ev.ref /\ ev'.call = ev.call
  BY <1>1, <1>2, GotoFields
<1>4. UNCHANGED <<appVars, obj, op, conn>>
  BY DEF Deliver, Answer
<1>5. SubRef' = SubRef
  BY <1>3, <1>4 DEF SubRef, Field
<1>6. SameShape
  BY <1>4 DEF SameShape
<1>7. Live => SubRef \in Listed /\ op[SubRef].kind = ev.call
  BY <1>1 DEF HeapInv, Held
<1>8. undefined' => undefined \/ app \in StopPC
  <2>1. Running
    BY <1>1 DEF Running
  <2>2. ASSUME app \notin StopPC PROVE ~IsFreed(SubRef)
    BY <1>7, <2>1, <2>2, EventLive DEF HeapInv, Heap, IsFreed, Allocated
  <2> QED
    BY <2>2 DEF Deliver, Answer
<1>9. Live => Known \subseteq Known'
  BY <1>1, <1>3, <1>5, <1>6, ShapeKept DEF Known
<1> QED
  BY <1>1, <1>3, <1>4, <1>5, <1>6, <1>7, <1>8, <1>9, RequestKeepsHeap DEF RequestPC, Pending

(* The new operation is listed, and the daemon does not know it yet.        *)
LEMMA ConnectHeap == ASSUME HeapInv, ControlInv', ConnectRef PROVE HeapInv'
<1>1. ev \in EventState /\ obj \in Object /\ ev.pc = "connect"
  BY DEF HeapInv, ControlInv, TypeOK, ConnectRef
<1>2. Live => SubRef = obj.shareRef
  BY <1>1 DEF HeapInv, Held
<1>3. Running
  BY <1>1 DEF Running
<1>4. NoOp \in Refs /\ Ops \subseteq Refs
  BY DEF Refs
<1>5. CASE UNCHANGED op /\ Goto("after") /\ (UNCHANGED obj \/ SetField(NoOp))
  <2>1. ev'.pc = "after" /\ ev'.ref = ev.ref
    BY <1>1, <1>5, GotoFields
  <2>2. obj'.shareRef = obj.shareRef /\ obj'.started = obj.started
    BY <1>1, <1>4, <1>5, SetFieldType
  <2>3. SameShape
    BY <1>5, <2>2 DEF SameShape
  <2>4. undefined' => undefined \/ app \in StopPC
    <3>1. ASSUME app \notin StopPC PROVE ~IsFreed(SubRef)
      BY <1>2, <1>3, <3>1, EventLive DEF Live, IsFreed, Allocated
    <3> QED
      BY <3>1 DEF ConnectRef
  <2>5. Live => Known \subseteq Known'
    BY <1>1, <2>1, <2>3, ShapeKept DEF Known
  <2> QED
    BY <1>1, <2>1, <2>2, <2>3, <2>4, <2>5, RequestKeepsHeap DEF ConnectRef, RequestPC, Pending
<1>6. ASSUME NEW o \in Free, SubRef \in Allocated(op), op' = ConnectShared(op, SubRef, o, ev.call),
             SetField(o), Goto("deliver"), UNCHANGED undefined
      PROVE  HeapInv'
  <2>1. Live /\ SubRef = obj.shareRef /\ obj.shareRef \in Allocated(op)
    BY <1>2, <1>6 DEF HeapInv, Heap, Live
  <2>2. op \in [Ops -> ServiceOp] /\ ev.call \in SubKind /\ obj.shareRef \in Ops /\ Listed \subseteq Ops
    BY <1>1, <2>1
    DEF HeapInv, ControlInv, TypeOK, References, EventState, SubKind, RequestPC, ServiceOp, Listed, Allocated
  <2>3. o \in Ops \ Allocated(op)
    BY DEF Free
  <2>4. /\ Allocated(op') = Allocated(op) \cup {o}
        /\ op'[obj.shareRef].kind = op[obj.shareRef].kind
        /\ op'[obj.shareRef].uid = op[obj.shareRef].uid + 1
        /\ op'[obj.shareRef].subs = Listed \cup {o}
        /\ op'[o].kind = ev.call /\ op'[o].uid = op[obj.shareRef].uid + 1
        /\ op'[o].primary = obj.shareRef
        /\ \A q \in Ops \ {obj.shareRef, o} : op'[q] = op[q]
    BY <1>6, <2>1, <2>2, <2>3, ConnectSharedHeap DEF Listed
  <2>5. ev'.pc = "deliver" /\ ev'.ref = ev.ref /\ ev'.call = ev.call
    BY <1>1, <1>6, GotoFields
  <2>6. obj'.shareRef = obj.shareRef /\ obj'.started = obj.started /\ obj'[Field] = o
    BY <1>1, <1>4, <1>6, <2>3, SetFieldType
  <2>7. SubRef' = o
    BY <2>5, <2>6 DEF SubRef, Field
  <2>8. /\ op[obj.shareRef].kind = "connection" /\ Allocated(op) = {obj.shareRef} \cup Listed
        /\ \A q \in Listed : op[q].kind \in SubKind /\ op[q].primary = obj.shareRef
    BY <2>1 DEF HeapInv, Heap
  <2>9. \A q \in Listed : q # obj.shareRef /\ q # o /\ op'[q] = op[q]
    BY <2>2, <2>3, <2>4, <2>8 DEF SubKind
  <2>10. Live' /\ Listed' = Listed \cup {o}
    BY <2>1, <2>4, <2>6 DEF Live, Listed
  <2>11. Heap'
    BY <2>2, <2>4, <2>6, <2>8, <2>9, <2>10 DEF Heap
  <2>12. UNCHANGED <<appVars, conn>>
    BY DEF ConnectRef
  <2>13. Handle'
    BY <1>6, <2>1, <2>6, <2>10, <2>12 DEF HeapInv, Handle, appVars
  <2>14. Held'
    BY <1>1, <2>1, <2>4, <2>5, <2>6, <2>7, <2>10 DEF HeapInv, Held, RequestPC
  <2>15. Known = Listed /\ Known' = Listed
    BY <1>1, <2>5, <2>7, <2>9, <2>10 DEF Known
  <2>16. Routes'
    <3>1. op[obj.shareRef].uid \in Nat /\ \A q \in Listed : op[q].uid \in Nat
      BY <2>2 DEF ServiceOp
    <3>2. /\ \A q \in Listed : op[q].uid <= op[obj.shareRef].uid
          /\ \A p, q \in Listed : op[p].uid = op[q].uid => p = q
      BY <2>1 DEF HeapInv, Routes
    <3>3. /\ \A q \in Listed' : op'[q].uid <= op'[obj.shareRef].uid
          /\ \A p, q \in Listed' : op'[p].uid = op'[q].uid => p = q
      BY <2>4, <2>9, <2>10, <3>1, <3>2
    <3> QED
      BY <2>5, <2>6, <2>9, <2>12, <2>15, <3>3 DEF HeapInv, Routes
  <2> QED
    BY <2>11, <2>13, <2>14, <2>16 DEF HeapInv
<1> QED
  BY <1>5, <1>6 DEF ConnectRef

(* The daemon serves a request that it knows by its uid and its kind.       *)
LEMMA AnswerHeap == ASSUME HeapInv, ControlInv', Answer PROVE HeapInv'
<1>1. CASE UNCHANGED conn
  BY <1>1, DeliverHeap
<1>2. CASE conn.peer /\ conn' = Serve(conn, op[SubRef].uid, ev.call) /\ Goto("after")
  <2>1. ev \in EventState /\ obj \in Object /\ conn \in Connection /\ ev.pc = "answer"
    BY DEF HeapInv, ControlInv, TypeOK, Answer
  <2>2. ev'.pc = "after" /\ ev'.ref = ev.ref
    BY <1>2, <2>1, GotoFields
  <2>3. UNCHANGED <<appVars, obj, op, undefined>>
    BY DEF Answer
  <2>4. SameShape
    BY <2>3 DEF SameShape
  <2>5. Allocated(op') = Allocated(op) /\ Live' = Live /\ (Live => Listed' = Listed) /\ Heap'
    BY <2>4, ShapeKept
  <2>6. conn.open /\ Live
    BY <1>2 DEF HeapInv, Handle
  <2>7. SubRef \in Listed /\ op[SubRef].kind = ev.call
    BY <2>1, <2>6 DEF HeapInv, Held
  <2>8. /\ conn'.open = conn.open /\ conn'.peer = conn.peer /\ conn'.queue = conn.queue
        /\ conn'.served = conn.served \cup {[uid |-> op[SubRef].uid, kind |-> ev.call]}
    BY <1>2, <2>1 DEF Serve, Connection
  <2>9. Handle'
    BY <2>3, <2>5, <2>8 DEF HeapInv, Handle, appVars
  <2>10. Held'
    BY <2>1, <2>2, <2>3, <2>5, <2>6 DEF HeapInv, Held, RequestPC
  <2>11. Known \subseteq Listed /\ Known' = Listed
    BY <2>2, <2>5, <2>6 DEF Known
  <2>12. Routes'
    <3>1. \A r \in conn'.served : \E o \in Listed : op[o].uid = r.uid /\ op[o].kind = r.kind
      BY <2>7, <2>8, <2>11 DEF HeapInv, Routes
    <3> QED
      BY <2>2, <2>3, <2>5, <2>6, <2>8, <2>11, <3>1 DEF HeapInv, Routes
  <2> QED
    BY <2>5, <2>9, <2>10, <2>12 DEF HeapInv
<1> QED
  BY <1>1, <1>2 DEF Answer

LEMMA DeallocateHeap == ASSUME HeapInv, ControlInv', DeallocateRef PROVE HeapInv'
<1>1. ev \in EventState /\ obj \in Object /\ op \in [Ops -> ServiceOp] /\ ev.pc = "deallocate"
  BY DEF HeapInv, ControlInv, TypeOK, DeallocateRef
<1>2. ev'.pc = "after" /\ ev'.ref = ev.ref
  BY <1>1, GotoFields DEF DeallocateRef
<1>3. NoOp \in Refs
  BY DEF Refs
<1>4. obj'.shareRef = obj.shareRef /\ obj'.started = obj.started
  BY <1>1, <1>3, SetFieldType DEF DeallocateRef
<1>5. Live => SubRef \in Listed /\ op[SubRef].kind = ev.call
  BY <1>1 DEF HeapInv, Held
<1>6. SubRef \in Ops
  BY <1>1 DEF HeapInv, ControlInv, References
<1>7. CASE IsFreed(SubRef)
  <2>1. ~Live
    BY <1>5, <1>7 DEF HeapInv, Heap, IsFreed, Allocated
  <2>2. app \in StopPC
    BY <1>1, <2>1, EventLive DEF Running
  <2>3. SameShape
    BY <1>4, <1>7 DEF DeallocateRef, SameShape
  <2> QED
    BY <1>1, <1>2, <1>4, <2>1, <2>2, <2>3, RequestKeepsHeap DEF DeallocateRef, RequestPC, Pending
<1>8. CASE ~IsFreed(SubRef)
  <2>1. op' = DeallocateSubordinate(op, SubRef) /\ UNCHANGED <<appVars, conn, undefined>>
    BY <1>8 DEF DeallocateRef
  <2>2. SubRef \in Allocated(op) /\ Live
    BY <1>6, <1>8, OpsAssumption DEF HeapInv, Heap, IsFreed, Allocated
  <2>3. /\ op[obj.shareRef].kind = "connection" /\ Allocated(op) = {obj.shareRef} \cup Listed
        /\ \A q \in Listed : op[q].kind \in SubKind /\ op[q].primary = obj.shareRef
    BY <2>2 DEF HeapInv, Heap
  <2>4. obj.shareRef \in Ops \ {SubRef} /\ op[SubRef].primary = obj.shareRef /\ Listed \subseteq Ops
    BY <1>1, <1>5, <2>2, <2>3 DEF Live, Allocated, SubKind, ServiceOp, Listed
  <2>5. /\ Allocated(op') = Allocated(op) \ {SubRef}
        /\ op'[obj.shareRef].kind = op[obj.shareRef].kind
        /\ op'[obj.shareRef].uid = op[obj.shareRef].uid
        /\ op'[obj.shareRef].subs = Listed \ {SubRef}
        /\ \A q \in Ops \ {obj.shareRef, SubRef} : op'[q] = op[q]
    BY <1>1, <1>6, <2>1, <2>4, DeallocateSubordinateHeap DEF Listed
  <2>6. \A q \in Listed \ {SubRef} : op'[q] = op[q] /\ q # obj.shareRef
    BY <2>3, <2>4, <2>5 DEF SubKind
  <2>7. Live' /\ Listed' = Listed \ {SubRef}
    BY <1>4, <2>2, <2>4, <2>5 DEF Live, Listed
  <2>8. Heap'
    BY <1>4, <2>3, <2>4, <2>5, <2>6, <2>7 DEF Heap
  <2>9. Handle'
    BY <1>4, <2>1, <2>2, <2>7 DEF HeapInv, Handle, appVars
  <2>10. Held'
    BY <1>1, <1>2, <1>4, <2>2 DEF HeapInv, Held, RequestPC
  <2>11. Known = Listed \ {SubRef} /\ Known' = Listed \ {SubRef}
    BY <1>1, <1>2, <2>7 DEF Known
  <2>12. Routes'
    BY <1>2, <1>4, <2>1, <2>2, <2>5, <2>6, <2>7, <2>11 DEF HeapInv, Routes
  <2> QED
    BY <2>8, <2>9, <2>10, <2>12 DEF HeapInv
<1> QED
  BY <1>7, <1>8

LEMMA EventHeap == ASSUME HeapInv, ControlInv', Event PROVE HeapInv'
  BY PollHeap, ProcessHeap, RecvHeap, AssignHeap, ConnectHeap, DeliverHeap, AnswerHeap, DeallocateHeap
  DEF Event, SubordinateRequest

(* The daemon replies to what it serves, and forgets it when it dies.       *)
LEMMA DaemonHeap == ASSUME HeapInv, ControlInv', Daemon PROVE HeapInv'
<1>1. UNCHANGED <<appVars, obj, op, ev, undefined>> /\ conn \in Connection
  BY DEF Daemon, DaemonReply, DaemonDies, DaemonRestarts, HeapInv, ControlInv, TypeOK
<1>2. /\ Live' = Live /\ Listed' = Listed /\ Heap' /\ Known' = Known /\ Held'
  BY <1>1 DEF HeapInv, Live, Listed, Heap, Known, Held, SubRef, Field
<1>3. /\ conn'.open = conn.open /\ (conn'.peer => conn.peer) /\ conn'.served \subseteq conn.served
      /\ \A i \in DOMAIN conn'.queue :
           \/ i \in DOMAIN conn.queue /\ conn'.queue[i] = conn.queue[i]
           \/ \E r \in conn.served : conn'.queue[i].uid = r.uid /\ conn'.queue[i].type \in ReplyTypes(r.kind)
  <2>1. CASE DaemonReply
    <3>1. PICK r \in conn.served : \E type \in ReplyTypes(r.kind) :
            conn' = [conn EXCEPT !.queue = Append(@, [uid |-> r.uid, type |-> type])]
      BY <2>1 DEF DaemonReply
    <3>2. PICK type \in ReplyTypes(r.kind) :
            conn' = [conn EXCEPT !.queue = Append(@, [uid |-> r.uid, type |-> type])]
      BY <3>1
    <3> DEFINE m == [uid |-> r.uid, type |-> type]
    <3>3. conn.queue \in Seq(Reply)
      BY <1>1 DEF Connection
    <3>4. /\ conn'.queue = Append(conn.queue, m) /\ conn'.open = conn.open
          /\ conn'.peer = conn.peer /\ conn'.served = conn.served
      BY <1>1, <3>2 DEF Connection
    <3>5. m.uid = r.uid /\ m.type = type
      OBVIOUS
    <3> HIDE DEF m
    <3>6. m \in Reply
      <4>1. r \in Request
        BY <1>1 DEF Connection
      <4> QED
        BY <4>1 DEF m, Request, Reply, ReplyType
    <3>7. \A i \in DOMAIN conn'.queue :
            (i \in DOMAIN conn.queue /\ conn'.queue[i] = conn.queue[i]) \/ conn'.queue[i] = m
      BY <3>3, <3>4, <3>6
    <3> QED
      BY <3>2, <3>4, <3>5, <3>7
  <2>2. CASE DaemonDies \/ DaemonRestarts
    BY <1>1, <2>2 DEF DaemonDies, DaemonRestarts, Connection
  <2> QED
    BY <2>1, <2>2 DEF Daemon
<1>4. Handle'
  BY <1>1, <1>2, <1>3 DEF HeapInv, Handle, appVars
<1>5. Routes'
  BY <1>1, <1>2, <1>3 DEF HeapInv, Routes
<1> QED
  BY <1>2, <1>4, <1>5 DEF HeapInv

(* The calls of the application thread, when the event thread does not run: *)
(* it holds nothing then.                                                   *)
LEMMA IdleKeepsHeap ==
  ASSUME HeapInv, ControlInv', ~Running', Heap', Handle',
         Live' => \A o \in Listed' : op'[o].uid <= op'[obj'.shareRef].uid,
         Live' => \A o, q \in Listed' : op'[o].uid = op'[q].uid => o = q,
         \A r \in conn'.served :
           conn'.open /\ \E o \in Listed' : op'[o].uid = r.uid /\ op'[o].kind = r.kind,
         \A i \in DOMAIN conn'.queue :
           conn'.open /\ \E o \in Listed' : /\ op'[o].uid = conn'.queue[i].uid
                                           /\ conn'.queue[i].type \in ReplyTypes(op'[o].kind)
  PROVE  HeapInv'
<1>1. ev'.pc \in {"none", "exited"}
  BY DEF Running
<1>2. Held'
  BY <1>1 DEF Held, RequestPC
<1>3. Known' = Listed'
  BY <1>1 DEF Known
<1>4. Routes'
  BY <1>1, <1>3 DEF Routes
<1> QED
  BY <1>2, <1>4 DEF HeapInv

LEMMA NoConnectionFields ==
  /\ ~NoConnection.open /\ ~NoConnection.peer
  /\ NoConnection.served = {} /\ DOMAIN NoConnection.queue = {}
  /\ LET c == [NoConnection EXCEPT !.open = TRUE, !.peer = TRUE] IN
     c.open /\ c.peer /\ c.served = {} /\ DOMAIN c.queue = {}
<1>1. DOMAIN <<>> = {}
  OBVIOUS
<1> QED
  BY <1>1 DEF NoConnection

LEMMA DiscoverHeap ==
  ASSUME HeapInv, ControlInv', CtBonjour_DiscoverService PROVE HeapInv'
<1>1. /\ app = "idle" /\ ~freed /\ ~obj.started /\ ~Running /\ ~undefined
      /\ UNCHANGED <<deleting, freed, thread, up, ev, undefined>>
  BY DEF CtBonjour_DiscoverService, HeapInv, ControlInv, Control
<1>2. /\ op \in [Ops -> ServiceOp] /\ obj \in Object
      /\ obj.shareRef = NoOp /\ ~Live /\ Allocated(op) = {} /\ ~conn.open /\ ~conn.peer
  BY <1>1, OpsAssumption DEF HeapInv, ControlInv, TypeOK, Handle, Heap, Live, Allocated
<1>3. conn.served = {} /\ DOMAIN conn.queue = {}
  BY <1>2 DEF HeapInv, Routes
<1>4. ~Running'
  BY <1>1 DEF Running
<1>5. ASSUME NEW o \in Ops, op' = ConnectPrimary(op, o), obj' = [obj EXCEPT !.shareRef = o],
             conn' = [NoConnection EXCEPT !.open = TRUE, !.peer = TRUE], app' = "browse"
      PROVE  HeapInv'
  <2>1. Allocated(op') = {o} /\ op'[o] = NewOp("connection", 0, NoOp)
    BY <1>2, <1>5, ConnectPrimaryHeap
  <2>2. obj'.shareRef = o /\ obj'.started = obj.started
    BY <1>2, <1>5 DEF Object
  <2>3. Live' /\ Listed' = {} /\ op'[obj'.shareRef].kind = "connection"
    BY <2>1, <2>2 DEF Live, Listed, NewOp
  <2>4. conn'.open /\ conn'.peer /\ conn'.served = {} /\ DOMAIN conn'.queue = {}
    BY <1>5, NoConnectionFields
  <2>5. Heap'
    BY <2>1, <2>2, <2>3 DEF Heap
  <2>6. Handle'
    BY <1>1, <1>5, <2>3 DEF Handle
  <2> QED
    BY <1>4, <2>3, <2>4, <2>5, <2>6, IdleKeepsHeap
<1>6. CASE obj' = [obj EXCEPT !.shareRef = NoOp] /\ UNCHANGED <<app, op, conn>>
  <2>1. obj'.shareRef = NoOp /\ obj'.started = obj.started
    BY <1>2, <1>6 DEF Object
  <2>2. ~Live' /\ Allocated(op') = {}
    BY <1>2, <1>6, <2>1, OpsAssumption DEF Live, Allocated
  <2>3. Heap' /\ Handle'
    BY <1>1, <1>2, <1>6, <2>1, <2>2 DEF Heap, Handle
  <2> QED
    BY <1>2, <1>3, <1>4, <1>6, <2>2, <2>3, IdleKeepsHeap
<1> QED
  BY <1>5, <1>6 DEF CtBonjour_DiscoverService, Free

(* The browse operation is the connection's first; a failed one is gone     *)
(* again.                                                                   *)
LEMMA BrowseHeap ==
  ASSUME HeapInv, ControlInv', CtBonjour_Browse PROVE HeapInv'
<1>1. /\ app = "browse" /\ ~freed /\ ~Running /\ ~undefined
      /\ UNCHANGED <<deleting, freed, thread, up, ev, undefined>>
      /\ app' \in {"create", "undo"}
  BY DEF CtBonjour_Browse, HeapInv, ControlInv, Control
<1>2. /\ op \in [Ops -> ServiceOp] /\ obj \in Object /\ conn \in Connection
      /\ obj.shareRef \in Ops /\ Live
  BY <1>1, OpsAssumption DEF HeapInv, ControlInv, TypeOK, Handle, References
<1>3. ~Running' /\ Known = Listed
  BY <1>1 DEF Running, Known
<1>4. /\ op[obj.shareRef].kind = "connection" /\ Allocated(op) = {obj.shareRef} \cup Listed
      /\ \A q \in Listed : op[q].kind \in SubKind /\ op[q].primary = obj.shareRef
      /\ Listed \subseteq Ops /\ op[obj.shareRef].uid \in Nat /\ \A q \in Listed : op[q].uid \in Nat
  BY <1>2 DEF HeapInv, Heap, ServiceOp, Listed
<1>5. obj'.shareRef = obj.shareRef /\ obj'.started = obj.started
  BY <1>2 DEF CtBonjour_Browse, Object
<1>6. "browse" \in SubKind
  BY DEF SubKind
<1>7. /\ \A q \in Listed : op[q].uid <= op[obj.shareRef].uid
      /\ \A p, q \in Listed : op[p].uid = op[q].uid => p = q
      /\ \A r \in conn.served : conn.open /\ \E q \in Listed : op[q].uid = r.uid /\ op[q].kind = r.kind
      /\ \A i \in DOMAIN conn.queue :
           conn.open /\ \E q \in Listed : /\ op[q].uid = conn.queue[i].uid
                                         /\ conn.queue[i].type \in ReplyTypes(op[q].kind)
  BY <1>2, <1>3 DEF HeapInv, Routes
<1>8. ASSUME NEW o \in Free, NEW h, h = ConnectShared(op, obj.shareRef, o, "browse")
      PROVE  /\ o \in Ops \ Allocated(op) /\ h \in [Ops -> ServiceOp]
             /\ Allocated(h) = Allocated(op) \cup {o}
             /\ h[obj.shareRef].kind = op[obj.shareRef].kind
             /\ h[obj.shareRef].uid = op[obj.shareRef].uid + 1
             /\ h[obj.shareRef].subs = Listed \cup {o}
             /\ h[o].kind = "browse" /\ h[o].uid = op[obj.shareRef].uid + 1
             /\ h[o].primary = obj.shareRef
             /\ \A q \in Ops \ {obj.shareRef, o} : h[q] = op[q]
  <2>1. o \in Ops \ Allocated(op) /\ obj.shareRef \in Allocated(op)
    BY <1>2 DEF Free, Live
  <2> QED
    BY <1>2, <1>6, <1>8, <2>1, ConnectSharedHeap, ConnectSharedType DEF Listed
<1>9. ASSUME NEW o \in Free, op' = ConnectShared(op, obj.shareRef, o, "browse"),
             conn' = Serve(conn, op'[o].uid, "browse"), conn.peer
      PROVE  HeapInv'
  <2>1. /\ o \in Ops \ Allocated(op)
        /\ Allocated(op') = Allocated(op) \cup {o}
        /\ op'[obj.shareRef].kind = op[obj.shareRef].kind
        /\ op'[obj.shareRef].uid = op[obj.shareRef].uid + 1
        /\ op'[obj.shareRef].subs = Listed \cup {o}
        /\ op'[o].kind = "browse" /\ op'[o].uid = op[obj.shareRef].uid + 1
        /\ op'[o].primary = obj.shareRef
        /\ \A q \in Ops \ {obj.shareRef, o} : op'[q] = op[q]
    BY <1>8, <1>9
  <2>2. \A q \in Listed : q # obj.shareRef /\ q # o /\ op'[q] = op[q]
    BY <1>4, <2>1 DEF SubKind
  <2>3. Live' /\ Listed' = Listed \cup {o}
    BY <1>2, <1>5, <2>1 DEF Live, Listed
  <2>4. Heap'
    BY <1>4, <1>5, <1>6, <2>1, <2>2, <2>3 DEF Heap
  <2>5. /\ conn'.open = conn.open /\ conn'.peer = conn.peer /\ conn'.queue = conn.queue
        /\ conn'.served = conn.served \cup {[uid |-> op'[o].uid, kind |-> "browse"]}
    BY <1>2, <1>9 DEF Serve, Connection
  <2>6. Handle'
    BY <1>1, <1>2, <1>5, <2>3, <2>5 DEF HeapInv, Handle
  <2>7. /\ \A q \in Listed' : op'[q].uid <= op'[obj'.shareRef].uid
        /\ \A p, q \in Listed' : op'[p].uid = op'[q].uid => p = q
    BY <1>4, <1>5, <1>7, <2>1, <2>2, <2>3
  <2>8. \A r \in conn'.served :
          conn'.open /\ \E q \in Listed' : op'[q].uid = r.uid /\ op'[q].kind = r.kind
    <3>1. conn.open
      BY <1>9 DEF HeapInv, Handle
    <3> QED
      BY <1>7, <2>1, <2>2, <2>3, <2>5, <3>1
  <2>9. \A i \in DOMAIN conn'.queue :
          conn'.open /\ \E q \in Listed' : /\ op'[q].uid = conn'.queue[i].uid
                                          /\ conn'.queue[i].type \in ReplyTypes(op'[q].kind)
    BY <1>7, <2>2, <2>3, <2>5
  <2> QED
    BY <1>3, <2>4, <2>6, <2>7, <2>8, <2>9, IdleKeepsHeap
<1>10. ASSUME UNCHANGED conn, Allocated(op') = Allocated(op), app' = "undo",
              op'[obj.shareRef].kind = op[obj.shareRef].kind,
              op'[obj.shareRef].uid \in Nat, op'[obj.shareRef].uid >= op[obj.shareRef].uid,
              op'[obj.shareRef].subs = Listed, \A q \in Listed : op'[q] = op[q]
       PROVE  HeapInv'
  <2>1. Live' /\ Listed' = Listed
    BY <1>2, <1>5, <1>10 DEF Live, Listed
  <2>2. Heap'
    BY <1>4, <1>5, <1>10, <2>1 DEF Heap
  <2>3. Handle'
    BY <1>1, <1>2, <1>5, <1>10, <2>1 DEF HeapInv, Handle
  <2>4. \A q \in Listed' : op'[q].uid <= op'[obj'.shareRef].uid
    BY <1>4, <1>5, <1>7, <1>10, <2>1
  <2> QED
    BY <1>3, <1>7, <1>10, <2>1, <2>2, <2>3, <2>4, IdleKeepsHeap
<1>11. CASE UNCHANGED <<op, conn>> /\ app' = "undo"
  BY <1>4, <1>10, <1>11 DEF Listed
<1>12. ASSUME NEW o \in Free, UNCHANGED conn, app' = "undo",
              op' = DeallocateSubordinate(ConnectShared(op, obj.shareRef, o, "browse"), o)
       PROVE  HeapInv'
  <2> DEFINE h == ConnectShared(op, obj.shareRef, o, "browse")
  <2>1. /\ o \in Ops \ Allocated(op) /\ h \in [Ops -> ServiceOp]
        /\ Allocated(h) = Allocated(op) \cup {o}
        /\ h[obj.shareRef].kind = op[obj.shareRef].kind
        /\ h[obj.shareRef].uid = op[obj.shareRef].uid + 1
        /\ h[obj.shareRef].subs = Listed \cup {o} /\ h[o].primary = obj.shareRef
        /\ \A q \in Ops \ {obj.shareRef, o} : h[q] = op[q]
    BY <1>8
  <2> HIDE DEF h
  <2>2. obj.shareRef \in Ops \ {o} /\ o \in Ops
    BY <1>2, <1>4, <2>1
  <2>3. op' = DeallocateSubordinate(h, o)
    BY <1>12 DEF h
  <2>4. /\ Allocated(op') = Allocated(h) \ {o}
        /\ op'[obj.shareRef].kind = h[obj.shareRef].kind
        /\ op'[obj.shareRef].uid = h[obj.shareRef].uid
        /\ op'[obj.shareRef].subs = h[obj.shareRef].subs \ {o}
        /\ \A q \in Ops \ {obj.shareRef, o} : op'[q] = h[q]
    BY SMTT(40), <2>1, <2>2, <2>3, DeallocateSubordinateHeap
  <2>5. o \notin Listed /\ obj.shareRef \notin Listed
    BY <1>4, <2>1 DEF SubKind
  <2>6. \A q \in Listed : op'[q] = op[q]
    BY <1>4, <2>1, <2>4, <2>5
  <2>7. Allocated(op') = Allocated(op) /\ op'[obj.shareRef].subs = Listed
    BY <2>1, <2>4, <2>5
  <2>8. op'[obj.shareRef].uid \in Nat /\ op'[obj.shareRef].uid >= op[obj.shareRef].uid
    BY <1>4, <2>1, <2>4
  <2> QED
    BY <1>10, <1>12, <2>1, <2>4, <2>6, <2>7, <2>8
<1> QED
  BY <1>9, <1>11, <1>12 DEF CtBonjour_Browse

(* With no connection there is no more to say than Handle.                  *)
LEMMA DeadHeap ==
  ASSUME ControlInv', Allocated(op') = {}, conn'.served = {}, DOMAIN conn'.queue = {}, Handle'
  PROVE  HeapInv'
<1>1. ~Live'
  BY DEF Live
<1>2. Heap' /\ Held' /\ Routes'
  BY <1>1 DEF Heap, Held, Routes
<1> QED
  BY <1>2 DEF HeapInv

(* Without a live operation there is none, and the daemon knows of none.    *)
LEMMA NotLive ==
  ASSUME HeapInv, ~Live
  PROVE  Allocated(op) = {} /\ ~conn.open /\ ~conn.peer /\ conn.served = {} /\ DOMAIN conn.queue = {}
<1>1. Allocated(op) = {} /\ ~conn.open /\ ~conn.peer
  BY DEF HeapInv, Heap, Handle
<1> QED
  BY <1>1 DEF HeapInv, Routes

(* Freeing a connection frees all there is.                                 *)
LEMMA FreeAll ==
  ASSUME HeapInv, Live
  PROVE  Allocated(DeallocatePrimary(op, obj.shareRef)) = {}
<1>1. op \in [Ops -> ServiceOp] /\ obj.shareRef \in Ops
  BY DEF HeapInv, ControlInv, TypeOK, Live, Allocated
<1>2. Allocated(op) = {obj.shareRef} \cup op[obj.shareRef].subs
  BY DEF HeapInv, Heap, Listed
<1> QED
  BY <1>1, <1>2, DeallocatePrimaryHeap

LEMMA UndoHeap ==
  ASSUME HeapInv, ControlInv', CtBonjour_Undo PROVE HeapInv'
<1>1. /\ app = "undo" /\ ~undefined /\ obj \in Object /\ Live
      /\ app' = "idle" /\ UNCHANGED undefined
  BY OpsAssumption
  DEF CtBonjour_Undo, HeapInv, ControlInv, TypeOK, References, Handle
<1>2. obj'.shareRef = NoOp
  BY <1>1 DEF CtBonjour_Undo, Object
<1>3. Allocated(op') = {}
  BY <1>1, FreeAll DEF CtBonjour_Undo
<1>4. ~conn'.open /\ ~conn'.peer /\ conn'.served = {} /\ DOMAIN conn'.queue = {}
  BY NoConnectionFields DEF CtBonjour_Undo
<1>5. Handle'
  BY <1>1, <1>2, <1>4 DEF Handle
<1> QED
  BY <1>3, <1>4, <1>5, DeadHeap

(* A step of the application thread that leaves the heap and the connection *)
(* alone, and of the event thread's variables changes morebytes only.       *)
LEMMA AppKeepsHeap ==
  ASSUME HeapInv, ControlInv', Handle', UNCHANGED <<op, conn>>, obj'.shareRef = obj.shareRef,
         SubRef' = SubRef, ev'.pc = ev.pc, ev'.ref = ev.ref, ev'.call = ev.call, ev'.msg = ev.msg
  PROVE  HeapInv'
<1>1. Live' = Live /\ Listed' = Listed
  BY DEF Live, Listed
<1>2. Known' = Known
  BY <1>1 DEF Known
<1>3. Heap' /\ Held'
  BY <1>1 DEF HeapInv, Heap, Held
<1>4. Routes'
  BY <1>1, <1>2 DEF HeapInv, Routes
<1> QED
  BY <1>3, <1>4 DEF HeapInv

LEMMA CreateThreadHeap ==
  ASSUME HeapInv, ControlInv', CtBonjour_CreateThread PROVE HeapInv'
<1>1. /\ app = "create" /\ app' = "idle" /\ ~undefined /\ ~freed /\ ~Running /\ obj \in Object
      /\ UNCHANGED <<freed, op, conn, undefined>>
      /\ obj.shareRef # NoOp
  BY OpsAssumption DEF CtBonjour_CreateThread, HeapInv, ControlInv, TypeOK, Control, References
<1>2. obj'.shareRef = obj.shareRef /\ obj'.started
  BY <1>1 DEF CtBonjour_CreateThread, Object
<1>3. ev.pc \in {"none", "exited"} /\ ev'.pc \in {"none", "exited", "head"}
  BY <1>1, AtFields DEF CtBonjour_CreateThread, Running
<1>4. Live' = Live /\ Listed' = Listed /\ Known' = Listed /\ Known = Listed
  BY <1>1, <1>2, <1>3 DEF Live, Listed, Known
<1>5. Heap' /\ Held'
  BY <1>1, <1>2, <1>3, <1>4 DEF HeapInv, Heap, Held, RequestPC
<1>6. Handle'
  BY <1>1, <1>2, <1>4 DEF HeapInv, Handle
<1>7. Routes'
  BY <1>1, <1>2, <1>3, <1>4 DEF HeapInv, Routes
<1> QED
  BY <1>5, <1>6, <1>7 DEF HeapInv

LEMMA DiscoveryHeap ==
  ASSUME HeapInv, ControlInv',
         \/ CtBonjour_DiscoverService \/ CtBonjour_Browse
         \/ CtBonjour_Undo \/ CtBonjour_CreateThread
  PROVE  HeapInv'
  BY DiscoverHeap, BrowseHeap, UndoHeap, CreateThreadHeap

(* Stop, until it frees the connection, ...                                 *)
LEMMA StopHeap ==
  ASSUME HeapInv, ControlInv',
         \/ CtBonjour_StopServiceDiscovery \/ StopTest \/ StopMore \/ StopClear
         \/ StopClose \/ StopFree
  PROVE  HeapInv'
<1>1. CASE CtBonjour_StopServiceDiscovery \/ StopTest \/ StopMore
  <2>1. UNCHANGED <<op, conn, obj, freed, ev, undefined>> /\ SubRef' = SubRef /\ ~undefined
    BY <1>1 DEF CtBonjour_StopServiceDiscovery, StopTest, StopMore, SubRef, Field
  <2>2. Live' = Live
    BY <2>1 DEF Live
  <2>3. Handle'
    BY <1>1, <2>1, <2>2
    DEF CtBonjour_StopServiceDiscovery, StopTest, StopMore, AppGoto, HeapInv, Handle
  <2> QED
    BY <2>1, <2>3, AppKeepsHeap
<1>2. CASE StopClear
  <2>1. /\ UNCHANGED <<op, conn, obj, freed>> /\ app = "clear" /\ app' = "close"
        /\ ev \in EventState
    BY <1>2 DEF StopClear, AppGoto, HeapInv, ControlInv, TypeOK
  <2>2. ev'.pc = ev.pc /\ ev'.ref = ev.ref /\ ev'.call = ev.call /\ ev'.msg = ev.msg
    BY <1>2, <2>1 DEF StopClear, EventState
  <2>3. SubRef' = SubRef
    BY <2>1, <2>2 DEF SubRef, Field
  <2>4. Live' = Live
    BY <2>1 DEF Live
  <2>5. Handle'
    BY <2>1, <2>4 DEF HeapInv, Handle, StopPC
  <2> QED
    BY <2>1, <2>2, <2>3, <2>5, AppKeepsHeap
<1>3. CASE StopClose
  <2>1. /\ UNCHANGED <<op, obj, freed, ev, undefined>> /\ ~undefined
        /\ app = "close" /\ app' = "free"
        /\ ~conn'.open /\ ~conn'.peer /\ conn'.served = {} /\ DOMAIN conn'.queue = {}
    BY <1>3, NoConnectionFields DEF StopClose, AppGoto
  <2>2. Live' = Live /\ Listed' = Listed
    BY <2>1 DEF Live, Listed
  <2>3. Handle'
    BY <2>1, <2>2 DEF HeapInv, Handle
  <2>4. Heap' /\ Held'
    BY <2>1, <2>2 DEF HeapInv, Heap, Held, SubRef, Field
  <2>5. Routes'
    BY <2>1, <2>2 DEF HeapInv, Routes
  <2> QED
    BY <2>3, <2>4, <2>5 DEF HeapInv
<1>4. CASE StopFree
  <2>1. /\ UNCHANGED <<conn, obj, freed, undefined>> /\ app = "free" /\ app' = "null" /\ ~undefined
        /\ Live
    BY <1>4, OpsAssumption DEF StopFree, AppGoto, HeapInv, ControlInv, References, Handle
  <2>2. Allocated(op') = {}
    BY <1>4, <2>1, FreeAll DEF StopFree
  <2>3. ~conn.open /\ ~conn.peer
    BY <2>1 DEF HeapInv, Handle
  <2>4. conn.served = {} /\ DOMAIN conn.queue = {}
    BY <2>3 DEF HeapInv, Routes
  <2>5. Handle'
    BY <2>1, <2>2, <2>3 DEF HeapInv, Handle, Live
  <2> QED
    BY <2>1, <2>2, <2>4, <2>5, DeadHeap
<1> QED
  BY <1>1, <1>2, <1>3, <1>4

(* ... and after that; Delete, when no discovery is on; and New.            *)
LEMMA AfterStopHeap ==
  ASSUME HeapInv, ControlInv',
         StopNull \/ StopFlag \/ StopJoin \/ StopWait \/ DeleteObject \/ CtBonjour_New
  PROVE  HeapInv'
<1>1. obj \in Object /\ UNCHANGED <<op, conn, undefined>> /\ ~undefined
  BY DEF HeapInv, ControlInv, TypeOK, StopNull, StopFlag, StopJoin, StopWait, DeleteObject, CtBonjour_New
<1>2. app = "null" \/ obj.shareRef = NoOp
  BY DEF HeapInv, Handle, StopNull, StopFlag, StopJoin, StopWait, DeleteObject, CtBonjour_New
<1>3. ~Live
  BY <1>2, OpsAssumption DEF HeapInv, Handle, Live, Allocated
<1>4. Allocated(op) = {} /\ ~conn.open /\ ~conn.peer /\ conn.served = {} /\ DOMAIN conn.queue = {}
  BY <1>3, NotLive
<1>5. obj'.shareRef = NoOp
  <2>1. CASE StopNull
    BY <1>1, <2>1 DEF StopNull, Object
  <2>2. CASE StopFlag
    BY <1>1, <1>2, <2>2 DEF StopFlag, Object
  <2>3. CASE CtBonjour_New
    BY <2>3 DEF CtBonjour_New, Constructed
  <2> QED
    BY <1>2, <2>1, <2>2, <2>3 DEF StopNull, StopFlag, StopJoin, StopWait, DeleteObject, CtBonjour_New
<1>6. app' # "null"
  BY DEF StopNull, StopFlag, StopJoin, StopWait, DeleteObject, CtBonjour_New, AppGoto, Return,
         HeapInv, ControlInv, Control
<1>7. Handle'
  BY <1>1, <1>4, <1>5, <1>6 DEF Handle
<1> QED
  BY <1>1, <1>4, <1>7, DeadHeap

LEMMA DeleteHeap ==
  ASSUME HeapInv, ControlInv', CtBonjour_Delete PROVE HeapInv'
<1>1. UNCHANGED <<op, conn, obj, freed, ev, undefined>> /\ SubRef' = SubRef /\ ~undefined
  BY DEF CtBonjour_Delete, SubRef, Field
<1>2. Live' = Live
  BY <1>1 DEF Live
<1>3. Handle'
  BY <1>1, <1>2 DEF CtBonjour_Delete, AppGoto, HeapInv, Handle
<1> QED
  BY <1>1, <1>3, AppKeepsHeap

LEMMA HeapInductive == HeapInv /\ [Next]_vars => HeapInv'
<1> SUFFICES ASSUME HeapInv, [Next]_vars PROVE HeapInv'
  OBVIOUS
<1>1. ControlInv'
  BY ControlInductive DEF HeapInv
<1>2. CASE App
  BY <1>1, <1>2, DiscoveryHeap, StopHeap, AfterStopHeap, DeleteHeap DEF App, Stop
<1>3. CASE Event
  BY <1>1, <1>3, EventHeap
<1>4. CASE Daemon
  BY <1>1, <1>4, DaemonHeap
<1>5. CASE UNCHANGED vars
  BY <1>1, <1>5
  DEF vars, HeapInv, Heap, Handle, Held, Routes, Known, Live, Listed, SubRef, Field
<1> QED
  BY <1>2, <1>3, <1>4, <1>5 DEF Next, AnythingGoes

LEMMA InitHeap == Init => HeapInv
<1> SUFFICES ASSUME Init PROVE HeapInv
  OBVIOUS
<1>1. ControlInv
  BY InitControl
<1>2. Allocated(op) = {}
  BY DEF Init, Allocated, Freed
<1>3. obj.shareRef = NoOp /\ ~obj.started /\ ~Live
  BY <1>2 DEF Init, Constructed, Live
<1>4. ~conn.open /\ ~conn.peer /\ conn.served = {} /\ DOMAIN conn.queue = {}
  BY NoConnectionFields DEF Init
<1>5. Heap /\ Held /\ Routes
  BY <1>2, <1>3, <1>4 DEF Heap, Held, Routes
<1>6. Handle
  BY <1>3, <1>4 DEF Init, Handle
<1> QED
  BY <1>1, <1>5, <1>6 DEF HeapInv

LEMMA HeapHolds == Spec => []HeapInv
  BY InitHeap, HeapInductive, PTL DEF Spec

(* A thread uses what was freed only while a Stop is in progress: no error  *)
(* path, late reply or dead daemon leads the program to an operation that   *)
(* is gone.                                                                 *)
THEOREM UndefinedNeedsStop == Spec => []UndefinedOnlyInStop
<1>1. HeapInv => UndefinedOnlyInStop
  BY DEF HeapInv, Handle, UndefinedOnlyInStop
<1> QED
  BY <1>1, HeapHolds, PTL

(* With no connection and no call in progress, every operation of the       *)
(* library has been freed and the socket is closed.                         *)
THEOREM NoLeak == Spec => []NothingLeaks
<1>1. HeapInv => NothingLeaks
  <2> SUFFICES ASSUME HeapInv, obj.shareRef = NoOp PROVE Allocated(op) = {} /\ ~conn.open
    BY DEF NothingLeaks
  <2>1. ~Live
    BY OpsAssumption DEF Live, Allocated
  <2> QED
    BY <2>1, NotLive
<1> QED
  BY <1>1, HeapHolds, PTL

(* A reply is dispatched to one operation, and to the one whose request it  *)
(* answers.                                                                 *)
THEOREM RepliesRouted == Spec => []RepliesReachTheirOp
<1>1. HeapInv => RepliesReachTheirOp
  <2> SUFFICES ASSUME HeapInv, ev.pc = "dispatch", ~IsFreed(ev.ref)
               PROVE  \E o \in Ops : /\ Addressees(op, ev.ref, ev.msg.uid) = {o}
                                    /\ ev.msg.type \in ReplyTypes(op[o].kind)
    BY DEF RepliesReachTheirOp
  <2>1. ev.ref \in Allocated(op)
    BY OpsAssumption DEF HeapInv, ControlInv, References, IsFreed, Allocated
  <2>2. Live
    BY <2>1 DEF HeapInv, Heap
  <2>3. ev.ref = obj.shareRef /\ Listed \subseteq Ops
    BY <2>2 DEF HeapInv, Held, ControlInv, TypeOK, ServiceOp, Live, Allocated, Listed
  <2>4. PICK o \in Listed : op[o].uid = ev.msg.uid /\ ev.msg.type \in ReplyTypes(op[o].kind)
    BY <2>2 DEF HeapInv, Routes
  <2>5. \A q \in Listed : op[q].uid = ev.msg.uid => q = o
    BY <2>2, <2>4 DEF HeapInv, Routes
  <2>6. Addressees(op, ev.ref, ev.msg.uid) = {o}
    BY <2>3, <2>4, <2>5 DEF Addressees, Listed
  <2> QED
    BY <2>3, <2>4, <2>6
<1> QED
  BY <1>1, HeapHolds, PTL
=============================================================================

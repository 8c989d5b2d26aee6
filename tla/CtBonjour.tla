----------------------------- MODULE CtBonjour -----------------------------
(***************************************************************************)
(* CtBonjour (src/CtBonjour/src/CtBonjour.c): browse for services, resolve *)
(* each one found, and look up the address of each one resolved.  The      *)
(* application thread starts and stops the discovery; the event thread it  *)
(* creates selects on the connection to the daemon and calls the reply     *)
(* functions, which make requests of their own on the same connection.     *)
(* Neither thread takes a lock.                                            *)
(*                                                                         *)
(* A step of a thread reads or writes the shared objects once.  Using an   *)
(* object that has been freed is undefined: either the poison left by      *)
(* FreeDNSServiceOp is still there and the library's validity check        *)
(* notices, or anything may happen, which sets undefined and ends the      *)
(* behaviour.                                                              *)
(***************************************************************************)
EXTENDS DnsSdClient, CtThread, Sequences, FiniteSets

CONSTANTS
  EventThread,     \* the identity of the event thread
  CreateMayFail,   \* pthread_create may fail
  DaemonMayDie,    \* the daemon may crash, and be restarted
  RequestMayFail,  \* the daemon may refuse a request; malloc or socketpair
                   \* may fail in the library
  MaxQueue,        \* the bound on the replies waiting in the socket
  MaxUid           \* the bound on the requests made on one connection

ASSUME BonjourAssumption ==
  /\ EventThread # NoThread
  /\ CreateMayFail \in BOOLEAN /\ DaemonMayDie \in BOOLEAN
  /\ RequestMayFail \in BOOLEAN
  /\ MaxQueue \in Nat /\ MaxUid \in Nat

VARIABLES
  app,       \* where the application thread is inside the API
  deleting,  \* the call it is in is CtBonjour_Delete
  obj,       \* the CtBonjour object
  freed,     \* CtBonjour_Delete has freed it
  thread,    \* its CtThread
  op,        \* the library's heap
  conn,      \* the connection's socket, and what the daemon knows of it
  up,        \* the daemon is running
  ev,        \* the event thread: where it is, and its local variables
  undefined  \* a thread has used what the other one freed

vars == <<app, deleting, obj, freed, thread, op, conn, up, ev, undefined>>
appVars == <<app, deleting, freed, thread>>

(* Where a thread is; none is anywhere once undefined is set.              *)
AppAt(pc) == ~undefined /\ app = pc
EventAt(pc) == ~undefined /\ ev.pc = pc

(* Stop's steps, in order, from "test" to "wait".                          *)
StopPC == {"test", "more", "clear", "close", "free", "null", "flag", "join", "wait"}
AppPC == {"idle", "browse", "undo", "create", "delete"} \cup StopPC

(* The event thread in event_loop and event_poll, ...                      *)
LoopPC == {"head", "poll", "sockfd", "select", "load"}
(* ... in DNSServiceProcessResult, ...                                     *)
ProcessPC == {"process", "recv", "dispatch", "after"}
(* ... and in a request made from a reply function.                        *)
RequestPC == {"assign", "connect", "deliver", "answer", "deallocate"}
EventPC == {"none", "exited"} \cup LoopPC \cup ProcessPC \cup RequestPC

NoReply == [uid |-> 0, type |-> "none"]

(* ref is the shareRef event_poll loaded, more is morebytes, msg the reply *)
(* being dispatched, call the request its reply function makes.            *)
At(pc) == [pc |-> pc, ref |-> NoOp, more |-> FALSE, msg |-> NoReply, call |-> "none"]

Refs == Ops \cup {NoOp}

Object ==
  [shareRef : Refs, browseRef : Refs, resolveRef : Refs, resolveAddrRef : Refs,
   started : BOOLEAN, shouldExit : BOOLEAN]

Connection ==
  [open : BOOLEAN, peer : BOOLEAN, queue : Seq(Reply), served : SUBSET Request]

EventState ==
  [pc : EventPC, ref : Refs, more : BOOLEAN, msg : Reply \cup {NoReply},
   call : {"none", "resolve", "addrinfo"}]

TypeOK ==
  /\ app \in AppPC
  /\ deleting \in BOOLEAN /\ freed \in BOOLEAN
  /\ obj \in Object
  /\ thread \in ThreadObject({EventThread})
  /\ op \in [Ops -> ServiceOp]
  /\ conn \in Connection
  /\ up \in BOOLEAN
  /\ ev \in EventState
  /\ undefined \in BOOLEAN

Constructed ==
  [shareRef |-> NoOp, browseRef |-> NoOp, resolveRef |-> NoOp,
   resolveAddrRef |-> NoOp, started |-> FALSE, shouldExit |-> FALSE]

NoConnection == [open |-> FALSE, peer |-> FALSE, queue |-> <<>>, served |-> {}]

Init ==
  /\ app = "idle" /\ deleting = FALSE
  /\ obj = Constructed /\ freed = FALSE
  /\ thread = CtThread_Construct
  /\ op = [o \in Ops |-> Freed]
  /\ conn = NoConnection
  /\ up = TRUE
  /\ ev = At("none")
  /\ undefined = FALSE

-----------------------------------------------------------------------------
(* The daemon, which is external.                                          *)

Serve(c, uid, kind) == [c EXCEPT !.served = @ \cup {[uid |-> uid, kind |-> kind]}]

(* The bound MaxUid: no reply that leads to a request is sent beyond it.   *)
DaemonReply ==
  /\ ~undefined /\ up /\ conn.peer /\ Len(conn.queue) < MaxQueue
  /\ \E r \in conn.served : \E type \in ReplyTypes(r.kind) :
       /\ type \in {"add", "resolved"} =>
            \A o \in Ops : op[o].uid + Len(conn.queue) < MaxUid
       /\ conn' = [conn EXCEPT !.queue = Append(@, [uid |-> r.uid, type |-> type])]
  /\ UNCHANGED <<appVars, obj, op, up, ev, undefined>>

DaemonDies ==
  /\ ~undefined /\ DaemonMayDie /\ up
  /\ up' = FALSE
  /\ conn' = [conn EXCEPT !.peer = FALSE, !.served = {}]
  /\ UNCHANGED <<appVars, obj, op, ev, undefined>>

DaemonRestarts ==
  /\ ~undefined /\ ~up
  /\ up' = TRUE
  /\ UNCHANGED <<appVars, obj, op, conn, ev, undefined>>

-----------------------------------------------------------------------------
(* The application thread: CtBonjour_DiscoverService.                      *)

Free == Ops \ Allocated(op)

(* DNSServiceCreateConnection, unless the discovery was started before;    *)
(* then the result is CT_RET_E_STARTED.  On an error the library frees     *)
(* what it had allocated and leaves NULL.                                  *)
CtBonjour_DiscoverService ==
  /\ AppAt("idle") /\ ~freed /\ ~obj.started
  /\ \/ /\ up
        /\ \E o \in Free :
             /\ op' = ConnectPrimary(op, o)
             /\ obj' = [obj EXCEPT !.shareRef = o]
        /\ conn' = [NoConnection EXCEPT !.open = TRUE, !.peer = TRUE]
        /\ app' = "browse"
     \/ /\ ~up \/ RequestMayFail
        /\ obj' = [obj EXCEPT !.shareRef = NoOp]
        /\ UNCHANGED <<app, op, conn>>
  /\ UNCHANGED <<deleting, freed, thread, up, ev, undefined>>

(* DNSServiceBrowse on a copy of shareRef.  Whichever of its steps fails,  *)
(* the operation it had added is gone and browseRef is NULL.               *)
CtBonjour_Browse ==
  /\ AppAt("browse")
  /\ \/ /\ conn.peer
        /\ \E o \in Free :
             /\ op' = ConnectShared(op, obj.shareRef, o, "browse")
             /\ obj' = [obj EXCEPT !.browseRef = o]
             /\ conn' = Serve(conn, op'[o].uid, "browse")
        /\ app' = "create"
     \/ /\ ~conn.peer \/ RequestMayFail
        /\ \E o \in Free :
             op' = DeallocateSubordinate(ConnectShared(op, obj.shareRef, o, "browse"), o)
        /\ obj' = [obj EXCEPT !.browseRef = NoOp]
        /\ app' = "undo"
        /\ UNCHANGED conn
     \/ /\ RequestMayFail
        /\ obj' = [obj EXCEPT !.browseRef = NoOp]
        /\ app' = "undo"
        /\ UNCHANGED <<op, conn>>
  /\ UNCHANGED <<deleting, freed, thread, up, ev, undefined>>

(* After a failed DNSServiceBrowse.                                        *)
CtBonjour_Undo ==
  /\ AppAt("undo")
  /\ op' = DeallocatePrimary(op, obj.shareRef)
  /\ conn' = NoConnection
  /\ obj' = [obj EXCEPT !.shareRef = NoOp]
  /\ app' = "idle"
  /\ UNCHANGED <<deleting, freed, thread, up, ev, undefined>>

(* CtThread_Initialize, the flags, then CtThread_Start, whose result is    *)
(* not looked at.                                                          *)
CtBonjour_CreateThread ==
  /\ AppAt("create")
  /\ obj' = [obj EXCEPT !.started = TRUE, !.shouldExit = FALSE]
  /\ \/ /\ ev' = At("head")
        /\ thread' = CtThread_Start(CtThread_Initialize(thread), EventThread)
     \/ /\ CreateMayFail
        /\ thread' = CtThread_Start(CtThread_Initialize(thread), NoThread)
        /\ UNCHANGED ev
  /\ app' = "idle"
  /\ UNCHANGED <<deleting, freed, op, conn, up, undefined>>

-----------------------------------------------------------------------------
(* The application thread: CtBonjour_StopServiceDiscovery, _Delete, _New.  *)
(* started is never reset: a second Stop goes through the same steps, and  *)
(* finds nothing to deallocate and nothing to join.                        *)

AppGoto(pc) == app' = pc

CtBonjour_StopServiceDiscovery ==
  /\ AppAt("idle") /\ ~freed /\ obj.started
  /\ app' = "test"
  /\ UNCHANGED <<deleting, obj, freed, thread, op, conn, up, ev, undefined>>

StopTest ==
  /\ AppAt("test")
  /\ AppGoto(IF obj.shareRef # NoOp THEN "more" ELSE "flag")
  /\ UNCHANGED <<deleting, obj, freed, thread, op, conn, up, ev, undefined>>

(* DNSServiceRefDeallocate(shareRef) looks at moreptr, ...                 *)
StopMore ==
  /\ AppAt("more")
  /\ AppGoto(IF op[obj.shareRef].more THEN "clear" ELSE "close")
  /\ UNCHANGED <<deleting, obj, freed, thread, op, conn, up, ev, undefined>>

(* ... and clears the event thread's morebytes through it.  If the event   *)
(* thread has reset moreptr meanwhile, this writes to a dead variable or   *)
(* through NULL.                                                           *)
StopClear ==
  /\ AppAt("clear")
  /\ AppGoto("close")
  /\ IF op[obj.shareRef].more
     THEN ev' = [ev EXCEPT !.more = FALSE] /\ UNCHANGED undefined
     ELSE undefined' \in BOOLEAN /\ UNCHANGED ev
  /\ UNCHANGED <<deleting, obj, freed, thread, op, conn, up>>

StopClose ==
  /\ AppAt("close")
  /\ AppGoto("free")
  /\ conn' = NoConnection
  /\ UNCHANGED <<deleting, obj, freed, thread, op, up, ev, undefined>>

StopFree ==
  /\ AppAt("free")
  /\ AppGoto("null")
  /\ op' = DeallocatePrimary(op, obj.shareRef)
  /\ UNCHANGED <<deleting, obj, freed, thread, conn, up, ev, undefined>>

StopNull ==
  /\ AppAt("null")
  /\ AppGoto("flag")
  /\ obj' = [obj EXCEPT !.shareRef = NoOp]
  /\ UNCHANGED <<deleting, freed, thread, op, conn, up, ev, undefined>>

(* Mutant: the event thread is not told to exit.                           *)
StopFlagForgotten ==
  /\ AppAt("flag")
  /\ AppGoto("join")
  /\ UNCHANGED <<deleting, obj, freed, thread, op, conn, up, ev, undefined>>

StopFlag ==
  /\ AppAt("flag")
  /\ AppGoto("join")
  /\ obj' = [obj EXCEPT !.shouldExit = TRUE]
  /\ UNCHANGED <<deleting, freed, thread, op, conn, up, ev, undefined>>

Return == AppGoto(IF deleting THEN "delete" ELSE "idle")

StopJoin ==
  /\ AppAt("join")
  /\ IF MustJoin(thread) THEN AppGoto("wait") ELSE Return
  /\ UNCHANGED <<deleting, obj, freed, thread, op, conn, up, ev, undefined>>

(* Mutant: a join that does not wait.                                      *)
StopWaitNot ==
  /\ AppAt("wait")
  /\ thread' = CtThread_Joined(thread, JoinTarget(thread))
  /\ Return
  /\ UNCHANGED <<deleting, obj, freed, op, conn, up, ev, undefined>>

StopWait ==
  /\ AppAt("wait")
  /\ JoinTarget(thread) # NoThread => ev.pc = "exited"
  /\ ev' = At("none")
  /\ thread' = CtThread_Joined(thread, JoinTarget(thread))
  /\ Return
  /\ UNCHANGED <<deleting, obj, freed, op, conn, up, undefined>>

(* CtBonjour_Delete stops the discovery first.                             *)
CtBonjour_Delete ==
  /\ AppAt("idle") /\ ~freed
  /\ deleting' = TRUE
  /\ AppGoto(IF obj.started THEN "test" ELSE "delete")
  /\ UNCHANGED <<obj, freed, thread, op, conn, up, ev, undefined>>

(* CtThread_Delete, which joins once more, and the object's own memory.    *)
DeleteObject ==
  /\ AppAt("delete")
  /\ MustJoin(thread) /\ JoinTarget(thread) # NoThread => ev.pc = "exited"
  /\ freed' = TRUE /\ deleting' = FALSE
  /\ AppGoto("idle")
  /\ UNCHANGED <<obj, thread, op, conn, up, ev, undefined>>

CtBonjour_New ==
  /\ ~undefined /\ freed
  /\ freed' = FALSE
  /\ obj' = Constructed
  /\ thread' = CtThread_Construct
  /\ UNCHANGED <<app, deleting, op, conn, up, ev, undefined>>

-----------------------------------------------------------------------------
(* The event thread: event_loop and event_poll.                            *)

Goto(pc) == ev' = [ev EXCEPT !.pc = pc]

IsFreed(o) == o # NoOp /\ op[o].kind = "free"

LoopHead ==
  /\ EventAt("head")
  /\ ev' = At(IF obj.shouldExit THEN "exited" ELSE "poll")
  /\ UNCHANGED <<appVars, obj, op, conn, up, undefined>>

(* *ref is read for DNSServiceRefSockFD, and read again for                *)
(* DNSServiceProcessResult.                                                *)
LoadRef(from, to) ==
  /\ EventAt(from)
  /\ ev' = [ev EXCEPT !.pc = to, !.ref = obj.shareRef]
  /\ UNCHANGED <<appVars, obj, op, conn, up, undefined>>

(* Without a valid reference the descriptor is -1.  FD_SET of it is        *)
(* undefined; where it does no harm, select sleeps out its timeout.        *)
SockFD ==
  /\ EventAt("sockfd")
  /\ IF ev.ref \in Allocated(op)
     THEN Goto("select") /\ UNCHANGED undefined
     ELSE Goto("head") /\ undefined' \in BOOLEAN
  /\ UNCHANGED <<appVars, obj, op, conn, up>>

Readable == conn.queue # <<>> \/ ~conn.peer

(* Closing the descriptor neither wakes select nor keeps what the daemon   *)
(* still sends from doing so.                                              *)
SelectReadable ==
  /\ EventAt("select") /\ Readable
  /\ Goto("load")
  /\ UNCHANGED <<appVars, obj, op, conn, up, undefined>>

(* A timeout, or an error because the descriptor is closed.                *)
SelectTimeout ==
  /\ EventAt("select") /\ (~conn.open \/ ~Readable)
  /\ ev' = At("head")
  /\ UNCHANGED <<appVars, obj, op, conn, up, undefined>>

-----------------------------------------------------------------------------
(* The event thread: DNSServiceProcessResult.                              *)

(* Its argument checks.  event_loop takes none of the errors for one:      *)
(* they are all negative, and it tests err > 0.                            *)
ProcessResult ==
  /\ EventAt("process")
  /\ \/ /\ ev.ref = NoOp
        /\ Goto("head") /\ UNCHANGED undefined
     \/ /\ IsFreed(ev.ref)
        /\ Goto("head") /\ undefined' \in BOOLEAN
     \/ /\ ev.ref \in Allocated(op)
        /\ Goto(IF op[ev.ref].reply THEN "recv" ELSE "head") /\ UNCHANGED undefined
  /\ UNCHANGED <<appVars, obj, op, conn, up>>

(* One turn of its loop up to the call of ProcessReply.  read_all fails    *)
(* on a closed descriptor or at the end of the stream, and the connection  *)
(* is then marked dead by a null ProcessReply.                             *)
Recv ==
  /\ EventAt("recv")
  /\ \/ /\ IsFreed(ev.ref)
        /\ Goto("head") /\ undefined' \in BOOLEAN
        /\ UNCHANGED <<op, conn>>
     \/ /\ ~IsFreed(ev.ref) /\ (~conn.open \/ (conn.queue = <<>> /\ ~conn.peer))
        /\ op' = [op EXCEPT ![ev.ref].reply = FALSE]
        /\ ev' = At("head")
        /\ UNCHANGED <<conn, undefined>>
     \/ /\ ~IsFreed(ev.ref) /\ conn.open /\ conn.queue # <<>>
        /\ LET more == Len(conn.queue) > 1 \/ ~conn.peer IN
             /\ ev' = [ev EXCEPT !.pc = "dispatch", !.msg = Head(conn.queue), !.more = more]
             /\ op' = [op EXCEPT ![ev.ref].more = more]
        /\ conn' = [conn EXCEPT !.queue = Tail(@)]
        /\ UNCHANGED undefined
  /\ UNCHANGED <<appVars, obj, up>>

(* The request each reply function makes: browse_reply resolves a service  *)
(* that was added, resolve_reply looks up the address of its host.         *)
CallOf(type) ==
  CASE type = "add" -> "resolve"
    [] type = "resolved" -> "addrinfo"
    [] OTHER -> "none"

(* ConnectionResponse finds the operation the reply is for, if it is still *)
(* there, and its ProcessReply calls the reply function.                   *)
Dispatch ==
  LET found == Addressees(op, ev.ref, ev.msg.uid)
      call == IF found = {} THEN "none" ELSE CallOf(ev.msg.type)
  IN
  /\ EventAt("dispatch")
  /\ IF IsFreed(ev.ref) \/ \E o \in op[ev.ref].subs : IsFreed(o)
     THEN undefined' = TRUE /\ UNCHANGED ev
     ELSE /\ ev' = [ev EXCEPT !.pc = IF call = "none" THEN "after" ELSE "assign",
                              !.call = call]
          /\ UNCHANGED undefined
  /\ UNCHANGED <<appVars, obj, op, conn, up>>

(* Mutant: the loop ends after the first reply.                            *)
AfterCallbackOnce ==
  /\ EventAt("after")
  /\ ev' = At("exited")
  /\ UNCHANGED <<appVars, obj, op, conn, up, undefined>>

(* The end of the turn.  If morebytes was set and is still set, moreptr is *)
(* reset, and there is another turn.                                       *)
AfterCallback ==
  /\ EventAt("after")
  /\ IF ~ev.more
     THEN ev' = At("head") /\ UNCHANGED <<op, undefined>>
     ELSE IF IsFreed(ev.ref)
     THEN ev' = At("head") /\ undefined' \in BOOLEAN /\ UNCHANGED op
     ELSE /\ op' = [op EXCEPT ![ev.ref].more = FALSE]
          /\ ev' = [At("recv") EXCEPT !.ref = ev.ref]
          /\ UNCHANGED undefined
  /\ UNCHANGED <<appVars, obj, conn, up>>

-----------------------------------------------------------------------------
(* The event thread: DNSServiceResolve or DNSServiceGetAddrInfo, called by *)
(* browse_reply or resolve_reply, which ignore its result.  Field is the   *)
(* member of the object whose address is passed.                           *)

Field == IF ev.call = "resolve" THEN "resolveRef" ELSE "resolveAddrRef"
SubRef == obj[Field]

SetField(o) == obj' = [obj EXCEPT ![Field] = o]

(* thiz->resolveRef = thiz->shareRef, and alike.                           *)
AssignRef ==
  /\ EventAt("assign")
  /\ SetField(obj.shareRef)
  /\ Goto("connect")
  /\ UNCHANGED <<appVars, op, conn, up, undefined>>

(* ConnectToServer.                                                        *)
ConnectRef ==
  /\ EventAt("connect")
  /\ \/ /\ SubRef = NoOp
        /\ Goto("after") /\ UNCHANGED <<obj, op, undefined>>
     \/ /\ IsFreed(SubRef)
        /\ SetField(NoOp) /\ undefined' \in BOOLEAN
        /\ Goto("after") /\ UNCHANGED op
     \/ /\ SubRef \in Allocated(op)
        /\ RequestMayFail \/ Free = {}
        /\ SetField(NoOp)
        /\ Goto("after") /\ UNCHANGED <<op, undefined>>
     \/ /\ SubRef \in Allocated(op)
        /\ \E o \in Free :
             op' = ConnectShared(op, SubRef, o, ev.call) /\ SetField(o)
        /\ Goto("deliver") /\ UNCHANGED undefined
  /\ UNCHANGED <<appVars, conn, up>>

(* create_hdr, and deliver_request until it waits for the daemon's answer. *)
Deliver ==
  /\ EventAt("deliver")
  /\ IF IsFreed(SubRef)
     THEN Goto("deallocate") /\ undefined' \in BOOLEAN
     ELSE /\ \/ conn.peer /\ Goto("answer")
             \/ (~conn.peer \/ RequestMayFail) /\ Goto("deallocate")
          /\ UNCHANGED undefined
  /\ UNCHANGED <<appVars, obj, op, conn, up>>

(* The daemon answers on the socket made for the purpose, or that socket   *)
(* is closed because the daemon died or the connection went.  The library  *)
(* does not look at sdr again.                                             *)
Answer ==
  /\ EventAt("answer")
  /\ \/ /\ conn.peer
        /\ conn' = Serve(conn, op[SubRef].uid, ev.call)
        /\ Goto("after")
     \/ /\ ~conn.open
        /\ Goto("after") /\ UNCHANGED conn
     \/ /\ ~conn.peer \/ RequestMayFail
        /\ Goto("deallocate") /\ UNCHANGED conn
  /\ UNCHANGED <<appVars, obj, op, up, undefined>>

(* After an error: the operation is deallocated, and the field set to NULL. *)
DeallocateRef ==
  /\ EventAt("deallocate")
  /\ IF IsFreed(SubRef)
     THEN undefined' \in BOOLEAN /\ UNCHANGED op
     ELSE op' = DeallocateSubordinate(op, SubRef) /\ UNCHANGED undefined
  /\ SetField(NoOp)
  /\ Goto("after")
  /\ UNCHANGED <<appVars, conn, up>>

-----------------------------------------------------------------------------
Stop ==
  \/ StopTest \/ StopMore \/ StopClear \/ StopClose \/ StopFree
  \/ StopNull \/ StopFlag \/ StopJoin \/ StopWait

App ==
  \/ CtBonjour_DiscoverService \/ CtBonjour_Browse \/ CtBonjour_Undo
  \/ CtBonjour_CreateThread
  \/ CtBonjour_StopServiceDiscovery \/ Stop
  \/ CtBonjour_Delete \/ DeleteObject \/ CtBonjour_New

SubordinateRequest ==
  \/ AssignRef \/ ConnectRef \/ Deliver \/ Answer \/ DeallocateRef

Event ==
  \/ LoopHead
  \/ LoadRef("poll", "sockfd") \/ SockFD
  \/ SelectReadable \/ SelectTimeout
  \/ LoadRef("load", "process") \/ ProcessResult
  \/ Recv \/ Dispatch \/ AfterCallback
  \/ SubordinateRequest

Daemon == DaemonReply \/ DaemonDies \/ DaemonRestarts

(* What follows is not modelled.                                           *)
AnythingGoes == undefined /\ UNCHANGED vars

Next == App \/ Event \/ Daemon \/ AnythingGoes

Spec == Init /\ [][Next]_vars

(* Threads run, select times out, and a running daemon answers a request.  *)
(* Nobody needs to call the API, nor the daemon to report a service.       *)
Fairness == WF_vars(Stop \/ DeleteObject) /\ WF_vars(Event)

FairSpec == Spec /\ Fairness

-----------------------------------------------------------------------------
(* Properties.                                                             *)

(* A thread uses what the other has freed only while a Stop is in          *)
(* progress: the error paths of Discover and of the requests made from the *)
(* reply functions, replies that come late, and a dead daemon never lead   *)
(* the program to an operation that is gone.                               *)
UndefinedOnlyInStop == undefined => app \in StopPC

(* With no call in progress and no connection, nothing of the library is   *)
(* left: whichever requests had been made, and whichever of them failed,   *)
(* each operation was freed with the connection, and the socket closed.    *)
NothingLeaks == app = "idle" /\ obj.shareRef = NoOp => Allocated(op) = {} /\ ~conn.open

(* The promise of Stop and Delete: once either has returned, no reply      *)
(* function runs and no thread is left that could touch the object.        *)
QuiescentAfterStop ==
  app = "idle" /\ (freed \/ obj.shareRef = NoOp) => ev.pc \in {"none", "exited"}

(* A reply is dispatched to one operation, and to the one whose request it *)
(* answers: uids are never shared, and an operation that may still be      *)
(* replied to is never unlinked.                                           *)
RepliesReachTheirOp ==
  ev.pc = "dispatch" /\ ~IsFreed(ev.ref) =>
    \E o \in Ops : /\ Addressees(op, ev.ref, ev.msg.uid) = {o}
                  /\ ev.msg.type \in ReplyTypes(op[o].kind)

(* moreptr points to the morebytes of a DNSServiceProcessResult that has   *)
(* not returned, so that a later Deallocate cannot write to a dead stack   *)
(* variable; a Deallocate that has cleared morebytes leaves it set, but    *)
(* frees it.                                                               *)
NoStrayMoreptr ==
  app \notin StopPC =>
    \A o \in Ops : op[o].more => ev.ref = o /\ ev.more /\ ev.pc \in ProcessPC \cup RequestPC

(* Stop returns, whatever the event thread is doing and whether or not the *)
(* daemon is alive, unless the race between the two goes wrong.            *)
StopReturns == (app = "test") ~> (app \in {"idle", "delete"} \/ undefined)

(* A reply waiting in the socket is dispatched, unless a Stop comes first; *)
(* a daemon that dies takes back nothing it has sent.                      *)
RepliesDispatched ==
  (conn.queue # <<>> /\ app = "idle") ~> (ev.pc = "dispatch" \/ app # "idle" \/ undefined)

(* "it is the client's responsibility to use a mutext lock or take similar *)
(* appropriate precautions to serialize those calls": the application      *)
(* thread does not deallocate the connection while the event thread is in  *)
(* a call on it.                                                           *)
SerializedCalls ==
  ~(/\ app \in {"more", "clear", "close", "free"}
    /\ ev.pc \in {"sockfd"} \cup ProcessPC \cup RequestPC)

(* DNSServiceProcessResult "returns an error code indicating the specific  *)
(* failure": when it has failed because the daemon is gone, the event loop *)
(* ends, as its test of err intends.                                       *)
FailureEndsLoop ==
  (\E o \in Ops : op[o].kind = "connection" /\ ~op[o].reply)
    ~> (ev.pc \in {"none", "exited"} \/ undefined)
=============================================================================

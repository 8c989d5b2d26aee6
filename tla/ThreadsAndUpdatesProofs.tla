----------------------- MODULE ThreadsAndUpdatesProofs -----------------------
(* Proofs about CtTimer, after them about CtCondition, which MCThreads puts  *)
(* together, about the sleeps of the timer's loop (CtTimerDrift), and, from  *)
(* the folds on, about DnsUpdate: what is taken for registered is what the   *)
(* zone holds.                                                               *)
EXTENDS CtTimer, CtCondition, CtTimerDrift, DnsUpdate, FiniteSetTheorems, WellFoundedInduction, TLAPS

LEMMA SendType ==
  ASSUME NEW q \in Seq(IpcMsgType)
  PROVE  CtSocketIpc_Send(q, "STOP") \in Seq(IpcMsgType)
  BY RcvBufAssumption DEF CtSocketIpc_Send, IpcMsgType

LEMMA ThreadTypes ==
  ASSUME NEW t \in ThreadObject(Loops), NEW x \in Loops \cup {NoThread}
  PROVE  /\ CtThread_Initialize(t) \in ThreadObject(Loops)
         /\ CtThread_Start(t, x) \in ThreadObject(Loops)
         /\ CtThread_Joined(t, x) \in ThreadObject(Loops)
         /\ JoinTarget(t) \in Loops \cup {NoThread}
  BY DEF ThreadObject, ThreadStatus, CtThread_Initialize, CtThread_Start,
         CtThread_Joined, JoinTarget

LEMMA EmptyQueue == <<>> \in Seq(IpcMsgType)
  OBVIOUS

LEMMA ReceiveType ==
  ASSUME NEW q \in Seq(IpcMsgType), q # <<>>
  PROVE  Tail(q) \in Seq(IpcMsgType)
  OBVIOUS

LEMMA NewThread == CtThread_Construct \in ThreadObject(Loops)
  BY DEF CtThread_Construct, ThreadObject, ThreadStatus

LEMMA InitTypes == Init => TypeOK
<1> SUFFICES ASSUME Init PROVE TypeOK
  OBVIOUS
<1>1. ipc \in Seq(IpcMsgType) /\ thread \in ThreadObject(Loops)
  BY EmptyQueue, NewThread DEF Init
<1>2. iter \in [Loops -> Nat]
  BY DEF Init
<1>3. pc \in [Loops -> LoopPC]
  BY DEF Init, LoopPC
<1>4. forever \in [Loops -> BOOLEAN] /\ target \in [Loops -> Loops \cup {NoThread}]
  BY DEF Init
<1> QED
  BY <1>1, <1>2, <1>3, <1>4 DEF Init, TypeOK, AppPC

LEMMA IterationTypes ==
  ASSUME TypeOK, NEW l \in Loops, NextIteration(l)
  PROVE  iter' \in [Loops -> Nat] /\ pc' \in [Loops -> LoopPC]
<1>1. iter[l] + 1 \in Nat
  BY DEF TypeOK
<1>2. CASE forever[l]
  BY <1>2 DEF TypeOK, NextIteration, Goto, LoopPC
<1>3. CASE ~forever[l]
  <2>1. iter' = [iter EXCEPT ![l] = iter[l] + 1]
    BY <1>3 DEF NextIteration
  <2>2. iter' \in [Loops -> Nat]
    BY <1>1, <2>1 DEF TypeOK
  <2> QED
    BY <2>2 DEF TypeOK, NextIteration, Goto, LoopPC
<1> QED
  BY <1>2, <1>3

(* Type correctness is inductive on its own, whatever the client does.     *)
LEMMA TypeInductive == TypeOK /\ [Next]_vars => TypeOK'
<1> SUFFICES ASSUME TypeOK, [Next]_vars
             PROVE  TypeOK'
  OBVIOUS
<1> USE LoopsAssumption, TimesAssumption
    DEF TypeOK, appVars, loopVars, AppPC, LoopPC, Goto
<1>1. ASSUME NEW n \in Times, CtTimer_Initialize(n) PROVE TypeOK'
  BY <1>1 DEF CtTimer_Initialize
<1>2. CASE CtTimer_Start
  BY <1>2, ThreadTypes DEF CtTimer_Start
<1>3. CASE CtTimer_Create
  <2>1. \A x \in Loops \cup {NoThread} : CtThread_Start(thread, x) \in ThreadObject(Loops)
    BY ThreadTypes
  <2>2. thread' \in ThreadObject(Loops)
    BY <1>3, <2>1 DEF CtTimer_Create
  <2> QED
    BY <1>3, <2>2 DEF CtTimer_Create
<1>4. CASE CtTimer_Started
  BY <1>4 DEF CtTimer_Started
<1>5. CASE CtTimer_Stop
  BY <1>5 DEF CtTimer_Stop
<1>6. CASE CtTimer_StopLoop
  BY <1>6, SendType DEF CtTimer_StopLoop, SendStop
<1>7. CASE CtTimer_StopJoin
  BY <1>7, ThreadTypes DEF CtTimer_StopJoin
<1>8. CASE CtTimer_StopWait
  <2>1. thread' \in ThreadObject(Loops)
    BY <1>8, ThreadTypes DEF CtTimer_StopWait
  <2> QED
    BY <1>8, <2>1 DEF CtTimer_StopWait, Release
<1>9. CASE CtTimer_Delete
  BY <1>9 DEF CtTimer_Delete
<1>10. CASE CtTimer_New
  BY <1>10, EmptyQueue, NewThread DEF CtTimer_New
<1>11. ASSUME NEW l \in Loops, Loop(l) PROVE TypeOK'
  <2>1. CASE EnterLoop(l)
    BY <2>1 DEF EnterLoop
  <2>2. CASE LoopHead(l)
    BY <2>2 DEF LoopHead
  <2>3. CASE SelectTimeout(l)
    BY <2>3 DEF SelectTimeout
  <2>4. CASE SelectReadable(l)
    BY <2>4 DEF SelectReadable
  <2>5. CASE SelectError(l)
    BY <2>5 DEF SelectError
  <2>6. CASE Recv(l)
    <3>1. ipc' \in Seq(IpcMsgType)
      BY <2>6, ReceiveType DEF Recv
    <3>2. iter' \in [Loops -> Nat] /\ pc' \in [Loops -> LoopPC]
      <4>1. CASE NextIteration(l)
        BY <4>1, IterationTypes
      <4>2. CASE Goto(l, "exited") /\ UNCHANGED iter
        BY <4>2
      <4> QED
        BY <2>6, <4>1, <4>2 DEF Recv
    <3> QED
      BY <2>6, <3>1, <3>2 DEF Recv
  <2>7. CASE CallListener(l)
    BY <2>7 DEF CallListener
  <2>8. CASE ListenerReturn(l)
    <3>1. CASE NextIteration(l)
      BY <2>8, <3>1, IterationTypes DEF ListenerReturn
    <3>2. CASE Goto(l, "exited") /\ UNCHANGED iter
      BY <2>8, <3>2 DEF ListenerReturn
    <3> QED
      BY <2>8, <3>1, <3>2 DEF ListenerReturn
  <2>9. CASE ListenerStop(l)
    BY <2>9 DEF ListenerStop
  <2>10. CASE ListenerStopLoop(l)
    BY <2>10, SendType DEF ListenerStopLoop, SendStop
  <2>11. CASE ListenerStopJoin(l)
    BY <2>11, ThreadTypes DEF ListenerStopJoin
  <2>12. CASE ListenerStopWait(l)
    <3>1. thread' \in ThreadObject(Loops)
      BY <2>12, ThreadTypes DEF ListenerStopWait
    <3>2. pc' \in [Loops -> LoopPC]
      BY <2>12 DEF ListenerStopWait, Release
    <3> QED
      BY <2>12, <3>1, <3>2 DEF ListenerStopWait
  <2> QED
    BY <1>11, <2>1, <2>2, <2>3, <2>4, <2>5, <2>6, <2>7, <2>8, <2>9, <2>10,
       <2>11, <2>12 DEF Loop
<1>12. CASE UNCHANGED vars
  BY <1>12 DEF vars
<1> QED
  BY <1>1, <1>2, <1>3, <1>4, <1>5, <1>6, <1>7, <1>8, <1>9, <1>10, <1>11, <1>12
  DEF Next, App

(* The state is well typed whatever the client does and whatever fails.    *)
THEOREM TypeCorrect == Spec => []TypeOK
  BY InitTypes, TypeInductive, PTL DEF Spec

-----------------------------------------------------------------------------
(* Why Stop leaves no loop behind: until it has been joined, a loop thread *)
(* is the one the timer's CtThread refers to, and the timer is running or  *)
(* in the middle of a Start or a Stop.                                     *)
OwnedLoop(l) ==
  /\ thread.status = "Running" /\ thread.handler = l
  /\ \/ is_running
     \/ app \in {"starting", "stopSend", "stopJoin"}
     \/ app = "stopWait" /\ appTarget = l

OwnershipInv ==
  /\ TypeOK
  /\ \A l \in Loops : pc[l] # "none" => OwnedLoop(l)
  /\ is_running => app = "idle"
  /\ freed => app = "idle" /\ ~is_running
  /\ \A l \in Loops : pc[l] \notin {"selfSend", "selfJoin", "selfWait"}

LEMMA OwnershipInductive ==
  ASSUME SelfStop = FALSE PROVE OwnershipInv /\ [Next]_vars => OwnershipInv'
<1> SUFFICES ASSUME OwnershipInv, [Next]_vars
             PROVE  OwnershipInv'
  OBVIOUS
<1>0. TypeOK'
  BY TypeInductive DEF OwnershipInv
<1>a. app \in {"idle", "create"} /\ ~is_running => \A l \in Loops : pc[l] = "none"
  BY DEF OwnershipInv, OwnedLoop
<1> USE <1>0, LoopsAssumption
    DEF OwnershipInv, OwnedLoop, TypeOK, appVars, loopVars, ThreadObject
<1>1. ASSUME NEW n \in Times, CtTimer_Initialize(n) PROVE OwnershipInv'
  BY <1>1 DEF CtTimer_Initialize
<1>2. CASE CtTimer_Start
  BY <1>2, <1>a DEF CtTimer_Start
<1>3. CASE CtTimer_Create
  <2>1. \A l \in Loops : pc[l] = "none"
    BY <1>3, <1>a DEF CtTimer_Create
  <2>2. ASSUME NEW l \in Loops,
               pc' = [pc EXCEPT ![l] = "enter"],
               thread' = CtThread_Start(thread, l)
        PROVE  OwnershipInv'
    BY <1>3, <2>1, <2>2 DEF CtTimer_Create, CtThread_Start
  <2>3. CASE pc' = pc
    BY <1>3, <2>1, <2>3 DEF CtTimer_Create
  <2> QED
    BY <1>3, <2>2, <2>3 DEF CtTimer_Create
<1>4. CASE CtTimer_Started
  BY <1>4 DEF CtTimer_Started
<1>5. CASE CtTimer_Stop
  BY <1>5 DEF CtTimer_Stop
<1>6. CASE CtTimer_StopLoop
  BY <1>6 DEF CtTimer_StopLoop
<1>7. CASE CtTimer_StopJoin
  BY <1>7 DEF CtTimer_StopJoin, MustJoin, JoinTarget
<1>8. CASE CtTimer_StopWait
  <2>1. LoopsWaiting = {}
    BY DEF LoopsWaiting
  <2>2. appTarget # NoThread => pc[appTarget] \in {"exited", "none"}
    BY <1>8, <2>1 DEF CtTimer_StopWait, JoinReturns
  <2>3. \A l \in Loops : pc[l] # "none" => l = appTarget
    BY <1>8 DEF CtTimer_StopWait
  <2>4. \A l \in Loops : pc'[l] = "none"
    BY <1>8, <2>2, <2>3 DEF CtTimer_StopWait, Release
  <2> QED
    BY <1>8, <2>4 DEF CtTimer_StopWait
<1>9. CASE CtTimer_Delete
  BY <1>9 DEF CtTimer_Delete
<1>10. CASE CtTimer_New
  BY <1>10, <1>a DEF CtTimer_New
<1>11. ASSUME NEW l \in Loops, Loop(l) PROVE OwnershipInv'
  <2>1. pc[l] # "none" /\ UNCHANGED appVars
    BY <1>11 DEF Loop, EnterLoop, LoopHead, SelectTimeout, SelectReadable,
       SelectError, Recv, CallListener, ListenerReturn, ListenerStop,
       ListenerStopLoop, ListenerStopJoin, ListenerStopWait
  <2>2. \E there \in {"head", "select", "recv", "tick", "listener", "exited"} :
          pc' = [pc EXCEPT ![l] = there]
    BY <1>11 DEF Loop, EnterLoop, LoopHead, SelectTimeout, SelectReadable,
       SelectError, Recv, CallListener, ListenerReturn, ListenerStop,
       ListenerStopLoop, ListenerStopJoin, ListenerStopWait, Goto, NextIteration
  <2> QED
    BY <2>1, <2>2
<1>12. CASE UNCHANGED vars
  BY <1>12 DEF vars
<1> QED
  BY <1>1, <1>2, <1>3, <1>4, <1>5, <1>6, <1>7, <1>8, <1>9, <1>10, <1>11, <1>12
  DEF Next, App

LEMMA Ownership == ASSUME SelfStop = FALSE PROVE Spec => []OwnershipInv
<1>1. Init => OwnershipInv
  BY InitTypes DEF Init, OwnershipInv
<1> QED
  BY <1>1, OwnershipInductive, PTL DEF Spec

(* A timer that is stopped, or deleted, has no loop thread, for any number *)
(* of threads and of ticks, any buffer, and whatever fails, as long as the *)
(* listener does not stop the timer itself.                                *)
THEOREM QuiescenceHolds ==
  ASSUME SelfStop = FALSE PROVE Spec => []QuiescentWhenStopped
<1>1. OwnershipInv => QuiescentWhenStopped
  BY DEF OwnershipInv, OwnedLoop, QuiescentWhenStopped, Alive
<1> QED
  BY <1>1, Ownership, PTL

(* Under the same condition no timer ever has two loop threads.            *)
THEOREM OneLoopHolds == ASSUME SelfStop = FALSE PROVE Spec => []AtMostOneLoop
<1>1. OwnershipInv => AtMostOneLoop
  BY DEF OwnershipInv, OwnedLoop, AtMostOneLoop, Alive
<1> QED
  BY <1>1, Ownership, PTL

-----------------------------------------------------------------------------
(* The refinement of TimerService.  Beside the ownership of the loop it     *)
(* needs what bounds the ticks: the message of Stop stays in the buffer     *)
(* until a loop has read it, and select is reached only below times.        *)
CountInv ==
  \A l \in Loops :
    /\ pc[l] = "head" /\ ~forever[l] => iter[l] <= times
    /\ pc[l] \in {"select", "recv", "tick", "listener"} /\ ~forever[l] => iter[l] < times
MessageInv ==
  /\ \A i \in DOMAIN ipc : ipc[i] = "STOP"
  /\ \A l \in Loops : pc[l] = "recv" => ipc # <<>>
  /\ \A l \in Alive : Signalled => ipc # <<>>
ServiceInv == OwnershipInv /\ CountInv /\ MessageInv

LEMMA SendQueue ==
  ASSUME NEW q \in Seq({"STOP"})
  PROVE  /\ CtSocketIpc_Send(q, "STOP") \in Seq({"STOP"})
         /\ CtSocketIpc_Send(q, "STOP") # <<>>
  BY RcvBufAssumption DEF CtSocketIpc_Send

LEMMA ServiceInductive ==
  ASSUME SelfStop = FALSE, SendMayFail = FALSE
  PROVE  ServiceInv /\ [Next]_vars => ServiceInv'
<1> SUFFICES ASSUME ServiceInv, [Next]_vars
             PROVE  ServiceInv'
  OBVIOUS
<1>0. OwnershipInv'
  BY OwnershipInductive DEF ServiceInv
<1>a. app \in {"idle", "create"} /\ ~is_running => \A l \in Loops : pc[l] = "none"
  BY DEF ServiceInv, OwnershipInv, OwnedLoop
<1>b. \A l, m \in Loops : pc[l] # "none" /\ pc[m] # "none" => l = m
  BY DEF ServiceInv, OwnershipInv, OwnedLoop
<1>c. ipc \in Seq({"STOP"})
  BY DEF ServiceInv, OwnershipInv, TypeOK, MessageInv
<1> USE <1>0, LoopsAssumption
    DEF ServiceInv, OwnershipInv, TypeOK, CountInv, MessageInv, Alive, Signalled,
        appVars, loopVars
<1>1. ASSUME NEW n \in Times, CtTimer_Initialize(n) PROVE ServiceInv'
  BY <1>1, <1>a DEF CtTimer_Initialize
<1>2. CASE CtTimer_Start
  BY <1>2 DEF CtTimer_Start
<1>3. CASE CtTimer_Create
  <2>1. CASE pc' = pc
    BY <1>3, <2>1 DEF CtTimer_Create
  <2>2. ASSUME NEW l \in Loops, pc' = [pc EXCEPT ![l] = "enter"] PROVE ServiceInv'
    BY <1>3, <2>2 DEF CtTimer_Create
  <2> QED
    BY <1>3, <2>1, <2>2 DEF CtTimer_Create
<1>4. CASE CtTimer_Started
  BY <1>4 DEF CtTimer_Started
<1>5. CASE CtTimer_Stop
  BY <1>5 DEF CtTimer_Stop
<1>6. CASE CtTimer_StopLoop
  <2>1. ipc' \in Seq({"STOP"}) /\ ipc' # <<>>
    BY <1>6, <1>c, SendQueue DEF CtTimer_StopLoop, SendStop
  <2> QED
    BY <1>6, <2>1 DEF CtTimer_StopLoop
<1>7. CASE CtTimer_StopJoin
  BY <1>7 DEF CtTimer_StopJoin
<1>8. CASE CtTimer_StopWait
  <2>1. \A l \in Loops : pc'[l] = pc[l] \/ pc'[l] = "none"
    BY <1>8 DEF CtTimer_StopWait, Release
  <2> QED
    BY <1>8, <2>1 DEF CtTimer_StopWait
<1>9. CASE CtTimer_Delete
  BY <1>9, <1>a DEF CtTimer_Delete
<1>10. CASE CtTimer_New
  BY <1>10, <1>a DEF CtTimer_New
<1>11. ASSUME NEW l \in Loops, Loop(l) PROVE ServiceInv'
  <2>0. pc[l] # "none" /\ UNCHANGED appVars
    BY <1>11 DEF Loop, EnterLoop, LoopHead, SelectTimeout, SelectReadable,
       SelectError, Recv, CallListener, ListenerReturn, ListenerStop,
       ListenerStopLoop, ListenerStopJoin, ListenerStopWait
  <2>a. \A m \in Loops : m # l => pc[m] = "none"
    BY <2>0, <1>b
  <2>1. CASE EnterLoop(l)
    BY <2>a, <2>1, TimesAssumption DEF EnterLoop, Goto
  <2>2. CASE LoopHead(l)
    BY <2>a, <2>2 DEF LoopHead, Goto
  <2>3. CASE SelectTimeout(l)
    BY <2>a, <2>3 DEF SelectTimeout, Goto
  <2>4. CASE SelectReadable(l)
    BY <2>a, <2>4 DEF SelectReadable, Goto
  <2>5. CASE SelectError(l)
    BY <2>a, <2>5 DEF SelectError, Goto
  <2>6. CASE Recv(l)
    <3>1. RecvType(ipc, "STOP") = "STOP" /\ ipc # <<>>
      BY <2>6, <1>c DEF Recv, RecvType
    <3>2. ipc' = Tail(ipc) /\ Goto(l, "exited") /\ UNCHANGED <<iter, forever>>
      BY <2>6, <3>1 DEF Recv
    <3>3. ipc' \in Seq({"STOP"})
      BY <3>1, <3>2, <1>c
    <3> QED
      BY <2>0, <2>a, <3>2, <3>3 DEF Goto
  <2>7. CASE CallListener(l)
    BY <2>a, <2>7 DEF CallListener, Goto
  <2>8. CASE ListenerReturn(l)
    <3>1. CASE Goto(l, "exited") /\ UNCHANGED iter
      BY <2>a, <2>8, <3>1 DEF ListenerReturn, Goto
    <3>2. CASE NextIteration(l) /\ forever[l]
      BY <2>a, <2>8, <3>2 DEF ListenerReturn, NextIteration, Goto
    <3>3. CASE NextIteration(l) /\ ~forever[l]
      <4>1. iter[l] < times /\ iter' = [iter EXCEPT ![l] = iter[l] + 1]
        BY <2>8, <3>3 DEF ListenerReturn, NextIteration
      <4>2. iter'[l] <= times'
        BY <2>0, <4>1, TimesAssumption
      <4> QED
        BY <2>a, <2>8, <3>3, <4>2 DEF ListenerReturn, NextIteration, Goto
    <3> QED
      BY <2>8, <3>1, <3>2, <3>3 DEF ListenerReturn
  <2> QED
    BY <1>11, <2>1, <2>2, <2>3, <2>4, <2>5, <2>6, <2>7, <2>8
    DEF Loop, ListenerStop, ListenerStopLoop, ListenerStopJoin, ListenerStopWait
<1>12. CASE UNCHANGED vars
  BY <1>12 DEF vars
<1> QED
  BY <1>1, <1>2, <1>3, <1>4, <1>5, <1>6, <1>7, <1>8, <1>9, <1>10, <1>11, <1>12
  DEF Next, App

(* While a loop is alive it is the one the abstract timer speaks of.        *)
LEMMA LoopIsTheLoop ==
  ASSUME OwnershipInv, NEW l \in Loops, pc[l] \notin {"none", "exited"}
  PROVE  Alive = {l} /\ TheLoop = l
<1>1. Alive = {l}
  BY DEF OwnershipInv, OwnedLoop, Alive
<1> QED
  BY <1>1 DEF TheLoop

LEMMA LoopIsTheLoopNext ==
  ASSUME OwnershipInv', NEW l \in Loops, pc'[l] \notin {"none", "exited"}
  PROVE  Alive' = {l} /\ TheLoop' = l
<1>1. Alive' = {l}
  BY DEF OwnershipInv, OwnedLoop, Alive
<1> QED
  BY <1>1 DEF TheLoop

LEMMA ServiceInit == Init => Service!SvcInit
<1> SUFFICES ASSUME Init PROVE Service!SvcInit
  OBVIOUS
<1>1. Alive = {} /\ ~Signalled /\ ~is_running /\ app = "idle"
  BY DEF Init, Alive, Signalled
<1> QED
  BY <1>1 DEF Service!SvcInit, AbstractPhase, AbstractLeft, AbstractGrace

Unseen == UNCHANGED <<AbstractPhase, AbstractLeft, AbstractGrace>>

(* The steps of the API.  Only the creation of a thread changes what ticks  *)
(* are allowed; the others move the phase on, or are not seen.              *)
LEMMA AppImplements ==
  ASSUME ServiceInv, ServiceInv', App
  PROVE  Service!SvcNext \/ Unseen
<1>a. app \in {"idle", "create"} /\ ~is_running => Alive = {}
  BY DEF ServiceInv, OwnershipInv, OwnedLoop, Alive
<1>b. is_running => app = "idle"
  BY DEF ServiceInv, OwnershipInv
<1>c. is_running' => app' = "idle"
  BY DEF ServiceInv, OwnershipInv
<1>1. ASSUME NEW n \in Times, CtTimer_Initialize(n) PROVE Unseen
  BY <1>1, <1>a
  DEF Unseen, CtTimer_Initialize, loopVars, Alive, AbstractPhase, AbstractLeft, AbstractGrace, Signalled
<1>2. CASE CtTimer_Start
  BY <1>2, <1>a
  DEF Unseen, CtTimer_Start, loopVars, Alive, AbstractPhase, AbstractLeft, AbstractGrace, Signalled
<1>3. CASE CtTimer_Create
  <2>1. Alive = {} /\ AbstractPhase = "stopped" /\ AbstractLeft = 0 /\ AbstractGrace = 0
    BY <1>3, <1>a, <1>b DEF CtTimer_Create, AbstractPhase, AbstractLeft, AbstractGrace, Signalled
  <2>2. app' = "starting" /\ AbstractGrace' = 0
    BY <1>3 DEF CtTimer_Create, AbstractGrace, Signalled
  <2>3. CASE pc' = pc
    <3>1. Alive' = {}
      BY <2>1, <2>3 DEF Alive
    <3> QED
      BY <2>1, <2>2, <3>1
      DEF Service!SvcNext, Service!SvcStart, AbstractPhase, AbstractLeft, Signalled
  <2>4. ASSUME NEW l \in Loops, pc' = [pc EXCEPT ![l] = "enter"]
        PROVE  Service!SvcStart
    <3>1. pc'[l] = "enter"
      BY <2>4 DEF ServiceInv, OwnershipInv, TypeOK
    <3>2. Alive' = {l} /\ TheLoop' = l
      BY <3>1, LoopIsTheLoopNext DEF ServiceInv
    <3>3. AbstractPhase' = "running"
      BY <2>2, <3>2 DEF AbstractPhase, Signalled
    <3>4. AbstractLeft' = IF times' = 0 THEN Unlimited ELSE times'
      BY <3>1, <3>2 DEF AbstractLeft, Allowed
    <3>5. AbstractLeft' \in (Times \ {0}) \cup {Unlimited}
      BY <3>4 DEF ServiceInv, OwnershipInv, TypeOK
    <3> QED
      BY <2>1, <2>2, <3>3, <3>5 DEF Service!SvcStart, Service!Allowance
  <2> QED
    BY <1>3, <2>3, <2>4 DEF CtTimer_Create, Service!SvcNext
<1>4. CASE CtTimer_Started
  BY <1>4, <1>b
  DEF Unseen, CtTimer_Started, loopVars, Alive, AbstractPhase, AbstractLeft, AbstractGrace,
      Signalled, TheLoop, Allowed
<1>5. CASE CtTimer_Stop
  <2>1. UNCHANGED <<AbstractLeft, AbstractGrace>>
    BY <1>5 DEF CtTimer_Stop, loopVars, Alive, AbstractLeft, AbstractGrace, Signalled, TheLoop, Allowed
  <2>2. AbstractPhase \in {"running", "expired"} /\ AbstractPhase' = "stopping"
    BY <1>5 DEF CtTimer_Stop, AbstractPhase, Signalled
  <2> QED
    BY <2>1, <2>2 DEF Service!SvcNext, Service!SvcStop
<1>6. CASE CtTimer_StopLoop
  <2>1. UNCHANGED AbstractLeft
    BY <1>6 DEF CtTimer_StopLoop, loopVars, Alive, AbstractLeft, TheLoop, Allowed
  <2>2. AbstractPhase = "stopping" /\ AbstractPhase' = "signalled" /\ AbstractGrace' \in {0, 1}
    BY <1>6 DEF CtTimer_StopLoop, AbstractPhase, AbstractGrace, Signalled
  <2> QED
    BY <2>1, <2>2 DEF Service!SvcNext, Service!SvcSignal
<1>7. CASE CtTimer_StopJoin /\ MustJoin(thread)
  BY <1>7
  DEF Unseen, CtTimer_StopJoin, loopVars, Alive, AbstractPhase, AbstractLeft, AbstractGrace,
      Signalled, TheLoop, Allowed
<1>8. CASE (CtTimer_StopJoin /\ ~MustJoin(thread)) \/ CtTimer_StopWait
  <2>1. app' = "idle" /\ ~is_running' /\ Signalled
    BY <1>8, <1>b DEF CtTimer_StopJoin, CtTimer_StopWait, Signalled
  <2>2. Alive = {}
    <3>1. CASE CtTimer_StopWait
      <4>1. LoopsWaiting = {}
        BY DEF LoopsWaiting, ServiceInv, OwnershipInv
      <4>2. appTarget # NoThread => pc[appTarget] \in {"exited", "none"}
        BY <3>1, <4>1 DEF CtTimer_StopWait, JoinReturns
      <4> QED
        BY <3>1, <1>b, <4>2, LoopsAssumption
        DEF CtTimer_StopWait, ServiceInv, OwnershipInv, OwnedLoop, Alive
    <3>2. CASE CtTimer_StopJoin /\ ~MustJoin(thread)
      BY <3>2 DEF CtTimer_StopJoin, MustJoin, ServiceInv, OwnershipInv, OwnedLoop, Alive
    <3> QED
      BY <1>8, <3>1, <3>2
  <2>3. Alive' = {}
    BY <2>1 DEF ServiceInv, OwnershipInv, OwnedLoop, Alive
  <2> QED
    BY <2>1, <2>2, <2>3
    DEF Service!SvcNext, Service!SvcStopped, AbstractPhase, AbstractLeft, AbstractGrace, Signalled
<1>9. CASE CtTimer_Delete
  BY <1>9, <1>a
  DEF Unseen, CtTimer_Delete, loopVars, Alive, AbstractPhase, AbstractLeft, AbstractGrace, Signalled
<1>10. CASE CtTimer_New
  <2>1. app = "idle" /\ ~is_running
    BY <1>10 DEF CtTimer_New, ServiceInv, OwnershipInv
  <2> QED
    BY <1>10, <1>a, <2>1
    DEF Unseen, CtTimer_New, loopVars, Alive, AbstractPhase, AbstractLeft, AbstractGrace, Signalled
<1> QED
  BY <1>1, <1>2, <1>3, <1>4, <1>5, <1>6, <1>7, <1>8, <1>9, <1>10 DEF App

(* The steps of a loop.  Calling the listener is a tick, leaving the loop   *)
(* is its expiry and nothing else is seen: in particular no loop passes     *)
(* select by a timeout once Stop has sent its message.                      *)
LEMMA LoopImplements ==
  ASSUME ServiceInv, ServiceInv', NEW l \in Loops, Loop(l), SelfStop = FALSE
  PROVE  Service!SvcNext \/ Unseen
<1>0. UNCHANGED appVars
  BY DEF ServiceInv, OwnershipInv, Loop, EnterLoop, LoopHead, SelectTimeout, SelectReadable,
     SelectError, Recv, CallListener, ListenerReturn, ListenerStop,
     ListenerStopLoop, ListenerStopJoin, ListenerStopWait
<1>1. pc[l] \notin {"none", "exited"}
  BY DEF ServiceInv, OwnershipInv, Loop, EnterLoop, LoopHead, SelectTimeout, SelectReadable,
     SelectError, Recv, CallListener, ListenerReturn, ListenerStop,
     ListenerStopLoop, ListenerStopJoin, ListenerStopWait
<1>2. Alive = {l} /\ TheLoop = l
  BY <1>1, LoopIsTheLoop DEF ServiceInv
<1>3. AbstractLeft = Allowed(l)
  BY <1>2 DEF AbstractLeft
<1>4. AbstractPhase \in {"running", "stopping", "signalled"}
  BY <1>1, <1>2 DEF AbstractPhase, Signalled, ServiceInv, OwnershipInv, OwnedLoop
<1>5. ASSUME pc'[l] = "exited" PROVE Service!SvcExpire
  <2>1. Alive' = {}
    BY <1>1, <1>5 DEF Alive, ServiceInv, OwnershipInv, OwnedLoop
  <2>2. AbstractLeft' = 0 /\ AbstractGrace' = 0
    BY <2>1 DEF AbstractLeft, AbstractGrace
  <2>3. AbstractPhase' = IF AbstractPhase = "running" THEN "expired" ELSE AbstractPhase
    BY <1>0, <1>2, <1>4, <2>1 DEF AbstractPhase, Signalled, appVars
  <2> QED
    BY <1>4, <2>2, <2>3 DEF Service!SvcExpire
<1>6. ASSUME pc'[l] \notin {"none", "exited"}
      PROVE  /\ Alive' = {l} /\ TheLoop' = l
             /\ AbstractLeft' = Allowed(l)'
             /\ AbstractPhase' = AbstractPhase
  <2>1. Alive' = {l} /\ TheLoop' = l
    BY <1>6, LoopIsTheLoopNext DEF ServiceInv
  <2> QED
    BY <1>0, <1>2, <2>1 DEF AbstractLeft, AbstractPhase, Signalled, appVars
<1>7. ASSUME pc'[l] \notin {"none", "exited", "tick"}, pc[l] # "tick", Allowed(l)' = Allowed(l)
      PROVE  Unseen
  <2>1. AbstractGrace = 0 /\ AbstractGrace' = 0
    BY <1>2, <1>6, <1>7 DEF AbstractGrace
  <2> QED
    BY <1>3, <1>6, <1>7, <2>1 DEF Unseen
<1> USE DEF ServiceInv, OwnershipInv, TypeOK, appVars
<1>8. CASE EnterLoop(l)
  <2>1. pc[l] = "enter" /\ pc'[l] = "head" /\ iter'[l] = 0 /\ times' = times
    BY <1>8 DEF EnterLoop, Goto
  <2>2. forever'[l] = (times = 0)
    BY <1>8 DEF EnterLoop
  <2>3. times \in Nat
    BY TimesAssumption
  <2>4. Allowed(l)' = Allowed(l)
    <3>1. CASE times = 0
      <4>1. forever'[l]
        BY <2>2, <3>1
      <4> QED
        BY <2>1, <3>1, <4>1 DEF Allowed
    <3>2. CASE times # 0
      <4>1. ~forever'[l]
        BY <2>2, <3>2
      <4> QED
        BY <2>1, <2>3, <3>2, <4>1 DEF Allowed
    <3> QED
      BY <3>1, <3>2
  <2> QED
    BY <1>7, <2>1, <2>4
<1>9. CASE LoopHead(l)
  <2>1. pc[l] = "head" /\ pc'[l] \in {"select", "exited"}
    BY <1>9 DEF LoopHead, Goto
  <2>2. Allowed(l)' = Allowed(l) \/ pc'[l] = "exited"
    BY <1>9, <2>1 DEF LoopHead, Allowed
  <2> QED
    BY <1>5, <1>7, <2>1, <2>2 DEF Service!SvcNext
<1>10. CASE SelectTimeout(l)
  <2>1. pc[l] = "select" /\ pc'[l] = "tick"
    BY <1>10 DEF SelectTimeout, Goto
  <2>2. ~Signalled
    BY <1>2, <1>10 DEF SelectTimeout, MessageInv
  <2>3. Allowed(l)' = Allowed(l)
    BY <1>10, <2>1 DEF SelectTimeout, Allowed
  <2>4. AbstractGrace = 0 /\ AbstractGrace' = 0
    BY <1>0, <2>2 DEF AbstractGrace, Signalled
  <2> QED
    BY <1>3, <1>6, <2>1, <2>3, <2>4 DEF Unseen
<1>11. CASE SelectReadable(l)
  <2>1. pc[l] = "select" /\ pc'[l] = "recv"
    BY <1>11 DEF SelectReadable, Goto
  <2>2. Allowed(l)' = Allowed(l)
    BY <1>11, <2>1 DEF SelectReadable, Allowed
  <2> QED
    BY <1>7, <2>1, <2>2
<1>12. CASE SelectError(l)
  <2>1. pc'[l] = "exited"
    BY <1>12 DEF SelectError, Goto
  <2> QED
    BY <1>5, <2>1 DEF Service!SvcNext
<1>13. CASE Recv(l)
  <2>1. ipc # <<>> /\ RecvType(ipc, "STOP") = "STOP"
    BY <1>13 DEF Recv, RecvType, MessageInv
  <2>2. pc'[l] = "exited"
    BY <1>13, <2>1 DEF Recv, Goto
  <2> QED
    BY <1>5, <2>2 DEF Service!SvcNext
<1>14. CASE CallListener(l)
  <2>1. pc[l] = "tick" /\ pc'[l] = "listener" /\ UNCHANGED <<times, forever, iter>>
    BY <1>14 DEF CallListener, Goto
  <2>2. AbstractLeft # 0 /\ AbstractLeft' = IF AbstractLeft = Unlimited THEN Unlimited ELSE AbstractLeft - 1
    <3>1. CASE forever[l]
      BY <1>3, <1>6, <2>1, <3>1, UnlimitedAssumption DEF Allowed
    <3>2. CASE ~forever[l]
      <4>1. times \in Nat /\ iter[l] \in Nat /\ iter[l] < times
        BY <2>1, <3>2, TimesAssumption DEF CountInv
      <4>2. AbstractLeft = times - iter[l] /\ AbstractLeft' = times - iter[l] - 1
        BY <1>3, <1>6, <2>1, <3>2, <4>1 DEF Allowed
      <4>3. AbstractLeft \in Nat
        BY <4>1, <4>2
      <4> QED
        BY <4>1, <4>2, <4>3, UnlimitedAssumption
    <3> QED
      BY <3>1, <3>2
  <2>3. AbstractGrace' = 0 /\ AbstractGrace = IF AbstractPhase = "signalled" THEN 1 ELSE 0
    BY <1>2, <1>6, <2>1, <1>4 DEF AbstractGrace, AbstractPhase, Signalled
  <2> QED
    BY <1>4, <1>6, <2>1, <2>2, <2>3 DEF Service!SvcNext, Service!SvcTick
<1>15. CASE ListenerReturn(l)
  <2>1. pc[l] = "listener" /\ pc'[l] \in {"head", "exited"} /\ UNCHANGED <<times, forever>>
    BY <1>15 DEF ListenerReturn, NextIteration, Goto
  <2>2. CASE pc'[l] = "exited"
    BY <1>5, <2>2 DEF Service!SvcNext
  <2>3. CASE pc'[l] = "head"
    <3>1. Allowed(l)' = Allowed(l)
      <4>1. CASE forever[l]
        BY <2>1, <2>3, <4>1 DEF Allowed
      <4>2. CASE ~forever[l]
        <5>1. iter'[l] = iter[l] + 1
          BY <1>15, <2>3, <4>2 DEF ListenerReturn, NextIteration, Goto
        <5>2. times \in Nat /\ iter[l] \in Nat
          BY TimesAssumption
        <5> QED
          BY <2>1, <2>3, <4>2, <5>1, <5>2 DEF Allowed
      <4> QED
        BY <4>1, <4>2
    <3> QED
      BY <1>7, <2>1, <2>3, <3>1
  <2> QED
    BY <2>1, <2>2, <2>3
<1> QED
  BY <1>8, <1>9, <1>10, <1>11, <1>12, <1>13, <1>14, <1>15
  DEF Loop, ListenerStop, ListenerStopLoop, ListenerStopJoin, ListenerStopWait

(* CtTimer does what TimerService promises, for any times, any number of    *)
(* loop threads, any receive buffer, and though pthread_create or select    *)
(* fails, as long as the listener does not stop the timer and Stop's        *)
(* datagram can be sent: never more ticks than were asked for, at most one  *)
(* after the message is sent, none after Stop has returned.                 *)
THEOREM TimerServiceImplemented ==
  ASSUME SelfStop = FALSE, SendMayFail = FALSE
  PROVE  Spec => ImplementsTimerService
<1>1. Init => ServiceInv
  BY InitTypes DEF Init, ServiceInv, OwnershipInv, CountInv, MessageInv, Alive
<1>2. ServiceInv /\ [Next]_vars => ServiceInv'
  BY ServiceInductive
<1>3. ServiceInv /\ ServiceInv' /\ [Next]_vars => [Service!SvcNext]_(Service!svcVars)
  <2> SUFFICES ASSUME ServiceInv, ServiceInv', [Next]_vars
               PROVE  [Service!SvcNext]_(Service!svcVars)
    OBVIOUS
  <2>1. CASE UNCHANGED vars
    BY <2>1
    DEF vars, Service!svcVars, AbstractPhase, AbstractLeft, AbstractGrace, Signalled, Alive,
        TheLoop, Allowed
  <2>2. CASE Next
    BY <2>2, AppImplements, LoopImplements DEF Next, Unseen, Service!svcVars
  <2> QED
    BY <2>1, <2>2
<1> QED
  BY <1>1, <1>2, <1>3, ServiceInit, PTL DEF Spec, ImplementsTimerService, Service!SvcSpec

-----------------------------------------------------------------------------
(* CtCondition.                                                              *)

USE DEF MoveTo, PC, WaitPC, NotifyPC, objectVars

(* The places where a thread holds the mutex.                              *)
HoldPC == {"test", "block", "one", "all", "returning", "unlock"}

Exclusion == \A t \in Threads : place[t] \in HoldPC => mutex = t

(* What a thread inside Wait has been told, against the flag.              *)
Told ==
  \A t \in Threads :
    /\ t \in sleepers => place[t] = "asleep" /\ notified[t] # "all"
    /\ place[t] = "block" => ~is_ready /\ notified[t] # "all"
    /\ is_ready /\ place[t] \in WaitPC => notified[t] # "no"
    /\ place[t] = "returning" => notified[t] # "no"

(* CtCondition_Delete: the others leave, and are gone once it has had the  *)
(* mutex.                                                                  *)
Deleting ==
  /\ deleter # NoOne =>
       /\ alive /\ place[deleter] \in {"lockAll", "all", "unlock", "dispose"}
       /\ \A u \in Threads \ {deleter} :
            /\ place[u] \in {"idle", "one", "all", "unlock", "returning"}
            /\ place[deleter] # "lockAll" => place[u] = "idle"
  /\ \A t \in Threads : place[t] = "dispose" => t = deleter
  /\ ~alive => deleter = NoOne /\ \A t \in Threads : place[t] = "idle"

IInv == ConditionTypeOK /\ Exclusion /\ Told /\ Deleting

LEMMA InitInv == ConditionInit => IInv
  BY ThreadsAssumption DEF ConditionInit, IInv, ConditionTypeOK, Exclusion, Told, Deleting, HoldPC

(* Steps that neither wait nor notify.                                     *)
LEMMA CallInductive ==
  ASSUME IInv, NEW t \in Threads, NEW operation \in {"lockWait", "lockOne", "lockAll"},
         Call(t, operation)
  PROVE  IInv'
  BY ThreadsAssumption
     DEF Call, IInv, ConditionTypeOK, Exclusion, Told, Deleting, HoldPC

LEMMA WaitInductive ==
  ASSUME IInv, NEW t \in Threads,
         WaitLock(t) \/ WaitTest(t) \/ WaitBlock(t) \/ WaitWake(t) \/ WaitRelock(t)
  PROVE  IInv'
<1> USE ThreadsAssumption DEF IInv
<1>1. CASE WaitLock(t)
  BY <1>1 DEF WaitLock, CtMutex_Lock, ConditionTypeOK, Exclusion, Told, Deleting, HoldPC
<1>2. CASE WaitTest(t)
  BY <1>2 DEF WaitTest, ConditionTypeOK, Exclusion, Told, Deleting, HoldPC
<1>3. CASE WaitBlock(t)
  BY <1>3 DEF WaitBlock, CtMutex_Unlock, ConditionTypeOK, Exclusion, Told, Deleting, HoldPC
<1>4. CASE WaitWake(t)
  BY <1>4 DEF WaitWake, ConditionTypeOK, Exclusion, Told, Deleting, HoldPC
<1>5. CASE WaitRelock(t)
  BY <1>5 DEF WaitRelock, CtMutex_Lock, ConditionTypeOK, Exclusion, Told, Deleting, HoldPC
<1> QED
  BY <1>1, <1>2, <1>3, <1>4, <1>5

LEMMA NotifyInductive ==
  ASSUME IInv, NEW t \in Threads,
         NotifyLock(t) \/ NotifyOne(t) \/ NotifyAll(t) \/ Unlock(t)
  PROVE  IInv'
<1> USE ThreadsAssumption DEF IInv
<1>1. CASE NotifyLock(t)
  BY <1>1 DEF NotifyLock, CtMutex_Lock, ConditionTypeOK, Exclusion, Told, Deleting, HoldPC
<1>2. CASE NotifyOne(t)
  BY <1>2 DEF NotifyOne, Waiting, ConditionTypeOK, Exclusion, Told, Deleting, HoldPC
<1>3. CASE NotifyAll(t)
  BY <1>3 DEF NotifyAll, Waiting, ConditionTypeOK, Exclusion, Told, Deleting, HoldPC
<1>4. CASE Unlock(t)
  BY <1>4 DEF Unlock, CtMutex_Unlock, ConditionTypeOK, Exclusion, Told, Deleting, HoldPC
<1> QED
  BY <1>1, <1>2, <1>3, <1>4

LEMMA DeleteInductive ==
  ASSUME IInv,
         \/ \E t \in Threads : CtCondition_Delete(t) \/ Dispose(t)
         \/ CtCondition_New
  PROVE  IInv'
<1> USE ThreadsAssumption DEF IInv
<1>1. CASE \E t \in Threads : CtCondition_Delete(t)
  BY <1>1 DEF CtCondition_Delete, MayDelete, ConditionTypeOK, Exclusion, Told, Deleting, HoldPC
<1>2. CASE \E t \in Threads : Dispose(t)
  <2>1. PICK t \in Threads : Dispose(t)
    BY <1>2
  <2>2. t = deleter /\ \A u \in Threads : place'[u] = "idle"
    BY <2>1 DEF Dispose, ConditionTypeOK, Deleting
  <2>3. ConditionTypeOK'
    BY <2>1 DEF Dispose, ConditionTypeOK
  <2>4. Told'
    BY <2>1, <2>2 DEF Dispose, ConditionTypeOK, Told
  <2>5. Deleting'
    BY <2>1, <2>2 DEF Dispose, Deleting
  <2> QED
    BY <2>2, <2>3, <2>4, <2>5 DEF Exclusion, HoldPC
<1>3. CASE CtCondition_New
  BY <1>3 DEF CtCondition_New, ConditionTypeOK, Exclusion, Told, Deleting, HoldPC
<1> QED
  BY <1>1, <1>2, <1>3

LEMMA Inductive == IInv /\ [ConditionNext]_conditionVars => IInv'
<1> SUFFICES ASSUME IInv, [ConditionNext]_conditionVars PROVE IInv'
  OBVIOUS
<1>1. CASE \E t \in Threads, operation \in {"lockWait", "lockOne", "lockAll"} :
             Call(t, operation)
  BY <1>1, CallInductive
<1>2. CASE \E t \in Threads : CallStep(t) \/ WaitWake(t) \/ CtCondition_Delete(t)
  BY <1>2, WaitInductive, NotifyInductive, DeleteInductive DEF CallStep
<1>3. CASE CtCondition_New
  BY <1>3, DeleteInductive
<1>4. CASE UNCHANGED conditionVars
  BY <1>4 DEF conditionVars, IInv, ConditionTypeOK, Exclusion, Told, Deleting, HoldPC
<1> QED
  BY <1>1, <1>2, <1>3, <1>4 DEF ConditionNext

LEMMA InvHolds == ConditionSpec => []IInv
  BY InitInv, Inductive, PTL DEF ConditionSpec

(* The object's variables keep their types.                                *)
THEOREM ConditionTypes == ConditionSpec => []ConditionTypeOK
<1>1. IInv => ConditionTypeOK
  BY DEF IInv
<1> QED
  BY <1>1, InvHolds, PTL

(* Every Wait that returns has been notified since it began, however the   *)
(* threads interleave and whatever wakes them.                             *)
THEOREM WakesAreNotifiedHolds == ConditionSpec => []WakesAreNotified
<1>1. IInv => WakesAreNotified
  BY DEF IInv, Told, WakesAreNotified
<1> QED
  BY <1>1, InvHolds, PTL

(* Nobody who was in Wait sleeps through a NotifyAll.                      *)
THEOREM NoSleeperMissedHolds == ConditionSpec => []NoSleeperMissed
<1>1. IInv => NoSleeperMissed
  BY DEF IInv, Told, ConditionTypeOK, NoSleeperMissed
<1> QED
  BY <1>1, InvHolds, PTL

(* Deleting the object when nobody is waiting pulls it from under nobody:  *)
(* the NotifyAll in CtCondition_Delete waits for the mutex.                *)
THEOREM NobodyInsideDeletedHolds == ConditionSpec => []NobodyInsideDeleted
<1>1. IInv => NobodyInsideDeleted
  BY DEF IInv, Deleting, NobodyInsideDeleted
<1> QED
  BY <1>1, InvHolds, PTL
-----------------------------------------------------------------------------
(* CtTimerDrift.                                                             *)

(* What is used of the shift by one that computes half the interval.       *)
LEMMA HalfFacts == Half \in Nat /\ 2 * Half <= Interval
  BY IntervalAssumption DEF Half

(* The inductive invariant behind the bounds: the corrections applied are  *)
(* never negative, because previous is not.                                *)
BoundsInv == DriftTypeOK /\ SleepBounds

LEMMA BoundsInductive == BoundsInv /\ [DriftNext]_driftVars => BoundsInv'
<1> SUFFICES ASSUME BoundsInv, [DriftNext]_driftVars
             PROVE  BoundsInv'
  OBVIOUS
<1> USE IntervalAssumption, HalfFacts DEF BoundsInv, DriftTypeOK, SleepBounds
<1>1. CASE Reinitialize
  BY <1>1 DEF Reinitialize, history
<1>2. CASE StartLoop
  BY <1>2 DEF StartLoop
<1>3. CASE LeaveLoop
  BY <1>3 DEF LeaveLoop, history
<1>4. ASSUME NEW d \in Overshoots, Wake(d)
      PROVE  BoundsInv'
  <2>1. d \in Int
    BY MeasurementAssumption
  <2>2. Correction(d) \in Nat /\ NextPrevious(d) \in Nat
    BY <2>1 DEF Correction, NextPrevious, Larger
  <2>3. Smaller(Correction(d), Half) \in 0..Half
    BY <2>2 DEF Smaller
  <2>4. running_interval' \in Nat /\ SleepBounds'
    BY <1>4, <2>3 DEF Wake
  <2> QED
    BY <1>4, <2>1, <2>2, <2>4 DEF Wake
<1>5. ASSUME NEW e \in ListenerTimes, ListenerDone(e)
      PROVE  BoundsInv'
  <2>1. e \in Int
    BY MeasurementAssumption
  <2> QED
    BY <1>5, <2>1 DEF ListenerDone, Larger
<1>6. CASE UNCHANGED driftVars
  BY <1>6 DEF driftVars
<1> QED
  BY <1>1, <1>2, <1>3, <1>4, <1>5, <1>6 DEF DriftNext

(* The interval the loop sleeps for is always within its bounds, for every *)
(* interval and whatever times are measured.                               *)
THEOREM SleepBoundsHold == DriftSpec => []SleepBounds
<1>1. DriftInit => BoundsInv
  BY IntervalAssumption, HalfFacts DEF DriftInit, BoundsInv, DriftTypeOK, SleepBounds
<1>2. BoundsInv => SleepBounds
  BY DEF BoundsInv
<1> QED
  BY <1>1, <1>2, BoundsInductive, PTL DEF DriftSpec

-----------------------------------------------------------------------------
(* Between a tick and the next sleep, what has been lost is what the sleep *)
(* will make up for.                                                       *)
DriftInv ==
  /\ BoundsInv
  /\ inBudget /\ phase = "listener" =>
       /\ last \in 1..Half
       /\ lag = last - first
       /\ running_interval = Interval - last
  /\ inBudget /\ phase = "sleep" => lag + running_interval = Interval - first

LEMMA DriftInductive == DriftInv /\ [DriftNext]_driftVars => DriftInv'
<1> SUFFICES ASSUME DriftInv, [DriftNext]_driftVars
             PROVE  DriftInv'
  OBVIOUS
<1>0. BoundsInv'
  BY BoundsInductive DEF DriftInv
<1> USE <1>0, IntervalAssumption, HalfFacts DEF DriftInv, BoundsInv, DriftTypeOK
<1>1. CASE Reinitialize
  BY <1>1 DEF Reinitialize, history
<1>2. CASE StartLoop
  BY <1>2 DEF StartLoop
<1>3. CASE LeaveLoop
  BY <1>3 DEF LeaveLoop, history
<1>4. ASSUME NEW d \in Overshoots, Wake(d)
      PROVE  DriftInv'
  <2>1. phase' = "listener" /\ last' = d
    BY <1>4 DEF Wake
  <2> SUFFICES ASSUME inBudget'
               PROVE  /\ last' \in 1..Half
                      /\ lag' = last' - first'
                      /\ running_interval' = Interval - last'
    BY <2>1
  <2>2. inBudget /\ d > 0 /\ d <= Half
    BY <1>4, Zenon DEF Wake
  <2>3. d \in 1..Half
    BY <2>2, MeasurementAssumption
  <2>4. Smaller(Correction(d), Half) = d
    BY <2>2, <2>3 DEF Smaller, Correction
  <2>5. running_interval' = Interval - d
    BY <1>4, <2>4 DEF Wake
  <2>6. lag' = d - first'
    <3>1. CASE phase = "first"
      BY <1>4, <3>1, <2>2, <2>3 DEF Wake
    <3>2. CASE phase = "sleep"
      BY <1>4, <3>2, <2>2, <2>3 DEF Wake
    <3> QED
      BY <1>4, <3>1, <3>2 DEF Wake
  <2> QED
    BY <2>1, <2>2, <2>3, <2>5, <2>6
<1>5. ASSUME NEW e \in ListenerTimes, ListenerDone(e)
      PROVE  DriftInv'
  <2>1. phase = "listener" /\ phase' = "sleep" /\ first' = first
    BY <1>5 DEF ListenerDone
  <2> SUFFICES ASSUME inBudget'
               PROVE  lag' + running_interval' = Interval - first'
    BY <2>1
  <2>2. inBudget /\ e >= 0 /\ last + e <= Half
    BY <1>5, Zenon DEF ListenerDone
  <2>3. e \in Nat
    BY <2>2, MeasurementAssumption
  <2>4. running_interval' = running_interval - e
    BY <1>5, <2>1, <2>2, <2>3 DEF ListenerDone, Larger
  <2> QED
    BY <1>5, <2>1, <2>2, <2>3, <2>4 DEF ListenerDone
<1>6. CASE UNCHANGED driftVars
  BY <1>6 DEF driftVars
<1> QED
  BY <1>1, <1>2, <1>3, <1>4, <1>5, <1>6 DEF DriftNext

(* In budget, lateness does not accumulate: the lag of every tick is the   *)
(* difference of two overshoots, however many ticks came before.           *)
THEOREM NoDriftHolds == DriftSpec => []NoDrift
<1>1. DriftInit => DriftInv
  BY IntervalAssumption, HalfFacts
  DEF DriftInit, DriftInv, BoundsInv, DriftTypeOK, SleepBounds
<1>2. DriftInv => NoDrift
  BY DEF DriftInv, NoDrift
<1> QED
  BY <1>1, <1>2, DriftInductive, PTL DEF DriftSpec

-----------------------------------------------------------------------------
(* Out of the budget, the two equations of DriftInv become bounds.         *)
AheadInv ==
  /\ BoundsInv
  /\ late /\ phase = "listener" =>
       /\ last > 0
       /\ lag >= last - first
       /\ running_interval >= Interval - last
  /\ late /\ phase = "sleep" => lag + running_interval >= Interval - first

LEMMA AheadInductive == AheadInv /\ [DriftNext]_driftVars => AheadInv'
<1> SUFFICES ASSUME AheadInv, [DriftNext]_driftVars
             PROVE  AheadInv'
  OBVIOUS
<1>0. BoundsInv'
  BY BoundsInductive DEF AheadInv
<1> USE <1>0, IntervalAssumption, HalfFacts DEF AheadInv, BoundsInv, DriftTypeOK
<1>1. CASE Reinitialize
  BY <1>1 DEF Reinitialize, history
<1>2. CASE StartLoop
  BY <1>2 DEF StartLoop
<1>3. CASE LeaveLoop
  BY <1>3 DEF LeaveLoop, history
<1>4. ASSUME NEW d \in Overshoots, Wake(d)
      PROVE  AheadInv'
  <2>1. phase' = "listener" /\ last' = d
    BY <1>4 DEF Wake
  <2> SUFFICES ASSUME late'
               PROVE  /\ last' > 0
                      /\ lag' >= last' - first'
                      /\ running_interval' >= Interval - last'
    BY <2>1
  <2>2. late /\ d > 0
    BY <1>4, Zenon DEF Wake
  <2>3. d \in Nat
    BY <2>2, MeasurementAssumption
  <2>4. Smaller(Correction(d), Half) \in Nat /\ Smaller(Correction(d), Half) <= d
    BY <2>2, <2>3 DEF Smaller, Correction
  <2>5. running_interval' >= Interval - d
    BY <1>4, <2>2, <2>3, <2>4 DEF Wake
  <2>6. lag' >= d - first'
    <3>1. CASE phase = "first"
      BY <1>4, <3>1, <2>2, <2>3 DEF Wake
    <3>2. CASE phase = "sleep"
      BY <1>4, <3>2, <2>2, <2>3 DEF Wake
    <3> QED
      BY <1>4, <3>1, <3>2 DEF Wake
  <2> QED
    BY <2>1, <2>2, <2>3, <2>5, <2>6
<1>5. ASSUME NEW e \in ListenerTimes, ListenerDone(e)
      PROVE  AheadInv'
  <2>1. phase = "listener" /\ phase' = "sleep" /\ first' = first
    BY <1>5 DEF ListenerDone
  <2> SUFFICES ASSUME late'
               PROVE  lag' + running_interval' >= Interval - first'
    BY <2>1
  <2>2. late /\ e >= 0
    BY <1>5, Zenon DEF ListenerDone
  <2>3. e \in Nat
    BY <2>2, MeasurementAssumption
  <2>4. running_interval' >= running_interval - e
    BY <1>5, <2>2, <2>3 DEF ListenerDone, Larger
  <2> QED
    BY <1>5, <2>1, <2>2, <2>3, <2>4 DEF ListenerDone
<1>6. CASE UNCHANGED driftVars
  BY <1>6 DEF driftVars
<1> QED
  BY <1>1, <1>2, <1>3, <1>4, <1>5, <1>6 DEF DriftNext

(* However long the listener takes, the loop never runs ahead of a tick    *)
(* every Interval, as long as no sleep is cut short.                       *)
THEOREM NeverAheadHolds == DriftSpec => []NeverAhead
<1>1. DriftInit => AheadInv
  BY IntervalAssumption, HalfFacts
  DEF DriftInit, AheadInv, BoundsInv, DriftTypeOK, SleepBounds
<1>2. AheadInv => NeverAhead
  BY DEF AheadInv, NeverAhead
<1> QED
  BY <1>1, <1>2, AheadInductive, PTL DEF DriftSpec

-----------------------------------------------------------------------------
(* Folds over finite sets.                                                    *)
LEMMA LeastExists ==
  ASSUME NEW T, T \subseteq Nat, T # {} PROVE \E x \in T : \A y \in T : x <= y
<1>1. PICK x \in T : \A y \in T : ~(<<y, x>> \in OpToRel(<, Nat))
  BY NatLessThanWellFounded, WFMin
<1>2. \A y \in T : ~(y < x)
  BY <1>1 DEF OpToRel
<1> QED
  BY <1>2

(* A fold takes a set apart: what is chosen from it, and the rest.            *)
IsChoice(ch, T) == \A s \in SUBSET T : s # {} => ch[s] \in s
Rest(ch, s) == s \ {ch[s]}

LEMMA RestIsSmaller ==
  ASSUME NEW T, IsFiniteSet(T), NEW ch, IsChoice(ch, T), NEW s \in SUBSET T, s # {}
  PROVE  /\ ch[s] \in s /\ Rest(ch, s) \in SUBSET T
         /\ Cardinality(s) \in Nat /\ Cardinality(Rest(ch, s)) \in Nat
         /\ Cardinality(Rest(ch, s)) + 1 = Cardinality(s)
<1>1. ch[s] \in s
  BY DEF IsChoice
<1>2. IsFiniteSet(s)
  BY FS_Subset
<1>3. Cardinality(Rest(ch, s)) = Cardinality(s) - 1 /\ IsFiniteSet(Rest(ch, s))
  BY <1>1, <1>2, FS_RemoveElement DEF Rest
<1>4. Cardinality(Rest(ch, s)) \in Nat /\ Cardinality(s) \in Nat
  BY <1>2, <1>3, FS_CardinalityType
<1> QED
  BY <1>1, <1>3, <1>4 DEF Rest

(* A property of sets that comes from the rest of a set to the set holds of   *)
(* all of a finite set.                                                       *)
LEMMA RestInduction ==
  ASSUME NEW T, IsFiniteSet(T), NEW ch, IsChoice(ch, T), NEW Q \in SUBSET (SUBSET T), {} \in Q,
         \A s \in SUBSET T : s # {} /\ Rest(ch, s) \in Q => s \in Q
  PROVE  T \in Q
<1> DEFINE Sizes == {n \in Nat : \E s \in SUBSET T : s \notin Q /\ Cardinality(s) = n}
<1>1. SUFFICES ASSUME T \notin Q PROVE FALSE
  OBVIOUS
<1>2. Cardinality(T) \in Sizes
  BY <1>1, FS_CardinalityType
<1>3. PICK n \in Sizes : \A k \in Sizes : n <= k
  <2>1. Sizes \subseteq Nat /\ Sizes # {}
    BY <1>2
  <2> HIDE DEF Sizes
  <2> QED
    BY <2>1, LeastExists
<1>4. PICK s \in SUBSET T : s \notin Q /\ Cardinality(s) = n
  OBVIOUS
<1>5. s # {}
  BY <1>4
<1>6. Rest(ch, s) \in SUBSET T /\ Cardinality(Rest(ch, s)) \in Nat /\ Cardinality(Rest(ch, s)) + 1 = n
  BY <1>4, <1>5, RestIsSmaller
<1>7. Rest(ch, s) \notin Q
  BY <1>4, <1>5
<1>8. Cardinality(Rest(ch, s)) \in Sizes
  BY <1>6, <1>7
<1> QED
  BY <1>3, <1>6, <1>8

(* What a fold with the step G makes of each part of a finite set.            *)
FoldsAs(f, T, ch, b, G) ==
  \A s \in SUBSET T : f[s] = IF s = {} THEN b ELSE G[<<ch[s], f[Rest(ch, s)]>>]

LEMMA FoldExists ==
  ASSUME NEW T, IsFiniteSet(T), NEW ch, IsChoice(ch, T), NEW D, NEW b \in D, NEW G \in [T \X D -> D]
  PROVE  \E f \in [SUBSET T -> D] : FoldsAs(f, T, ch, b, G)
<1> DEFINE Small(n) == {s \in SUBSET T : Cardinality(s) <= n}
           Right(n, f) == \A s \in Small(n) : f[s] = IF s = {} THEN b ELSE G[<<ch[s], f[Rest(ch, s)]>>]
           Bad == {n \in Nat : ~ \E f \in [Small(n) -> D] : Right(n, f)}
<1>1. Bad = {}
  <2>1. SUFFICES ASSUME Bad # {} PROVE FALSE
    OBVIOUS
  <2>2. PICK n \in Bad : \A k \in Bad : n <= k
    <3>1. Bad \subseteq Nat
      OBVIOUS
    <3> HIDE DEF Bad
    <3> QED
      BY <2>1, <3>1, LeastExists
  <2>3. n \in Nat
    BY <2>2
  <2>6. \A s \in SUBSET T : Cardinality(s) <= 0 => s = {}
    <3> SUFFICES ASSUME NEW s \in SUBSET T, s # {} PROVE ~(Cardinality(s) <= 0)
      OBVIOUS
    <3>1. Cardinality(s) \in Nat /\ Cardinality(Rest(ch, s)) \in Nat /\ Cardinality(Rest(ch, s)) + 1 = Cardinality(s)
      BY RestIsSmaller
    <3> QED
      BY <3>1
  <2>4. CASE n = 0
    <3> DEFINE f == [s \in Small(0) |-> b]
    <3>1. f \in [Small(0) -> D] /\ Right(0, f)
      BY <2>6
    <3> QED
      BY <2>4, <3>1
  <2>5. CASE n # 0
    <3>1. n - 1 \in Nat /\ n - 1 \notin Bad
      <4>1. n - 1 \in Nat /\ ~(n <= n - 1)
        BY <2>3, <2>5
      <4>2. \A k \in Bad : n <= k
        BY <2>2
      <4> HIDE DEF Bad
      <4> QED
        BY <4>1, <4>2
    <3>2. PICK f \in [Small(n - 1) -> D] : Right(n - 1, f)
      BY <3>1
    <3> DEFINE g == [s \in Small(n) |-> IF s = {} THEN b ELSE G[<<ch[s], f[Rest(ch, s)]>>]]
    <3>3. \A s \in Small(n) : s # {} => ch[s] \in T /\ Rest(ch, s) \in Small(n - 1)
      <4> TAKE s \in Small(n)
      <4> HAVE s # {}
      <4>1. ch[s] \in s /\ Rest(ch, s) \in SUBSET T /\ Cardinality(s) \in Nat /\ Cardinality(Rest(ch, s)) \in Nat
            /\ Cardinality(Rest(ch, s)) + 1 = Cardinality(s)
        BY RestIsSmaller
      <4> QED
        BY <2>3, <4>1
    <3>4. g \in [Small(n) -> D]
      BY <3>3
    <3>5. \A s \in Small(n - 1) : s \in Small(n) /\ g[s] = f[s]
      <4>1. \A s \in Small(n - 1) : s \in Small(n)
        <5> TAKE s \in Small(n - 1)
        <5>1. Cardinality(s) \in Nat
          BY FS_Subset, FS_CardinalityType
        <5> QED
          BY <2>3, <5>1
      <4> QED
        BY <3>2, <4>1
    <3>6. Right(n, g)
      BY <3>3, <3>5
    <3> QED
      BY <2>3, <3>4, <3>6
  <2> QED
    BY <2>4, <2>5
<1>2. Cardinality(T) \in Nat
  BY FS_CardinalityType
<1>3. \A s \in SUBSET T : s \in Small(Cardinality(T))
  BY FS_Subset
<1>4. Small(Cardinality(T)) = SUBSET T
  BY <1>3
<1>5. PICK f \in [Small(Cardinality(T)) -> D] : Right(Cardinality(T), f)
  BY <1>1, <1>2
<1> QED
  BY <1>4, <1>5 DEF FoldsAs

(* What each step of a fold keeps within DD, for the set it has come to, the  *)
(* whole does.                                                                *)
LEMMA FoldWithin ==
  ASSUME NEW T, IsFiniteSet(T), NEW ch, IsChoice(ch, T), NEW DD, NEW fold, fold[{}] \in DD[{}],
         \A s \in SUBSET T : s # {} /\ fold[Rest(ch, s)] \in DD[Rest(ch, s)] => fold[s] \in DD[s]
  PROVE  fold[T] \in DD[T]
<1> DEFINE Q == {s \in SUBSET T : fold[s] \in DD[s]}
<1>1. Q \in SUBSET (SUBSET T) /\ {} \in Q
  OBVIOUS
<1>2. \A s \in SUBSET T : s # {} /\ Rest(ch, s) \in Q => s \in Q
  BY RestIsSmaller
<1> HIDE DEF Q
<1>3. T \in Q
  BY <1>1, <1>2, RestInduction
<1> QED
  BY <1>3 DEF Q

-----------------------------------------------------------------------------
(* Records.                                                                   *)

Data == Hosts \union Values \union Addresses \union {Outside, Empty}
AnyRecord ==
  [type : {"Unregistered", "Registered", "Deregistering"}, state : regState,
   nta : {"none", "asked", "known"}, id : {0} \union Ids,
   due : BOOLEAN, uselease : BOOLEAN, SRVChanged : BOOLEAN, RequireGoodbye : BOOLEAN,
   updateError : BOOLEAN, nat : {"off", "asked", "mapped", "used"},
   data : Data, InFlight : Data, Queued : Data]

(* What holds of each record by itself: a record that has an update under way *)
(* knows its zone, and is on no list of those that wait for something else.   *)
Fit(r, x) ==
  /\ x.data \in DataOf(r) \union {Empty} /\ x.InFlight \in DataOf(r) \union {Empty}
  /\ x.Queued \in DataOf(r) \union {Empty}
  /\ x.type # "Unregistered" => x.state \in Active \union {"NoTarget", "NATMap"}
  /\ x.state = "UpdatePending" => x.InFlight # Empty /\ r \in Texts
  /\ x.Queued # Empty => r \in Texts
  /\ x.SRVChanged => r \notin Hosts
  /\ x.state \in {"NoTarget", "NATMap"} => r \notin Hosts
  /\ x.state \in {"Registered", "NATMap"} => x.id = 0
  /\ x.nta # "known" => x.id = 0
  /\ x.type = "Unregistered" => x.id = 0 /\ ~x.RequireGoodbye

Regs == {R \in [Records -> AnyRecord] : \A r \in Records : Fit(r, R[r])}

(* A record whose update under way carries its data.                          *)
Settled(r, state) == r \notin Texts \/ state \in {"Pending", "Refresh"}

(* A step of a record from x to y that needs no word of the server: it does   *)
(* not become registered, and if the answer to its update is still awaited it *)
(* keeps what the update said.                                                *)
Quiet(r, x, y) ==
  /\ y.id \in {0, x.id}
  /\ y.state = "Registered" => x.state = "Registered" /\ y.data = x.data
  /\ y.state = "UpdatePending" =>
       \/ x.state = "UpdatePending" /\ y.data = x.data /\ y.InFlight = x.InFlight
       \/ x.state = "Registered" /\ y.data = x.data /\ y.id = 0
  /\ y.id # 0 /\ Settled(r, y.state) => Settled(r, x.state) /\ y.data = x.data

QuietFrom(R) == {Q \in Regs : \A r \in Records : Quiet(r, R[r], Q[r])}

(* A step that another record's makes: what is awaited, if it still is, is    *)
(* what was, unless the service has no target any more.                       *)
Aside(r, x, y) ==
  /\ Quiet(r, x, y)
  /\ y.id # 0 => y.state \in {x.state, "NoTarget"} /\ y.data = x.data /\ y.InFlight = x.InFlight

LEMMA QuietOrder ==
  /\ \A r, x : Quiet(r, x, x) /\ Aside(r, x, x)
  /\ \A r, x, y, z : Quiet(r, x, y) /\ Quiet(r, y, z) => Quiet(r, x, z)
  /\ \A r, x, y, z : Aside(r, x, y) /\ Aside(r, y, z) => Aside(r, x, z)
  BY DEF Quiet, Aside

LEMMA QuietGoesOn ==
  ASSUME NEW R \in Regs, NEW Q \in QuietFrom(R)
  PROVE  R \in QuietFrom(R) /\ QuietFrom(Q) \subseteq QuietFrom(R)
<1>1. R \in QuietFrom(R)
  BY QuietOrder DEF QuietFrom
<1>2. ASSUME NEW P \in QuietFrom(Q) PROVE P \in QuietFrom(R)
  <2>1. \A r \in Records : Quiet(r, R[r], Q[r]) /\ Quiet(r, Q[r], P[r])
    BY <1>2 DEF QuietFrom
  <2> QED
    BY <1>2, <2>1, QuietOrder DEF QuietFrom
<1> QED
  BY <1>1, <1>2

(* One record changed.                                                        *)
One(R, r, y) == [R EXCEPT ![r] = y]

LEMMA OneChanges ==
  ASSUME NEW R \in Regs, NEW r \in Records, NEW y \in AnyRecord, Fit(r, y)
  PROVE  One(R, r, y) \in Regs /\ One(R, r, y)[r] = y /\ \A q \in Records \ {r} : One(R, r, y)[q] = R[q]
  BY DEF Regs, One

LEMMA OneQuiet ==
  ASSUME NEW R \in Regs, NEW r \in Records, NEW y \in AnyRecord, Fit(r, y), Quiet(r, R[r], y)
  PROVE  One(R, r, y) \in QuietFrom(R)
<1>1. \A q \in Records : Quiet(q, R[q], One(R, r, y)[q])
  BY OneChanges, QuietOrder
<1> QED
  BY <1>1, OneChanges DEF QuietFrom

LEMMA RegsAre ==
  ASSUME NEW R \in Regs, NEW r \in Records
  PROVE  R[r] \in AnyRecord /\ Fit(r, R[r])
  BY DEF Regs

LEMMA NoId == 0 \notin Ids
  BY DEF Ids

-----------------------------------------------------------------------------
(* What is done to one record.                                                *)

(* Only r changes, and quietly.                                               *)
OnlyQuiet(R, r) == {Q \in QuietFrom(R) : \A q \in Records \ {r} : Q[q] = R[q]}

LEMMA OnlyOne ==
  ASSUME NEW R \in Regs, NEW r \in Records, NEW y \in AnyRecord, Fit(r, y), Quiet(r, R[r], y)
  PROVE  One(R, r, y) \in OnlyQuiet(R, r) /\ One(R, r, y)[r] = y
  BY OneChanges, OneQuiet DEF OnlyQuiet

LEMMA OnlyGoesOn ==
  ASSUME NEW R \in Regs, NEW r \in Records, NEW Q \in OnlyQuiet(R, r)
  PROVE  /\ R \in OnlyQuiet(R, r) /\ Q \in Regs /\ Q \in QuietFrom(R) /\ Quiet(r, R[r], Q[r])
         /\ OnlyQuiet(Q, r) \subseteq OnlyQuiet(R, r)
         /\ \A q \in Records \ {r} : Q[q] = R[q]
<1>1. R \in OnlyQuiet(R, r) /\ Q \in Regs /\ Q \in QuietFrom(R) /\ \A q \in Records \ {r} : Q[q] = R[q]
  BY QuietGoesOn DEF OnlyQuiet, QuietFrom
<1>2. \A P \in OnlyQuiet(Q, r) : P \in OnlyQuiet(R, r)
  BY <1>1, QuietGoesOn DEF OnlyQuiet
<1>3. Quiet(r, R[r], Q[r])
  BY <1>1 DEF QuietFrom
<1> QED
  BY <1>1, <1>2, <1>3

LEMMA ServicesOf ==
  /\ \A t \in Texts : ServiceOf[t] \in Services
  /\ \A t \in Texts : ServiceOf[t] \in Records /\ ServiceOf[t] # t
  BY DnsUpdateAssumption DEF Records

LEMMA Kinds ==
  ASSUME NEW r \in Records
  PROVE  /\ (r \in Services /\ r \notin Texts /\ r \notin Hosts /\ DataOf(r) = Hosts)
            \/ (r \notin Services /\ r \in Texts /\ r \notin Hosts /\ DataOf(r) = Values)
            \/ (r \notin Services /\ r \notin Texts /\ r \in Hosts /\ DataOf(r) = Addresses \union {Outside})
         /\ Empty \notin DataOf(r) /\ DataOf(r) \subseteq Data /\ Empty \in Data
<1>1. r \in Services \/ r \in Texts \/ r \in Hosts
  BY DEF Records
<1>2. ~(r \in Services /\ r \in Texts) /\ ~(r \in Services /\ r \in Hosts) /\ ~(r \in Texts /\ r \in Hosts)
  BY DnsUpdateAssumption
<1> QED
  BY <1>1, <1>2, DnsUpdateAssumption DEF DataOf, Data

LEMMA TargetIs ==
  ASSUME Hostnames \subseteq Hosts, NEW R
  PROVE  GetServiceTarget(R) \in Hosts \union {Empty}
  BY DEF GetServiceTarget

(* What is begun anew awaits nothing.                                         *)
LEMMA ActivateIs ==
  ASSUME NEW R \in Regs, NEW r \in Records
  PROVE  /\ ActivateUnicastRegistration(R, r) \in OnlyQuiet(R, r)
         /\ Aside(r, R[r], ActivateUnicastRegistration(R, r)[r])
         /\ ActivateUnicastRegistration(R, r)[r].type = R[r].type
<1> DEFINE state == IF r \in Texts THEN R[ServiceOf[r]].state ELSE R[r].state
           y == [R[r] EXCEPT !.state = IF R[r].type = "Deregistering" THEN "DeregPending" ELSE "Pending",
                             !.due = TRUE, !.uselease = TRUE, !.id = 0, !.SRVChanged = FALSE,
                             !.updateError = FALSE, !.nat = "off", !.nta = "none"]
           z == [R[r] EXCEPT !.state = state]
<1>1. R[r] \in AnyRecord /\ Fit(r, R[r]) /\ R \in [Records -> AnyRecord]
  BY RegsAre DEF Regs
<1>2. CASE state = "NoTarget"
  <2>1. z \in AnyRecord /\ z.state = "NoTarget" /\ z.id = R[r].id /\ z.data = R[r].data /\ z.type = R[r].type
        /\ z.InFlight = R[r].InFlight /\ z.Queued = R[r].Queued /\ z.nta = R[r].nta
        /\ z.SRVChanged = R[r].SRVChanged /\ z.RequireGoodbye = R[r].RequireGoodbye
    BY <1>1, <1>2 DEF AnyRecord, regState
  <2>2. r \notin Hosts /\ (r \notin Texts => z = R[r])
    BY <1>1, <1>2, Kinds DEF AnyRecord, Fit
  <2>3. Fit(r, z) /\ Aside(r, R[r], z)
    BY <1>1, <2>1, <2>2 DEF Fit, Aside, Quiet, Settled
  <2>4. ActivateUnicastRegistration(R, r) = One(R, r, z)
    BY <1>1, <1>2 DEF ActivateUnicastRegistration, One
  <2> HIDE DEF z
  <2> QED
    BY <2>1, <2>3, <2>4, OnlyOne DEF Aside
<1>3. CASE state # "NoTarget"
  <2>1. y \in AnyRecord /\ y.state \in {"DeregPending", "Pending"} /\ y.id = 0 /\ y.data = R[r].data
        /\ y.type = R[r].type /\ y.InFlight = R[r].InFlight /\ y.Queued = R[r].Queued
    BY <1>1 DEF AnyRecord, regState
  <2>2. Fit(r, y) /\ Aside(r, R[r], y)
    BY <1>1, <2>1 DEF Fit, Aside, Quiet, Active
  <2>3. ActivateUnicastRegistration(R, r) = One(R, r, y)
    BY <1>1, <1>3 DEF ActivateUnicastRegistration, One
  <2> HIDE DEF y
  <2> QED
    BY <2>1, <2>2, <2>3, OnlyOne DEF Aside
<1> QED
  BY <1>2, <1>3

LEMMA RegisterIs ==
  ASSUME NEW R \in Regs, NEW r \in Records, NEW d \in DataOf(r) \union {Empty}, Hostnames \subseteq Hosts
  PROVE  Register(R, r, d) \in OnlyQuiet(R, r) /\ Register(R, r, d)[r].id = 0
         /\ Register(R, r, d)[r].state \notin {"Registered", "UpdatePending"}
<1> DEFINE goal == GetServiceTarget(R)
           new == [NewRecord EXCEPT !.type = "Registered", !.nat = R[r].nat,
                                    !.data = IF r \in Services THEN goal ELSE d]
           y == [new EXCEPT !.state = "NoTarget"]
           P == [R EXCEPT ![r] = [new EXCEPT !.state = "Pending"]]
<1>1. R[r] \in AnyRecord /\ R \in [Records -> AnyRecord]
  BY RegsAre DEF Regs
<1>2. goal \in Hosts \union {Empty}
  BY TargetIs
<1>3. new \in AnyRecord /\ new.id = 0 /\ new.state = "Zero" /\ new.nta = "none" /\ new.type = "Registered"
      /\ new.data \in DataOf(r) \union {Empty} /\ new.InFlight = Empty /\ new.Queued = Empty
  <2> DEFINE v == IF r \in Services THEN goal ELSE d
  <2>1. v \in DataOf(r) \union {Empty} /\ v \in Data /\ Empty \in Data
    BY <1>2, Kinds
  <2>2. new = [NewRecord EXCEPT !.type = "Registered", !.nat = R[r].nat, !.data = v]
    OBVIOUS
  <2>3. R[r].nat \in {"off", "asked", "mapped", "used"}
    BY <1>1 DEF AnyRecord
  <2> HIDE DEF v, new
  <2> QED
    BY <2>1, <2>2, <2>3 DEF AnyRecord, NewRecord, regState
<1>4. CASE r \in Services /\ goal = Empty
  <2>1. y \in AnyRecord /\ y.id = 0 /\ y.state = "NoTarget" /\ y.nta = "none" /\ y.type = "Registered"
        /\ y.data \in DataOf(r) \union {Empty} /\ y.InFlight = Empty /\ y.Queued = Empty
    BY <1>3 DEF AnyRecord, regState
  <2>2. Fit(r, y) /\ Quiet(r, R[r], y)
    BY <1>4, <2>1, Kinds DEF Fit, Quiet
  <2>3. Register(R, r, d) = One(R, r, y)
    BY <1>4 DEF Register, One
  <2> HIDE DEF y
  <2> QED
    BY <2>1, <2>2, <2>3, OnlyOne
<1>5. CASE ~(r \in Services /\ goal = Empty)
  <2> DEFINE N == [R EXCEPT ![r] = new]
             state == IF r \in Texts THEN N[ServiceOf[r]].state ELSE N[r].state
             a == [new EXCEPT !.state = state]
             b == [new EXCEPT !.state = "Pending", !.due = TRUE, !.uselease = TRUE, !.id = 0, !.SRVChanged = FALSE,
                              !.updateError = FALSE, !.nat = "off", !.nta = "none"]
  <2>1. Register(R, r, d) = ActivateUnicastRegistration(N, r)
    BY <1>5 DEF Register
  <2>2. N[r] = new /\ N \in [Records -> AnyRecord] /\ \A Q : One(N, r, Q) = One(R, r, Q)
    BY <1>1, <1>3 DEF One
  <2> HIDE DEF new
  <2>3. CASE state = "NoTarget"
    <3>1. r \in Texts
      BY <1>3, <2>2, <2>3
    <3>2. a \in AnyRecord /\ a.state = "NoTarget" /\ a.id = 0 /\ a.nta = "none" /\ a.type = "Registered"
          /\ a.data = new.data /\ a.InFlight = Empty /\ a.Queued = Empty
      BY <1>3, <2>3 DEF AnyRecord, regState
    <3>3. Fit(r, a) /\ Quiet(r, R[r], a)
      BY <1>3, <3>1, <3>2, Kinds DEF Fit, Quiet
    <3>4. Register(R, r, d) = One(N, r, a)
      BY <2>1, <2>2, <2>3 DEF ActivateUnicastRegistration, One
    <3> HIDE DEF a, N
    <3> QED
      BY <2>2, <3>2, <3>3, <3>4, OnlyOne
  <2>4. CASE state # "NoTarget"
    <3>1. b \in AnyRecord /\ b.state = "Pending" /\ b.id = 0 /\ b.nta = "none" /\ b.type = "Registered"
          /\ b.data = new.data /\ b.InFlight = Empty /\ b.Queued = Empty
      BY <1>3 DEF AnyRecord, regState
    <3>2. Fit(r, b) /\ Quiet(r, R[r], b)
      BY <1>3, <3>1 DEF Fit, Quiet, Active
    <3>3. Register(R, r, d) = One(N, r, b)
      BY <1>3, <2>1, <2>2, <2>4 DEF ActivateUnicastRegistration, One
    <3> HIDE DEF b, N
    <3> QED
      BY <2>2, <3>1, <3>2, <3>3, OnlyOne
  <2> QED
    BY <2>3, <2>4
<1> QED
  BY <1>4, <1>5

(* What the names of the host are, before and after the step.                 *)
Named == Hostnames \subseteq Hosts /\ Hostnames' \subseteq Hosts /\ AdvertisedV4' \in Addresses \union {Empty}

LEMMA AdvertiseIs ==
  ASSUME NEW R \in Regs, NEW h \in Hosts, Named
  PROVE  AdvertiseHostname(R, h) \in OnlyQuiet(R, h)
         /\ (R[h].type = "Unregistered" /\ R[h].state \notin {"Registered", "UpdatePending"} =>
               AdvertiseHostname(R, h)[h].state \notin {"Registered", "UpdatePending"})
         /\ (R[h].type = "Unregistered" => AdvertiseHostname(R, h)[h].id = 0)
<1>1. h \in Records /\ R[h] \in AnyRecord /\ Fit(h, R[h]) /\ R \in OnlyQuiet(R, h)
  <2>1. h \in Records
    BY DEF Records
  <2>2. R \in OnlyQuiet(R, h)
    BY QuietGoesOn, QuietOrder DEF OnlyQuiet, QuietFrom
  <2> QED
    BY <2>1, <2>2, RegsAre
<1>2. CASE AdvertisedV4' = Empty \/ R[h].type # "Unregistered"
  BY <1>1, <1>2 DEF AdvertiseHostname, Fit
<1>3. CASE ~(AdvertisedV4' = Empty \/ R[h].type # "Unregistered")
  <2>1. AdvertisedV4' \in DataOf(h) \union {Empty} /\ AdvertisedV4' \in Data
    BY <1>1, Kinds DEF Named, Data
  <2>2. CASE Behind
    <3> DEFINE y == [R[h] EXCEPT !.nat = "asked", !.state = "Unregistered", !.data = AdvertisedV4']
    <3>1. y \in AnyRecord /\ y.state = "Unregistered" /\ y.data = AdvertisedV4' /\ y.id = R[h].id
          /\ y.type = R[h].type /\ y.InFlight = R[h].InFlight /\ y.Queued = R[h].Queued
          /\ y.nta = R[h].nta /\ y.SRVChanged = R[h].SRVChanged /\ y.RequireGoodbye = R[h].RequireGoodbye
      BY <1>1, <2>1 DEF AnyRecord, regState
    <3>2. AdvertiseHostname(R, h) = One(R, h, y)
      <4>1. R \in [Records -> AnyRecord]
        BY DEF Regs
      <4> QED
        BY <1>1, <1>3, <2>2, <4>1 DEF AdvertiseHostname, One
    <3> HIDE DEF y
    <3>3. y.id = 0 /\ Fit(h, y) /\ Quiet(h, R[h], y)
      BY <1>1, <1>3, <2>1, <3>1 DEF Fit, Quiet
    <3> QED
      BY <1>1, <3>1, <3>2, <3>3, OnlyOne
  <2>3. CASE ~Behind
    <3>1. AdvertiseHostname(R, h) = Register(R, h, AdvertisedV4')
      BY <1>3, <2>3 DEF AdvertiseHostname
    <3> QED
      BY <1>1, <2>1, <3>1, RegisterIs DEF Named
  <2> QED
    BY <2>2, <2>3
<1> QED
  BY <1>2, <1>3

LEMMA CompleteIs ==
  ASSUME NEW R \in Regs, NEW r \in Records, Named
  PROVE  CompleteDeregistration(R, r) \in OnlyQuiet(R, r) /\ CompleteDeregistration(R, r)[r].id = 0
         /\ (R[r].state \notin {"Registered", "UpdatePending"} =>
               CompleteDeregistration(R, r)[r].state \notin {"Registered", "UpdatePending"})
<1> DEFINE y == [R[r] EXCEPT !.type = "Unregistered", !.RequireGoodbye = FALSE, !.id = 0, !.nta = "none",
                             !.nat = IF r \in Hosts /\ r \in Hostnames' THEN R[r].nat ELSE "off"]
           free == One(R, r, y)
<1>1. R[r] \in AnyRecord /\ Fit(r, R[r]) /\ R \in [Records -> AnyRecord]
  BY RegsAre DEF Regs
<1>2. y \in AnyRecord /\ y.state = R[r].state /\ y.data = R[r].data /\ y.id = 0 /\ y.type = "Unregistered"
      /\ y.InFlight = R[r].InFlight /\ y.Queued = R[r].Queued /\ y.nta = "none"
      /\ y.SRVChanged = R[r].SRVChanged /\ ~y.RequireGoodbye
  BY <1>1 DEF AnyRecord
<1>3. CompleteDeregistration(R, r) = IF r \in Hostnames' THEN AdvertiseHostname(free, r) ELSE free
  BY <1>1 DEF CompleteDeregistration, One
<1> HIDE DEF y
<1>4. Fit(r, y) /\ Quiet(r, R[r], y)
  BY <1>1, <1>2 DEF Fit, Quiet, Settled
<1>5. free \in OnlyQuiet(R, r) /\ free[r] = y
  BY <1>2, <1>4, OnlyOne
<1>6. free \in Regs /\ OnlyQuiet(free, r) \subseteq OnlyQuiet(R, r)
  BY <1>5, OnlyGoesOn
<1> HIDE DEF free
<1>7. CASE r \in Hostnames'
  <2>1. r \in Hosts
    BY <1>7 DEF Named
  <2>2. AdvertiseHostname(free, r) \in OnlyQuiet(free, r) /\ AdvertiseHostname(free, r)[r].id = 0
        /\ (y.state \notin {"Registered", "UpdatePending"} =>
              AdvertiseHostname(free, r)[r].state \notin {"Registered", "UpdatePending"})
    BY <1>2, <1>5, <1>6, <2>1, AdvertiseIs
  <2> QED
    BY <1>2, <1>3, <1>6, <1>7, <2>2
<1>8. CASE r \notin Hostnames'
  BY <1>2, <1>3, <1>5, <1>8
<1> QED
  BY <1>7, <1>8

LEMMA DeregisterRecordIs ==
  ASSUME NEW R \in Regs, NEW r \in Records, Named
  PROVE  uDNS_DeregisterRecord(R, r) \in OnlyQuiet(R, r)
<1>1. r \in Records /\ R[r] \in AnyRecord /\ Fit(r, R[r]) /\ R \in [Records -> AnyRecord] /\ R \in OnlyQuiet(R, r)
  <2>1. R \in OnlyQuiet(R, r)
    BY QuietGoesOn, QuietOrder DEF OnlyQuiet, QuietFrom
  <2> QED
    BY <2>1, RegsAre DEF Regs
<1>2. CASE R[r].state \in Active
  <2> DEFINE y == [R[r] EXCEPT !.state = "DeregPending", !.InFlight = Empty, !.due = TRUE]
  <2>1. y \in AnyRecord /\ y.state = "DeregPending" /\ y.data = R[r].data /\ y.id = R[r].id /\ y.type = R[r].type
        /\ y.InFlight = Empty /\ y.Queued = R[r].Queued /\ y.nta = R[r].nta
        /\ y.SRVChanged = R[r].SRVChanged /\ y.RequireGoodbye = R[r].RequireGoodbye
    BY <1>1 DEF AnyRecord, regState, Data
  <2>2. uDNS_DeregisterRecord(R, r) = One(R, r, y)
    BY <1>1, <1>2 DEF uDNS_DeregisterRecord, One
  <2> HIDE DEF y
  <2>3. Fit(r, y) /\ Quiet(r, R[r], y)
    BY <1>1, <1>2, <2>1 DEF Fit, Quiet, Settled, Active
  <2> QED
    BY <1>1, <2>1, <2>2, <2>3, OnlyOne
<1>3. CASE R[r].state \notin Active
  BY <1>1, <1>3, CompleteIs DEF uDNS_DeregisterRecord
<1> QED
  BY <1>2, <1>3

LEMMA DeregisterIs ==
  ASSUME NEW R \in Regs, NEW r \in Records, Named
  PROVE  Deregister(R, r) \in OnlyQuiet(R, r)
<1>1. r \in Records /\ R[r] \in AnyRecord /\ Fit(r, R[r]) /\ R \in [Records -> AnyRecord] /\ R \in OnlyQuiet(R, r)
  <2>1. R \in OnlyQuiet(R, r)
    BY QuietGoesOn, QuietOrder DEF OnlyQuiet, QuietFrom
  <2> QED
    BY <2>1, RegsAre DEF Regs
<1>2. CASE R[r].RequireGoodbye
  <2> DEFINE y == [R[r] EXCEPT !.type = "Deregistering"]
             Q == One(R, r, y)
  <2>1. y \in AnyRecord /\ y.state = R[r].state /\ y.data = R[r].data /\ y.id = R[r].id /\ y.type = "Deregistering"
        /\ y.InFlight = R[r].InFlight /\ y.Queued = R[r].Queued /\ y.nta = R[r].nta
        /\ y.SRVChanged = R[r].SRVChanged /\ y.RequireGoodbye = R[r].RequireGoodbye
    BY <1>1 DEF AnyRecord
  <2>2. Deregister(R, r) = uDNS_DeregisterRecord(Q, r)
    BY <1>1, <1>2 DEF Deregister, One
  <2> HIDE DEF y
  <2>3. Fit(r, y) /\ Quiet(r, R[r], y)
    BY <1>1, <1>2, <2>1 DEF Fit, Quiet, Settled
  <2>4. Q \in OnlyQuiet(R, r) /\ Q[r] = y
    BY <1>1, <2>1, <2>3, OnlyOne
  <2> HIDE DEF Q
  <2>5. Q \in Regs /\ OnlyQuiet(Q, r) \subseteq OnlyQuiet(R, r)
    BY <1>1, <2>4, OnlyGoesOn
  <2> QED
    BY <2>2, <2>5, DeregisterRecordIs
<1>3. CASE ~R[r].RequireGoodbye /\ R[r].type # "Deregistering"
  <2> DEFINE y == [R[r] EXCEPT !.nat = IF r \in Hosts THEN @ ELSE "off"]
             Q == One(R, r, y)
  <2>1. y \in AnyRecord /\ y.state = R[r].state /\ y.data = R[r].data /\ y.id = R[r].id /\ y.type = R[r].type
        /\ y.InFlight = R[r].InFlight /\ y.Queued = R[r].Queued /\ y.nta = R[r].nta
        /\ y.SRVChanged = R[r].SRVChanged /\ y.RequireGoodbye = R[r].RequireGoodbye
    BY <1>1 DEF AnyRecord
  <2>2. Deregister(R, r) = CompleteDeregistration(Q, r)
    BY <1>1, <1>3 DEF Deregister, One
  <2> HIDE DEF y
  <2>3. Fit(r, y) /\ Quiet(r, R[r], y)
    BY <1>1, <2>1 DEF Fit, Quiet, Settled
  <2>4. Q \in OnlyQuiet(R, r) /\ Q[r] = y
    BY <1>1, <2>1, <2>3, OnlyOne
  <2> HIDE DEF Q
  <2>5. Q \in Regs /\ OnlyQuiet(Q, r) \subseteq OnlyQuiet(R, r)
    BY <1>1, <2>4, OnlyGoesOn
  <2> QED
    BY <1>1, <2>2, <2>5, CompleteIs
<1>4. CASE ~R[r].RequireGoodbye /\ R[r].type = "Deregistering"
  BY <1>1, <1>4 DEF Deregister
<1> QED
  BY <1>2, <1>3, <1>4

-----------------------------------------------------------------------------
(* What is done to a service and its texts.                                   *)

LEMMA UpdateAllIs ==
  ASSUME NEW R \in Regs, NEW s \in Services, NEW reg \in BOOLEAN
  PROVE  /\ UpdateAllServiceRecords(R, s, reg) \in QuietFrom(R)
         /\ \A q \in Records \ Texts : UpdateAllServiceRecords(R, s, reg)[q] = R[q]
         /\ reg => \A q \in Records : Aside(q, R[q], UpdateAllServiceRecords(R, s, reg)[q])
<1> DEFINE Q == UpdateAllServiceRecords(R, s, reg)
           Mine(r) == r \in Texts /\ ServiceOf[r] = s /\ r \in Listed(R)
           Out(r) == [R[r] EXCEPT !.SRVChanged = TRUE, !.due = TRUE, !.state = "DeregPending", !.InFlight = Empty]
           Same(r) == [R[r] EXCEPT !.SRVChanged = FALSE]
           Keep(r) == R[r].state = "Registered" \/ (R[r].state = "Pending" /\ R[r].nta = "known")
           Again(r) == ActivateUnicastRegistration(One(R, r, Same(r)), r)[r]
           To(r) == IF ~Mine(r) THEN R[r] ELSE IF ~reg THEN Out(r) ELSE IF Keep(r) THEN Same(r) ELSE Again(r)
<1>0. R \in [Records -> AnyRecord] /\ \A r \in Records : R[r] \in AnyRecord /\ Fit(r, R[r])
  BY DEF Regs
<1>1. Q = IF reg /\ R[s].state = "NoTarget" THEN R ELSE [r \in Records |-> To(r)]
  BY DEF UpdateAllServiceRecords, One
<1>2. ASSUME NEW r \in Records, Mine(r), ~reg PROVE Out(r) \in AnyRecord /\ Fit(r, Out(r)) /\ Quiet(r, R[r], Out(r))
  <2> DEFINE y == Out(r)
  <2>1. y \in AnyRecord /\ y.state = "DeregPending" /\ y.data = R[r].data /\ y.id = R[r].id /\ y.type = R[r].type
        /\ y.InFlight = Empty /\ y.Queued = R[r].Queued /\ y.nta = R[r].nta
    BY <1>0 DEF AnyRecord, regState, Data
  <2> HIDE DEF Out
  <2>3. r \notin Hosts
    BY <1>2, Kinds
  <2>2. Fit(r, y) /\ Quiet(r, R[r], y)
    BY <1>0, <1>2, <2>1, <2>3 DEF Fit, Quiet, Settled, Active, Listed
  <2> QED
    BY <2>1, <2>2
<1>3. ASSUME NEW r \in Records PROVE Same(r) \in AnyRecord /\ Fit(r, Same(r)) /\ Aside(r, R[r], Same(r))
  <2> DEFINE y == Same(r)
  <2>1. y \in AnyRecord /\ y.state = R[r].state /\ y.data = R[r].data /\ y.id = R[r].id /\ y.type = R[r].type
        /\ y.InFlight = R[r].InFlight /\ y.Queued = R[r].Queued /\ y.nta = R[r].nta
        /\ y.SRVChanged = FALSE /\ y.RequireGoodbye = R[r].RequireGoodbye
    BY <1>0 DEF AnyRecord
  <2> HIDE DEF Same
  <2>2. Fit(r, y) /\ Aside(r, R[r], y)
    BY <1>0, <2>1 DEF Fit, Quiet, Aside, Settled
  <2> QED
    BY <2>1, <2>2
<1> HIDE DEF Same, Out
<1>4. ASSUME NEW r \in Records PROVE Again(r) \in AnyRecord /\ Fit(r, Again(r)) /\ Aside(r, R[r], Again(r))
  <2> DEFINE P == One(R, r, Same(r))
  <2>1. P \in Regs /\ P[r] = Same(r)
    BY <1>3, OneChanges
  <2> HIDE DEF P
  <2>2. ActivateUnicastRegistration(P, r) \in Regs /\ Aside(r, P[r], ActivateUnicastRegistration(P, r)[r])
    BY <2>1, ActivateIs DEF OnlyQuiet, QuietFrom
  <2>3. Aside(r, R[r], ActivateUnicastRegistration(P, r)[r])
    BY <1>3, <2>1, <2>2, QuietOrder
  <2> QED
    BY <2>2, <2>3, RegsAre DEF P
<1> HIDE DEF Again
<1>5. ASSUME NEW r \in Records
      PROVE  To(r) \in AnyRecord /\ Fit(r, To(r)) /\ Quiet(r, R[r], To(r)) /\ (reg => Aside(r, R[r], To(r)))
             /\ (r \notin Texts => To(r) = R[r])
  <2>1. CASE ~Mine(r)
    BY <1>0, <2>1, QuietOrder
  <2>2. CASE Mine(r) /\ ~reg
    BY <1>2, <2>2
  <2>3. CASE Mine(r) /\ reg
    BY <1>3, <1>4, <2>3 DEF Aside
  <2> QED
    BY <2>1, <2>2, <2>3
<1> HIDE DEF To
<1>6. CASE reg /\ R[s].state = "NoTarget"
  BY <1>1, <1>6, QuietGoesOn, QuietOrder DEF QuietFrom
<1>7. CASE ~(reg /\ R[s].state = "NoTarget")
  <2>1. Q = [r \in Records |-> To(r)]
    BY <1>1, <1>7
  <2> HIDE DEF Q
  <2>2. Q \in [Records -> AnyRecord] /\ \A r \in Records : Q[r] = To(r)
    BY <1>5, <2>1
  <2>3. Q \in QuietFrom(R) /\ (\A q \in Records \ Texts : Q[q] = R[q])
        /\ (reg => \A q \in Records : Aside(q, R[q], Q[q]))
    BY <1>5, <2>2 DEF QuietFrom, Regs
  <2> QED
    BY <2>3 DEF Q
<1> QED
  BY <1>6, <1>7

LEMMA ServiceIs ==
  ASSUME NEW s \in Services
  PROVE  s \in Records /\ s \notin Texts /\ s \notin Hosts /\ DataOf(s) = Hosts
<1>1. s \in Records
  BY DEF Records
<1> QED
  BY <1>1, Kinds

LEMMA RegisterAllIs ==
  ASSUME NEW R \in Regs, NEW s \in Services, Hostnames \subseteq Hosts
  PROVE  /\ RegisterAllServiceRecords(R, s) \in QuietFrom(R)
         /\ \A q \in Records \ {s} : Aside(q, R[q], RegisterAllServiceRecords(R, s)[q])
         /\ RegisterAllServiceRecords(R, s)[s].id = 0
         /\ RegisterAllServiceRecords(R, s)[s].state \notin {"Registered", "UpdatePending"}
<1> DEFINE y == [R[s] EXCEPT !.nat = "off"]
           P == One(R, s, y)
           N == Register(P, s, Empty)
           Q == UpdateAllServiceRecords(N, s, TRUE)
<1>1. s \in Records /\ R[s] \in AnyRecord /\ Fit(s, R[s]) /\ R \in [Records -> AnyRecord]
  BY ServiceIs, RegsAre DEF Regs
<1>2. RegisterAllServiceRecords(R, s) = Q
  BY <1>1 DEF RegisterAllServiceRecords, One
<1>3. y \in AnyRecord /\ y.state = R[s].state /\ y.data = R[s].data /\ y.id = R[s].id /\ y.type = R[s].type
      /\ y.InFlight = R[s].InFlight /\ y.Queued = R[s].Queued /\ y.nta = R[s].nta
      /\ y.SRVChanged = R[s].SRVChanged /\ y.RequireGoodbye = R[s].RequireGoodbye
  BY <1>1 DEF AnyRecord
<1> HIDE DEF y
<1>4. Fit(s, y) /\ Quiet(s, R[s], y)
  BY <1>1, <1>3 DEF Fit, Quiet, Settled
<1>5. P \in OnlyQuiet(R, s)
  BY <1>1, <1>3, <1>4, OnlyOne
<1>6. P \in Regs /\ OnlyQuiet(P, s) \subseteq OnlyQuiet(R, s)
  BY <1>1, <1>5, OnlyGoesOn
<1> HIDE DEF P
<1>7. N \in OnlyQuiet(R, s) /\ N[s].id = 0 /\ N[s].state \notin {"Registered", "UpdatePending"}
  BY <1>1, <1>6, RegisterIs
<1>8. N \in Regs /\ N \in QuietFrom(R) /\ \A q \in Records \ {s} : N[q] = R[q]
  BY <1>1, <1>7, OnlyGoesOn
<1> HIDE DEF N
<1>9. Q \in QuietFrom(N) /\ Q[s] = N[s] /\ \A q \in Records : Aside(q, N[q], Q[q])
  BY <1>8, UpdateAllIs, ServiceIs
<1> HIDE DEF Q
<1>10. Q \in QuietFrom(R)
  BY <1>8, <1>9, QuietGoesOn
<1> QED
  BY <1>2, <1>7, <1>8, <1>9, <1>10

LEMMA NoTargetIs ==
  ASSUME NEW R \in Regs, NEW s \in Services
  PROVE  /\ NoTarget(R, s) \in Regs /\ \A q \in Records \ {s} : NoTarget(R, s)[q] = R[q]
         /\ NoTarget(R, s)[s].state = "NoTarget" /\ NoTarget(R, s)[s].id = R[s].id
         /\ NoTarget(R, s)[s].type = R[s].type
<1> DEFINE y == [R[s] EXCEPT !.data = Empty, !.state = "NoTarget"]
<1>1. s \in Records /\ R[s] \in AnyRecord /\ Fit(s, R[s]) /\ R \in [Records -> AnyRecord]
  BY ServiceIs, RegsAre DEF Regs
<1>2. y \in AnyRecord /\ y.state = "NoTarget" /\ y.data = Empty /\ y.id = R[s].id /\ y.type = R[s].type
      /\ y.InFlight = R[s].InFlight /\ y.Queued = R[s].Queued /\ y.nta = R[s].nta
      /\ y.SRVChanged = R[s].SRVChanged /\ y.RequireGoodbye = R[s].RequireGoodbye
  BY <1>1 DEF AnyRecord, regState, Data
<1>3. NoTarget(R, s) = One(R, s, y)
  BY <1>1 DEF NoTarget, One
<1> HIDE DEF y
<1>4. Fit(s, y)
  BY <1>1, <1>2, ServiceIs DEF Fit
<1> QED
  BY <1>1, <1>2, <1>3, <1>4, OneChanges

LEMMA UpdateOneIs ==
  ASSUME NEW R \in Regs, NEW s \in Services, Hostnames \subseteq Hosts
  PROVE  /\ UpdateOneSRVRecord(R, s) \in QuietFrom(R)
         /\ R[s].state = "NoTarget" =>
              /\ \A q \in Records \ {s} : Aside(q, R[q], UpdateOneSRVRecord(R, s)[q])
              /\ UpdateOneSRVRecord(R, s)[s].state \notin {"Registered", "UpdatePending"}
<1> DEFINE new == GetServiceTarget(R)
           c == [R[s] EXCEPT !.SRVChanged = TRUE, !.due = TRUE]
           y == [c EXCEPT !.state = "Pending"]
           z == [c EXCEPT !.state = "DeregPending"]
           Q == UpdateOneSRVRecord(R, s)
<1>1. s \in Records /\ R[s] \in AnyRecord /\ Fit(s, R[s]) /\ R \in [Records -> AnyRecord] /\ R \in QuietFrom(R)
  BY ServiceIs, RegsAre, QuietGoesOn, QuietOrder DEF Regs, QuietFrom
<1>2. y \in AnyRecord /\ y.state = "Pending" /\ y.data = R[s].data /\ y.id = R[s].id /\ y.type = R[s].type
      /\ y.InFlight = R[s].InFlight /\ y.Queued = R[s].Queued /\ y.nta = R[s].nta
      /\ y.RequireGoodbye = R[s].RequireGoodbye
  BY <1>1 DEF AnyRecord, regState
<1>3. z \in AnyRecord /\ z.state = "DeregPending" /\ z.data = R[s].data /\ z.id = R[s].id /\ z.type = R[s].type
      /\ z.InFlight = R[s].InFlight /\ z.Queued = R[s].Queued /\ z.nta = R[s].nta
      /\ z.RequireGoodbye = R[s].RequireGoodbye
  BY <1>1 DEF AnyRecord, regState
<1>4. \/ Q = R
      \/ R[s].state = "NoTarget" /\ Q = RegisterAllServiceRecords(R, s)
      \/ R[s].state # "NoTarget" /\ Q = One(R, s, y)
      \/ R[s].state # "NoTarget" /\ Q = UpdateAllServiceRecords(One(R, s, z), s, FALSE)
  BY <1>1 DEF UpdateOneSRVRecord, One
<1> HIDE DEF y, z, c
<1>5. Fit(s, y) /\ Quiet(s, R[s], y) /\ Fit(s, z) /\ Quiet(s, R[s], z)
  BY <1>1, <1>2, <1>3, ServiceIs DEF Fit, Quiet, Settled, Active
<1>6. One(R, s, y) \in QuietFrom(R) /\ One(R, s, z) \in QuietFrom(R)
  BY <1>1, <1>2, <1>3, <1>5, OneQuiet
<1>7. UpdateAllServiceRecords(One(R, s, z), s, FALSE) \in QuietFrom(R)
  <2> DEFINE P == One(R, s, z)
  <2>1. P \in QuietFrom(R) /\ P \in Regs
    BY <1>6 DEF QuietFrom
  <2> HIDE DEF P
  <2>2. UpdateAllServiceRecords(P, s, FALSE) \in QuietFrom(R)
    BY <2>1, UpdateAllIs, QuietGoesOn
  <2> QED
    BY <2>2 DEF P
<1> HIDE DEF Q
<1>8. CASE Q = R
  <2>1. Q \in QuietFrom(R) /\ \A q \in Records : Aside(q, R[q], Q[q])
    BY <1>1, <1>8, QuietOrder
  <2> QED
    BY <1>8, <2>1 DEF Q
<1>9. CASE R[s].state = "NoTarget" /\ Q = RegisterAllServiceRecords(R, s)
  BY <1>9, RegisterAllIs DEF Q
<1>10. CASE R[s].state # "NoTarget" /\ Q = One(R, s, y)
  BY <1>6, <1>10 DEF Q
<1>11. CASE R[s].state # "NoTarget" /\ Q = UpdateAllServiceRecords(One(R, s, z), s, FALSE)
  BY <1>7, <1>11 DEF Q
<1> QED
  BY <1>4, <1>8, <1>9, <1>10, <1>11

-----------------------------------------------------------------------------
(* Answers.                                                                   *)

(* The answer to an update has made x to y: what y takes for registered is    *)
(* what the update said.                                                      *)
Answered(x, y) ==
  /\ y.id = 0
  /\ y.state \in {"Registered", "UpdatePending"} =>
       \/ x.state \in {"Pending", "Refresh"} /\ y.data = x.data
       \/ x.state = "UpdatePending" /\ y.data = x.InFlight
       \/ x.state = "UpdatePending" /\ y.state = "UpdatePending" /\ y.data = x.data /\ y.InFlight = x.InFlight

AnsweredFrom(R, r) ==
  {Q \in Regs : Answered(R[r], Q[r]) /\ \A q \in Records \ {r} : Aside(q, R[q], Q[q])}

LEMMA OneAnswered ==
  ASSUME NEW R \in Regs, NEW r \in Records, NEW y \in AnyRecord, Fit(r, y), Answered(R[r], y)
  PROVE  One(R, r, y) \in AnsweredFrom(R, r)
  BY OneChanges, QuietOrder DEF AnsweredFrom

(* A service's target may have changed meanwhile.                             *)
LEMMA SRVChangedIs ==
  ASSUME NEW R \in Regs, NEW s \in Services, s \in Listed(R), R[s].id = 0, Hostnames \subseteq Hosts,
         R[s].state # "UpdatePending", R[s].nta = "none"
  PROVE  /\ hndlSRVChanged(R, s) \in Regs
         /\ \A q \in Records \ {s} : Aside(q, R[q], hndlSRVChanged(R, s)[q])
         /\ hndlSRVChanged(R, s)[s].id = 0 /\ hndlSRVChanged(R, s)[s].state # "UpdatePending"
         /\ hndlSRVChanged(R, s)[s].state = "Registered" =>
              R[s].state \in {"Pending", "Registered"} /\ hndlSRVChanged(R, s)[s].data = R[s].data
<1> DEFINE goal == GetServiceTarget(R)
           N == NoTarget(R, s)
           done(P) == One(P, s, [P[s] EXCEPT !.SRVChanged = FALSE])
           y == [R[s] EXCEPT !.due = TRUE, !.state = "DeregPending"]
           z == [R[s] EXCEPT !.state = IF R[s].state = "Pending" THEN "Registered" ELSE R[s].state]
           Q == hndlSRVChanged(R, s)
           U == UpdateOneSRVRecord(done(N), s)
           Good(P) == /\ P \in Regs /\ (\A q \in Records \ {s} : Aside(q, R[q], P[q]))
                      /\ P[s].id = 0 /\ P[s].state # "UpdatePending"
                      /\ P[s].state = "Registered" =>
                           R[s].state \in {"Pending", "Registered"} /\ P[s].data = R[s].data
<1>1. s \in Records /\ R[s] \in AnyRecord /\ Fit(s, R[s]) /\ R \in [Records -> AnyRecord]
      /\ R[s].type # "Unregistered"
  BY ServiceIs, RegsAre DEF Regs, Listed
<1>2. N \in Regs /\ (\A q \in Records \ {s} : N[q] = R[q]) /\ N[s].state = "NoTarget" /\ N[s].id = 0
      /\ N[s].type = R[s].type
  BY NoTargetIs
<1>3. y \in AnyRecord /\ y.state = "DeregPending" /\ y.data = R[s].data /\ y.id = 0 /\ y.type = R[s].type
      /\ y.InFlight = R[s].InFlight /\ y.Queued = R[s].Queued
  BY <1>1 DEF AnyRecord, regState
<1>4. z \in AnyRecord /\ z.data = R[s].data /\ z.id = 0 /\ z.type = R[s].type
      /\ z.InFlight = R[s].InFlight /\ z.Queued = R[s].Queued
      /\ z.state = IF R[s].state = "Pending" THEN "Registered" ELSE R[s].state
  BY <1>1 DEF AnyRecord, regState
<1>5. Q \in {done(N), One(R, s, y), done(R), U, done(One(R, s, z))}
  <2>1. \A P \in Regs : P \in [Records -> AnyRecord] /\ done(P) = [P EXCEPT ![s].SRVChanged = FALSE]
    BY <1>1 DEF One, Regs
  <2>2. One(R, s, y) = [R EXCEPT ![s].due = TRUE, ![s].state = "DeregPending"]
    BY <1>1 DEF One
  <2>3. One(R, s, z) = [R EXCEPT ![s].state = IF @ = "Pending" THEN "Registered" ELSE @]
    BY <1>1 DEF One
  <2> HIDE DEF y, z
  <2>4. One(R, s, z) \in Regs
    BY <1>1, <1>4, OneChanges, ServiceIs DEF Fit, Active
  <2>5. done(R) = [R EXCEPT ![s].SRVChanged = FALSE] /\ done(N) = [N EXCEPT ![s].SRVChanged = FALSE]
        /\ done(One(R, s, z)) = [One(R, s, z) EXCEPT ![s].SRVChanged = FALSE]
    BY <1>2, <2>1, <2>4
  <2> HIDE DEF done, N
  <2> QED
    BY <2>2, <2>3, <2>5 DEF hndlSRVChanged, N
<1> HIDE DEF y, z, N
<1>6. ASSUME NEW P \in Regs
      PROVE  /\ done(P) \in Regs /\ (\A q \in Records \ {s} : done(P)[q] = P[q])
             /\ done(P)[s].state = P[s].state /\ done(P)[s].id = P[s].id /\ done(P)[s].data = P[s].data
             /\ done(P)[s].type = P[s].type
  <2> DEFINE w == [P[s] EXCEPT !.SRVChanged = FALSE]
  <2>1. P[s] \in AnyRecord /\ Fit(s, P[s])
    BY <1>1, RegsAre
  <2>2. w \in AnyRecord /\ w.state = P[s].state /\ w.data = P[s].data /\ w.id = P[s].id /\ w.type = P[s].type
        /\ w.InFlight = P[s].InFlight /\ w.Queued = P[s].Queued /\ w.nta = P[s].nta
        /\ w.SRVChanged = FALSE /\ w.RequireGoodbye = P[s].RequireGoodbye
    BY <2>1 DEF AnyRecord
  <2>3. done(P) = One(P, s, w)
    OBVIOUS
  <2> HIDE DEF w, done
  <2>4. Fit(s, w)
    BY <2>1, <2>2 DEF Fit
  <2> QED
    BY <1>1, <2>2, <2>3, <2>4, OneChanges
<1> HIDE DEF done, Q, U
<1>7. Good(done(N)) /\ Good(done(R))
  BY <1>1, <1>2, <1>6, QuietOrder
<1>8. Good(One(R, s, y))
  <2>1. Fit(s, y)
    BY <1>1, <1>3, ServiceIs DEF Fit, Active
  <2> QED
    BY <1>1, <1>3, <2>1, OneChanges, QuietOrder
<1>9. Good(done(One(R, s, z)))
  <2>1. Fit(s, z)
    BY <1>1, <1>4, ServiceIs DEF Fit, Active
  <2> DEFINE P == One(R, s, z)
  <2>2. P \in Regs /\ P[s] = z /\ \A q \in Records \ {s} : P[q] = R[q]
    BY <1>1, <1>4, <2>1, OneChanges
  <2> HIDE DEF P
  <2>3. Good(done(P))
    BY <1>1, <1>4, <1>6, <2>2, QuietOrder
  <2> QED
    BY <2>3 DEF P
<1>10. Good(U)
  <2> DEFINE P == done(N)
  <2>1. P \in Regs /\ (\A q \in Records \ {s} : P[q] = R[q]) /\ P[s].state = "NoTarget" /\ P[s].id = 0
        /\ s \in Listed(P)
    BY <1>1, <1>2, <1>6 DEF Listed
  <2> HIDE DEF P
  <2>2. /\ UpdateOneSRVRecord(P, s) \in QuietFrom(P)
        /\ \A q \in Records \ {s} : Aside(q, P[q], UpdateOneSRVRecord(P, s)[q])
        /\ UpdateOneSRVRecord(P, s)[s].state \notin {"Registered", "UpdatePending"}
    BY <2>1, UpdateOneIs
  <2>3. U = UpdateOneSRVRecord(P, s)
    BY DEF U, P
  <2>4. U \in Regs /\ U[s].id = 0
    BY <1>1, <2>1, <2>2, <2>3 DEF QuietFrom, Quiet
  <2> QED
    BY <2>1, <2>2, <2>3, <2>4
<1> HIDE DEF Good
<1>11. Good(Q)
  BY <1>5, <1>7, <1>8, <1>9, <1>10
<1> QED
  BY <1>11 DEF Good, Q

(* The one who is deregistered is free.                                       *)
LEMMA FreedIs ==
  ASSUME NEW R \in Regs, NEW r \in Records, Named, NEW x \in AnyRecord,
         x.data = R[r].data, x.InFlight = R[r].InFlight, x.Queued = R[r].Queued, x.state = "Unregistered",
         x.SRVChanged = R[r].SRVChanged
  PROVE  CompleteDeregistration(One(R, r, x), r) \in AnsweredFrom(R, r)
<1> DEFINE y == [x EXCEPT !.type = "Unregistered", !.RequireGoodbye = FALSE, !.id = 0, !.nta = "none",
                          !.nat = IF r \in Hosts /\ r \in Hostnames' THEN x.nat ELSE "off"]
           free == One(R, r, y)
           Q == CompleteDeregistration(One(R, r, x), r)
<1>1. R[r] \in AnyRecord /\ Fit(r, R[r]) /\ R \in [Records -> AnyRecord]
  BY RegsAre DEF Regs
<1>2. y \in AnyRecord /\ y.state = "Unregistered" /\ y.data = R[r].data /\ y.id = 0 /\ y.type = "Unregistered"
      /\ y.InFlight = R[r].InFlight /\ y.Queued = R[r].Queued /\ y.nta = "none"
      /\ y.SRVChanged = R[r].SRVChanged
      /\ ~y.RequireGoodbye
  BY DEF AnyRecord
<1>3. Q = IF r \in Hostnames' THEN AdvertiseHostname(free, r) ELSE free
  BY <1>1 DEF CompleteDeregistration, One
<1> HIDE DEF y
<1>4. Fit(r, y) /\ Answered(R[r], y)
  BY <1>1, <1>2 DEF Fit, Answered
<1>5. free \in Regs /\ free[r] = y /\ (\A q \in Records \ {r} : free[q] = R[q]) /\ free \in AnsweredFrom(R, r)
  BY <1>2, <1>4, OneChanges, OneAnswered
<1> HIDE DEF free, Q
<1>6. CASE r \in Hostnames'
  <2>1. r \in Hosts
    BY <1>6 DEF Named
  <2>2. Q \in OnlyQuiet(free, r) /\ Q[r].id = 0 /\ Q[r].state \notin {"Registered", "UpdatePending"}
    BY <1>2, <1>3, <1>5, <1>6, <2>1, AdvertiseIs
  <2>3. Q \in Regs /\ \A q \in Records \ {r} : Q[q] = R[q]
    BY <1>5, <2>2, OnlyGoesOn
  <2> QED
    BY <2>2, <2>3, QuietOrder DEF AnsweredFrom, Answered, Q
<1>7. CASE r \notin Hostnames'
  BY <1>3, <1>5, <1>7 DEF Q
<1> QED
  BY <1>6, <1>7

(* What the answer to its update makes of a record.                           *)
LEMMA ReplyIs ==
  ASSUME NEW R \in Regs, NEW r \in Records, R[r].id # 0, Named, NEW err
  PROVE  hndlRecordUpdateReply(R, r, err) \in AnsweredFrom(R, r)
<1> DEFINE p == [R[r] EXCEPT !.due = FALSE, !.id = 0, !.nta = "none", !.updateError = err # "none"]
           u == [p EXCEPT !.state = "Registered", !.data = p.InFlight, !.InFlight = Empty]
           q == IF p.state = "UpdatePending" THEN u ELSE p
           free == [p EXCEPT !.state = "Unregistered"]
           g == [q EXCEPT !.state = IF q.state \in {"Pending", "Refresh"} /\ err = "none" THEN "Registered" ELSE q.state]
           a == [p EXCEPT !.state = IF r \in Services /\ p.state = "DeregPending" THEN "NoTarget" ELSE p.state]
           b == [q EXCEPT !.SRVChanged = FALSE, !.state = "NoTarget"]
           c == [q EXCEPT !.uselease = FALSE, !.due = TRUE]
           d == [g EXCEPT !.state = "UpdatePending", !.InFlight = g.Queued, !.Queued = Empty, !.due = TRUE]
           Q == hndlRecordUpdateReply(R, r, err)
<1>1. R[r] \in AnyRecord /\ Fit(r, R[r]) /\ R \in [Records -> AnyRecord] /\ R[r].type # "Unregistered"
      /\ R[r].state \in (Active \ {"Registered"}) \union {"NoTarget"}
  <2>1. R[r] \in AnyRecord /\ Fit(r, R[r]) /\ R \in [Records -> AnyRecord]
    BY RegsAre DEF Regs
  <2> QED
    BY <2>1 DEF Fit
<1>2. p \in AnyRecord /\ p.id = 0 /\ p.nta = "none" /\ p.state = R[r].state /\ p.data = R[r].data
      /\ p.type = R[r].type /\ p.InFlight = R[r].InFlight /\ p.Queued = R[r].Queued
      /\ p.SRVChanged = R[r].SRVChanged
  BY <1>1 DEF AnyRecord
<1> HIDE DEF p
<1>3. u \in AnyRecord /\ u.id = 0 /\ u.nta = "none" /\ u.state = "Registered" /\ u.data = R[r].InFlight
      /\ u.type = R[r].type /\ u.InFlight = Empty /\ u.Queued = R[r].Queued /\ u.SRVChanged = R[r].SRVChanged
  BY <1>2 DEF AnyRecord, regState, Data
<1>4. free \in AnyRecord /\ free.state = "Unregistered" /\ free.data = R[r].data /\ free.InFlight = R[r].InFlight
      /\ free.Queued = R[r].Queued /\ free.SRVChanged = R[r].SRVChanged
  BY <1>2 DEF AnyRecord, regState
<1>5. a \in AnyRecord /\ a.id = 0 /\ a.nta = "none" /\ a.data = R[r].data
      /\ a.type = R[r].type /\ a.InFlight = R[r].InFlight /\ a.Queued = R[r].Queued
      /\ a.SRVChanged = R[r].SRVChanged
      /\ a.state = IF r \in Services /\ R[r].state = "DeregPending" THEN "NoTarget" ELSE R[r].state
  BY <1>2 DEF AnyRecord, regState
<1> HIDE DEF u
<1>6. q \in AnyRecord /\ q.id = 0 /\ q.nta = "none" /\ q.type = R[r].type /\ q.Queued = R[r].Queued
      /\ q.SRVChanged = R[r].SRVChanged
      /\ \/ R[r].state = "UpdatePending" /\ q.state = "Registered" /\ q.data = R[r].InFlight
            /\ q.InFlight = Empty
         \/ /\ R[r].state # "UpdatePending" /\ q.state = R[r].state /\ q.data = R[r].data
            /\ q.InFlight = R[r].InFlight
  BY <1>2, <1>3
<1> HIDE DEF q
<1>7. g \in AnyRecord /\ g.id = 0 /\ g.nta = "none" /\ g.type = R[r].type /\ g.Queued = R[r].Queued
      /\ g.SRVChanged = R[r].SRVChanged /\ g.data = q.data /\ g.InFlight = q.InFlight
      /\ g.state = IF q.state \in {"Pending", "Refresh"} /\ err = "none" THEN "Registered" ELSE q.state
  BY <1>6 DEF AnyRecord, regState
<1>8. b \in AnyRecord /\ b.id = 0 /\ b.nta = "none" /\ b.type = R[r].type /\ b.Queued = R[r].Queued
      /\ b.SRVChanged = FALSE /\ b.data = q.data /\ b.InFlight = q.InFlight /\ b.state = "NoTarget"
  BY <1>6 DEF AnyRecord, regState
<1>9. c \in AnyRecord /\ c.id = 0 /\ c.nta = "none" /\ c.type = R[r].type /\ c.Queued = R[r].Queued
      /\ c.SRVChanged = R[r].SRVChanged /\ c.data = q.data /\ c.InFlight = q.InFlight /\ c.state = q.state
  BY <1>6 DEF AnyRecord
<1> HIDE DEF g
<1>10. d \in AnyRecord /\ d.id = 0 /\ d.nta = "none" /\ d.type = R[r].type /\ d.Queued = Empty
      /\ d.SRVChanged = R[r].SRVChanged /\ d.data = q.data /\ d.InFlight = R[r].Queued
      /\ d.state = "UpdatePending"
  BY <1>7 DEF AnyRecord, regState, Data
<1>11. \/ /\ ~(R[r].type = "Deregistering" /\ R[r].state = "DeregPending") /\ ~SleepState /\ q.SRVChanged
          /\ r \in Services /\ Q = hndlSRVChanged(One(R, r, q), r)
       \/ Q = CompleteDeregistration(One(R, r, free), r)
       \/ Q = One(R, r, a)
       \/ q.SRVChanged /\ Q = One(R, r, b)
       \/ q.state \in {"Pending", "Refresh"} /\ Q = One(R, r, c)
       \/ g.Queued # Empty /\ g.state = "Registered" /\ Q = One(R, r, d)
       \/ Q = One(R, r, g)
  BY <1>2 DEF hndlRecordUpdateReply, One, p, q, g, u
<1> HIDE DEF Q, a, b, c, d, free
<1>12. CASE Q = CompleteDeregistration(One(R, r, free), r)
  BY <1>4, <1>12, FreedIs DEF Q
<1>13. CASE Q = One(R, r, a)
  <2>1. Fit(r, a) /\ Answered(R[r], a)
    BY <1>1, <1>5, Kinds DEF Fit, Answered, Active
  <2> QED
    BY <1>5, <1>13, <2>1, OneAnswered DEF Q
<1>14. CASE q.SRVChanged /\ Q = One(R, r, b)
  <2>1. Fit(r, b) /\ Answered(R[r], b)
    BY <1>1, <1>6, <1>8, <1>14 DEF Fit, Answered
  <2> QED
    BY <1>8, <1>14, <2>1, OneAnswered DEF Q
<1>15. CASE q.state \in {"Pending", "Refresh"} /\ Q = One(R, r, c)
  <2>1. Fit(r, c) /\ Answered(R[r], c)
    BY <1>1, <1>6, <1>9, <1>15 DEF Fit, Answered, Active
  <2> QED
    BY <1>9, <1>15, <2>1, OneAnswered DEF Q
<1>16. CASE g.Queued # Empty /\ g.state = "Registered" /\ Q = One(R, r, d)
  <2>1. Fit(r, d) /\ Answered(R[r], d)
    BY <1>1, <1>6, <1>7, <1>10, <1>16 DEF Fit, Answered, Active
  <2> QED
    BY <1>10, <1>16, <2>1, OneAnswered DEF Q
<1>17. CASE Q = One(R, r, g)
  <2>1. Fit(r, g) /\ Answered(R[r], g)
    BY <1>1, <1>6, <1>7 DEF Fit, Answered, Active
  <2> QED
    BY <1>7, <1>17, <2>1, OneAnswered DEF Q
<1>18. CASE r \in Services /\ Q = hndlSRVChanged(One(R, r, q), r)
  <2> DEFINE P == One(R, r, q)
  <2>1. R[r].state # "UpdatePending" /\ q.state # "UpdatePending" /\ q.state # "Registered"
    BY <1>1, <1>6, <1>18, ServiceIs DEF Fit
  <2>2. Fit(r, q)
    BY <1>1, <1>6, <2>1 DEF Fit, Active
  <2>3. P \in Regs /\ P[r] = q /\ \A x \in Records \ {r} : P[x] = R[x]
    BY <1>6, <2>2, OneChanges
  <2>4. r \in Listed(P)
    BY <1>1, <1>6, <2>3 DEF Listed
  <2> HIDE DEF P
  <2>5. Q = hndlSRVChanged(P, r)
    BY <1>18 DEF P
  <2>6. /\ Q \in Regs /\ \A x \in Records \ {r} : Aside(x, P[x], Q[x])
        /\ Q[r].id = 0 /\ Q[r].state # "UpdatePending"
        /\ Q[r].state = "Registered" => q.state \in {"Pending", "Registered"} /\ Q[r].data = q.data
    BY <1>6, <1>18, <2>1, <2>3, <2>4, <2>5, SRVChangedIs DEF Named
  <2>7. Answered(R[r], Q[r])
    BY <1>6, <2>1, <2>6 DEF Answered
  <2> QED
    BY <2>3, <2>6, <2>7 DEF AnsweredFrom, Q
<1> QED
  BY <1>11, <1>12, <1>13, <1>14, <1>15, <1>16, <1>17, <1>18

-----------------------------------------------------------------------------
(* Folds of what is done to one record or service.                            *)

(* UpdateAllSRVRecords.                                                       *)
UpdatedServices(b, T) == FoldSet(LAMBDA s, R : UpdateOneSRVRecord(R, s), b, T)

LEMMA UpdatedServicesWithin ==
  ASSUME NEW T, IsFiniteSet(T), NEW D, NEW b \in D, \A s \in T, R \in D : UpdateOneSRVRecord(R, s) \in D
  PROVE  UpdatedServices(b, T) \in D
<1> DEFINE ch == [s \in SUBSET T |-> CHOOSE e \in s : TRUE]
           G == [z \in T \X D |-> UpdateOneSRVRecord(z[2], z[1])]
           IsFold(g) == g = [s \in SUBSET T |->
             IF s = {} THEN b
             ELSE UpdateOneSRVRecord(g[s \ {CHOOSE e \in s : TRUE}], CHOOSE e \in s : TRUE)]
           fold == CHOOSE g : IsFold(g)
           EE == [s \in SUBSET T |-> D]
<1>1. UpdatedServices(b, T) = fold[T]
  BY DEF UpdatedServices, FoldSet, MapThenFoldSet
<1>2. G \in [T \X D -> D]
  OBVIOUS
<1>3. IsChoice(ch, T) /\ \A s \in SUBSET T : ch[s] = CHOOSE e \in s : TRUE
  BY DEF IsChoice
<1>4. \A e \in T, z \in D : G[<<e, z>>] = UpdateOneSRVRecord(z, e)
  OBVIOUS
<1>5. \A s \in SUBSET T : EE[s] = D
  OBVIOUS
<1> HIDE DEF G, IsFold, fold, ch, EE
<1>6. PICK f \in [SUBSET T -> D] : FoldsAs(f, T, ch, b, G)
  BY <1>2, <1>3, FoldExists
<1>7. \A s \in SUBSET T : s # {} => ch[s] \in s /\ ch[s] \in T /\ Rest(ch, s) \in SUBSET T
  BY <1>3, RestIsSmaller
<1>8. \A s \in SUBSET T : s # {} => G[<<ch[s], f[Rest(ch, s)]>>] = UpdateOneSRVRecord(f[Rest(ch, s)], ch[s])
  BY <1>4, <1>6, <1>7
<1>9. IsFold(f)
  BY <1>3, <1>6, <1>8 DEF IsFold, FoldsAs, Rest
<1>10. IsFold(fold)
  BY <1>9 DEF fold
<1>11. fold[{}] = b /\ \A s \in SUBSET T : s # {} => fold[s] = UpdateOneSRVRecord(fold[Rest(ch, s)], ch[s])
  BY <1>3, <1>10 DEF IsFold, Rest
<1>12. fold[{}] \in EE[{}]
  BY <1>5, <1>11
<1>13. \A s \in SUBSET T : s # {} /\ fold[Rest(ch, s)] \in EE[Rest(ch, s)] => fold[s] \in EE[s]
  BY <1>5, <1>7, <1>11
<1>14. fold[T] \in EE[T]
  BY <1>3, <1>12, <1>13, FoldWithin
<1> QED
  BY <1>1, <1>5, <1>14

(* mDNS_RegisterService.                                                      *)
RegisteredTexts(d, b, T) == FoldSet(LAMBDA t, R : Register(R, t, d), b, T)

LEMMA RegisteredTextsWithin ==
  ASSUME NEW d, NEW T, IsFiniteSet(T), NEW D, NEW b \in D, \A t \in T, R \in D : Register(R, t, d) \in D
  PROVE  RegisteredTexts(d, b, T) \in D
<1> DEFINE ch == [s \in SUBSET T |-> CHOOSE e \in s : TRUE]
           G == [z \in T \X D |-> Register(z[2], z[1], d)]
           IsFold(g) == g = [s \in SUBSET T |->
             IF s = {} THEN b
             ELSE Register(g[s \ {CHOOSE e \in s : TRUE}], CHOOSE e \in s : TRUE, d)]
           fold == CHOOSE g : IsFold(g)
           EE == [s \in SUBSET T |-> D]
<1>1. RegisteredTexts(d, b, T) = fold[T]
  BY DEF RegisteredTexts, FoldSet, MapThenFoldSet
<1>2. G \in [T \X D -> D]
  OBVIOUS
<1>3. IsChoice(ch, T) /\ \A s \in SUBSET T : ch[s] = CHOOSE e \in s : TRUE
  BY DEF IsChoice
<1>4. \A e \in T, z \in D : G[<<e, z>>] = Register(z, e, d)
  OBVIOUS
<1>5. \A s \in SUBSET T : EE[s] = D
  OBVIOUS
<1> HIDE DEF G, IsFold, fold, ch, EE
<1>6. PICK f \in [SUBSET T -> D] : FoldsAs(f, T, ch, b, G)
  BY <1>2, <1>3, FoldExists
<1>7. \A s \in SUBSET T : s # {} => ch[s] \in s /\ ch[s] \in T /\ Rest(ch, s) \in SUBSET T
  BY <1>3, RestIsSmaller
<1>8. \A s \in SUBSET T : s # {} => G[<<ch[s], f[Rest(ch, s)]>>] = Register(f[Rest(ch, s)], ch[s], d)
  BY <1>4, <1>6, <1>7
<1>9. IsFold(f)
  BY <1>3, <1>6, <1>8 DEF IsFold, FoldsAs, Rest
<1>10. IsFold(fold)
  BY <1>9 DEF fold
<1>11. fold[{}] = b /\ \A s \in SUBSET T : s # {} => fold[s] = Register(fold[Rest(ch, s)], ch[s], d)
  BY <1>3, <1>10 DEF IsFold, Rest
<1>12. fold[{}] \in EE[{}]
  BY <1>5, <1>11
<1>13. \A s \in SUBSET T : s # {} /\ fold[Rest(ch, s)] \in EE[Rest(ch, s)] => fold[s] \in EE[s]
  BY <1>5, <1>7, <1>11
<1>14. fold[T] \in EE[T]
  BY <1>3, <1>12, <1>13, FoldWithin
<1> QED
  BY <1>1, <1>5, <1>14

(* mDNS_DeregisterService.                                                    *)
Deregistered(b, T) == FoldSet(LAMBDA r, R : Deregister(R, r), b, T)

LEMMA DeregisteredWithin ==
  ASSUME NEW T, IsFiniteSet(T), NEW D, NEW b \in D, \A r \in T, R \in D : Deregister(R, r) \in D
  PROVE  Deregistered(b, T) \in D
<1> DEFINE ch == [s \in SUBSET T |-> CHOOSE e \in s : TRUE]
           G == [z \in T \X D |-> Deregister(z[2], z[1])]
           IsFold(g) == g = [s \in SUBSET T |->
             IF s = {} THEN b
             ELSE Deregister(g[s \ {CHOOSE e \in s : TRUE}], CHOOSE e \in s : TRUE)]
           fold == CHOOSE g : IsFold(g)
           EE == [s \in SUBSET T |-> D]
<1>1. Deregistered(b, T) = fold[T]
  BY DEF Deregistered, FoldSet, MapThenFoldSet
<1>2. G \in [T \X D -> D]
  OBVIOUS
<1>3. IsChoice(ch, T) /\ \A s \in SUBSET T : ch[s] = CHOOSE e \in s : TRUE
  BY DEF IsChoice
<1>4. \A e \in T, z \in D : G[<<e, z>>] = Deregister(z, e)
  OBVIOUS
<1>5. \A s \in SUBSET T : EE[s] = D
  OBVIOUS
<1> HIDE DEF G, IsFold, fold, ch, EE
<1>6. PICK f \in [SUBSET T -> D] : FoldsAs(f, T, ch, b, G)
  BY <1>2, <1>3, FoldExists
<1>7. \A s \in SUBSET T : s # {} => ch[s] \in s /\ ch[s] \in T /\ Rest(ch, s) \in SUBSET T
  BY <1>3, RestIsSmaller
<1>8. \A s \in SUBSET T : s # {} => G[<<ch[s], f[Rest(ch, s)]>>] = Deregister(f[Rest(ch, s)], ch[s])
  BY <1>4, <1>6, <1>7
<1>9. IsFold(f)
  BY <1>3, <1>6, <1>8 DEF IsFold, FoldsAs, Rest
<1>10. IsFold(fold)
  BY <1>9 DEF fold
<1>11. fold[{}] = b /\ \A s \in SUBSET T : s # {} => fold[s] = Deregister(fold[Rest(ch, s)], ch[s])
  BY <1>3, <1>10 DEF IsFold, Rest
<1>12. fold[{}] \in EE[{}]
  BY <1>5, <1>11
<1>13. \A s \in SUBSET T : s # {} /\ fold[Rest(ch, s)] \in EE[Rest(ch, s)] => fold[s] \in EE[s]
  BY <1>5, <1>7, <1>11
<1>14. fold[T] \in EE[T]
  BY <1>3, <1>12, <1>13, FoldWithin
<1> QED
  BY <1>1, <1>5, <1>14

(* mDNS_SetPrimaryInterfaceInfo.                                              *)
Readvertise(R, h, a) ==
  AdvertiseHostname(IF R[h].type = "Registered" /\ R[h].data # a THEN Deregister(R, h) ELSE R, h)

(* The hosts one by one.                                                      *)
Readvertised(a, b, T) == FoldSet(LAMBDA h, R : Readvertise(R, h, a), b, T)

LEMMA ReadvertisedWithin ==
  ASSUME NEW a, NEW T, IsFiniteSet(T), NEW D, NEW b \in D, \A h \in T, R \in D : Readvertise(R, h, a) \in D
  PROVE  Readvertised(a, b, T) \in D
<1> DEFINE ch == [s \in SUBSET T |-> CHOOSE e \in s : TRUE]
           G == [z \in T \X D |-> Readvertise(z[2], z[1], a)]
           IsFold(g) == g = [s \in SUBSET T |->
             IF s = {} THEN b
             ELSE Readvertise(g[s \ {CHOOSE e \in s : TRUE}], CHOOSE e \in s : TRUE, a)]
           fold == CHOOSE g : IsFold(g)
           EE == [s \in SUBSET T |-> D]
<1>1. Readvertised(a, b, T) = fold[T]
  BY DEF Readvertised, FoldSet, MapThenFoldSet
<1>2. G \in [T \X D -> D]
  OBVIOUS
<1>3. IsChoice(ch, T) /\ \A s \in SUBSET T : ch[s] = CHOOSE e \in s : TRUE
  BY DEF IsChoice
<1>4. \A e \in T, z \in D : G[<<e, z>>] = Readvertise(z, e, a)
  OBVIOUS
<1>5. \A s \in SUBSET T : EE[s] = D
  OBVIOUS
<1> HIDE DEF G, IsFold, fold, ch, EE
<1>6. PICK f \in [SUBSET T -> D] : FoldsAs(f, T, ch, b, G)
  BY <1>2, <1>3, FoldExists
<1>7. \A s \in SUBSET T : s # {} => ch[s] \in s /\ ch[s] \in T /\ Rest(ch, s) \in SUBSET T
  BY <1>3, RestIsSmaller
<1>8. \A s \in SUBSET T : s # {} => G[<<ch[s], f[Rest(ch, s)]>>] = Readvertise(f[Rest(ch, s)], ch[s], a)
  BY <1>4, <1>6, <1>7
<1>9. IsFold(f)
  BY <1>3, <1>6, <1>8 DEF IsFold, FoldsAs, Rest
<1>10. IsFold(fold)
  BY <1>9 DEF fold
<1>11. fold[{}] = b /\ \A s \in SUBSET T : s # {} => fold[s] = Readvertise(fold[Rest(ch, s)], ch[s], a)
  BY <1>3, <1>10 DEF IsFold, Rest
<1>12. fold[{}] \in EE[{}]
  BY <1>5, <1>11
<1>13. \A s \in SUBSET T : s # {} /\ fold[Rest(ch, s)] \in EE[Rest(ch, s)] => fold[s] \in EE[s]
  BY <1>5, <1>7, <1>11
<1>14. fold[T] \in EE[T]
  BY <1>3, <1>12, <1>13, FoldWithin
<1> QED
  BY <1>1, <1>5, <1>14

(* SleepRecordRegistrations.                                                  *)
Done(R, r) ==
  IF R[r].state # "UpdatePending" THEN R
  ELSE [R EXCEPT ![r].state = "Registered", ![r].data = R[r].InFlight, ![r].InFlight = Empty]
Unasked(R, r) ==
  [R EXCEPT ![r].id = IF R[r].nta = "none" THEN @ ELSE 0, ![r].nta = "none",
            ![r].nat = IF r \in Hosts THEN @ ELSE "off"]
Sleeps(R, r) == uDNS_DeregisterRecord(Unasked(Done(R, r), r), r)

(* The records one by one.                                                    *)
Slept(b, T) == FoldSet(LAMBDA r, R : Sleeps(R, r), b, T)

LEMMA SleptWithin ==
  ASSUME NEW T, IsFiniteSet(T), NEW D, NEW b \in D, \A r \in T, R \in D : Sleeps(R, r) \in D
  PROVE  Slept(b, T) \in D
<1> DEFINE ch == [s \in SUBSET T |-> CHOOSE e \in s : TRUE]
           G == [z \in T \X D |-> Sleeps(z[2], z[1])]
           IsFold(g) == g = [s \in SUBSET T |->
             IF s = {} THEN b
             ELSE Sleeps(g[s \ {CHOOSE e \in s : TRUE}], CHOOSE e \in s : TRUE)]
           fold == CHOOSE g : IsFold(g)
           EE == [s \in SUBSET T |-> D]
<1>1. Slept(b, T) = fold[T]
  BY DEF Slept, FoldSet, MapThenFoldSet
<1>2. G \in [T \X D -> D]
  OBVIOUS
<1>3. IsChoice(ch, T) /\ \A s \in SUBSET T : ch[s] = CHOOSE e \in s : TRUE
  BY DEF IsChoice
<1>4. \A e \in T, z \in D : G[<<e, z>>] = Sleeps(z, e)
  OBVIOUS
<1>5. \A s \in SUBSET T : EE[s] = D
  OBVIOUS
<1> HIDE DEF G, IsFold, fold, ch, EE
<1>6. PICK f \in [SUBSET T -> D] : FoldsAs(f, T, ch, b, G)
  BY <1>2, <1>3, FoldExists
<1>7. \A s \in SUBSET T : s # {} => ch[s] \in s /\ ch[s] \in T /\ Rest(ch, s) \in SUBSET T
  BY <1>3, RestIsSmaller
<1>8. \A s \in SUBSET T : s # {} => G[<<ch[s], f[Rest(ch, s)]>>] = Sleeps(f[Rest(ch, s)], ch[s])
  BY <1>4, <1>6, <1>7
<1>9. IsFold(f)
  BY <1>3, <1>6, <1>8 DEF IsFold, FoldsAs, Rest
<1>10. IsFold(fold)
  BY <1>9 DEF fold
<1>11. fold[{}] = b /\ \A s \in SUBSET T : s # {} => fold[s] = Sleeps(fold[Rest(ch, s)], ch[s])
  BY <1>3, <1>10 DEF IsFold, Rest
<1>12. fold[{}] \in EE[{}]
  BY <1>5, <1>11
<1>13. \A s \in SUBSET T : s # {} /\ fold[Rest(ch, s)] \in EE[Rest(ch, s)] => fold[s] \in EE[s]
  BY <1>5, <1>7, <1>11
<1>14. fold[T] \in EE[T]
  BY <1>3, <1>12, <1>13, FoldWithin
<1> QED
  BY <1>1, <1>5, <1>14

(* WakeUp.                                                                   *)
Woken(b, T) == FoldSet(LAMBDA r, R : ActivateUnicastRegistration(R, r), b, T)

LEMMA WokenWithin ==
  ASSUME NEW T, IsFiniteSet(T), NEW D, NEW b \in D, \A r \in T, R \in D : ActivateUnicastRegistration(R, r) \in D
  PROVE  Woken(b, T) \in D
<1> DEFINE ch == [s \in SUBSET T |-> CHOOSE e \in s : TRUE]
           G == [z \in T \X D |-> ActivateUnicastRegistration(z[2], z[1])]
           IsFold(g) == g = [s \in SUBSET T |->
             IF s = {} THEN b
             ELSE ActivateUnicastRegistration(g[s \ {CHOOSE e \in s : TRUE}], CHOOSE e \in s : TRUE)]
           fold == CHOOSE g : IsFold(g)
           EE == [s \in SUBSET T |-> D]
<1>1. Woken(b, T) = fold[T]
  BY DEF Woken, FoldSet, MapThenFoldSet
<1>2. G \in [T \X D -> D]
  OBVIOUS
<1>3. IsChoice(ch, T) /\ \A s \in SUBSET T : ch[s] = CHOOSE e \in s : TRUE
  BY DEF IsChoice
<1>4. \A e \in T, z \in D : G[<<e, z>>] = ActivateUnicastRegistration(z, e)
  OBVIOUS
<1>5. \A s \in SUBSET T : EE[s] = D
  OBVIOUS
<1> HIDE DEF G, IsFold, fold, ch, EE
<1>6. PICK f \in [SUBSET T -> D] : FoldsAs(f, T, ch, b, G)
  BY <1>2, <1>3, FoldExists
<1>7. \A s \in SUBSET T : s # {} => ch[s] \in s /\ ch[s] \in T /\ Rest(ch, s) \in SUBSET T
  BY <1>3, RestIsSmaller
<1>8. \A s \in SUBSET T : s # {} => G[<<ch[s], f[Rest(ch, s)]>>] = ActivateUnicastRegistration(f[Rest(ch, s)], ch[s])
  BY <1>4, <1>6, <1>7
<1>9. IsFold(f)
  BY <1>3, <1>6, <1>8 DEF IsFold, FoldsAs, Rest
<1>10. IsFold(fold)
  BY <1>9 DEF fold
<1>11. fold[{}] = b /\ \A s \in SUBSET T : s # {} => fold[s] = ActivateUnicastRegistration(fold[Rest(ch, s)], ch[s])
  BY <1>3, <1>10 DEF IsFold, Rest
<1>12. fold[{}] \in EE[{}]
  BY <1>5, <1>11
<1>13. \A s \in SUBSET T : s # {} /\ fold[Rest(ch, s)] \in EE[Rest(ch, s)] => fold[s] \in EE[s]
  BY <1>5, <1>7, <1>11
<1>14. fold[T] \in EE[T]
  BY <1>3, <1>12, <1>13, FoldWithin
<1> QED
  BY <1>1, <1>5, <1>14

(* uDNS_ReceiveMsg.                                                           *)
Reply(R, r, i, err) == IF R[r].id = i THEN hndlRecordUpdateReply(R, r, err) ELSE R

(* The records of an answer one by one.                                      *)
Replied(i, err, b, T) == FoldSet(LAMBDA r, R : Reply(R, r, i, err), b, T)

LEMMA RepliedWithin ==
  ASSUME NEW i, NEW err, NEW T, IsFiniteSet(T), NEW D, NEW b \in D, \A r \in T, R \in D : Reply(R, r, i, err) \in D
  PROVE  Replied(i, err, b, T) \in D
<1> DEFINE ch == [s \in SUBSET T |-> CHOOSE e \in s : TRUE]
           G == [z \in T \X D |-> Reply(z[2], z[1], i, err)]
           IsFold(g) == g = [s \in SUBSET T |->
             IF s = {} THEN b
             ELSE Reply(g[s \ {CHOOSE e \in s : TRUE}], CHOOSE e \in s : TRUE, i, err)]
           fold == CHOOSE g : IsFold(g)
           EE == [s \in SUBSET T |-> D]
<1>1. Replied(i, err, b, T) = fold[T]
  BY DEF Replied, FoldSet, MapThenFoldSet
<1>2. G \in [T \X D -> D]
  OBVIOUS
<1>3. IsChoice(ch, T) /\ \A s \in SUBSET T : ch[s] = CHOOSE e \in s : TRUE
  BY DEF IsChoice
<1>4. \A e \in T, z \in D : G[<<e, z>>] = Reply(z, e, i, err)
  OBVIOUS
<1>5. \A s \in SUBSET T : EE[s] = D
  OBVIOUS
<1> HIDE DEF G, IsFold, fold, ch, EE
<1>6. PICK f \in [SUBSET T -> D] : FoldsAs(f, T, ch, b, G)
  BY <1>2, <1>3, FoldExists
<1>7. \A s \in SUBSET T : s # {} => ch[s] \in s /\ ch[s] \in T /\ Rest(ch, s) \in SUBSET T
  BY <1>3, RestIsSmaller
<1>8. \A s \in SUBSET T : s # {} => G[<<ch[s], f[Rest(ch, s)]>>] = Reply(f[Rest(ch, s)], ch[s], i, err)
  BY <1>4, <1>6, <1>7
<1>9. IsFold(f)
  BY <1>3, <1>6, <1>8 DEF IsFold, FoldsAs, Rest
<1>10. IsFold(fold)
  BY <1>9 DEF fold
<1>11. fold[{}] = b /\ \A s \in SUBSET T : s # {} => fold[s] = Reply(fold[Rest(ch, s)], ch[s], i, err)
  BY <1>3, <1>10 DEF IsFold, Rest
<1>12. fold[{}] \in EE[{}]
  BY <1>5, <1>11
<1>13. \A s \in SUBSET T : s # {} /\ fold[Rest(ch, s)] \in EE[Rest(ch, s)] => fold[s] \in EE[s]
  BY <1>5, <1>7, <1>11
<1>14. fold[T] \in EE[T]
  BY <1>3, <1>12, <1>13, FoldWithin
<1> QED
  BY <1>1, <1>5, <1>14

-----------------------------------------------------------------------------
(* What holds between the records, the messages and the server.               *)

IsMessage(m) ==
  /\ m = [dir |-> m.dir, id |-> m.id, rs |-> m.rs, err |-> m.err, what |-> m.what, lease |-> m.lease]
  /\ m.dir \in {"update", "answer"} /\ m.id \in Ids /\ m.rs \subseteq Records

(* The message that record x waits for the answer to says what the record     *)
(* will be registered with, and once it is answered the server holds that;    *)
(* of a record that has gone astray nothing is known.                         *)
Awaited(r, x, m, held, astray) ==
  m.id = x.id =>
    /\ r \in m.rs
    /\ x.state = "UpdatePending" => m.what[r].kind = "update"
    /\ ~astray =>
         /\ m.what[r].kind = "add" /\ Settled(r, x.state) => m.what[r].new = x.data
         /\ m.what[r].kind = "update" /\ x.state = "UpdatePending" =>
              m.what[r].old = x.data /\ m.what[r].new = x.InFlight
         /\ m.dir = "answer" /\ m.what[r].kind = "add" => held = {m.what[r].new}
         /\ m.dir = "answer" /\ m.what[r].kind = "update" /\ x.state = "UpdatePending" => held = {m.what[r].new}

(* What is registered the server holds; of an update it may or may not know.  *)
Kept(x, held, astray) ==
  ~astray => /\ x.state = "Registered" => held = {x.data}
             /\ x.state = "UpdatePending" => held \subseteq {x.data, x.InFlight}

Astray(r) == r \in stray \union moved

UpdateInv ==
  /\ rr \in Regs /\ Hostnames \subseteq Hosts /\ AdvertisedV4 \in Addresses \union {Empty}
  /\ \A m \in net : IsMessage(m)
  /\ \A m, n \in net : m.id = n.id => m = n
  /\ \A r \in Records : Kept(rr[r], server[r], Astray(r))
  /\ \A r \in Records, m \in net : Awaited(r, rr[r], m, server[r], Astray(r))

LEMMA QuietKeeps ==
  ASSUME NEW r, NEW x, NEW y, NEW held, NEW a \in BOOLEAN, NEW b \in BOOLEAN, a => b,
         Kept(x, held, a), Quiet(r, x, y)
  PROVE  /\ Kept(y, held, b)
         /\ \A m : m.id \in Ids /\ Awaited(r, x, m, held, a) => Awaited(r, y, m, held, b)
<1>1. Kept(y, held, b)
  BY DEF Kept, Quiet
<1>2. ASSUME NEW m, m.id \in Ids, Awaited(r, x, m, held, a) PROVE Awaited(r, y, m, held, b)
  <2>1. SUFFICES ASSUME m.id = y.id PROVE Awaited(r, y, m, held, b)
    BY DEF Awaited
  <2>2. y.id # 0 /\ y.id = x.id
    BY <1>2, <2>1, NoId DEF Quiet
  <2>3. /\ y.state = "UpdatePending" => x.state = "UpdatePending" /\ y.data = x.data /\ y.InFlight = x.InFlight
        /\ Settled(r, y.state) => Settled(r, x.state) /\ y.data = x.data
    BY <2>2 DEF Quiet
  <2> QED
    BY <1>2, <2>1, <2>2, <2>3 DEF Awaited
<1> QED
  BY <1>1, <1>2

LEMMA QuietStep ==
  ASSUME UpdateInv, rr' \in Regs, Named, net' \subseteq net, server' = server, stray \subseteq stray',
         moved \subseteq moved',
         \A r \in Records : \/ Quiet(r, rr[r], rr'[r])
                            \/ r \in stray' \union moved' /\ rr'[r].id = rr[r].id /\ rr'[r].state # "UpdatePending"
                            \/ rr'[r].id = 0 /\ Kept(rr'[r], server[r], Astray(r)')
  PROVE  UpdateInv'
<1>1. ASSUME NEW r \in Records
      PROVE  /\ Kept(rr'[r], server'[r], Astray(r)')
             /\ \A m \in net' : Awaited(r, rr'[r], m, server'[r], Astray(r)')
  <2>1. Kept(rr[r], server[r], Astray(r)) /\ \A m \in net : m.id \in Ids /\ Awaited(r, rr[r], m, server[r], Astray(r))
    BY DEF UpdateInv, IsMessage
  <2>2. Astray(r) => Astray(r)'
    BY DEF Astray
  <2>3. Astray(r) \in BOOLEAN /\ Astray(r)' \in BOOLEAN
    BY DEF Astray
  <2>4. CASE Quiet(r, rr[r], rr'[r])
    <3> DEFINE held == server[r]
               a == Astray(r)
               b == Astray(r)'
               x == rr[r]
               y == rr'[r]
    <3>1. Kept(x, held, a) /\ a \in BOOLEAN /\ b \in BOOLEAN /\ (a => b) /\ Quiet(r, x, y)
      BY <2>1, <2>2, <2>3, <2>4
    <3>2. \A m \in net : m.id \in Ids /\ Awaited(r, x, m, held, a)
      BY <2>1
    <3> HIDE DEF held, a, b, x, y
    <3>3. Kept(y, held, b) /\ \A m \in net : Awaited(r, y, m, held, b)
      BY <3>1, <3>2, QuietKeeps
    <3> QED
      BY <3>3 DEF held, b, y
  <2>5. CASE r \in stray' \union moved' /\ rr'[r].id = rr[r].id /\ rr'[r].state # "UpdatePending"
    BY <2>1, <2>5 DEF Astray, Kept, Awaited
  <2>6. CASE rr'[r].id = 0 /\ Kept(rr'[r], server[r], Astray(r)')
    <3>1. \A m \in net' : m.id # rr'[r].id
      BY <2>1, <2>6, NoId
    <3> QED
      BY <2>6, <3>1 DEF Awaited
  <2> QED
    BY <2>4, <2>5, <2>6
<1>2. Hostnames' \subseteq Hosts /\ AdvertisedV4' \in Addresses \union {Empty}
  BY DEF Named
<1>3. (\A m \in net' : IsMessage(m)) /\ (\A m, n \in net' : m.id = n.id => m = n)
  BY DEF UpdateInv
<1> QED
  BY <1>1, <1>2, <1>3 DEF UpdateInv

-----------------------------------------------------------------------------
(* Steps that need no word of the server.                                     *)

LEMMA QuietIs ==
  ASSUME UpdateInv, rr' \in QuietFrom(rr), Named, UNCHANGED <<net, server, moved>>, stray \subseteq stray'
  PROVE  UpdateInv'
<1>1. rr' \in Regs /\ \A r \in Records : Quiet(r, rr[r], rr'[r])
  BY DEF QuietFrom
<1>2. net' \subseteq net /\ server' = server /\ moved \subseteq moved'
  OBVIOUS
<1>3. \A r \in Records : \/ Quiet(r, rr[r], rr'[r])
                         \/ r \in stray' \union moved' /\ rr'[r].id = rr[r].id /\ rr'[r].state # "UpdatePending"
  BY <1>1
<1>4. Named /\ stray \subseteq stray'
  OBVIOUS
<1> QED
  BY <1>1, <1>2, <1>3, <1>4, QuietStep

LEMMA SameNames ==
  ASSUME UpdateInv, UNCHANGED hostVars
  PROVE  Named
  BY DEF UpdateInv, Named, hostVars

LEMMA Finite == IsFiniteSet(Services) /\ IsFiniteSet(Texts) /\ IsFiniteSet(Hosts) /\ IsFiniteSet(Records)
<1>1. IsFiniteSet(Services \union Texts)
  BY DnsUpdateAssumption, FS_Union
<1> QED
  BY <1>1, DnsUpdateAssumption, FS_Union DEF Records

(* D is all that is quiet from what there is.                                 *)
LEMMA Beginning ==
  ASSUME UpdateInv
  PROVE  /\ rr \in Regs /\ rr \in QuietFrom(rr)
         /\ \A Q \in QuietFrom(rr) : Q \in Regs /\ QuietFrom(Q) \subseteq QuietFrom(rr)
         /\ \A Q \in QuietFrom(rr), r \in Records : OnlyQuiet(Q, r) \subseteq QuietFrom(rr)
<1>1. rr \in Regs
  BY DEF UpdateInv
<1>2. \A Q \in QuietFrom(rr) : Q \in Regs /\ QuietFrom(Q) \subseteq QuietFrom(rr)
  BY <1>1, QuietGoesOn DEF QuietFrom
<1>3. \A Q \in QuietFrom(rr), r \in Records : OnlyQuiet(Q, r) \subseteq QuietFrom(rr)
  BY <1>2 DEF OnlyQuiet
<1>4. rr \in QuietFrom(rr)
  BY <1>1, QuietOrder DEF QuietFrom
<1> QED
  BY <1>1, <1>2, <1>3, <1>4

LEMMA UpdateAllSRVRecordsKeeps ==
  ASSUME UpdateInv, UpdateAllSRVRecords
  PROVE  UpdateInv'
<1>1. Named /\ Hostnames \subseteq Hosts
  BY SameNames DEF UpdateAllSRVRecords, UpdateInv
<1>2. IsFiniteSet(Services \intersect Listed(rr))
  BY Finite, FS_Subset
<1>3. \A s \in Services \intersect Listed(rr), R \in QuietFrom(rr) : UpdateOneSRVRecord(R, s) \in QuietFrom(rr)
  BY <1>1, Beginning, UpdateOneIs
<1>4. UpdatedServices(rr, Services \intersect Listed(rr)) \in QuietFrom(rr)
  BY <1>2, <1>3, Beginning, UpdatedServicesWithin
<1>5. rr' = UpdatedServices(rr, Services \intersect Listed(rr))
  BY DEF UpdateAllSRVRecords, UpdatedServices
<1> QED
  BY <1>1, <1>4, <1>5, QuietIs DEF UpdateAllSRVRecords, netVars

LEMMA RegisterServiceKeeps ==
  ASSUME UpdateInv, NEW s \in Services, NEW d \in Values, mDNS_RegisterService(s, d)
  PROVE  UpdateInv'
<1> DEFINE texts == {t \in Texts : ServiceOf[t] = s}
           b == Register(rr, s, Empty)
<1>1. Named /\ Hostnames \subseteq Hosts
  BY SameNames DEF mDNS_RegisterService, UpdateInv
<1>2. IsFiniteSet(texts)
  BY Finite, FS_Subset
<1>3. b \in QuietFrom(rr)
  BY <1>1, Beginning, ServiceIs, RegisterIs
<1>4. \A t \in texts : t \in Records /\ d \in DataOf(t) \union {Empty}
  <2>1. \A t \in texts : t \in Records /\ t \in Texts
    BY DEF Records
  <2> QED
    BY <2>1, Kinds
<1>5. \A t \in texts, R \in QuietFrom(rr) : Register(R, t, d) \in QuietFrom(rr)
  BY <1>1, <1>4, Beginning, RegisterIs
<1>6. RegisteredTexts(d, b, texts) \in QuietFrom(rr)
  BY <1>2, <1>3, <1>5, RegisteredTextsWithin
<1>7. rr' = RegisteredTexts(d, b, texts)
  BY DEF mDNS_RegisterService, RegisteredTexts
<1> QED
  BY <1>1, <1>6, <1>7, QuietIs DEF mDNS_RegisterService, netVars

LEMMA DeregisterServiceKeeps ==
  ASSUME UpdateInv, NEW s \in Services, mDNS_DeregisterService(s)
  PROVE  UpdateInv'
<1> DEFINE all == {s} \union {t \in Texts : ServiceOf[t] = s /\ rr[t].type = "Registered"}
<1>1. Named
  BY SameNames DEF mDNS_DeregisterService
<1>2. all \subseteq Records
  BY DEF Records
<1>3. IsFiniteSet(all)
  BY <1>2, Finite, FS_Subset
<1>4. \A r \in all, R \in QuietFrom(rr) : Deregister(R, r) \in QuietFrom(rr)
  BY <1>1, <1>2, Beginning, DeregisterIs
<1>5. Deregistered(rr, all) \in QuietFrom(rr)
  BY <1>3, <1>4, Beginning, DeregisteredWithin
<1>6. rr' = Deregistered(rr, all)
  BY DEF mDNS_DeregisterService, Deregistered
<1>7. stray \subseteq stray'
  BY DEF mDNS_DeregisterService
<1> QED
  BY <1>1, <1>5, <1>6, <1>7, QuietIs DEF mDNS_DeregisterService

LEMMA SetPrimaryInterfaceInfoKeeps ==
  ASSUME UpdateInv, NEW a \in Addresses, mDNS_SetPrimaryInterfaceInfo(a)
  PROVE  UpdateInv'
<1>1. Named /\ Hostnames \subseteq Hosts /\ IsFiniteSet(Hostnames) /\ Hostnames \subseteq Records
  <2>1. Named /\ Hostnames \subseteq Hosts
    BY DEF mDNS_SetPrimaryInterfaceInfo, UpdateInv, Named
  <2> QED
    BY <2>1, Finite, FS_Subset DEF Records
<1>2. ASSUME NEW h \in Hostnames, NEW R \in QuietFrom(rr) PROVE Readvertise(R, h, a) \in QuietFrom(rr)
  <2>1. \A Q \in QuietFrom(rr) : Deregister(Q, h) \in QuietFrom(rr) /\ AdvertiseHostname(Q, h) \in QuietFrom(rr)
    BY <1>1, Beginning, DeregisterIs, AdvertiseIs
  <2> QED
    BY <2>1 DEF Readvertise
<1>3. Readvertised(a, rr, Hostnames) \in QuietFrom(rr)
  BY <1>1, <1>2, Beginning, ReadvertisedWithin
<1>4. rr' = Readvertised(a, rr, Hostnames)
  BY DEF mDNS_SetPrimaryInterfaceInfo, Readvertised, Readvertise
<1> QED
  BY <1>1, <1>3, <1>4, QuietIs DEF mDNS_SetPrimaryInterfaceInfo, netVars

LEMMA WakeKeeps ==
  ASSUME UpdateInv, WakeUp
  PROVE  UpdateInv'
<1> DEFINE b == [r \in Records |-> [rr[r] EXCEPT !.id = 0]]
<1>1. Named
  BY SameNames DEF WakeUp
<1>2. IsFiniteSet(Listed(rr)) /\ Listed(rr) \subseteq Records
  BY Finite, FS_Subset DEF Listed
<1>3. b \in QuietFrom(rr)
  <2>1. ASSUME NEW r \in Records PROVE b[r] \in AnyRecord /\ Fit(r, b[r]) /\ Quiet(r, rr[r], b[r])
    <3> DEFINE y == [rr[r] EXCEPT !.id = 0]
    <3>1. rr[r] \in AnyRecord /\ Fit(r, rr[r])
      BY Beginning, RegsAre
    <3>2. y \in AnyRecord /\ y.state = rr[r].state /\ y.data = rr[r].data /\ y.id = 0 /\ y.type = rr[r].type
          /\ y.InFlight = rr[r].InFlight /\ y.Queued = rr[r].Queued /\ y.nta = rr[r].nta
          /\ y.SRVChanged = rr[r].SRVChanged /\ y.RequireGoodbye = rr[r].RequireGoodbye
      BY <3>1 DEF AnyRecord
    <3>3. b[r] = y
      OBVIOUS
    <3> HIDE DEF y, b
    <3> QED
      BY <3>1, <3>2, <3>3 DEF Fit, Quiet
  <2>2. b = [r \in Records |-> b[r]]
    OBVIOUS
  <2> HIDE DEF b
  <2>3. b \in [Records -> AnyRecord]
    BY <2>1, <2>2
  <2> QED
    BY <2>1, <2>3 DEF QuietFrom, Regs
<1>4. \A r \in Listed(rr), R \in QuietFrom(rr) : ActivateUnicastRegistration(R, r) \in QuietFrom(rr)
  BY <1>2, Beginning, ActivateIs
<1>5. Woken(b, Listed(rr)) \in QuietFrom(rr)
  BY <1>2, <1>3, <1>4, WokenWithin
<1>6. rr' = Woken(b, Listed(rr))
  BY DEF WakeUp, Woken
<1> QED
  BY <1>1, <1>5, <1>6, QuietIs DEF WakeUp, netVars

LEMMA SleepKeeps ==
  ASSUME UpdateInv, Sleep
  PROVE  UpdateInv'
<1>1. Named
  BY SameNames DEF Sleep
<1>2. IsFiniteSet(Listed(rr)) /\ Listed(rr) \subseteq Records
  BY Finite, FS_Subset DEF Listed
<1>3. ASSUME NEW r \in Listed(rr), NEW R \in QuietFrom(rr)
      PROVE  Sleeps(R, r) \in QuietFrom(rr)
  <2> DEFINE u == [R[r] EXCEPT !.state = "Registered", !.data = R[r].InFlight, !.InFlight = Empty]
             x == IF R[r].state # "UpdatePending" THEN R[r] ELSE u
             y == [x EXCEPT !.id = IF x.nta = "none" THEN @ ELSE 0, !.nta = "none",
                            !.nat = IF r \in Hosts THEN @ ELSE "off"]
             z == [y EXCEPT !.state = "DeregPending", !.InFlight = Empty, !.due = TRUE]
  <2>1. r \in Records /\ R \in Regs /\ R[r] \in AnyRecord /\ Fit(r, R[r]) /\ R \in [Records -> AnyRecord]
    BY <1>2, Beginning, RegsAre DEF Regs
  <2>9. u \in AnyRecord /\ u.id = R[r].id /\ u.nta = R[r].nta /\ u.Queued = R[r].Queued /\ u.type = R[r].type
        /\ u.SRVChanged = R[r].SRVChanged /\ u.RequireGoodbye = R[r].RequireGoodbye
        /\ u.state = "Registered" /\ u.data = R[r].InFlight /\ u.InFlight = Empty
    BY <2>1 DEF AnyRecord, regState, Data
  <2> HIDE DEF u
  <2>2. x \in AnyRecord /\ x.id = R[r].id /\ x.nta = R[r].nta /\ x.Queued = R[r].Queued /\ x.type = R[r].type
        /\ x.SRVChanged = R[r].SRVChanged /\ x.RequireGoodbye = R[r].RequireGoodbye
        /\ (R[r].state # "UpdatePending" => x = R[r])
        /\ (R[r].state = "UpdatePending" => x.state = "Registered")
        /\ x.data \in {R[r].data, R[r].InFlight} /\ x.InFlight \in {Empty, R[r].InFlight}
    BY <2>1, <2>9
  <2>3. Done(R, r) = One(R, r, x)
    BY <2>1 DEF Done, One, u
  <2> HIDE DEF x
  <2>4. y \in AnyRecord /\ y.id = 0 /\ y.nta = "none" /\ y.Queued = x.Queued /\ y.type = x.type
        /\ y.SRVChanged = x.SRVChanged /\ y.RequireGoodbye = x.RequireGoodbye
        /\ y.state = x.state /\ y.data = x.data /\ y.InFlight = x.InFlight
    BY <2>1, <2>2 DEF AnyRecord, Fit
  <2>5. Unasked(Done(R, r), r) = One(R, r, y)
    <3>1. One(R, r, x)[r] = x /\ One(R, r, x) \in [Records -> AnyRecord]
          /\ \A w : One(One(R, r, x), r, w) = One(R, r, w)
      BY <2>1, <2>2 DEF One
    <3>2. \A P \in [Records -> AnyRecord] : Unasked(P, r) =
            One(P, r, [P[r] EXCEPT !.id = IF P[r].nta = "none" THEN @ ELSE 0, !.nta = "none",
                                   !.nat = IF r \in Hosts THEN @ ELSE "off"])
      BY <2>1 DEF Unasked, One
    <3>3. Unasked(One(R, r, x), r) = One(One(R, r, x), r, y)
      BY <3>1, <3>2
    <3> QED
      BY <2>3, <3>1, <3>3
  <2> HIDE DEF y
  <2>6. z \in AnyRecord /\ z.id = 0 /\ z.nta = "none" /\ z.Queued = x.Queued /\ z.type = x.type
        /\ z.SRVChanged = x.SRVChanged /\ z.RequireGoodbye = x.RequireGoodbye
        /\ z.state = "DeregPending" /\ z.data = x.data /\ z.InFlight = Empty
    BY <2>4 DEF AnyRecord, regState, Data
  <2>7. CASE R[r].state \in Active
    <3>1. x.state \in Active
      BY <2>2, <2>7 DEF Active
    <3>2. Sleeps(R, r) = One(R, r, z)
      BY <2>1, <2>4, <2>5, <3>1 DEF Sleeps, uDNS_DeregisterRecord, One
    <3> HIDE DEF z
    <3>3. Fit(r, z) /\ Quiet(r, R[r], z)
      BY <2>1, <2>2, <2>6, Kinds DEF Fit, Quiet, Active
    <3> QED
      BY <2>1, <2>6, <3>2, <3>3, OneQuiet, Beginning
  <2>8. CASE R[r].state \notin Active
    <3> DEFINE P == One(R, r, y)
    <3>1. x = R[r]
      BY <2>2, <2>8 DEF Active
    <3>2. Fit(r, y) /\ Quiet(r, R[r], y)
      BY <2>1, <2>4, <2>8, <3>1 DEF Fit, Quiet, Active
    <3>3. P \in QuietFrom(R) /\ P \in Regs
      BY <2>1, <2>4, <3>2, OneQuiet DEF QuietFrom
    <3> HIDE DEF P
    <3>4. uDNS_DeregisterRecord(P, r) \in QuietFrom(R)
      <4>1. uDNS_DeregisterRecord(P, r) \in QuietFrom(P)
        BY <1>1, <2>1, <3>3, DeregisterRecordIs DEF OnlyQuiet
      <4> QED
        BY <2>1, <3>3, <4>1, QuietGoesOn
    <3> QED
      BY <2>5, <3>4, Beginning DEF P, Sleeps
  <2> QED
    BY <2>7, <2>8
<1>4. Slept(rr, Listed(rr)) \in QuietFrom(rr)
  BY <1>2, <1>3, Beginning, SleptWithin
<1>5. rr' = Slept(rr, Listed(rr))
  BY DEF Sleep, Slept, Sleeps, Unasked, Done
<1> QED
  BY <1>1, <1>4, <1>5, QuietIs DEF Sleep, netVars

-----------------------------------------------------------------------------
(* Steps of one record.                                                       *)

LEMMA OneKeeps ==
  ASSUME UpdateInv, NEW r \in Records, NEW y \in AnyRecord, rr' = One(rr, r, y), Fit(r, y), Quiet(r, rr[r], y), Named,
         UNCHANGED <<net, server, moved>>, stray \subseteq stray'
  PROVE  UpdateInv'
<1>1. rr' \in QuietFrom(rr)
  BY OneQuiet, Beginning
<1> QED
  BY <1>1, QuietIs

LEMMA AddHostKeeps ==
  ASSUME UpdateInv, NEW h \in Hosts, mDNS_AddDynDNSHostName(h)
  PROVE  UpdateInv'
<1>1. Named /\ h \in Records
  BY DEF mDNS_AddDynDNSHostName, UpdateInv, Named, Records
<1>2. rr' \in QuietFrom(rr)
  BY <1>1, Beginning, AdvertiseIs DEF mDNS_AddDynDNSHostName
<1> QED
  BY <1>1, <1>2, QuietIs DEF mDNS_AddDynDNSHostName, netVars

LEMMA RemoveHostKeeps ==
  ASSUME UpdateInv, NEW h \in Hosts, mDNS_RemoveDynDNSHostName(h)
  PROVE  UpdateInv'
<1>1. Named /\ h \in Records
  BY DEF mDNS_RemoveDynDNSHostName, UpdateInv, Named, Records
<1>2. rr' \in QuietFrom(rr)
  BY <1>1, Beginning, DeregisterIs DEF mDNS_RemoveDynDNSHostName
<1> QED
  BY <1>1, <1>2, QuietIs DEF mDNS_RemoveDynDNSHostName, netVars

LEMMA PublicAddressKeeps ==
  ASSUME UpdateInv, NEW h \in Hosts, hostnameGetPublicAddressCallback(h)
  PROVE  UpdateInv'
<1> DEFINE y == [rr[h] EXCEPT !.nat = "off"]
           P == One(rr, h, y)
<1>1. Named /\ Hostnames \subseteq Hosts /\ h \in Records
  BY SameNames DEF hostnameGetPublicAddressCallback, UpdateInv, Records
<1>2. rr[h] \in AnyRecord /\ Fit(h, rr[h]) /\ rr \in Regs
  BY <1>1, Beginning, RegsAre
<1>3. y \in AnyRecord /\ y.state = rr[h].state /\ y.data = rr[h].data /\ y.id = rr[h].id /\ y.type = rr[h].type
      /\ y.InFlight = rr[h].InFlight /\ y.Queued = rr[h].Queued /\ y.nta = rr[h].nta
      /\ y.SRVChanged = rr[h].SRVChanged /\ y.RequireGoodbye = rr[h].RequireGoodbye
  BY <1>2 DEF AnyRecord
<1>4. rr' = Register(P, h, Outside)
  <2>1. P = [rr EXCEPT ![h].nat = "off"]
    BY <1>1, <1>2 DEF One
  <2> QED
    BY <2>1 DEF hostnameGetPublicAddressCallback
<1> HIDE DEF y
<1>5. Fit(h, y) /\ Quiet(h, rr[h], y)
  BY <1>2, <1>3 DEF Fit, Quiet, Settled
<1>6. P \in QuietFrom(rr)
  BY <1>1, <1>2, <1>3, <1>5, OneQuiet
<1> HIDE DEF P
<1>7. Outside \in DataOf(h) \union {Empty}
  BY <1>1, Kinds
<1>8. rr' \in QuietFrom(rr)
  BY <1>1, <1>4, <1>6, <1>7, Beginning, RegisterIs
<1> QED
  BY <1>1, <1>8, QuietIs DEF hostnameGetPublicAddressCallback, netVars

LEMMA UpdateKeeps ==
  ASSUME UpdateInv, NEW t \in Texts, NEW new \in Values, mDNS_Update(t, new)
  PROVE  UpdateInv'
<1> DEFINE a == [rr[t] EXCEPT !.data = new]
           b == [rr[t] EXCEPT !.Queued = new]
           c == [rr[t] EXCEPT !.InFlight = new, !.state = "UpdatePending", !.due = TRUE]
<1>1. Named /\ t \in Records /\ new \in DataOf(t) /\ new # Empty /\ new \in Data /\ t \notin Hosts
  <2>1. t \in Records
    BY DEF Records
  <2>2. DataOf(t) = Values /\ t \notin Hosts
    BY <2>1, Kinds
  <2>3. new # Empty /\ new \in Data
    BY DnsUpdateAssumption DEF Data
  <2> QED
    BY <2>1, <2>2, <2>3, SameNames DEF mDNS_Update
<1>2. rr[t] \in AnyRecord /\ Fit(t, rr[t]) /\ rr \in Regs /\ rr \in [Records -> AnyRecord]
  BY <1>1, Beginning, RegsAre DEF Regs
<1>3. rr[t].state \in Active \union {"NATMap", "NoTarget"} /\ rr[t].state # "DeregPending"
  BY <1>2 DEF mDNS_Update, Fit
<1>4. UNCHANGED <<net, server, moved>> /\ stray \subseteq stray'
  BY DEF mDNS_Update, netVars
<1>5. a \in AnyRecord /\ a.state = rr[t].state /\ a.data = new /\ a.id = rr[t].id /\ a.type = rr[t].type
      /\ a.InFlight = rr[t].InFlight /\ a.Queued = rr[t].Queued /\ a.nta = rr[t].nta
      /\ a.SRVChanged = rr[t].SRVChanged /\ a.RequireGoodbye = rr[t].RequireGoodbye
  BY <1>1, <1>2 DEF AnyRecord
<1>6. b \in AnyRecord /\ b.state = rr[t].state /\ b.data = rr[t].data /\ b.id = rr[t].id /\ b.type = rr[t].type
      /\ b.InFlight = rr[t].InFlight /\ b.Queued = new /\ b.nta = rr[t].nta
      /\ b.SRVChanged = rr[t].SRVChanged /\ b.RequireGoodbye = rr[t].RequireGoodbye
  BY <1>1, <1>2 DEF AnyRecord
<1>7. c \in AnyRecord /\ c.state = "UpdatePending" /\ c.data = rr[t].data /\ c.id = rr[t].id /\ c.type = rr[t].type
      /\ c.InFlight = new /\ c.Queued = rr[t].Queued /\ c.nta = rr[t].nta
      /\ c.SRVChanged = rr[t].SRVChanged /\ c.RequireGoodbye = rr[t].RequireGoodbye
  BY <1>1, <1>2 DEF AnyRecord, regState
<1>8. \/ rr[t].state \in {"NATMap", "NoTarget"} /\ rr' = One(rr, t, a)
      \/ rr[t].state \in {"Pending", "Refresh", "UpdatePending"} /\ rr' = One(rr, t, b)
      \/ rr[t].state = "Registered" /\ rr' = One(rr, t, c)
  <2>1. One(rr, t, a) = [rr EXCEPT ![t].data = new]
        /\ One(rr, t, b) = [rr EXCEPT ![t].Queued = new]
        /\ One(rr, t, c) = [rr EXCEPT ![t].InFlight = new, ![t].state = "UpdatePending", ![t].due = TRUE]
    BY <1>1, <1>2 DEF One
  <2> HIDE DEF a, b, c
  <2>2. rr' = CASE rr[t].state \in {"NATMap", "NoTarget"} -> One(rr, t, a)
             [] rr[t].state \in {"Pending", "Refresh", "UpdatePending"} -> One(rr, t, b)
             [] rr[t].state = "Registered" -> One(rr, t, c)
    BY <2>1 DEF mDNS_Update
  <2> QED
    BY <1>3, <2>2 DEF Active
<1> HIDE DEF a, b, c
<1>9. CASE rr[t].state \in {"NATMap", "NoTarget"} /\ rr' = One(rr, t, a)
  <2>1. Fit(t, a) /\ Quiet(t, rr[t], a)
    BY <1>1, <1>2, <1>5, <1>9 DEF Fit, Quiet, Settled
  <2> QED
    BY <1>1, <1>4, <1>5, <1>9, <2>1, OneKeeps
<1>10. CASE rr[t].state \in {"Pending", "Refresh", "UpdatePending"} /\ rr' = One(rr, t, b)
  <2>1. Fit(t, b) /\ Quiet(t, rr[t], b)
    BY <1>1, <1>2, <1>6, <1>10 DEF Fit, Quiet, Settled
  <2> QED
    BY <1>1, <1>4, <1>6, <1>10, <2>1, OneKeeps
<1>11. CASE rr[t].state = "Registered" /\ rr' = One(rr, t, c)
  <2>1. Fit(t, c) /\ Quiet(t, rr[t], c)
    BY <1>1, <1>2, <1>7, <1>11 DEF Fit, Quiet, Settled, Active
  <2> QED
    BY <1>1, <1>4, <1>7, <1>11, <2>1, OneKeeps
<1> QED
  BY <1>8, <1>9, <1>10, <1>11

LEMMA TimeKeeps ==
  ASSUME UpdateInv, NEW r \in Records, Time(r)
  PROVE  UpdateInv'
<1> DEFINE y == [rr[r] EXCEPT !.due = TRUE]
<1>1. Named /\ UNCHANGED <<net, server, moved>> /\ stray \subseteq stray'
  BY SameNames DEF Time, netVars
<1>2. rr[r] \in AnyRecord /\ Fit(r, rr[r]) /\ rr \in [Records -> AnyRecord]
  BY Beginning, RegsAre DEF Regs
<1>3. y \in AnyRecord /\ y.state = rr[r].state /\ y.data = rr[r].data /\ y.id = rr[r].id /\ y.type = rr[r].type
      /\ y.InFlight = rr[r].InFlight /\ y.Queued = rr[r].Queued /\ y.nta = rr[r].nta
      /\ y.SRVChanged = rr[r].SRVChanged /\ y.RequireGoodbye = rr[r].RequireGoodbye
  BY <1>2 DEF AnyRecord
<1>4. rr' = One(rr, r, y)
  BY <1>2 DEF Time, One
<1> HIDE DEF y
<1>5. Fit(r, y) /\ Quiet(r, rr[r], y)
  BY <1>2, <1>3 DEF Fit, Quiet, Settled
<1> QED
  BY <1>1, <1>3, <1>4, <1>5, OneKeeps

LEMMA RestartKeeps ==
  ASSUME UpdateInv, RestartRecordGetZoneData
  PROVE  UpdateInv'
<1> DEFINE To(r) == [rr[r] EXCEPT !.id = IF rr[r].nta = "none" THEN @ ELSE 0, !.nta = "asked"]
           Mine(r) == r \in Listed(rr) /\ rr[r].state # "NoTarget"
<1>1. Named /\ UNCHANGED <<net, server, moved>> /\ stray \subseteq stray'
  BY SameNames DEF RestartRecordGetZoneData, netVars
<1>2. ASSUME NEW r \in Records PROVE To(r) \in AnyRecord /\ Fit(r, To(r)) /\ Quiet(r, rr[r], To(r))
  <2> DEFINE y == To(r)
  <2>1. rr[r] \in AnyRecord /\ Fit(r, rr[r])
    BY Beginning, RegsAre
  <2>2. y \in AnyRecord /\ y.state = rr[r].state /\ y.data = rr[r].data /\ y.id = 0 /\ y.type = rr[r].type
        /\ y.InFlight = rr[r].InFlight /\ y.Queued = rr[r].Queued /\ y.nta = "asked"
        /\ y.SRVChanged = rr[r].SRVChanged /\ y.RequireGoodbye = rr[r].RequireGoodbye
    BY <2>1 DEF AnyRecord, Fit
  <2> HIDE DEF To
  <2> QED
    BY <2>1, <2>2 DEF Fit, Quiet
<1>3. rr' = [r \in Records |-> IF Mine(r) THEN To(r) ELSE rr[r]]
  BY DEF RestartRecordGetZoneData
<1> HIDE DEF To
<1>4. \A r \in Records : rr[r] \in AnyRecord /\ Fit(r, rr[r]) /\ Quiet(r, rr[r], rr[r])
  BY Beginning, RegsAre, QuietOrder
<1>5. rr' \in [Records -> AnyRecord]
  BY <1>2, <1>3, <1>4
<1>6. \A r \in Records : Fit(r, rr'[r]) /\ Quiet(r, rr[r], rr'[r])
  BY <1>2, <1>3, <1>4
<1>7. rr' \in QuietFrom(rr)
  BY <1>5, <1>6 DEF QuietFrom, Regs
<1> QED
  BY <1>1, <1>7, QuietIs

LEMMA GotZoneDataKeeps ==
  ASSUME UpdateInv, NEW r \in Records, RecordRegistrationGotZoneData(r)
  PROVE  UpdateInv'
<1> DEFINE k == [rr[r] EXCEPT !.nta = "known"]
           n == [rr[r] EXCEPT !.nta = "none"]
           t == [n EXCEPT !.data = Empty, !.state = "NoTarget"]
           m == [k EXCEPT !.state = "NATMap", !.nat = "asked"]
           d == [k EXCEPT !.due = @ \/ ~rr[r].updateError]
           known == One(rr, r, k)
<1>1. Named /\ UNCHANGED <<net, server, moved>> /\ stray \subseteq stray'
  BY SameNames DEF RecordRegistrationGotZoneData
<1>2. rr[r] \in AnyRecord /\ Fit(r, rr[r]) /\ rr \in [Records -> AnyRecord] /\ rr[r].nta = "asked" /\ rr[r].id = 0
      /\ rr \in Regs
  BY Beginning, RegsAre DEF Regs, RecordRegistrationGotZoneData, Fit
<1>3. k \in AnyRecord /\ k.state = rr[r].state /\ k.data = rr[r].data /\ k.id = 0 /\ k.type = rr[r].type
      /\ k.InFlight = rr[r].InFlight /\ k.Queued = rr[r].Queued
      /\ k.SRVChanged = rr[r].SRVChanged /\ k.RequireGoodbye = rr[r].RequireGoodbye
  BY <1>2 DEF AnyRecord
<1>4. n \in AnyRecord /\ n.state = rr[r].state /\ n.data = rr[r].data /\ n.id = 0 /\ n.type = rr[r].type
      /\ n.InFlight = rr[r].InFlight /\ n.Queued = rr[r].Queued
      /\ n.SRVChanged = rr[r].SRVChanged /\ n.RequireGoodbye = rr[r].RequireGoodbye
  BY <1>2 DEF AnyRecord
<1>5. \/ rr' = One(rr, r, n)
      \/ rr' = uDNS_DeregisterRecord(known, r)
      \/ r \in Services /\ rr' = One(rr, r, t)
      \/ r \in Services /\ rr' = One(rr, r, m)
      \/ rr' = One(rr, r, d)
  <2>1. /\ One(rr, r, n) = [rr EXCEPT ![r].nta = "none"]
        /\ known = [rr EXCEPT ![r].nta = "known"]
        /\ known[r] = k
        /\ \A w : One(One(rr, r, n), r, w) = One(rr, r, w) /\ One(known, r, w) = One(rr, r, w)
        /\ One(rr, r, n)[r] = n /\ One(rr, r, n) \in [Records -> AnyRecord] /\ known \in [Records -> AnyRecord]
    BY <1>2, <1>3, <1>4 DEF One
  <2>2. \A P \in [Records -> AnyRecord] :
          /\ NoTarget(P, r) = One(P, r, [P[r] EXCEPT !.data = Empty, !.state = "NoTarget"])
          /\ StartRecordNatMap(P, r) = One(P, r, [P[r] EXCEPT !.state = "NATMap", !.nat = "asked"])
          /\ [P EXCEPT ![r].due = @ \/ ~rr[r].updateError] = One(P, r, [P[r] EXCEPT !.due = @ \/ ~rr[r].updateError])
    BY DEF NoTarget, StartRecordNatMap, One
  <2> DEFINE none == One(rr, r, n)
  <2>3. none[r] = n /\ none \in [Records -> AnyRecord] /\ \A w : One(none, r, w) = One(rr, r, w)
    BY <2>1
  <2>4. known[r] = k /\ known \in [Records -> AnyRecord] /\ \A w : One(known, r, w) = One(rr, r, w)
    BY <2>1
  <2> HIDE DEF known, none, k, n
  <2>5. NoTarget(none, r) = One(none, r, t)
    BY <2>2, <2>3
  <2>6. StartRecordNatMap(known, r) = One(known, r, m)
    BY <2>2, <2>4
  <2>7. [known EXCEPT ![r].due = @ \/ ~rr[r].updateError] = One(known, r, d)
    BY <2>2, <2>4
  <2>8. NoTarget(none, r) = One(rr, r, t) /\ StartRecordNatMap(known, r) = One(rr, r, m)
        /\ [known EXCEPT ![r].due = @ \/ ~rr[r].updateError] = One(rr, r, d)
    BY <2>3, <2>4, <2>5, <2>6, <2>7
  <2>9. none = [rr EXCEPT ![r].nta = "none"] /\ known = [rr EXCEPT ![r].nta = "known"]
    BY <2>1 DEF none, known
  <2> HIDE DEF t, m, d
  <2>10. none = One(rr, r, n)
    BY DEF none
  <2> QED
    BY <2>8, <2>9, <2>10 DEF RecordRegistrationGotZoneData
<1>6. t \in AnyRecord /\ t.state = "NoTarget" /\ t.data = Empty /\ t.id = 0 /\ t.type = rr[r].type
      /\ t.InFlight = rr[r].InFlight /\ t.Queued = rr[r].Queued
      /\ t.SRVChanged = rr[r].SRVChanged /\ t.RequireGoodbye = rr[r].RequireGoodbye
  BY <1>4 DEF AnyRecord, regState, Data
<1>7. m \in AnyRecord /\ m.state = "NATMap" /\ m.data = rr[r].data /\ m.id = 0 /\ m.type = rr[r].type
      /\ m.InFlight = rr[r].InFlight /\ m.Queued = rr[r].Queued
      /\ m.SRVChanged = rr[r].SRVChanged /\ m.RequireGoodbye = rr[r].RequireGoodbye
  BY <1>3 DEF AnyRecord, regState
<1>8. d \in AnyRecord /\ d.state = rr[r].state /\ d.data = rr[r].data /\ d.id = 0 /\ d.type = rr[r].type
      /\ d.InFlight = rr[r].InFlight /\ d.Queued = rr[r].Queued
      /\ d.SRVChanged = rr[r].SRVChanged /\ d.RequireGoodbye = rr[r].RequireGoodbye
  BY <1>2, <1>3 DEF AnyRecord
<1> HIDE DEF k, n, t, m, d
<1>9. Fit(r, k) /\ Quiet(r, rr[r], k) /\ Fit(r, n) /\ Quiet(r, rr[r], n) /\ Fit(r, d) /\ Quiet(r, rr[r], d)
  BY <1>2, <1>3, <1>4, <1>8 DEF Fit, Quiet
<1>10. CASE rr' = One(rr, r, n)
  BY <1>1, <1>4, <1>9, <1>10, OneKeeps
<1>11. CASE rr' = One(rr, r, d)
  BY <1>1, <1>8, <1>9, <1>11, OneKeeps
<1>12. CASE r \in Services /\ rr' = One(rr, r, t)
  <2>1. Fit(r, t) /\ Quiet(r, rr[r], t)
    BY <1>2, <1>6, <1>12, ServiceIs DEF Fit, Quiet
  <2> QED
    BY <1>1, <1>6, <1>12, <2>1, OneKeeps
<1>13. CASE r \in Services /\ rr' = One(rr, r, m)
  <2>1. Fit(r, m) /\ Quiet(r, rr[r], m)
    BY <1>2, <1>7, <1>13, ServiceIs DEF Fit, Quiet
  <2> QED
    BY <1>1, <1>7, <1>13, <2>1, OneKeeps
<1>14. CASE rr' = uDNS_DeregisterRecord(known, r)
  <2>1. known \in QuietFrom(rr)
    BY <1>2, <1>3, <1>9, OneQuiet
  <2> HIDE DEF known
  <2>2. rr' \in QuietFrom(rr)
    BY <1>1, <1>14, <2>1, Beginning, DeregisterRecordIs
  <2> QED
    BY <1>1, <2>2, QuietIs
<1> QED
  BY <1>5, <1>10, <1>11, <1>12, <1>13, <1>14

-----------------------------------------------------------------------------
(* The NAT gateway.                                                           *)

LEMMA NatMapKeeps ==
  ASSUME UpdateInv, NEW s \in Services, CompleteRecordNatMap(s)
  PROVE  UpdateInv'
<1> DEFINE a == [rr[s] EXCEPT !.nat = "mapped"]
           b == [rr[s] EXCEPT !.nat = "off", !.state = "Pending", !.due = TRUE]
           goal == GetServiceTarget(rr)
           c == [a EXCEPT !.state = "Pending", !.due = TRUE, !.data = goal, !.SRVChanged = FALSE]
           R == One(rr, s, a)
           P == One(rr, s, c)
           N == NoTarget(R, s)
           U == UpdateAllServiceRecords(N, s, FALSE)
           V == UpdateAllServiceRecords(P, s, TRUE)
<1>1. Named /\ net' \subseteq net /\ server' = server /\ stray \subseteq stray' /\ moved \subseteq moved'
      /\ UNCHANGED <<net, server>>
  BY SameNames DEF CompleteRecordNatMap
<1>2. rr[s] \in AnyRecord /\ Fit(s, rr[s]) /\ rr \in [Records -> AnyRecord] /\ rr \in Regs /\ s \in Records
      /\ s \notin Texts /\ s \notin Hosts
  BY ServiceIs, Beginning, RegsAre DEF Regs
<1>3. goal \in DataOf(s) \union {Empty} /\ goal \in Data
  <2>1. goal \in Hosts \union {Empty}
    BY TargetIs DEF UpdateInv
  <2> QED
    BY <2>1, ServiceIs DEF Data
<1> HIDE DEF goal
<1>4. a \in AnyRecord /\ a.state = rr[s].state /\ a.data = rr[s].data /\ a.id = rr[s].id /\ a.type = rr[s].type
      /\ a.InFlight = rr[s].InFlight /\ a.Queued = rr[s].Queued /\ a.nta = rr[s].nta
      /\ a.SRVChanged = rr[s].SRVChanged /\ a.RequireGoodbye = rr[s].RequireGoodbye
  BY <1>2 DEF AnyRecord
<1>5. b \in AnyRecord /\ b.state = "Pending" /\ b.data = rr[s].data /\ b.id = rr[s].id /\ b.type = rr[s].type
      /\ b.InFlight = rr[s].InFlight /\ b.Queued = rr[s].Queued /\ b.nta = rr[s].nta
      /\ b.SRVChanged = rr[s].SRVChanged /\ b.RequireGoodbye = rr[s].RequireGoodbye
  BY <1>2 DEF AnyRecord, regState
<1>6. One(rr, s, b) = [rr EXCEPT ![s].nat = "off", ![s].state = "Pending", ![s].due = TRUE]
      /\ R = [rr EXCEPT ![s].nat = "mapped"] /\ R[s] = a /\ R \in [Records -> AnyRecord]
      /\ P = [R EXCEPT ![s].state = "Pending", ![s].due = TRUE, ![s].data = goal, ![s].SRVChanged = FALSE]
  BY <1>2, <1>4 DEF One
<1> HIDE DEF a
<1>7. c \in AnyRecord /\ c.state = "Pending" /\ c.data = goal /\ c.id = rr[s].id /\ c.type = rr[s].type
      /\ c.InFlight = rr[s].InFlight /\ c.Queued = rr[s].Queued /\ c.nta = rr[s].nta
      /\ c.RequireGoodbye = rr[s].RequireGoodbye /\ c.SRVChanged = FALSE
  BY <1>3, <1>4 DEF AnyRecord, regState
<1> HIDE DEF b, c, R, P
<1>8. \/ rr' = R
      \/ rr[s].nta # "known" /\ rr' = One(rr, s, b)
      \/ rr' = U
      \/ rr' = V
  <2> DEFINE mapped == [rr EXCEPT ![s].nat = "mapped"]
  <2>1. \/ rr' = mapped
        \/ rr[s].nta # "known" /\ rr' = [rr EXCEPT ![s].nat = "off", ![s].state = "Pending", ![s].due = TRUE]
        \/ rr' = UpdateAllServiceRecords(NoTarget(mapped, s), s, FALSE)
        \/ rr' = UpdateAllServiceRecords([mapped EXCEPT ![s].state = "Pending", ![s].due = TRUE, ![s].data = goal,
                                                      ![s].SRVChanged = FALSE], s, TRUE)
    BY Zenon DEF CompleteRecordNatMap, goal
  <2>2. R = mapped
    BY <1>6
  <2> HIDE DEF mapped
  <2> QED
    <3>1. [mapped EXCEPT ![s].state = "Pending", ![s].due = TRUE, ![s].data = goal, ![s].SRVChanged = FALSE] = P
      BY <1>6, <2>2
    <3> HIDE DEF P
    <3>2. CASE rr' = UpdateAllServiceRecords(NoTarget(mapped, s), s, FALSE)
      BY <2>2, <3>2
    <3>3. CASE rr' = UpdateAllServiceRecords(
                      [mapped EXCEPT ![s].state = "Pending", ![s].due = TRUE, ![s].data = goal, ![s].SRVChanged = FALSE], s, TRUE)
      BY <3>1, <3>3
    <3> QED
      BY <1>6, <2>1, <2>2, <3>2, <3>3
<1>9. Fit(s, a) /\ Quiet(s, rr[s], a) /\ Fit(s, b) /\ Quiet(s, rr[s], b) /\ Fit(s, c)
  BY <1>2, <1>3, <1>4, <1>5, <1>7 DEF Fit, Quiet, Settled, Active
<1>10. R \in QuietFrom(rr) /\ R \in Regs /\ R[s] = a /\ \A q \in Records \ {s} : R[q] = rr[q]
  BY <1>2, <1>4, <1>9, OneQuiet, OneChanges DEF R
<1>11. P \in Regs /\ P[s] = c /\ \A q \in Records \ {s} : P[q] = rr[q]
  BY <1>2, <1>7, <1>9, OneChanges DEF P
<1>12. N \in Regs /\ (\A q \in Records \ {s} : N[q] = rr[q]) /\ N[s].state = "NoTarget" /\ N[s].id = rr[s].id
  BY <1>4, <1>10, NoTargetIs
<1> HIDE DEF N
<1>13. U \in Regs /\ U[s] = N[s] /\ \A q \in Records : Quiet(q, N[q], U[q])
  BY <1>2, <1>12, UpdateAllIs DEF QuietFrom
<1>14. V \in Regs /\ V[s] = c /\ \A q \in Records : Quiet(q, P[q], V[q])
  BY <1>2, <1>11, UpdateAllIs DEF QuietFrom
<1> HIDE DEF U, V
<1>15. CASE rr' = R
  <2>1. \A r \in Records : Quiet(r, rr[r], rr'[r])
    BY <1>10, <1>15 DEF QuietFrom
  <2>2. rr' \in Regs
    BY <1>10, <1>15
  <2> QED
    BY <1>1, <2>1, <2>2, QuietStep
<1>16. CASE rr[s].nta # "known" /\ rr' = One(rr, s, b)
  <2>1. One(rr, s, b) \in QuietFrom(rr)
    BY <1>2, <1>5, <1>9, OneQuiet
  <2>2. rr' \in Regs /\ \A r \in Records : Quiet(r, rr[r], rr'[r])
    BY <1>16, <2>1 DEF QuietFrom
  <2> QED
    BY <1>1, <2>2, QuietStep
<1>17. CASE rr' = U
  <2>1. s \in stray' /\ rr'[s].id = rr[s].id /\ rr'[s].state # "UpdatePending"
    BY <1>12, <1>13, <1>17 DEF CompleteRecordNatMap
  <2>2. \A r \in Records \ {s} : Quiet(r, rr[r], rr'[r])
    BY <1>12, <1>13, <1>17
  <2>3. rr' \in Regs
    BY <1>13, <1>17
  <2>4. \A r \in Records :
          \/ Quiet(r, rr[r], rr'[r])
          \/ r \in stray' \union moved' /\ rr'[r].id = rr[r].id /\ rr'[r].state # "UpdatePending"
    BY <2>1, <2>2
  <2> QED
    BY <1>1, <2>3, <2>4, QuietStep
<1>18. CASE rr' = V
  <2>1. rr' \in Regs /\ \A r \in Records \ {s} : Quiet(r, rr[r], rr'[r])
    BY <1>11, <1>14, <1>18
  <2>2. rr'[s] = c
    BY <1>14, <1>18
  <2>3. CASE c.id = 0 \/ c.data = rr[s].data
    <3>1. Quiet(s, rr[s], c)
      BY <1>2, <1>7, <2>3, NoId DEF Quiet, Settled
    <3>2. \A r \in Records : Quiet(r, rr[r], rr'[r])
      BY <2>1, <2>2, <3>1
    <3> QED
      BY <1>1, <2>1, <3>2, QuietStep
  <2>4. CASE ~(c.id = 0 \/ c.data = rr[s].data)
    <3>1. s \in moved'
      BY <1>7, <2>2, <2>4 DEF CompleteRecordNatMap
    <3>2. \A r \in Records :
            \/ Quiet(r, rr[r], rr'[r])
            \/ r \in stray' \union moved' /\ rr'[r].id = rr[r].id /\ rr'[r].state # "UpdatePending"
      BY <1>7, <2>1, <2>2, <3>1
    <3> QED
      BY <1>1, <2>1, <3>2, QuietStep
  <2> QED
    BY <2>3, <2>4
<1> QED
  BY <1>8, <1>15, <1>16, <1>17, <1>18

-----------------------------------------------------------------------------
(* Updates on their way.                                                      *)

LEMMA SentIs ==
  ASSUME NEW r \in Records, NEW x \in AnyRecord, Fit(r, x), NEW i \in Ids, x.type # "Unregistered",
         x.state \in Active, x.nta = "known"
  PROVE  /\ Sent(x, i) \in AnyRecord /\ Fit(r, Sent(x, i)) /\ Sent(x, i).id = i
         /\ Sent(x, i).data = x.data /\ Sent(x, i).InFlight = x.InFlight
         /\ Sent(x, i).state # "Registered"
         /\ Sent(x, i).state = "UpdatePending" => x.state = "UpdatePending"
         /\ x.state = "DeregPending" => Sent(x, i).state = "DeregPending"
<1> DEFINE p == [x EXCEPT !.id = i, !.due = FALSE]
           state == CASE x.state = "Registered" -> "Refresh"
                      [] x.state \in {"Refresh", "UpdatePending"} -> x.state
                      [] OTHER -> "Pending"
           nat == IF x.nat = "mapped" THEN "used" ELSE x.nat
           y == [p EXCEPT !.RequireGoodbye = TRUE, !.nat = nat, !.state = state]
<1>1. p \in AnyRecord /\ p.id = i /\ p.state = x.state /\ p.data = x.data /\ p.InFlight = x.InFlight
      /\ p.Queued = x.Queued /\ p.nta = x.nta /\ p.type = x.type /\ p.SRVChanged = x.SRVChanged
      /\ p.RequireGoodbye = x.RequireGoodbye /\ p.nat = x.nat
  BY DEF AnyRecord
<1>2. Sent(x, i) = IF x.state = "DeregPending" THEN p ELSE y
  BY <1>1 DEF Sent
<1>3. state \in {"Refresh", "UpdatePending", "Pending"} /\ (state = "UpdatePending" => x.state = "UpdatePending")
  OBVIOUS
<1>4. nat \in {"off", "asked", "mapped", "used"}
  BY DEF AnyRecord
<1> HIDE DEF p, state, nat
<1>5. y \in AnyRecord /\ y.id = i /\ y.state = state /\ y.data = x.data /\ y.InFlight = x.InFlight
      /\ y.Queued = x.Queued /\ y.nta = x.nta /\ y.type = x.type /\ y.SRVChanged = x.SRVChanged
  BY <1>1, <1>3, <1>4 DEF AnyRecord, regState
<1> HIDE DEF y
<1>6. (x.state = "DeregPending" => Fit(r, p)) /\ Fit(r, y)
  BY <1>1, <1>3, <1>5 DEF Fit, Active
<1> QED
  BY <1>1, <1>2, <1>3, <1>5, <1>6

LEMMA CheckKeeps ==
  ASSUME UpdateInv, CheckRecordUpdates
  PROVE  UpdateInv'
<1> DEFINE due == {r \in Listed(rr) : rr[r].due /\ rr[r].state \in Active}
           group == {r \in due : IsRecordMergeable(r)}
           single == {r \in due : rr[r].nta = "known"} \ group
<1>1. PICK more \in SUBSET {r \in Records \ group : group # {} /\ Refreshable(r)},
           ids \in [single \union {Empty} -> FreeIds] :
        /\ \A x, y \in DOMAIN ids : x # y => ids[x] # ids[y]
        /\ \A x \in DOMAIN ids, i \in FreeIds : i < ids[x] => \E y \in DOMAIN ids : ids[y] = i
        /\ LET all == group \union more
           IN /\ net' = net \union {SendRecord(r, ids[r]) : r \in single \ all}
                            \union IF all = {} THEN {} ELSE {SendGroup(all, ids[Empty])}
              /\ rr' = [r \in Records |->
                     IF r \in all THEN Sent(rr[r], ids[Empty])
                     ELSE IF r \in single THEN Sent(rr[r], ids[r])
                     ELSE IF r \in due
                     THEN [rr[r] EXCEPT !.nta = "asked", !.due = FALSE,
                                        !.id = IF rr[r].nta = "none" THEN @ ELSE 0]
                     ELSE rr[r]]
  BY DEF CheckRecordUpdates
<1> DEFINE all == group \union more
           Asked(r) == [rr[r] EXCEPT !.nta = "asked", !.due = FALSE, !.id = IF rr[r].nta = "none" THEN @ ELSE 0]
           out == all \union single
           num(r) == IF r \in all THEN ids[Empty] ELSE ids[r]
           New(r) == IF r \in all THEN SendGroup(all, ids[Empty]) ELSE SendRecord(r, ids[r])
           fresh == {New(r) : r \in out}
           To(r) == IF r \in out THEN Sent(rr[r], num(r)) ELSE IF r \in due THEN Asked(r) ELSE rr[r]
<1>2. Named /\ UNCHANGED <<server, stray, moved>> /\ \A r \in Records : Astray(r)' = Astray(r)
  BY SameNames DEF CheckRecordUpdates, Astray
<1>3. \A r \in Records : rr[r] \in AnyRecord /\ Fit(r, rr[r])
  BY Beginning, RegsAre
<1>4. out \subseteq Records /\ \A r \in out : rr[r].type # "Unregistered" /\ rr[r].state \in Active /\ rr[r].nta = "known"
  BY DEF Listed, IsRecordMergeable, Refreshable, Active
<1>5. Empty \notin Records
  BY DnsUpdateAssumption DEF Records
<1>6. \A r \in out : num(r) \in FreeIds
  OBVIOUS
<1>7. /\ \A i \in FreeIds : i \in Ids /\ (\A r \in Records : rr[r].id # i) /\ \A m \in net : m.id # i
      /\ \A r \in out : num(r) \in Ids
  BY <1>6 DEF FreeIds
<1>8. \A r, q \in out : num(r) = num(q) => New(r) = New(q)
  <2>1. ASSUME NEW r \in out, NEW q \in out, num(r) = num(q) PROVE New(r) = New(q)
    <3>1. r # Empty /\ q # Empty
      BY <1>4, <1>5
    <3>2. CASE r \in all /\ q \in all
      BY <3>2
    <3>3. CASE r \notin all /\ q \notin all
      <4>1. r \in single /\ q \in single /\ ids[r] = ids[q]
        BY <2>1, <3>3
      <4>2. r = q
        BY <1>1, <4>1
      <4> QED
        BY <4>2
    <3>4. ASSUME NEW x \in all, NEW y \in out, y \notin all PROVE num(x) # num(y)
      <4>1. y \in single /\ num(x) = ids[Empty] /\ num(y) = ids[y] /\ y # Empty
        BY <1>4, <1>5, <3>4
      <4> QED
        BY <1>1, <4>1
    <3> QED
      BY <2>1, <3>2, <3>3, <3>4
  <2> QED
    BY <2>1
<1>9. net' = net \union fresh
  <2>1. fresh = {SendRecord(r, ids[r]) : r \in single \ all} \union {SendGroup(all, ids[Empty]) : r \in all}
    OBVIOUS
  <2>2. {SendGroup(all, ids[Empty]) : r \in all} = IF all = {} THEN {} ELSE {SendGroup(all, ids[Empty])}
    OBVIOUS
  <2> HIDE DEF fresh, all
  <2> QED
    BY <1>1, <2>1, <2>2 DEF all
<1>10. rr' = [r \in Records |-> To(r)]
  <2>1. \A r \in Records : To(r) = IF r \in all THEN Sent(rr[r], ids[Empty])
                     ELSE IF r \in single THEN Sent(rr[r], ids[r])
                     ELSE IF r \in due THEN Asked(r) ELSE rr[r]
    OBVIOUS
  <2> QED
    BY <1>1, <2>1
<1>11. \A r \in out : /\ New(r).id = num(r) /\ New(r).dir = "update" /\ New(r).rs \subseteq Records /\ r \in New(r).rs
                      /\ New(r).what[r] = Change(r) /\ IsMessage(New(r))
  <2>1. ASSUME NEW r \in out
        PROVE /\ New(r).id = num(r) /\ New(r).dir = "update" /\ New(r).rs \subseteq Records /\ r \in New(r).rs
              /\ New(r).what[r] = Change(r)
              /\ New(r) = [dir |-> New(r).dir, id |-> New(r).id, rs |-> New(r).rs, err |-> New(r).err,
                           what |-> New(r).what, lease |-> New(r).lease]
    <3>1. CASE r \in all
      BY <1>4, <3>1 DEF SendGroup
    <3>2. CASE r \notin all
      BY <1>4, <3>2 DEF SendRecord
    <3> QED
      BY <3>1, <3>2
  <2> QED
    BY <1>7, <2>1 DEF IsMessage
<1> HIDE DEF New, num, out, all, due, group, single
<1>12. ASSUME NEW r \in Records
       PROVE  /\ To(r) \in AnyRecord /\ Fit(r, To(r)) /\ Kept(To(r), server[r], Astray(r))
              /\ \A m \in net \union fresh : Awaited(r, To(r), m, server[r], Astray(r))
  <2> DEFINE x == rr[r]
             y == To(r)
  <2>1. Kept(x, server[r], Astray(r)) /\ (\A m \in net : m.id \in Ids /\ Awaited(r, x, m, server[r], Astray(r)))
        /\ Astray(r) \in BOOLEAN
    BY DEF UpdateInv, IsMessage, Astray
  <2>2. CASE r \in out
    <3>1. y = Sent(x, num(r))
      BY <2>2
    <3>2. /\ y \in AnyRecord /\ Fit(r, y) /\ y.id = num(r) /\ y.data = x.data /\ y.InFlight = x.InFlight
          /\ y.state # "Registered" /\ (y.state = "UpdatePending" => x.state = "UpdatePending")
          /\ (x.state = "DeregPending" => y.state = "DeregPending")
      BY <1>3, <1>4, <1>7, <2>2, <3>1, SentIs
    <3> HIDE DEF To
    <3>3. Kept(y, server[r], Astray(r))
      BY <2>1, <3>2 DEF Kept
    <3>4. \A m \in net : m.id # y.id
      BY <1>6, <1>7, <2>2, <3>2
    <3>5. ASSUME NEW q \in out, New(q).id = y.id PROVE Awaited(r, y, New(q), server[r], Astray(r))
      <4>1. New(q) = New(r)
        BY <1>8, <1>11, <2>2, <3>2, <3>5
      <4>2. r \in New(r).rs /\ New(r).what[r] = Change(r) /\ New(r).dir = "update"
        BY <1>11, <2>2
      <4>3. /\ x.state = "UpdatePending" => Change(r).kind = "update"
            /\ Change(r).kind = "add" => Change(r).new = x.data
            /\ x.state = "UpdatePending" => Change(r).old = x.data /\ Change(r).new = x.InFlight
        BY DEF Change
      <4> QED
        BY <3>2, <4>1, <4>2, <4>3 DEF Awaited
    <3>6. \A m \in net \union fresh : Awaited(r, y, m, server[r], Astray(r))
      <4>1. \A m \in net \union fresh : m.id # y.id => Awaited(r, y, m, server[r], Astray(r))
        BY DEF Awaited
      <4> QED
        BY <3>4, <3>5, <4>1
    <3> QED
      BY <3>2, <3>3, <3>6
  <2>3. CASE r \notin out
    <3>1. y \in AnyRecord /\ Fit(r, y) /\ Quiet(r, x, y)
      <4>1. CASE r \in due
        <5>1. y = Asked(r)
          BY <2>3, <4>1
        <5>2. y \in AnyRecord /\ y.state = x.state /\ y.data = x.data /\ y.id = 0 /\ y.type = x.type
              /\ y.InFlight = x.InFlight /\ y.Queued = x.Queued /\ y.nta = "asked"
              /\ y.SRVChanged = x.SRVChanged /\ y.RequireGoodbye = x.RequireGoodbye
          <6>1. x \in AnyRecord /\ (x.nta = "none" => x.id = 0)
            BY <1>3 DEF Fit
          <6> HIDE DEF To
          <6> QED
            BY <5>1, <6>1 DEF AnyRecord
        <5> HIDE DEF To
        <5> QED
          BY <1>3, <5>2 DEF Fit, Quiet
      <4>2. CASE r \notin due
        BY <1>3, <2>3, <4>2, QuietOrder
      <4> QED
        BY <4>1, <4>2
    <3> HIDE DEF To
    <3>2. Kept(y, server[r], Astray(r)) /\ \A m \in net : Awaited(r, y, m, server[r], Astray(r))
      <4> DEFINE held == server[r]
                 a == Astray(r)
      <4>1. Kept(x, held, a) /\ a \in BOOLEAN /\ (\A m \in net : m.id \in Ids /\ Awaited(r, x, m, held, a))
        BY <2>1
      <4> HIDE DEF held, a, x, y
      <4>2. Kept(y, held, a) /\ \A m \in net : Awaited(r, y, m, held, a)
        BY <3>1, <4>1, QuietKeeps
      <4> QED
        BY <4>2 DEF held, a
    <3>3. \A q \in out : New(q).id # y.id
      <4>1. \A q \in out : New(q).id \in Ids /\ New(q).id # x.id
        BY <1>6, <1>7, <1>11
      <4> QED
        BY <3>1, <4>1, NoId DEF Quiet
    <3> QED
      BY <3>1, <3>2, <3>3 DEF Awaited
  <2> QED
    BY <2>2, <2>3
<1> HIDE DEF To
<1>13. rr' \in Regs /\ \A r \in Records : rr'[r] = To(r)
  <2>1. rr' \in [Records -> AnyRecord]
    BY <1>10, <1>12
  <2> QED
    BY <1>10, <1>12, <2>1 DEF Regs
<1>14. \A m \in net' : IsMessage(m)
  BY <1>9, <1>11 DEF UpdateInv
<1>15. \A m, n \in net' : m.id = n.id => m = n
  <2>1. \A m \in net, r \in out : m.id # New(r).id
    BY <1>6, <1>7, <1>11
  <2>2. \A r, q \in out : New(r).id = New(q).id => New(r) = New(q)
    BY <1>8, <1>11
  <2>3. \A m, n \in net : m.id = n.id => m = n
    BY DEF UpdateInv
  <2> QED
    BY <1>9, <2>1, <2>2, <2>3
<1> HIDE DEF fresh
<1>16. \A r \in Records : /\ Kept(rr'[r], server'[r], Astray(r)')
                          /\ \A m \in net' : Awaited(r, rr'[r], m, server'[r], Astray(r)')
  BY <1>2, <1>9, <1>12, <1>13
<1> QED
  BY <1>2, <1>13, <1>14, <1>15, <1>16 DEF UpdateInv, Named

(* A record that the answer has reached, or that it has not.                  *)
LEMMA ReceiveKeeps ==
  ASSUME UpdateInv, NEW m \in net, uDNS_ReceiveMsg(m)
  PROVE  UpdateInv'
<1> DEFINE to == {r \in Listed(rr) : rr[r].id = m.id}
           Over(r, y) == y.id = 0 /\ Kept(y, server[r], Astray(r)')
           D == {Q \in Regs : \A r \in Records : Aside(r, rr[r], Q[r]) \/ Over(r, Q[r])}
<1>1. Named /\ net' \subseteq net /\ server' = server /\ moved \subseteq moved' /\ stray \subseteq stray'
      /\ m.dir = "answer" /\ m.id \in Ids
  BY SameNames DEF uDNS_ReceiveMsg, UpdateInv, IsMessage
<1>2. IsFiniteSet(to) /\ to \subseteq Records
  <2>1. to \subseteq Records
    BY DEF Listed
  <2> QED
    BY <2>1, Finite, FS_Subset
<1>3. rr \in D
  BY Beginning, QuietOrder
<1>4. \A r \in to : Astray(r)' \/ (m.err = "none" /\ m.what[r].kind = Change(r).kind)
  BY DEF uDNS_ReceiveMsg, Astray
<1>5. \A r \in Records : /\ Astray(r) => Astray(r)'
                         /\ Astray(r)' \in BOOLEAN
                         /\ Awaited(r, rr[r], m, server[r], Astray(r))
  BY <1>1 DEF Astray, UpdateInv
<1> HIDE DEF to, Over
<1>6. ASSUME NEW r \in to, NEW Q \in D PROVE Reply(Q, r, m.id, m.err) \in D
  <2>1. r \in Records /\ rr[r].id = m.id
    BY <1>2 DEF to
  <2>2. CASE Q[r].id # m.id
    BY <2>2 DEF Reply
  <2>3. CASE Q[r].id = m.id
    <3> DEFINE P == hndlRecordUpdateReply(Q, r, m.err)
               x == rr[r]
               z == Q[r]
               y == P[r]
    <3>1. z.id # 0 /\ Reply(Q, r, m.id, m.err) = P
      BY <1>1, <2>3, NoId DEF Reply
    <3>2. P \in AnsweredFrom(Q, r)
      BY <1>1, <2>1, <3>1, ReplyIs
    <3> HIDE DEF P
    <3>3. P \in Regs /\ Answered(z, y) /\ \A q \in Records \ {r} : Aside(q, Q[q], P[q])
      BY <3>2 DEF AnsweredFrom
    <3>4. ASSUME NEW q \in Records, q # r PROVE Aside(q, rr[q], P[q]) \/ Over(q, P[q])
      <4>1. Aside(q, Q[q], P[q])
        BY <3>3, <3>4
      <4>2. CASE Aside(q, rr[q], Q[q])
        BY <4>1, <4>2, QuietOrder
      <4>3. CASE Over(q, Q[q])
        <5>1. Q[q].id = 0 /\ Kept(Q[q], server[q], Astray(q)') /\ Quiet(q, Q[q], P[q])
          BY <4>1, <4>3 DEF Over, Aside
        <5> DEFINE held == server[q]
                   b == Astray(q)'
                   u == Q[q]
                   v == P[q]
        <5>2. Kept(u, held, b) /\ Quiet(q, u, v) /\ b \in BOOLEAN
          BY <1>5, <5>1
        <5> HIDE DEF held, b, u, v
        <5>3. Kept(v, held, b)
          BY <5>2, QuietKeeps
        <5>4. v.id = 0
          BY <5>1 DEF Quiet, u, v
        <5> QED
          BY <5>3, <5>4 DEF Over, held, b, v
      <4> QED
        BY <4>2, <4>3
    <3>5. Over(r, y)
      <4>1. Aside(r, x, z)
        BY <2>1, <3>1 DEF Over
      <4>2. z.state \in {x.state, "NoTarget"} /\ z.data = x.data /\ z.InFlight = x.InFlight
        BY <3>1, <4>1 DEF Aside
      <4>3. CASE Astray(r)'
        BY <3>3, <4>3 DEF Over, Answered, Kept
      <4>4. CASE ~Astray(r)'
        <5>1. /\ m.what[r].kind = Change(r).kind
              /\ m.what[r].kind = "add" /\ Settled(r, x.state) => m.what[r].new = x.data
              /\ m.what[r].kind = "update" /\ x.state = "UpdatePending" => m.what[r].new = x.InFlight
              /\ m.what[r].kind = "add" => server[r] = {m.what[r].new}
              /\ m.what[r].kind = "update" /\ x.state = "UpdatePending" => server[r] = {m.what[r].new}
          BY <1>1, <1>4, <1>5, <2>1, <4>4 DEF Awaited
        <5>2. /\ x.state \in {"Pending", "Refresh"} => Change(r).kind = "add"
              /\ x.state = "UpdatePending" => Change(r).kind = "update"
          BY DEF Change
        <5>3. CASE x.state \in {"Pending", "Refresh"}
          BY <3>3, <4>2, <5>1, <5>2, <5>3 DEF Over, Answered, Kept, Settled
        <5>4. CASE x.state = "UpdatePending"
          BY <3>3, <4>2, <5>1, <5>2, <5>4 DEF Over, Answered, Kept
        <5>5. CASE x.state \notin {"Pending", "Refresh", "UpdatePending"}
          BY <3>3, <4>2, <5>5 DEF Over, Answered, Kept
        <5> QED
          BY <5>3, <5>4, <5>5
      <4> QED
        BY <4>3, <4>4
    <3>6. P \in D
      BY <3>3, <3>4, <3>5
    <3> QED
      BY <3>1, <3>6
  <2> QED
    BY <2>2, <2>3
<1>7. Replied(m.id, m.err, rr, to) \in D
  <2> HIDE DEF D
  <2> QED
    BY <1>2, <1>3, <1>6, RepliedWithin
<1>8. rr' = Replied(m.id, m.err, rr, to)
  BY DEF uDNS_ReceiveMsg, Replied, Reply, to
<1>9. rr' \in Regs /\ \A r \in Records :
        \/ Quiet(r, rr[r], rr'[r])
        \/ r \in stray' \union moved' /\ rr'[r].id = rr[r].id /\ rr'[r].state # "UpdatePending"
        \/ rr'[r].id = 0 /\ Kept(rr'[r], server[r], Astray(r)')
  BY <1>7, <1>8 DEF Over, Aside
<1> QED
  BY <1>1, <1>9, QuietStep

LEMMA ServeKeeps ==
  ASSUME UpdateInv, NEW m \in net, Serve(m)
  PROVE  UpdateInv'
<1>1. PICK err \in {"none"} \union {e \in Refusing : (e = "unknown") => m.lease} :
        /\ net' = (net \ {m}) \union {[m EXCEPT !.dir = "answer", !.err = err]}
        /\ server' = [r \in Records |->
             IF err = "none" /\ r \in m.rs THEN Applied(server[r], m.what[r]) ELSE server[r]]
        /\ stray' = stray \union {r \in m.rs : err # "none" \/ rr[r].id # m.id}
  BY DEF Serve
<1> DEFINE n == [m EXCEPT !.dir = "answer", !.err = err]
<1>2. UNCHANGED <<rr, moved, Hostnames, AdvertisedV4>>
  BY DEF Serve, hostVars
<1>3. n.dir = "answer" /\ n.id = m.id /\ n.rs = m.rs /\ n.what = m.what /\ IsMessage(n) /\ IsMessage(m)
  <2>1. IsMessage(m)
    BY DEF UpdateInv
  <2> DEFINE M == [dir : {"update", "answer"}, id : {m.id}, rs : {m.rs}, err : {m.err, err}, what : {m.what},
                   lease : {m.lease}]
  <2>2. m \in M
    BY <2>1 DEF IsMessage
  <2>3. n \in M /\ n.dir = "answer"
    BY <2>2
  <2> HIDE DEF n
  <2>4. /\ n.id = m.id /\ n.rs = m.rs /\ n.what = m.what
        /\ n = [dir |-> n.dir, id |-> n.id, rs |-> n.rs, err |-> n.err, what |-> n.what, lease |-> n.lease]
    BY <2>3
  <2> QED
    BY <2>1, <2>3, <2>4 DEF IsMessage
<1>4. net' = (net \ {m}) \union {n}
  BY <1>1
<1> HIDE DEF n
<1>5. \A k, l \in net' : k.id = l.id => k = l
  BY <1>3, <1>4 DEF UpdateInv
<1>6. \A k \in net' : IsMessage(k)
  BY <1>3, <1>4 DEF UpdateInv
<1>7. ASSUME NEW r \in Records
      PROVE  /\ Kept(rr'[r], server'[r], Astray(r)')
             /\ \A k \in net' : Awaited(r, rr'[r], k, server'[r], Astray(r)')
  <2>1. Kept(rr[r], server[r], Astray(r)) /\ (\A k \in net : Awaited(r, rr[r], k, server[r], Astray(r)))
        /\ rr'[r] = rr[r] /\ Fit(r, rr[r])
    BY <1>2, Beginning, RegsAre DEF UpdateInv
  <2>2. Astray(r) => Astray(r)'
    BY <1>1, <1>2 DEF Astray
  <2>3. server'[r] = IF err = "none" /\ r \in m.rs THEN Applied(server[r], m.what[r]) ELSE server[r]
    BY <1>1
  <2>4. r \in m.rs /\ (err # "none" \/ rr[r].id # m.id) => Astray(r)'
    BY <1>1 DEF Astray
  <2>5. CASE Astray(r)'
    <3>1. Kept(rr'[r], server'[r], Astray(r)')
      BY <2>5 DEF Kept
    <3>2. Awaited(r, rr[r], n, server'[r], Astray(r)')
      <4>1. Awaited(r, rr[r], m, server[r], Astray(r))
        BY <2>1
      <4> QED
        BY <1>3, <2>5, <4>1 DEF Awaited
    <3>3. \A k \in net : Awaited(r, rr[r], k, server'[r], Astray(r)')
      BY <2>1, <2>5 DEF Awaited
    <3> QED
      BY <1>4, <2>1, <3>1, <3>2, <3>3
  <2>6. CASE ~Astray(r)' /\ r \notin m.rs
    <3>1. server'[r] = server[r] /\ ~Astray(r)
      BY <2>2, <2>3, <2>6
    <3>2. m.id # rr[r].id
      BY <2>1, <2>6 DEF Awaited
    <3> QED
      BY <1>3, <1>4, <2>1, <2>6, <3>1, <3>2 DEF Awaited, Kept
  <2>7. CASE ~Astray(r)' /\ r \in m.rs
    <3>1. err = "none" /\ rr[r].id = m.id /\ ~Astray(r) /\ server'[r] = Applied(server[r], m.what[r]) /\ rr[r].id # 0
      BY <1>3, <2>2, <2>3, <2>4, <2>7, NoId DEF IsMessage
    <3>2. /\ rr[r].state = "UpdatePending" => m.what[r].kind = "update"
          /\ m.what[r].kind = "add" /\ Settled(r, rr[r].state) => m.what[r].new = rr[r].data
          /\ m.what[r].kind = "update" /\ rr[r].state = "UpdatePending" =>
               m.what[r].old = rr[r].data /\ m.what[r].new = rr[r].InFlight
      BY <2>1, <3>1 DEF Awaited
    <3>3. rr[r].state # "Registered"
      BY <2>1, <3>1 DEF Fit
    <3>4. rr[r].state = "UpdatePending" => server[r] \subseteq {rr[r].data, rr[r].InFlight}
      BY <2>1, <3>1 DEF Kept
    <3>5. m.what[r].kind = "add" => server'[r] = {m.what[r].new}
      BY <3>1 DEF Applied
    <3>6. rr[r].state = "UpdatePending" => server'[r] = {m.what[r].new}
      <4>1. m.what[r].kind = "update" => server'[r] = (server[r] \ {m.what[r].old}) \union {m.what[r].new}
        BY <3>1 DEF Applied
      <4> QED
        BY <3>2, <3>4, <4>1
    <3>7. Kept(rr[r], server'[r], Astray(r)')
      BY <3>2, <3>3, <3>6 DEF Kept
    <3>8. Awaited(r, rr[r], n, server'[r], Astray(r)')
      BY <1>3, <2>7, <3>2, <3>5, <3>6 DEF Awaited
    <3>9. \A k \in net \ {m} : Awaited(r, rr[r], k, server'[r], Astray(r)')
      <4>1. \A k \in net \ {m} : k.id # rr[r].id
        BY <3>1 DEF UpdateInv
      <4> QED
        BY <4>1 DEF Awaited
    <3> QED
      BY <1>4, <2>1, <3>7, <3>8, <3>9
  <2> QED
    BY <2>5, <2>6, <2>7
<1>8. rr' \in Regs /\ Hostnames' \subseteq Hosts /\ AdvertisedV4' \in Addresses \union {Empty}
  BY <1>2 DEF UpdateInv
<1> QED
  BY <1>5, <1>6, <1>7, <1>8 DEF UpdateInv

LEMMA LoseKeeps ==
  ASSUME UpdateInv, NEW m \in net, Lose(m)
  PROVE  UpdateInv'
<1>1. Named /\ net' \subseteq net /\ server' = server /\ moved \subseteq moved' /\ stray \subseteq stray' /\ rr' = rr
  BY SameNames DEF Lose
<1>2. rr' \in Regs /\ \A r \in Records : Quiet(r, rr[r], rr'[r])
  BY <1>1, Beginning, QuietOrder
<1>3. \A r \in Records :
        \/ Quiet(r, rr[r], rr'[r])
        \/ r \in stray' \union moved' /\ rr'[r].id = rr[r].id /\ rr'[r].state # "UpdatePending"
        \/ rr'[r].id = 0 /\ Kept(rr'[r], server[r], Astray(r)')
  BY <1>2
<1> QED
  BY <1>1, <1>2, <1>3, QuietStep

-----------------------------------------------------------------------------

THEOREM UpdateStarts == DnsUpdateInit => UpdateInv
<1> SUFFICES ASSUME DnsUpdateInit PROVE UpdateInv
  OBVIOUS
<1>1. NewRecord \in AnyRecord /\ NewRecord.type = "Unregistered" /\ NewRecord.id = 0 /\ NewRecord.state = "Zero"
      /\ NewRecord.data = Empty /\ NewRecord.InFlight = Empty /\ NewRecord.Queued = Empty
      /\ ~NewRecord.SRVChanged /\ ~NewRecord.RequireGoodbye
  BY DEF NewRecord, AnyRecord, regState, Data
<1>2. \A r \in Records : Fit(r, NewRecord) /\ Kept(NewRecord, server[r], Astray(r))
  BY <1>1 DEF Fit, Kept
<1>3. rr \in Regs /\ \A r \in Records : rr[r] = NewRecord
  BY <1>1, <1>2 DEF DnsUpdateInit, Regs
<1> QED
  BY <1>2, <1>3 DEF DnsUpdateInit, UpdateInv

THEOREM UpdateGoesOn == UpdateInv /\ [DnsUpdateNext]_updateVars => UpdateInv'
<1> SUFFICES ASSUME UpdateInv, [DnsUpdateNext]_updateVars PROVE UpdateInv'
  OBVIOUS
<1>1. CASE UNCHANGED updateVars
  BY <1>1 DEF updateVars, UpdateInv, Astray
<1>2. CASE DnsUpdateNext
  BY <1>2, UpdateAllSRVRecordsKeeps, CheckKeeps, TimeKeeps, GotZoneDataKeeps, DeregisterServiceKeeps, NatMapKeeps,
     RegisterServiceKeeps, UpdateKeeps, AddHostKeeps, RemoveHostKeeps, PublicAddressKeeps,
     SetPrimaryInterfaceInfoKeeps, SleepKeeps, WakeKeeps, RestartKeeps, ReceiveKeeps, ServeKeeps, LoseKeeps
     DEF DnsUpdateNext
<1> QED
  BY <1>1, <1>2

(* RegisteredIsCurrent: what the daemon takes for registered is what the zone *)
(* holds, for any records, values, addresses, networks and bounds.            *)
THEOREM RegisteredStaysCurrent == DnsUpdateSpec => []RegisteredIsCurrent
<1>1. UpdateInv => RegisteredIsCurrent
  BY DEF UpdateInv, RegisteredIsCurrent, Kept, Astray
<1> QED
  BY <1>1, UpdateStarts, UpdateGoesOn, PTL DEF DnsUpdateSpec
=============================================================================

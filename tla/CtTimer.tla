------------------------------ MODULE CtTimer ------------------------------
(***************************************************************************)
(* CtTimer (src/CtTimer/src/CtTimer.c): a thread that sleeps in select and *)
(* calls a listener at every timeout, until it has ticked times times, the *)
(* listener declines, select fails, or a STOP datagram arrives.  One       *)
(* application thread calls the API; the loop threads it creates run       *)
(* concurrently with it.  How long a sleep lasts is modelled in            *)
(* CtTimerDrift; here a timeout may happen whenever no datagram is waiting *)
(* (select reports a readable socket before it reports a timeout).         *)
(***************************************************************************)
EXTENDS FiniteSets, CtThread, CtSocketIpc

CONSTANTS
  Loops,          \* identities for the loop threads
  Times,          \* the values of CtTimer_Initialize's times
  SelfStop,       \* the listener may call CtTimer_Stop
  CreateMayFail,  \* pthread_create may fail
  SelectMayFail,  \* select may return -1 (a signal, say)
  SendMayFail,    \* sendto may fail to queue the datagram
  Unlimited       \* the allowance of the abstract timer that loops forever

ASSUME LoopsAssumption ==
  /\ NoThread \notin Loops
  /\ IsFiniteSet(Loops)
ASSUME TimesAssumption == Times \subseteq Nat
ASSUME UnlimitedAssumption == Unlimited \notin Nat
ASSUME ClientAssumption ==
  /\ SelfStop \in BOOLEAN
  /\ CreateMayFail \in BOOLEAN
  /\ SelectMayFail \in BOOLEAN
  /\ SendMayFail \in BOOLEAN

VARIABLES
  app,         \* where the application thread is inside the API
  appTarget,   \* the thread it waits for in CtThread_Join
  is_running,
  times,
  thread,      \* the CtThread member
  ipc,         \* the CtSocketIpc member: datagrams not yet received
  pc,          \* where each loop thread is
  forever,     \* which of timer_loop's two loops a thread runs
  iter,        \* i of the counted loop
  target,      \* the thread a loop thread waits for in CtThread_Join
  freed        \* CtTimer_Delete has freed the object

vars == <<app, appTarget, is_running, times, thread, ipc, pc, forever, iter,
          target, freed>>

appVars == <<app, appTarget, is_running, times, thread, freed>>
loopVars == <<pc, forever, iter, target>>

AppPC == {"idle", "create", "starting", "stopSend", "stopJoin", "stopWait"}

(* "none": never created, or joined; "exited": returned, not yet joined.   *)
LoopPC == {"none", "enter", "head", "select", "recv", "tick", "listener",
           "selfSend", "selfJoin", "selfWait", "exited"}

Alive == {l \in Loops : pc[l] \notin {"none", "exited"}}

TypeOK ==
  /\ app \in AppPC
  /\ appTarget \in Loops \cup {NoThread}
  /\ is_running \in BOOLEAN
  /\ times \in Times \cup {0}
  /\ thread \in ThreadObject(Loops)
  /\ ipc \in Seq(IpcMsgType)
  /\ pc \in [Loops -> LoopPC]
  /\ forever \in [Loops -> BOOLEAN]
  /\ iter \in [Loops -> Nat]
  /\ target \in [Loops -> Loops \cup {NoThread}]
  /\ freed \in BOOLEAN

Init ==
  /\ app = "idle"
  /\ appTarget = NoThread
  /\ is_running = FALSE
  /\ times = 0
  /\ thread = CtThread_Construct
  /\ ipc = <<>>
  /\ pc = [l \in Loops |-> "none"]
  /\ forever = [l \in Loops |-> FALSE]
  /\ iter = [l \in Loops |-> 0]
  /\ target = [l \in Loops |-> NoThread]
  /\ freed = FALSE

-----------------------------------------------------------------------------
(* The application thread.                                                 *)

(* A client reinitialises a timer only while it is stopped.                *)
CtTimer_Initialize(n) ==
  /\ app = "idle" /\ ~freed /\ ~is_running
  /\ times' = n
  /\ UNCHANGED <<app, appTarget, is_running, thread, ipc, loopVars, freed>>

(* Mutant: Start without the is_running test.                              *)
CtTimer_StartUnchecked ==
  /\ app = "idle" /\ ~freed
  /\ \E l \in Loops : pc[l] = "none"
  /\ thread' = CtThread_Initialize(thread)
  /\ app' = "create"
  /\ UNCHANGED <<appTarget, is_running, times, ipc, loopVars, freed>>

(* CtTimer_Start up to the return of CtThread_Initialize, when the timer   *)
(* is not running; otherwise it returns CT_RET_E_STARTED and changes no    *)
(* state kept here.  The bound: an identity is left for the new thread.    *)
CtTimer_Start ==
  /\ app = "idle" /\ ~freed /\ ~is_running
  /\ \E l \in Loops : pc[l] = "none"
  /\ thread' = CtThread_Initialize(thread)
  /\ app' = "create"
  /\ UNCHANGED <<appTarget, is_running, times, ipc, loopVars, freed>>

(* Its call of CtThread_Start, whose result it does not look at.           *)
CtTimer_Create ==
  /\ app = "create"
  /\ app' = "starting"
  /\ IF CanStart(thread)
     THEN \/ \E l \in Loops :
               /\ pc[l] = "none"
               /\ pc' = [pc EXCEPT ![l] = "enter"]
               /\ thread' = CtThread_Start(thread, l)
          \/ /\ CreateMayFail
             /\ thread' = CtThread_Start(thread, NoThread)
             /\ UNCHANGED pc
     ELSE UNCHANGED <<pc, thread>>
  /\ UNCHANGED <<appTarget, is_running, times, ipc, forever, iter, target, freed>>

(* is_running is set only after the thread has been created.               *)
CtTimer_Started ==
  /\ app = "starting"
  /\ is_running' = TRUE
  /\ app' = "idle"
  /\ UNCHANGED <<appTarget, times, thread, ipc, loopVars, freed>>

(* CtTimer_Stop up to the assignment of is_running; a timer that is not    *)
(* running gets CT_RET_E_STOPPED.                                          *)
CtTimer_Stop ==
  /\ app = "idle" /\ ~freed /\ is_running
  /\ is_running' = FALSE
  /\ app' = "stopSend"
  /\ UNCHANGED <<appTarget, times, thread, ipc, loopVars, freed>>

SendStop ==
  \/ ipc' = CtSocketIpc_Send(ipc, "STOP")
  \/ SendMayFail /\ UNCHANGED ipc

(* Mutant: Stop that only joins.                                           *)
CtTimer_StopLoopSilent ==
  /\ app = "stopSend"
  /\ app' = "stopJoin"
  /\ UNCHANGED <<appTarget, is_running, times, thread, ipc, loopVars, freed>>

CtTimer_StopLoop ==
  /\ app = "stopSend"
  /\ SendStop
  /\ app' = "stopJoin"
  /\ UNCHANGED <<appTarget, is_running, times, thread, loopVars, freed>>

(* Mutant: a join that does not wait.                                      *)
JoinReturnsAtOnce(x, others) == TRUE

(* Whoever joins a thread waits for it to exit and releases it.  A thread  *)
(* already released is not waited for; joining a thread that somebody else *)
(* is joining is undefined, and may return at once.                        *)
JoinReturns(x, others) ==
  x # NoThread => pc[x] \in {"exited", "none"} \/ x \in others

Release(f, x) == IF x # NoThread /\ f[x] = "exited" THEN [f EXCEPT ![x] = "none"] ELSE f

LoopsWaiting == {l \in Loops : pc[l] = "selfWait"}

CtTimer_StopJoin ==
  /\ app = "stopJoin"
  /\ IF MustJoin(thread)
     THEN app' = "stopWait" /\ appTarget' = JoinTarget(thread)
     ELSE app' = "idle" /\ UNCHANGED appTarget
  /\ UNCHANGED <<is_running, times, thread, ipc, loopVars, freed>>

CtTimer_StopWait ==
  /\ app = "stopWait"
  /\ JoinReturns(appTarget, {target[l] : l \in LoopsWaiting})
  /\ pc' = Release(pc, appTarget)
  /\ thread' = CtThread_Joined(thread, appTarget)
  /\ app' = "idle" /\ appTarget' = NoThread
  /\ UNCHANGED <<is_running, times, ipc, forever, iter, target, freed>>

(* CtTimer_Delete sends a STOP, closes the socket and frees the object; it *)
(* joins nothing.  A client deletes a timer it has stopped, and here none  *)
(* whose listener may have stopped it.                                     *)
CtTimer_Delete ==
  /\ app = "idle" /\ ~freed /\ ~is_running /\ ~SelfStop
  /\ freed' = TRUE
  /\ ipc' = <<>>
  /\ UNCHANGED <<app, appTarget, is_running, times, thread, loopVars>>

CtTimer_New ==
  /\ freed
  /\ freed' = FALSE
  /\ is_running' = FALSE
  /\ times' = 0
  /\ thread' = CtThread_Construct
  /\ ipc' = <<>>
  /\ UNCHANGED <<app, appTarget, loopVars>>

-----------------------------------------------------------------------------
(* A loop thread, in timer_loop and timer_loop_once.                       *)

Goto(l, there) == pc' = [pc EXCEPT ![l] = there]

EnterLoop(l) ==
  /\ pc[l] = "enter"
  /\ forever' = [forever EXCEPT ![l] = (times = 0)]
  /\ iter' = [iter EXCEPT ![l] = 0]
  /\ Goto(l, "head")
  /\ UNCHANGED <<appVars, ipc, target>>

(* Mutant: one iteration too many.                                         *)
LoopHeadInclusive(l) ==
  /\ pc[l] = "head"
  /\ Goto(l, IF forever[l] \/ iter[l] <= times THEN "select" ELSE "exited")
  /\ UNCHANGED <<appVars, ipc, forever, iter, target>>

(* The loop condition, then timer_loop_once as far as select.              *)
LoopHead(l) ==
  /\ pc[l] = "head"
  /\ Goto(l, IF forever[l] \/ iter[l] < times THEN "select" ELSE "exited")
  /\ UNCHANGED <<appVars, ipc, forever, iter, target>>

SelectTimeout(l) ==
  /\ pc[l] = "select" /\ ipc = <<>>
  /\ Goto(l, "tick")
  /\ UNCHANGED <<appVars, ipc, forever, iter, target>>

SelectReadable(l) ==
  /\ pc[l] = "select" /\ ipc # <<>>
  /\ Goto(l, "recv")
  /\ UNCHANGED <<appVars, ipc, forever, iter, target>>

SelectError(l) ==
  /\ pc[l] = "select" /\ SelectMayFail
  /\ Goto(l, "exited")
  /\ UNCHANGED <<appVars, ipc, forever, iter, target>>

(* To the next iteration, which both TIMER_LOOP_RET_CONTINUE and a listener *)
(* that returned true lead to.                                             *)
NextIteration(l) ==
  /\ Goto(l, "head")
  /\ iter' = IF forever[l] THEN iter ELSE [iter EXCEPT ![l] = @ + 1]

(* The socket does not block: when another loop has taken the datagram,    *)
(* CtSocketIpc_Recv fails and the iteration is spent.  The message starts  *)
(* zeroed, which is the type STOP.                                         *)
Recv(l) ==
  /\ pc[l] = "recv"
  /\ \/ /\ ipc = <<>>
        /\ NextIteration(l)
        /\ UNCHANGED ipc
     \/ /\ ipc # <<>>
        /\ ipc' = Tail(ipc)
        /\ IF RecvType(ipc, "STOP") = "STOP"
           THEN Goto(l, "exited") /\ UNCHANGED iter
           ELSE NextIteration(l)
  /\ UNCHANGED <<appVars, forever, target>>

CallListener(l) ==
  /\ pc[l] = "tick"
  /\ Goto(l, "listener")
  /\ UNCHANGED <<appVars, ipc, forever, iter, target>>

ListenerReturn(l) ==
  /\ pc[l] = "listener"
  /\ \/ NextIteration(l)
     \/ Goto(l, "exited") /\ UNCHANGED iter
  /\ UNCHANGED <<appVars, ipc, forever, target>>

(* The listener calls CtTimer_Stop; the four actions are its four steps.   *)
ListenerStop(l) ==
  /\ pc[l] = "listener" /\ SelfStop /\ is_running
  /\ is_running' = FALSE
  /\ Goto(l, "selfSend")
  /\ UNCHANGED <<app, appTarget, times, thread, ipc, forever, iter, target, freed>>

ListenerStopLoop(l) ==
  /\ pc[l] = "selfSend"
  /\ SendStop
  /\ Goto(l, "selfJoin")
  /\ UNCHANGED <<appVars, forever, iter, target>>

ListenerStopJoin(l) ==
  /\ pc[l] = "selfJoin"
  /\ IF MustJoin(thread)
     THEN Goto(l, "selfWait") /\ target' = [target EXCEPT ![l] = JoinTarget(thread)]
     ELSE Goto(l, "listener") /\ UNCHANGED target
  /\ UNCHANGED <<appVars, ipc, forever, iter>>

(* pthread_join of the calling thread fails at once.                       *)
ListenerStopWait(l) ==
  LET others == {target[m] : m \in LoopsWaiting \ {l}}
                \cup IF app = "stopWait" THEN {appTarget} ELSE {}
  IN
  /\ pc[l] = "selfWait"
  /\ target[l] = l \/ JoinReturns(target[l], others)
  /\ pc' = [Release(pc, target[l]) EXCEPT ![l] = "listener"]
  /\ thread' = CtThread_Joined(thread, target[l])
  /\ target' = [target EXCEPT ![l] = NoThread]
  /\ UNCHANGED <<app, appTarget, is_running, times, ipc, forever, iter, freed>>

Loop(l) ==
  \/ EnterLoop(l) \/ LoopHead(l)
  \/ SelectTimeout(l) \/ SelectReadable(l) \/ SelectError(l)
  \/ Recv(l)
  \/ CallListener(l) \/ ListenerReturn(l)
  \/ ListenerStop(l) \/ ListenerStopLoop(l)
  \/ ListenerStopJoin(l) \/ ListenerStopWait(l)

App ==
  \/ \E n \in Times : CtTimer_Initialize(n)
  \/ CtTimer_Start \/ CtTimer_Create \/ CtTimer_Started
  \/ CtTimer_Stop \/ CtTimer_StopLoop \/ CtTimer_StopJoin \/ CtTimer_StopWait
  \/ CtTimer_Delete \/ CtTimer_New

Next == App \/ \E l \in Loops : Loop(l)

(* Every thread that can run eventually does, and a listener returns.  The *)
(* application need not call anything, but a call it made proceeds.        *)
Fairness ==
  /\ WF_vars(CtTimer_Create \/ CtTimer_Started)
  /\ WF_vars(CtTimer_StopLoop \/ CtTimer_StopJoin \/ CtTimer_StopWait)
  /\ \A l \in Loops : WF_vars(Loop(l))

Spec == Init /\ [][Next]_vars

FairSpec == Spec /\ Fairness

-----------------------------------------------------------------------------
(* Properties.                                                             *)

(* The promise of CtTimer_Stop (and of the is_running test in Start): with *)
(* no API call in progress, a timer that is not running - stopped, deleted *)
(* or never started - has no loop thread left that could call the listener *)
(* or touch the object.                                                    *)
QuiescentWhenStopped == app = "idle" /\ ~is_running => Alive = {}

(* Start never leaves two loops ticking on one timer: what is_running and  *)
(* the join in Stop are for.                                               *)
AtMostOneLoop == \A l, m \in Alive : l = m

(* STOP datagrams do not pile up.  Stopping a timer whose loop has already *)
(* ended leaves a STOP nobody reads, which cuts the next run short; that   *)
(* run consumes it, so there is never more than one between two calls.     *)
AtMostOneStaleStop == app \in {"idle", "create", "starting"} => Len(ipc) <= 1

(* Every loop thread that no longer belongs to a running timer has a STOP  *)
(* of its own waiting, or a Stop on its way to send it: each loop consumes *)
(* at most one.  So a loop orphaned by a Stop from its own listener cannot *)
(* be left ticking by the other loop taking its message.                   *)
StopsCoverLoops ==
  Cardinality(Alive) <=
    Len(ipc) + Cardinality({l \in Loops : pc[l] = "selfSend"})
             + (IF is_running THEN 1 ELSE 0)
             + (IF app \in {"starting", "stopSend"} THEN 1 ELSE 0)

(* CtTimer_Stop returns: the thread it joins gets a STOP, however the      *)
(* steps of the two threads interleave.                                    *)
StopReturns == (app = "stopSend") ~> (app = "idle")

(* A loop nobody wants any more - the timer is not running and no Start is *)
(* in progress - ends, unless the timer is started again.                  *)
StoppedLoopsEnd ==
  \A l \in Loops : (l \in Alive /\ ~is_running) ~> (l \notin Alive \/ is_running)

(* "tiems is 0, loop forever": with times = 0, a loop whose select does    *)
(* not fail ends only because its listener declined, or because the timer  *)
(* is being stopped.                                                       *)
LoopForever ==
  [][\A l \in Loops :
       pc[l] \notin {"listener", "exited"} /\ pc'[l] = "exited" /\ forever[l]
         => ~is_running /\ app \notin {"create", "starting"}]_vars

-----------------------------------------------------------------------------
(* Seen by a client that never stops the timer from its listener, CtTimer  *)
(* is the abstract timer of TimerService.                                  *)
TheLoop == CHOOSE l \in Alive : TRUE

(* Stop has sent its message and has not returned.                         *)
Signalled == app \in {"stopJoin", "stopWait"}

AbstractPhase ==
  IF app = "stopSend" THEN "stopping"
  ELSE IF Signalled THEN "signalled"
  ELSE IF app = "starting" \/ is_running
  THEN (IF Alive = {} THEN "expired" ELSE "running")
  ELSE "stopped"

(* The ticks loop l may still deliver.                                     *)
Allowed(l) ==
  IF pc[l] = "enter" THEN IF times = 0 THEN Unlimited ELSE times
  ELSE IF forever[l] THEN Unlimited
  ELSE times - iter[l] - (IF pc[l] = "listener" THEN 1 ELSE 0)

AbstractLeft == IF Alive = {} THEN 0 ELSE Allowed(TheLoop)

AbstractGrace == IF Signalled /\ Alive # {} /\ pc[TheLoop] = "tick" THEN 1 ELSE 0

Service ==
  INSTANCE TimerService WITH phase <- AbstractPhase, left <- AbstractLeft, grace <- AbstractGrace

(* Ticks are within the number asked for, at most one comes after the STOP *)
(* is sent and none after Stop returns.                                    *)
ImplementsTimerService == Service!SvcSpec
=============================================================================

------------------------------ MODULE CtThread ------------------------------
(***************************************************************************)
(* The CtThread object (src/CtThread/src/CtThread.c) as a record and the   *)
(* effect of each of its operations on it.  The thread's name and          *)
(* parameter carry no control and are left out.  thread_id is read only    *)
(* when thread_handler is not 0, and then names the same thread, so the    *)
(* model keeps thread_handler alone; NoThread stands for its value 0.      *)
(***************************************************************************)

CONSTANT NoThread

(* What the owner sees of a thread: CtThreadStatus.                        *)
ThreadStatus == {"Init", "Running", "Stop"}

ThreadObject(Threads) ==
  [status : ThreadStatus, handler : Threads \cup {NoThread}, loop : BOOLEAN]

CtThread_Construct == [status |-> "Init", handler |-> NoThread, loop |-> FALSE]

(* Installs the loop and forgets whatever thread the object referred to.   *)
CtThread_Initialize(t) ==
  [t EXCEPT !.status = "Init", !.handler = NoThread, !.loop = TRUE]

(* The early returns of CtThread_Start.                                    *)
CanStart(t) == t.status # "Running" /\ t.loop

(* The rest of CtThread_Start.  p is the thread pthread_create made, or    *)
(* NoThread when it failed: its result is not looked at, and the status is *)
(* Running either way.                                                     *)
CtThread_Start(t, p) == [t EXCEPT !.status = "Running", !.handler = p]

(* CtThread_Join does nothing to a thread that is not Running; otherwise   *)
(* it waits for JoinTarget, if there is one to wait for.                   *)
MustJoin(t) == t.status = "Running"
JoinTarget(t) == t.handler

(* The object once the wait for x is over.  It is written then, whatever   *)
(* was done to it during the wait.                                         *)
CtThread_Joined(t, x) ==
  [t EXCEPT !.status = "Stop", !.handler = IF x = NoThread THEN @ ELSE NoThread]
=============================================================================

---------------------------- MODULE CtCondition ----------------------------
(***************************************************************************)
(* CtCondition (src/CtThread/src/CtCondition.c), with the CtMutex it       *)
(* contains: a flag, a mutex and a POSIX condition variable.  Any thread   *)
(* may call Wait, NotifyOne and NotifyAll at any time.                     *)
(*                                                                         *)
(* A Wait resets the flag that a Notify sets, so the object keeps no       *)
(* record of a Notify nobody was waiting for, and a Wait that begins after *)
(* a Notify may send the threads it woke back to sleep.  The properties    *)
(* say what is left for a client to rely on.                               *)
(***************************************************************************)

CONSTANTS Threads, NoOne

ASSUME ThreadsAssumption == NoOne \notin Threads

VARIABLES
  mutex,     \* the thread that holds the CtMutex
  is_ready,
  sleepers,  \* the threads blocked on the condition variable
  place,        \* where each thread is inside the API
  deleter,   \* the thread that is in CtCondition_Delete
  alive,     \* the object has not been deleted
  notified   \* history: the strongest Notify made since a thread that is
             \* waiting last found is_ready false

conditionVars == <<mutex, is_ready, sleepers, place, deleter, alive, notified>>
objectVars == <<deleter, alive>>

(* Inside the while loop of CtCondition_Wait.                              *)
WaitPC == {"test", "block", "asleep", "relock"}
NotifyPC == {"lockOne", "lockAll", "one", "all"}
PC == {"idle", "lockWait", "returning", "unlock", "dispose"} \cup WaitPC \cup NotifyPC

ConditionTypeOK ==
  /\ mutex \in Threads \cup {NoOne}
  /\ is_ready \in BOOLEAN
  /\ sleepers \subseteq Threads
  /\ place \in [Threads -> PC]
  /\ deleter \in Threads \cup {NoOne}
  /\ alive \in BOOLEAN
  /\ notified \in [Threads -> {"no", "one", "all"}]

ConditionInit ==
  /\ mutex = NoOne
  /\ is_ready = FALSE
  /\ sleepers = {}
  /\ place = [t \in Threads |-> "idle"]
  /\ deleter = NoOne
  /\ alive = TRUE
  /\ notified = [t \in Threads |-> "no"]

MoveTo(t, from, to) == place[t] = from /\ place' = [place EXCEPT ![t] = to]

CtMutex_Lock(t) == mutex = NoOne /\ mutex' = t

CtMutex_Unlock(t) == mutex = t /\ mutex' = NoOne

(* The client: a new call of any of the operations, until one thread       *)
(* deletes the object.                                                     *)
Call(t, operation) ==
  /\ alive /\ deleter = NoOne
  /\ MoveTo(t, "idle", operation)
  /\ UNCHANGED <<mutex, is_ready, sleepers, objectVars, notified>>

-----------------------------------------------------------------------------
(* CtCondition_Wait.                                                       *)

(* Mutant: Wait does not reset the flag.                                   *)
WaitLockNoReset(t) ==
  /\ MoveTo(t, "lockWait", "test")
  /\ CtMutex_Lock(t)
  /\ notified' = [notified EXCEPT ![t] = "no"]
  /\ UNCHANGED <<is_ready, sleepers, objectVars>>

WaitLock(t) ==
  /\ MoveTo(t, "lockWait", "test")
  /\ CtMutex_Lock(t)
  /\ is_ready' = FALSE
  /\ notified' = [notified EXCEPT ![t] = "no"]
  /\ UNCHANGED <<sleepers, objectVars>>

WaitTest(t) ==
  /\ \/ is_ready /\ MoveTo(t, "test", "returning") /\ UNCHANGED notified
     \/ ~is_ready /\ MoveTo(t, "test", "block") /\ notified' = [notified EXCEPT ![t] = "no"]
  /\ UNCHANGED <<mutex, is_ready, sleepers, objectVars>>

(* pthread_cond_wait blocks the thread and unlocks the mutex in one step.  *)
WaitBlock(t) ==
  /\ MoveTo(t, "block", "asleep")
  /\ CtMutex_Unlock(t)
  /\ sleepers' = sleepers \cup {t}
  /\ UNCHANGED <<is_ready, objectVars, notified>>

(* A signalled thread is no longer a sleeper; a sleeper may also wake      *)
(* spuriously.                                                             *)
WaitWake(t) ==
  /\ MoveTo(t, "asleep", "relock")
  /\ sleepers' = sleepers \ {t}
  /\ UNCHANGED <<mutex, is_ready, objectVars, notified>>

WaitRelock(t) ==
  /\ MoveTo(t, "relock", "test")
  /\ CtMutex_Lock(t)
  /\ UNCHANGED <<is_ready, sleepers, objectVars, notified>>

-----------------------------------------------------------------------------
(* CtCondition_NotifyOne and CtCondition_NotifyAll.                        *)

NotifyLock(t) ==
  /\ MoveTo(t, "lockOne", "one") \/ MoveTo(t, "lockAll", "all")
  /\ CtMutex_Lock(t)
  /\ UNCHANGED <<is_ready, sleepers, objectVars, notified>>

Waiting == {t \in Threads : place[t] \in WaitPC}

(* pthread_cond_signal wakes one sleeper, if there is one.                 *)
NotifyOne(t) ==
  /\ MoveTo(t, "one", "unlock")
  /\ is_ready' = TRUE
  /\ \/ sleepers = {} /\ UNCHANGED sleepers
     \/ \E s \in sleepers : sleepers' = sleepers \ {s}
  /\ notified' =
       [s \in Threads |-> IF s \in Waiting /\ notified[s] = "no" THEN "one" ELSE notified[s]]
  /\ UNCHANGED <<mutex, objectVars>>

(* Mutant: NotifyAll signals a single sleeper.                             *)
NotifyAllSignal(t) ==
  /\ MoveTo(t, "all", "unlock")
  /\ is_ready' = TRUE
  /\ \/ sleepers = {} /\ UNCHANGED sleepers
     \/ \E s \in sleepers : sleepers' = sleepers \ {s}
  /\ notified' = [s \in Threads |-> IF s \in Waiting THEN "all" ELSE notified[s]]
  /\ UNCHANGED <<mutex, objectVars>>

NotifyAll(t) ==
  /\ MoveTo(t, "all", "unlock")
  /\ is_ready' = TRUE
  /\ sleepers' = {}
  /\ notified' = [s \in Threads |-> IF s \in Waiting THEN "all" ELSE notified[s]]
  /\ UNCHANGED <<mutex, objectVars>>

(* Mutant: a Wait returns with the mutex locked.                           *)
UnlockForgotten(t) ==
  /\ \/ MoveTo(t, "returning", "idle") /\ UNCHANGED mutex
     \/ MoveTo(t, "unlock", IF t = deleter THEN "dispose" ELSE "idle") /\ CtMutex_Unlock(t)
  /\ UNCHANGED <<is_ready, sleepers, objectVars, notified>>

(* The end of the three operations.  CtCondition_Delete goes on.           *)
Unlock(t) ==
  /\ \/ MoveTo(t, "returning", "idle")
     \/ MoveTo(t, "unlock", IF t = deleter THEN "dispose" ELSE "idle")
  /\ CtMutex_Unlock(t)
  /\ UNCHANGED <<is_ready, sleepers, objectVars, notified>>

-----------------------------------------------------------------------------
(* CtCondition_Delete, by a client that knows nobody is waiting: a Notify  *)
(* may still be on its way out.  No call is made once it has begun.        *)

MayDelete(t) ==
  /\ alive /\ deleter = NoOne
  /\ \A u \in Threads \ {t} : place[u] \in {"idle", "one", "all", "unlock", "returning"}

(* It calls CtCondition_NotifyAll first.                                   *)
CtCondition_Delete(t) ==
  /\ MayDelete(t)
  /\ MoveTo(t, "idle", "lockAll")
  /\ deleter' = t
  /\ UNCHANGED <<mutex, is_ready, sleepers, alive, notified>>

Dispose(t) ==
  /\ MoveTo(t, "dispose", "idle")
  /\ deleter' = NoOne
  /\ alive' = FALSE
  /\ UNCHANGED <<mutex, is_ready, sleepers, notified>>

CtCondition_New ==
  /\ ~alive
  /\ alive' = TRUE
  /\ is_ready' = FALSE
  /\ mutex' = NoOne /\ sleepers' = {}
  /\ UNCHANGED <<place, deleter, notified>>

-----------------------------------------------------------------------------
(* What a thread does of itself once it is in a call.                      *)
CallStep(t) ==
  \/ WaitLock(t) \/ WaitTest(t) \/ WaitBlock(t)
  \/ WaitRelock(t)
  \/ NotifyLock(t) \/ NotifyOne(t) \/ NotifyAll(t)
  \/ Unlock(t) \/ Dispose(t)

ConditionNext ==
  \/ \E t \in Threads :
       \/ \E operation \in {"lockWait", "lockOne", "lockAll"} : Call(t, operation)
       \/ CallStep(t) \/ WaitWake(t)
       \/ CtCondition_Delete(t)
  \/ CtCondition_New

ConditionSpec == ConditionInit /\ [][ConditionNext]_conditionVars

(* Threads in a call run, and one that was signalled wakes.                *)
ConditionFairness ==
  \A t \in Threads :
    WF_conditionVars(CallStep(t)) /\ WF_conditionVars(t \notin sleepers /\ WaitWake(t))

ConditionFairSpec == ConditionSpec /\ ConditionFairness

-----------------------------------------------------------------------------
(* Properties.                                                             *)

(* A Wait returns only because of a Notify made after it began, and after  *)
(* it last found nothing to return for: no old Notify satisfies it, and no *)
(* spurious wake-up ends it.                                               *)
WakesAreNotified ==
  \A t \in Threads : place[t] = "returning" => notified[t] # "no"

(* NotifyAll misses nobody: no thread is asleep that was in Wait when it   *)
(* was called, not even one caught between its test of is_ready and        *)
(* pthread_cond_wait.                                                      *)
NoSleeperMissed == \A t \in sleepers : notified[t] # "all"

(* A client that is told by a Wait that the work is done may delete the    *)
(* object at once, with the Notify that told it still on its way out: when *)
(* the object goes, no other thread is inside it.                          *)
NobodyInsideDeleted == ~alive => \A t \in Threads : place[t] = "idle"

(* From some time on no new call is made.                                  *)
CallsEnd == <>[][\A t \in Threads : place[t] = "idle" => place'[t] = "idle"]_conditionVars

(* Every thread a NotifyAll has woken returns from its Wait, unless        *)
(* another Wait resets the flag first, however late the others leave.      *)
NotifiedReturn ==
  CallsEnd => \A t \in Threads :
    (notified[t] = "all" /\ is_ready) ~> (place[t] = "idle" \/ ~is_ready)
=============================================================================

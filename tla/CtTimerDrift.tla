---------------------------- MODULE CtTimerDrift ----------------------------
(***************************************************************************)
(* How long CtTimer sleeps when times = 0: the correction timer_loop       *)
(* applies to running_interval so that neither late wake-ups nor the time  *)
(* spent in the listener accumulate.  Times are in microseconds, measured  *)
(* with ct_getusec; the few instructions between two clock readings are    *)
(* taken to last 0.                                                        *)
(*                                                                         *)
(* A measured overshoot is what select's sleep exceeded running_interval   *)
(* by.  Since the clock can be set, the code may also measure a negative   *)
(* overshoot, or a negative time in the listener.                          *)
(***************************************************************************)
EXTENDS Integers

CONSTANTS
  Interval,       \* CtTimer_Initialize's interval
  Overshoots,     \* the overshoots that may be measured
  ListenerTimes,  \* the times the listener may be measured to take
  MaxLag          \* the bound on how late, or early, the loop may get

ASSUME IntervalAssumption == Interval \in Nat
ASSUME MeasurementAssumption ==
  /\ Overshoots \subseteq Int
  /\ ListenerTimes \subseteq Int /\ ListenerTimes # {}
ASSUME MaxLagAssumption == MaxLag \in Nat

VARIABLES
  phase,             \* what the loop thread is doing
  running_interval,  \* how long the next sleep is asked to be
  previous,          \* previous_select_delta
  lag,               \* history: how late the loop is, against a tick every
                     \* Interval since its first one; while it sleeps, how
                     \* late at the moment it went to sleep
  first,             \* history: the overshoot before the first tick
  last,              \* history: the overshoot before the latest tick
  late,              \* history: every sleep of this loop was late by
                     \* something, and no listener took a negative time
  inBudget           \* history: besides, each lateness and the listener
                     \* after it took no more than half the interval

driftVars == <<phase, running_interval, previous, lag, first, last, late, inBudget>>
history == <<lag, first, last, late, inBudget>>

Half == Interval \div 2

Smaller(a, b) == IF a < b THEN a ELSE b
Larger(a, b) == IF a < b THEN b ELSE a

DriftTypeOK ==
  /\ phase \in {"stopped", "first", "listener", "sleep"}
  /\ running_interval \in Nat
  /\ previous \in Nat
  /\ lag \in Int /\ first \in Int /\ last \in Int
  /\ late \in BOOLEAN /\ inBudget \in BOOLEAN

DriftInit ==
  /\ phase = "stopped"
  /\ running_interval = Interval
  /\ previous = 0 /\ lag = 0 /\ first = 0 /\ last = 0
  /\ late = TRUE /\ inBudget = TRUE

(* CtTimer_Initialize on a stopped timer.                                  *)
Reinitialize ==
  /\ phase = "stopped"
  /\ running_interval' = Interval
  /\ UNCHANGED <<phase, previous, history>>

(* A new loop.  running_interval keeps the value the last loop left.       *)
StartLoop ==
  /\ phase = "stopped"
  /\ phase' = "first"
  /\ previous' = 0 /\ lag' = 0 /\ first' = 0 /\ last' = 0
  /\ late' = TRUE /\ inBudget' = TRUE
  /\ UNCHANGED running_interval

(* A STOP message ends a sleep; the listener may end the loop too.         *)
LeaveLoop ==
  /\ phase # "stopped"
  /\ phase' = "stopped"
  /\ UNCHANGED <<running_interval, previous, history>>

(* Mutant: the previous overshoot is used.                                 *)
CorrectionStale(d) == previous

(* The correction for a sleep that overshot by d: the overshoot itself or, *)
(* when there was none, the previous one.                                  *)
Correction(d) == IF d > 0 THEN d ELSE previous

NextPrevious(d) == IF d > 0 THEN d ELSE Larger(previous + d, 0)

(* The bound on lag, which only the properties look at.                    *)
LagBound == -MaxLag..MaxLag

(* select times out, and the listener is called.                           *)
Wake(d) ==
  /\ phase \in {"first", "sleep"}
  /\ running_interval' = Interval - Smaller(Correction(d), Half)
  /\ previous' = NextPrevious(d)
  /\ phase' = "listener"
  /\ last' = d
  /\ late' = (late /\ d > 0)
  /\ inBudget' = (inBudget /\ d > 0 /\ d <= Half)
  /\ IF phase = "first"
     THEN first' = d /\ lag' = 0
     ELSE lag' = lag + running_interval + d - Interval /\ UNCHANGED first
  /\ lag' \in LagBound

(* Mutant: no lower limit.                                                 *)
ListenerDoneNoFloor(e) ==
  /\ phase = "listener"
  /\ running_interval' =
       IF 0 <= e /\ e < running_interval THEN running_interval - e ELSE 0
  /\ lag' = lag + e /\ lag' \in LagBound
  /\ late' = (late /\ e >= 0)
  /\ inBudget' = (inBudget /\ e >= 0 /\ last + e <= Half)
  /\ phase' = "sleep"
  /\ UNCHANGED <<previous, first, last>>

(* The listener returns true having taken e.  The comparison is unsigned:  *)
(* a negative e counts as a huge one.                                      *)
ListenerDone(e) ==
  /\ phase = "listener"
  /\ running_interval' =
       Larger(IF 0 <= e /\ e < running_interval THEN running_interval - e ELSE 0, Half)
  /\ lag' = lag + e /\ lag' \in LagBound
  /\ late' = (late /\ e >= 0)
  /\ inBudget' = (inBudget /\ e >= 0 /\ last + e <= Half)
  /\ phase' = "sleep"
  /\ UNCHANGED <<previous, first, last>>

DriftNext ==
  \/ Reinitialize \/ StartLoop \/ LeaveLoop
  \/ \E d \in Overshoots : Wake(d)
  \/ \E e \in ListenerTimes : ListenerDone(e)

DriftSpec == DriftInit /\ [][DriftNext]_driftVars

-----------------------------------------------------------------------------
(* Whatever the clock says, a sleep is asked to last at least half the     *)
(* interval and at most the whole of it: a bad reading never makes the     *)
(* loop spin, nor sleep past its period.                                   *)
SleepBounds == Half <= running_interval /\ running_interval <= Interval

(* As long as the loop is in its budget, the lateness of a tick does not   *)
(* depend on how many ticks came before it: the n-th tick is as far from   *)
(* its place in the schedule as its own wake-up was late, compared with    *)
(* the first.                                                              *)
NoDrift == phase = "listener" /\ inBudget => lag = last - first

(* Out of its budget the loop may fall behind its schedule, but as long as *)
(* no sleep is cut short and the clock is not set it never runs ahead.     *)
NeverAhead == phase = "listener" /\ late => lag >= last - first
=============================================================================

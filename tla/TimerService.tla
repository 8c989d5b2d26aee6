---------------------------- MODULE TimerService ----------------------------
(***************************************************************************)
(* What a client of CtTimer may rely on when it calls Start and Stop from  *)
(* one thread and never from the listener: the abstract specification of   *)
(* CtTimer.  A timer is started, ticks at most as often as it was asked    *)
(* to, may expire on its own, and once Stop has sent its message at most   *)
(* one more tick is delivered, and none after Stop has returned.           *)
(***************************************************************************)
EXTENDS Naturals

CONSTANTS Times,        \* the numbers of ticks a timer may be asked for
          Unlimited     \* the allowance of a timer started with times = 0

VARIABLES phase,        \* where the timer is between Start and Stop
          left,         \* ticks the running loop may still deliver
          grace         \* ticks that may still come after the stop message

svcVars == <<phase, left, grace>>

Allowance == (Times \ {0}) \cup {Unlimited}

SvcInit == phase = "stopped" /\ left = 0 /\ grace = 0

(* A loop is created, or the creation of its thread fails unnoticed.       *)
SvcStart ==
  /\ phase = "stopped"
  /\ \/ phase' = "running" /\ left' \in Allowance
     \/ phase' = "expired" /\ left' = 0
  /\ UNCHANGED grace

SvcTick ==
  /\ left # 0
  /\ \/ phase \in {"running", "stopping"} /\ UNCHANGED grace
     \/ phase = "signalled" /\ grace = 1 /\ grace' = 0
  /\ left' = IF left = Unlimited THEN Unlimited ELSE left - 1
  /\ UNCHANGED phase

(* The loop ends: its ticks are used up, the listener declined or a stop   *)
(* message arrived.                                                        *)
SvcExpire ==
  /\ phase \in {"running", "stopping", "signalled"}
  /\ phase' = IF phase = "running" THEN "expired" ELSE phase
  /\ left' = 0 /\ grace' = 0

SvcStop ==
  /\ phase \in {"running", "expired"}
  /\ phase' = "stopping"
  /\ UNCHANGED <<left, grace>>

SvcSignal ==
  /\ phase = "stopping"
  /\ phase' = "signalled"
  /\ grace' \in {0, 1}
  /\ UNCHANGED left

(* Stop returns only when there is no loop left to tick.                   *)
SvcStopped ==
  /\ phase = "signalled" /\ left = 0 /\ grace = 0
  /\ phase' = "stopped"
  /\ UNCHANGED <<left, grace>>

SvcNext == SvcStart \/ SvcTick \/ SvcExpire \/ SvcStop \/ SvcSignal \/ SvcStopped

SvcSpec == SvcInit /\ [][SvcNext]_svcVars
=============================================================================

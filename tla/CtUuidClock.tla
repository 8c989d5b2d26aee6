---------------------------- MODULE CtUuidClock ----------------------------
(***************************************************************************)
(* Time-based UUIDs (linux_get_clock in src/CtUuid/src/CtUuid.c, which     *)
(* CtUuid_GenerateRandom falls back on when there is no random device):    *)
(* how the time and the clock sequence of a UUID are chosen so that it is  *)
(* new, when the clock may be set back, processes share                    *)
(* /var/lib/libuuid/clock.txt, and a process may crash in between.         *)
(*                                                                         *)
(* The statics of linux_get_clock are modelled as the memory of a process  *)
(* that makes one call at a time.  A time of day is a number of            *)
(* microseconds; Ticks, the units of a UUID's time in a microsecond, is 10 *)
(* in the code, and SeqSize, the number of clock sequences, is 2^14.       *)
(***************************************************************************)
EXTENDS Naturals

CONSTANTS
  Procs, NoProc,
  StateFds,   \* the descriptors open may return for clock.txt: some of
              \* "none", "zero" and "positive"
  Ticks,
  SeqSize,
  Second,     \* microseconds in a second
  MaxClock,   \* the bound on the time of day
  MaxSets,    \* the bound on how often the clock is set back
  CrashMayHappen

ASSUME ProcsAssumption == NoProc \notin Procs
ASSUME ClockAssumption ==
  /\ StateFds \subseteq {"none", "zero", "positive"}
  /\ Ticks \in Nat \ {0} /\ SeqSize \in Nat \ {0} /\ Second \in Nat \ {0}
  /\ MaxClock \in Nat /\ MaxClock > Second
  /\ MaxSets \in Nat /\ MaxSets < SeqSize
  /\ CrashMayHappen \in BOOLEAN

VARIABLES
  state_fd,  \* the descriptor of clock.txt, the same in every process:
             \* whether it can be opened is a matter of permissions
  clock,   \* the time of day
  sets,    \* how often it has been set back
  file,    \* what clock.txt says
  lock,    \* the process that holds the lock on it
  step,    \* where each process is in linux_get_clock
  memory,  \* its statics: last, adjustment and clock_seq, which are also
           \* what the UUID it is making consists of
  earlier  \* history: any one of the UUIDs returned, with its process

vars == <<state_fd, clock, sets, file, lock, step, memory, earlier>>
clockVars == <<state_fd, clock, sets>>

MAX_ADJUSTMENT == Ticks

(* last = 0 stands for statics never set, and a file never written.        *)
State == [last : Nat, adjustment : 0..MAX_ADJUSTMENT, clock_seq : 0..SeqSize - 1]
Unset == [last |-> 0, adjustment |-> 0, clock_seq |-> 0]

NoUuid == [proc |-> NoProc, stamp |-> Unset]

TypeOK ==
  /\ state_fd \in StateFds
  /\ clock \in Second + 1..MaxClock /\ sets \in 0..MaxSets
  /\ file \in State
  /\ lock \in Procs \cup {NoProc}
  /\ step \in [Procs -> {"idle", "lock", "read", "clock", "write", "unlock", "return"}]
  /\ memory \in [Procs -> State]
  /\ earlier \in [proc : Procs \cup {NoProc}, stamp : State]

Init ==
  /\ state_fd \in StateFds
  /\ clock = Second + 1 /\ sets = 0
  /\ file = Unset
  /\ lock = NoProc
  /\ step = [p \in Procs |-> "idle"]
  /\ memory = [p \in Procs |-> Unset]
  /\ earlier = NoUuid

Goto(p, from, to) == step[p] = from /\ step' = [step EXCEPT ![p] = to]

-----------------------------------------------------------------------------
(* The time of day, which is external: it goes on, and may be set back.    *)

ClockTicks ==
  /\ clock < MaxClock
  /\ clock' = clock + 1
  /\ UNCHANGED <<state_fd, sets, file, lock, step, memory, earlier>>

ClockIsSetBack ==
  /\ sets < MaxSets
  /\ \E t \in Second + 1..clock - 1 : clock' = t
  /\ sets' = sets + 1
  /\ UNCHANGED <<state_fd, file, lock, step, memory, earlier>>

-----------------------------------------------------------------------------
(* linux_get_clock in process p.                                           *)

Generate(p) ==
  /\ Goto(p, "idle", IF state_fd # "none" THEN "lock" ELSE "read")
  /\ UNCHANGED <<clockVars, file, lock, memory, earlier>>

(* F_SETLKW waits for another process, and never for one's own lock.       *)
Lock(p) ==
  /\ Goto(p, "lock", "read")
  /\ lock \in {NoProc, p}
  /\ lock' = p
  /\ UNCHANGED <<clockVars, file, memory, earlier>>

(* What the file says replaces the statics; when neither says anything,    *)
(* the sequence is drawn at random and the clock last read a second ago.   *)
Read(p) ==
  LET known == IF state_fd # "none" /\ file # Unset THEN file ELSE memory[p] IN
  /\ Goto(p, "read", "clock")
  /\ \/ /\ known.last # 0
        /\ memory' = [memory EXCEPT ![p] = known]
     \/ /\ known.last = 0
        /\ \E seq \in 0..SeqSize - 1 :
             memory' = [memory EXCEPT ![p] =
               [last |-> clock - Second, adjustment |-> known.adjustment, clock_seq |-> seq]]
  /\ UNCHANGED <<clockVars, file, lock, earlier>>

(* Mutants: the sequence is kept when the clock was set back, or does not  *)
(* wrap; last is not assigned when the clock has gone on.                  *)
NextStateSameSequence(m) ==
  IF clock # m.last THEN [m EXCEPT !.last = clock, !.adjustment = 0]
  ELSE [m EXCEPT !.adjustment = @ + 1]

(* The statics after a reading of the clock.                               *)
NextState(m) ==
  CASE clock < m.last -> [last |-> clock, adjustment |-> 0,
                          clock_seq |-> (m.clock_seq + 1) % SeqSize]
    [] clock = m.last -> [m EXCEPT !.adjustment = @ + 1]
    [] OTHER          -> [m EXCEPT !.last = clock, !.adjustment = 0]

(* Within one microsecond and with no adjustment left, the code reads the  *)
(* clock again.  The descriptor 0 is read from and locked, but it is not   *)
(* written to nor unlocked.                                                *)
Clock(p) ==
  /\ Goto(p, "clock", IF state_fd = "positive" THEN "write" ELSE "return")
  /\ clock = memory[p].last => memory[p].adjustment < MAX_ADJUSTMENT
  /\ memory' = [memory EXCEPT ![p] = NextState(@)]
  /\ UNCHANGED <<clockVars, file, lock, earlier>>

Write(p) ==
  /\ Goto(p, "write", "unlock")
  /\ file' = memory[p]
  /\ UNCHANGED <<clockVars, lock, memory, earlier>>

Unlock(p) ==
  /\ Goto(p, "unlock", "return")
  /\ lock' = NoProc
  /\ UNCHANGED <<clockVars, file, memory, earlier>>

Return(p) ==
  /\ Goto(p, "return", "idle")
  /\ \/ UNCHANGED earlier
     \/ earlier = NoUuid /\ earlier' = [proc |-> p, stamp |-> memory[p]]
  /\ UNCHANGED <<clockVars, file, lock, memory>>

(* The process ends, wherever it is, and starts again.  The system         *)
(* releases its lock.  Without the file only its node, which is random,    *)
(* tells its UUIDs from those of its next life: they are then another      *)
(* process's, and leave the history.                                       *)
Crash(p) ==
  /\ CrashMayHappen
  /\ step' = [step EXCEPT ![p] = "idle"]
  /\ memory' = [memory EXCEPT ![p] = Unset]
  /\ lock' = IF lock = p THEN NoProc ELSE lock
  /\ earlier' = IF state_fd = "none" /\ earlier.proc = p THEN NoUuid ELSE earlier
  /\ UNCHANGED <<clockVars, file>>

Process(p) ==
  \/ Generate(p) \/ Lock(p) \/ Read(p) \/ Clock(p)
  \/ Write(p) \/ Unlock(p) \/ Return(p)

Next ==
  \/ ClockTicks \/ ClockIsSetBack
  \/ \E p \in Procs : Process(p) \/ Crash(p)

Spec == Init /\ [][Next]_vars

-----------------------------------------------------------------------------
(* Properties.                                                             *)

(* clock_reg, without the constant offset of the epoch.                    *)
Time(s) == s.last * Ticks + s.adjustment

SameUuid(s, t) == s.clock_seq = t.clock_seq /\ Time(s) = Time(t)

(* Two UUIDs with the same time and sequence are made only if one was the  *)
(* last adjustment of a microsecond and the other the first UUID of the    *)
(* next: MAX_ADJUSTMENT is one more than the clock has room for.  With the *)
(* state file this holds across processes and crashes, whatever their      *)
(* nodes; without it, for one process.                                     *)
UniqueButAtEdge ==
  \A p \in Procs :
    step[p] = "return" /\ earlier # NoUuid /\ SameUuid(earlier.stamp, memory[p]) =>
      \/ state_fd = "none" /\ earlier.proc # p
      \/ {earlier.stamp.adjustment, memory[p].adjustment} = {0, MAX_ADJUSTMENT}

(* Nothing is lost from the file: its time goes on within a sequence.      *)
FileGoesOn ==
  [][file' # file =>
       \/ file'.clock_seq # file.clock_seq
       \/ Time(file) <= Time(file')]_vars
=============================================================================

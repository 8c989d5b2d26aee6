---------------------------- MODULE DnsExtdProofs ----------------------------
(* Proofs about the server of long-lived queries and their client.  The lease *)
(* table of DnsExtd follows the zone, and what it holds is deleted before the *)
(* daemon stops; its lists of answers follow the zone too, and its clients    *)
(* are told what they hold; the client of LongLived has seen what its server  *)
(* takes it to have been told, in whatever order messages come.               *)
EXTENDS DnsExtd, LongLived, FiniteSetTheorems, WellFoundedInduction, TLAPS

-----------------------------------------------------------------------------
(* The daemon: its lease table.                                               *)

MainPC == {"start", "select", "expire", "query", "stop", "clear", "stopped"}

LeaseTypes ==
  /\ zone \subseteq Zoned /\ privateZone \in BOOLEAN
  /\ srvs \in {{}, UdpNames, TlsNames} /\ (main.pc = "start" => srvs = {})
  /\ leases \in [Zoned -> {"none", "live", "out"}] /\ lingering \subseteq Zoned
  /\ threads \in [Threads -> Thread]
  /\ main \in [pc : MainPC, todo : SUBSET (Zoned \union Questions)]

(* What is on its way to the table asked for a lease, if it adds anything.    *)
Leased == \A t \in Threads :
  threads[t].pc = "lease" => threads[t].req.adds = {} \/ threads[t].req.lease

(* A change that the table lacks has one thread to record it, and it is the   *)
(* last that the name server made.  What was deleted alone keeps its lease.   *)
OneRecords == \A r \in Zoned \ astray : \A t \in Recording(r) :
  /\ r \in zone <=> r \in threads[t].req.adds
  /\ r \in lingering <=> r \notin threads[t].req.adds \union threads[t].req.dels /\ leases[r] # "none"
  /\ \A u \in Recording(r) : u = t

(* On the way to exit the table empties.                                      *)
Stopping ==
  /\ main.pc = "stop" => \A r \in Zoned : leases[r] # "none" => r \in main.todo
  /\ main.pc = "clear" => \A r \in Zoned \ astray : leases[r] = "none"
  /\ main.pc = "stopped" => \A t \in Threads : threads[t] = Idle

LeaseInv == LeaseTypes /\ Leased /\ OneRecords /\ LeasesFollowTheZone /\ Stopping /\ LeavesNothing

LEMMA LeaseInit == DnsExtdInit => LeaseInv
  BY DnsExtdAssumption DEF DnsExtdInit, LeaseInv, LeaseTypes, MainPC, Leased, OneRecords, Recording,
     LeasesFollowTheZone, Stopping, LeavesNothing, Thread, Idle

(* What the invariant is about.                                               *)
leaseVars == <<zone, privateZone, srvs, leases, lingering, threads, main, astray>>

LEMMA Untouched == ASSUME LeaseInv, UNCHANGED leaseVars PROVE LeaseInv'
  BY DEF LeaseInv, LeaseTypes, Leased, OneRecords, LeasesFollowTheZone, Stopping, LeavesNothing,
     Recording, leaseVars

(* The main thread goes on, and the table with it stays.                      *)
LEMMA MainMoves ==
  ASSUME LeaseInv, UNCHANGED <<zone, privateZone, srvs, leases, lingering, threads, astray>>,
         main.pc \in {"select", "query", "expire"}, main'.pc \in {"select", "query", "expire"},
         main' \in [pc : MainPC, todo : SUBSET (Zoned \union Questions)]
  PROVE  LeaseInv'
  BY DEF LeaseInv, LeaseTypes, Leased, OneRecords, LeasesFollowTheZone, Stopping, LeavesNothing,
     Recording

(* A thread that records nothing before or after its step.                    *)
LEMMA OtherThreads ==
  ASSUME LeaseInv, UNCHANGED <<zone, privateZone, srvs, leases, lingering, main>>, astray \subseteq astray',
         NEW t \in Threads, NEW x \in Thread, threads' = [threads EXCEPT ![t] = x],
         x.pc # "lease", main.pc = "stopped" => x = Idle,
         threads[t].pc # "lease"
  PROVE  LeaseInv'
<1>1. \A r \in Zoned : Recording(r)' = Recording(r)
  BY DEF Recording, LeaseInv, LeaseTypes
<1>2. LeaseTypes' /\ Leased'
  BY DEF LeaseInv, LeaseTypes, Leased
<1>3. OneRecords'
  BY <1>1, <1>2 DEF LeaseInv, LeaseTypes, OneRecords, Recording
<1>4. LeasesFollowTheZone' /\ LeavesNothing'
  BY <1>1 DEF LeaseInv, LeasesFollowTheZone, LeavesNothing
<1>5. Stopping'
  BY DEF LeaseInv, LeaseTypes, Stopping
<1> QED BY <1>2, <1>3, <1>4, <1>5 DEF LeaseInv

-----------------------------------------------------------------------------
(* The name server has applied a request that it calls done.                  *)
LEMMA DoneIsApplied == \A x \in Relayed : x.reply = "done" => x.applied
  BY DEF Relayed, UDPServerTransaction, TCPTransaction, SendPacket, RecvPacket

LEMMA EndsThread ==
  ASSUME LeaseInv, NEW t \in Threads, threads[t].pc # "lease", EndOf(t),
         UNCHANGED <<zone, privateZone, srvs, leases, lingering, main>>, astray \subseteq astray'
  PROVE  LeaseInv'
<1>1. Idle \in Thread /\ Idle.pc # "lease" /\ threads' = [threads EXCEPT ![t] = Idle]
  BY DEF EndOf, Idle, Thread
<1> QED BY <1>1, OtherThreads

LEMMA HandKeeps ==
  ASSUME LeaseInv, NEW req \in Updates, NEW c \in Conns \union {Nobody}, Hand(req, c),
         UNCHANGED <<zone, privateZone, srvs, leases, lingering, main, astray>>, main.pc = "select"
  PROVE  LeaseInv'
<1>1. PICK t \in Threads : /\ threads[t] = Idle
                          /\ threads' = [threads EXCEPT ![t] = [pc |-> "relay", req |-> req, conn |-> c]]
  BY DEF Hand
<1> DEFINE x == [pc |-> "relay", req |-> req, conn |-> c]
<1>2. x \in Thread /\ x.pc # "lease" /\ threads[t].pc # "lease"
  BY <1>1 DEF Idle, Thread
<1>3. threads' = [threads EXCEPT ![t] = x] /\ main.pc # "stopped" /\ astray \subseteq astray'
  BY <1>1
<1> HIDE DEF x
<1> QED BY <1>2, <1>3, OtherThreads

LEMMA RelayKeeps == ASSUME LeaseInv, NEW t \in Threads, Relay(t) PROVE LeaseInv'
<1> DEFINE req == threads[t].req
<1>1. threads[t] \in Thread /\ req \in Updates /\ threads[t].pc = "relay" /\ main.pc # "stopped"
  BY DEF LeaseInv, LeaseTypes, Stopping, Relay, Thread, Idle
<1>2. req \in [adds : SUBSET Zoned, dels : SUBSET Zoned, ones : SUBSET Zoned,
                lease : BOOLEAN, signed : BOOLEAN]
  BY <1>1, DnsExtdAssumption
<1>3. CASE req.adds # {} /\ ~req.lease
  BY <1>1, <1>3, EndsThread DEF Relay, srvVars, leaseTable
<1>4. CASE ~(req.adds # {} /\ ~req.lease)
  <2>1. PICK x \in Relayed :
          /\ zone' = IF x.applied THEN (zone \ Touches(req)) \union req.adds ELSE zone
          /\ lingering' = IF x.applied THEN Lingers(req) ELSE lingering
          /\ IF x.reply = "done"
               THEN threads' = [threads EXCEPT ![t].pc = "lease"] /\ UNCHANGED conns
               ELSE EndOf(t)
          /\ astray' = IF x.reply # "done" \/ main.pc \in {"stop", "clear"}
                       THEN astray \union IF x.applied THEN Touches(req) ELSE {}
                       ELSE astray \union {r \in Touches(req) : Recording(r) # {}}
    BY <1>4 DEF Relay
  <2>2. UNCHANGED <<privateZone, srvs, leases, main>>
    BY DEF Relay, srvVars, leaseTable
  <2>3. CASE x.reply = "done"
    <3>1. x.applied
      BY <2>3, DoneIsApplied
    <3>2. threads' = [threads EXCEPT ![t] = [threads[t] EXCEPT !.pc = "lease"]]
      BY <2>1, <2>3
    <3>3. [threads[t] EXCEPT !.pc = "lease"] \in Thread
      BY <1>1 DEF Thread, Idle
    <3>4. threads'[t].pc = "lease" /\ threads'[t].req = req
      BY <1>1, <3>2 DEF LeaseInv, LeaseTypes, Thread, Idle
    <3>5. \A r \in Zoned : Recording(r)' = IF r \in Touches(req) THEN Recording(r) \union {t} ELSE Recording(r)
      BY <1>1, <3>2, <3>4 DEF Recording, LeaseInv, LeaseTypes
    <3>6. LeaseTypes'
      BY <1>2, <2>1, <2>2, <3>1, <3>2, <3>3 DEF LeaseInv, LeaseTypes, Lingers
    <3>7. Leased'
      BY <1>4, <3>2, <3>4 DEF LeaseInv, Leased, LeaseTypes
    <3>8. OneRecords'
      <4> SUFFICES ASSUME NEW r \in Zoned \ astray', NEW u \in Recording(r)'
                   PROVE  /\ r \in zone' <=> r \in threads'[u].req.adds
                          /\ r \in lingering' <=>
                               r \notin threads'[u].req.adds \union threads'[u].req.dels /\ leases'[r] # "none"
                          /\ \A v \in Recording(r)' : v = u
        BY DEF OneRecords
      <4>1. r \notin astray
        BY <2>1
      <4>2. CASE r \in Touches(req)
        <5>1. Recording(r) = {}
          BY <2>1, <2>3, <3>1, <4>2
        <5>2. u = t /\ \A v \in Recording(r)' : v = u
          BY <3>5, <4>2, <5>1
        <5>3. r \in lingering => leases[r] # "none"
          BY <1>1, <4>1, <5>1 DEF LeaseInv, LeasesFollowTheZone
        <5>4. r \in lingering' <=> r \notin req.adds \union req.dels /\ leases'[r] # "none"
          BY <2>1, <2>2, <3>1, <4>2, <5>3 DEF Touches, Lingers
        <5> QED BY <2>1, <3>1, <3>4, <4>2, <5>2, <5>4
      <4>3. CASE r \notin Touches(req)
        <5>1. u \in Recording(r) /\ u # t /\ threads'[u] = threads[u] /\ Recording(r)' = Recording(r)
          BY <1>1, <3>2, <3>5, <4>3 DEF Recording, LeaseInv, LeaseTypes
        <5>2. (r \in zone' <=> r \in zone) /\ (r \in lingering' <=> r \in lingering)
          BY <2>1, <4>3 DEF Touches, Lingers
        <5> QED BY <2>2, <4>1, <5>1, <5>2 DEF LeaseInv, OneRecords
      <4> QED BY <4>2, <4>3
    <3>9. LeasesFollowTheZone'
      BY <2>1, <2>2, <3>1, <3>5 DEF LeaseInv, LeasesFollowTheZone, Touches, Lingers
    <3>10. Stopping'
      BY <1>1, <2>1, <2>2 DEF LeaseInv, Stopping
    <3> QED BY <1>1, <2>2, <3>6, <3>7, <3>8, <3>9, <3>10 DEF LeaseInv, LeavesNothing
  <2>4. CASE x.reply # "done" /\ ~x.applied
    BY <1>1, <2>1, <2>2, <2>4, EndsThread
  <2>5. CASE x.reply # "done" /\ x.applied
    <3>1. threads' = [threads EXCEPT ![t] = Idle] /\ astray' = astray \union Touches(req)
      BY <2>1, <2>5 DEF EndOf
    <3>2. \A r \in Zoned : Recording(r)' = Recording(r)
      BY <1>1, <3>1 DEF Recording, LeaseInv, LeaseTypes, Idle
    <3>3. \A r \in Zoned \ astray' : (r \in zone' <=> r \in zone) /\ (r \in lingering' <=> r \in lingering)
      BY <2>1, <2>5, <3>1 DEF Touches, Lingers
    <3>4. LeaseTypes' /\ Leased'
      BY <1>2, <2>1, <2>2, <2>5, <3>1 DEF LeaseInv, LeaseTypes, Leased, Thread, Idle, Lingers
    <3>5. OneRecords'
      BY <1>1, <2>2, <3>1, <3>2, <3>3 DEF LeaseInv, LeaseTypes, OneRecords, Recording
    <3>6. LeasesFollowTheZone' /\ Stopping'
      BY <1>1, <2>2, <3>1, <3>2, <3>3 DEF LeaseInv, LeasesFollowTheZone, Stopping
    <3> QED BY <1>1, <2>2, <3>4, <3>5, <3>6 DEF LeaseInv, LeavesNothing
  <2> QED BY <2>3, <2>4, <2>5
<1> QED BY <1>3, <1>4

LEMMA RecordKeeps == ASSUME LeaseInv, NEW t \in Threads, UpdateLeaseTable(t) PROVE LeaseInv'
<1> DEFINE req == threads[t].req
<1>1. /\ threads[t] \in Thread /\ req \in Updates /\ threads[t].pc = "lease"
      /\ main.pc \notin {"expire", "stop", "stopped"}
  BY DEF LeaseInv, LeaseTypes, Stopping, UpdateLeaseTable, Thread, Idle
<1>2. req \in [adds : SUBSET Zoned, dels : SUBSET Zoned, ones : SUBSET Zoned,
                lease : BOOLEAN, signed : BOOLEAN]
  BY <1>1, DnsExtdAssumption
<1>3. PICK lost \in Unrecorded(req) :
        /\ leases' = [r \in Zoned |-> IF r \in lost THEN leases[r]
                                      ELSE IF r \in req.adds /\ req.lease THEN "live"
                                      ELSE IF r \in req.dels THEN "none" ELSE leases[r]]
        /\ astray' = astray \union IF main.pc = "clear" THEN Touches(req) ELSE lost
  BY DEF UpdateLeaseTable
<1>10. /\ threads' = [threads EXCEPT ![t] = [threads[t] EXCEPT !.pc = "ping"]]
       /\ UNCHANGED <<zone, privateZone, srvs, lingering, main>>
  BY DEF UpdateLeaseTable, srvVars
<1>11. lost \subseteq Touches(req)
  BY DEF Unrecorded
<1>4. [threads[t] EXCEPT !.pc = "ping"] \in Thread /\ [threads[t] EXCEPT !.pc = "ping"].pc = "ping"
  BY <1>1 DEF Thread, Idle
<1>5. \A r \in Zoned : Recording(r)' = Recording(r) \ {t}
  BY <1>4, <1>10 DEF Recording, LeaseInv, LeaseTypes
<1>6. LeaseTypes' /\ Leased'
  <2>1. leases' \in [Zoned -> {"none", "live", "out"}]
    BY <1>3 DEF LeaseInv, LeaseTypes
  <2> QED BY <1>4, <1>10, <2>1 DEF LeaseInv, LeaseTypes, Leased
<1>7. OneRecords'
  <2> SUFFICES ASSUME NEW r \in Zoned \ astray', NEW u \in Recording(r)'
               PROVE  /\ r \in zone' <=> r \in threads'[u].req.adds
                      /\ r \in lingering' <=>
                           r \notin threads'[u].req.adds \union threads'[u].req.dels /\ leases'[r] # "none"
                      /\ \A v \in Recording(r)' : v = u
    BY DEF OneRecords
  <2>1. r \notin astray /\ u \in Recording(r) /\ u # t /\ threads'[u] = threads[u]
    BY <1>3, <1>5, <1>10 DEF Recording, LeaseInv, LeaseTypes
  <2>2. t \notin Recording(r)
    BY <2>1 DEF LeaseInv, OneRecords
  <2>3. r \notin Touches(req)
    BY <1>1, <2>2 DEF Recording
  <2>4. leases'[r] = leases[r]
    BY <1>3, <1>11, <2>3 DEF Touches
  <2> QED BY <1>5, <1>10, <2>1, <2>4 DEF LeaseInv, OneRecords
<1>8. LeasesFollowTheZone'
  <2> SUFFICES ASSUME NEW r \in Zoned \ astray', Recording(r)' = {}
               PROVE  leases'[r] # "none" <=> r \in zone' \union lingering'
    BY DEF LeasesFollowTheZone
  <2>0. r \notin astray /\ r \notin lost
    BY <1>3, <1>11
  <2>1. CASE r \in Touches(req)
    <3>1. t \in Recording(r)
      BY <1>1, <2>1 DEF Recording
    <3>2. /\ r \in zone <=> r \in req.adds
          /\ r \in lingering <=> r \notin req.adds \union req.dels /\ leases[r] # "none"
      BY <2>0, <3>1 DEF LeaseInv, OneRecords
    <3>3. r \in req.adds => req.lease
      BY <1>1 DEF LeaseInv, Leased
    <3> QED BY <1>3, <1>10, <2>0, <2>1, <3>2, <3>3 DEF Touches
  <2>2. CASE r \notin Touches(req)
    <3>1. Recording(r) = {}
      BY <1>1, <1>5, <2>2 DEF Recording
    <3>2. leases'[r] = leases[r]
      BY <1>3, <2>0, <2>2 DEF Touches
    <3> QED BY <1>1, <1>10, <2>0, <3>1, <3>2 DEF LeaseInv, LeasesFollowTheZone
  <2> QED BY <2>1, <2>2
<1>9. Stopping'
  <2> SUFFICES ASSUME main'.pc = "clear", NEW r \in Zoned \ astray' PROVE leases'[r] = "none"
    BY <1>1, <1>10 DEF Stopping
  <2>1. main.pc = "clear" /\ r \notin astray /\ r \notin Touches(req) /\ r \notin lost
    BY <1>3, <1>10, <1>11
  <2> QED BY <1>3, <2>1 DEF LeaseInv, Stopping, Touches
<1> QED BY <1>1, <1>6, <1>7, <1>8, <1>9, <1>10 DEF LeaseInv, LeavesNothing

LEMMA RunsOutKeeps == ASSUME LeaseInv, NEW r \in Zoned, LeaseRunsOut(r) PROVE LeaseInv'
<1>1. /\ leases' = [leases EXCEPT ![r] = "out"] /\ leases[r] = "live" /\ main.pc \in {"select", "query"}
      /\ UNCHANGED <<zone, privateZone, srvs, lingering, threads, main, astray>>
  BY DEF LeaseRunsOut, srvVars, leaseTable
<1>2. \A x \in Zoned : Recording(x)' = Recording(x) /\ (leases'[x] # "none" <=> leases[x] # "none")
  BY <1>1 DEF Recording, LeaseInv, LeaseTypes
<1> QED BY <1>1, <1>2 DEF LeaseInv, LeaseTypes, Leased, OneRecords, LeasesFollowTheZone, Stopping,
           LeavesNothing, Recording

LEMMA DeleteKeeps == ASSUME LeaseInv, NEW r \in Zoned, DeleteOneRecord(r) PROVE LeaseInv'
<1>1. PICK x \in TCPTransaction :
        /\ zone' = IF x.applied THEN zone \ {r} ELSE zone
        /\ astray' = IF ~x.applied \/ Recording(r) # {} THEN astray \union {r} ELSE astray
  BY DEF DeleteOneRecord
<1>2. /\ main.pc \in {"expire", "stop"} /\ leases' = [leases EXCEPT ![r] = "none"]
      /\ lingering' = lingering \ {r}
      /\ main' = [main EXCEPT !.todo = @ \ {r}] /\ UNCHANGED <<privateZone, srvs, threads>>
  BY DEF DeleteOneRecord, srvVars, leaseTable
<1>3. main'.pc = main.pc /\ main'.todo = main.todo \ {r}
  BY <1>2 DEF LeaseInv, LeaseTypes
<1>4. \A y \in Zoned : Recording(y)' = Recording(y)
  BY <1>2 DEF Recording
<1>5. LeaseTypes' /\ Leased'
  BY <1>1, <1>2 DEF LeaseInv, LeaseTypes, Leased, MainPC
<1>6. OneRecords'
  <2> SUFFICES ASSUME NEW y \in Zoned \ astray', NEW u \in Recording(y)'
               PROVE  /\ y \in zone' <=> y \in threads'[u].req.adds
                      /\ y \in lingering' <=>
                           y \notin threads'[u].req.adds \union threads'[u].req.dels /\ leases'[y] # "none"
                      /\ \A v \in Recording(y)' : v = u
    BY DEF OneRecords
  <2>1. y \notin astray /\ u \in Recording(y) /\ y # r
    BY <1>1, <1>4
  <2>2. (y \in zone' <=> y \in zone) /\ (y \in lingering' <=> y \in lingering) /\ leases'[y] = leases[y]
    BY <1>1, <1>2, <2>1 DEF LeaseInv, LeaseTypes
  <2> QED BY <1>2, <1>4, <2>1, <2>2 DEF LeaseInv, OneRecords
<1>7. LeasesFollowTheZone' /\ Stopping'
  BY <1>1, <1>2, <1>3, <1>4 DEF LeaseInv, LeaseTypes, LeasesFollowTheZone, Stopping
<1> QED BY <1>2, <1>3, <1>5, <1>6, <1>7 DEF LeaseInv, LeavesNothing

(* The main thread on its way to the end.                                     *)
LEMMA EndKeeps == ASSUME LeaseInv, Start \/ RecordsDeleted \/ Terminate \/ Exit PROVE LeaseInv'
<1>1. CASE Start
  <2>1. srvs' \in {UdpNames, TlsNames} /\ main.pc = "start"
    BY <1>1 DEF Start, UpdateSRV, Names, LeaseInv, LeaseTypes
  <2>2. main'.pc = "select" /\ UNCHANGED <<zone, privateZone, leases, lingering, threads, astray>>
    BY <1>1 DEF Start, leaseTable, LeaseInv, LeaseTypes
  <2>3. LeaseTypes'
    BY <1>1, <2>1, <2>2 DEF Start, LeaseInv, LeaseTypes, MainPC
  <2> QED BY <2>1, <2>2, <2>3 DEF LeaseInv, Leased, OneRecords, LeasesFollowTheZone, Stopping, LeavesNothing, Recording
<1>2. CASE RecordsDeleted
  <2>1. /\ main.pc \in {"expire", "stop"} /\ main.todo = {}
        /\ main'.pc = IF main.pc = "expire" THEN "select" ELSE "clear"
        /\ UNCHANGED <<zone, privateZone, srvs, leases, lingering, threads, astray>>
    BY <1>2 DEF RecordsDeleted, srvVars, leaseTable, LeaseInv, LeaseTypes
  <2>2. LeaseTypes'
    BY <1>2, <2>1 DEF RecordsDeleted, LeaseInv, LeaseTypes, MainPC
  <2> QED BY <2>1, <2>2 DEF LeaseInv, Leased, OneRecords, LeasesFollowTheZone, Stopping, LeavesNothing, Recording
<1>3. CASE Terminate
  <2> DEFINE held == {r \in Zoned : leases[r] # "none"}
  <2>1. /\ main.pc = "select" /\ UNCHANGED <<zone, privateZone, srvs, leases, lingering, threads>>
        /\ \/ main' = [pc |-> "stop", todo |-> held] /\ astray' = astray
           \/ main' = [pc |-> "clear", todo |-> {}] /\ astray' = astray \union held
    BY <1>3 DEF Terminate, srvVars, leaseTable
  <2>2. LeaseTypes' /\ main'.pc \in {"stop", "clear"} /\ astray \subseteq astray'
    BY <2>1 DEF LeaseInv, LeaseTypes, MainPC
  <2>3. Stopping'
    BY <2>1 DEF LeaseInv, LeaseTypes, Stopping
  <2>4. \A r \in Zoned : Recording(r)' = Recording(r)
    BY <2>1 DEF Recording
  <2>5. LeasesFollowTheZone' /\ LeavesNothing'
    BY <2>1, <2>2, <2>4 DEF LeaseInv, LeasesFollowTheZone, LeavesNothing
  <2>6. OneRecords'
    BY <2>1, <2>2, <2>4 DEF LeaseInv, OneRecords
  <2> QED BY <2>1, <2>2, <2>3, <2>5, <2>6 DEF LeaseInv, Leased
<1>4. CASE Exit
  <2>1. /\ main.pc = "clear" /\ main'.pc = "stopped" /\ srvs' = UpdateSRV(FALSE)
        /\ astray' = astray \union {r \in Zoned : Recording(r) # {}}
        /\ threads' = [t \in Threads |-> Idle] /\ UNCHANGED <<zone, privateZone, leases, lingering>>
    BY <1>4 DEF Exit, leaseTable, LeaseInv, LeaseTypes
  <2>2. srvs' \in {{}, TlsNames} /\ (srvs' = TlsNames => ~privateZone)
    BY <2>1 DEF UpdateSRV, LeaseInv, LeaseTypes, UdpNames, TlsNames
  <2>3. LeaseTypes'
    BY <1>4, <2>1, <2>2 DEF Exit, LeaseInv, LeaseTypes, MainPC, Thread
  <2>4. zone \subseteq astray'
    BY <2>1 DEF LeaseInv, LeaseTypes, LeasesFollowTheZone, Stopping
  <2> QED BY <2>1, <2>2, <2>3, <2>4 DEF LeaseInv, Leased, OneRecords, LeasesFollowTheZone, Stopping, LeavesNothing,
             Recording, Idle
<1> QED BY <1>1, <1>2, <1>3, <1>4

-----------------------------------------------------------------------------
LEMMA LeaseInductive == LeaseInv /\ [DnsExtdNext]_vars => LeaseInv'
<1> SUFFICES ASSUME LeaseInv, [DnsExtdNext]_vars PROVE LeaseInv'
  OBVIOUS
<1>1. CASE UNCHANGED vars
  BY <1>1, Untouched DEF vars, leaseVars
<1>2. ASSUME NEW t \in Threads, Relay(t) \/ UpdateLeaseTable(t) PROVE LeaseInv'
  BY <1>2, RelayKeeps, RecordKeeps
<1>3. ASSUME NEW t \in Threads, Ping(t) PROVE LeaseInv'
  BY <1>3, EndsThread DEF Ping, srvVars, leaseTable
<1>4. ASSUME NEW req \in Updates, RecvUDPMessage(req) PROVE LeaseInv'
  BY <1>4, HandKeeps, Untouched DEF RecvUDPMessage, leaseVars, srvVars, leaseTable
<1>5. ASSUME NEW c \in Conns, AcceptTCPConnection(c) PROVE LeaseInv'
  BY <1>5, Untouched DEF AcceptTCPConnection, leaseVars, srvVars, leaseTable
<1>6. ASSUME NEW c \in Conns, RecvTCPMessage(c) PROVE LeaseInv'
  <2>1. main.pc = "select" /\ UNCHANGED <<zone, privateZone, srvs, leases, lingering, main, astray>>
    BY <1>6 DEF RecvTCPMessage, srvVars, leaseTable
  <2>2. UNCHANGED threads \/ \E req \in Updates : Hand(req, c)
    BY <1>6 DEF RecvTCPMessage
  <2> QED BY <2>1, <2>2, HandKeeps, Untouched DEF leaseVars
<1>7. ASSUME NEW r \in Zoned, LeaseRunsOut(r) \/ DeleteOneRecord(r) PROVE LeaseInv'
  BY <1>7, RunsOutKeeps, DeleteKeeps
<1>8. CASE RecvPing
  BY <1>8, Untouched DEF RecvPing, leaseVars, srvVars, leaseTable
<1>9. CASE DeleteRecords
  <2>1. main.pc = "select" /\ main'.pc = "expire" /\ UNCHANGED <<zone, privateZone, srvs, leases, lingering, threads, astray>>
        /\ main' \in [pc : MainPC, todo : SUBSET (Zoned \union Questions)]
    BY <1>9 DEF DeleteRecords, srvVars, leaseTable, MainPC
  <2> QED BY <2>1, MainMoves
<1>10. ASSUME NEW m \in LLQMessage, RecvLLQ(m) PROVE LeaseInv'
  BY <1>10, Untouched DEF RecvLLQ, leaseVars, srvVars, leaseTable
<1>11. ASSUME NEW i \in DOMAIN LLQTable, LLQRunsOut(i) PROVE LeaseInv'
  BY <1>11, Untouched DEF LLQRunsOut, leaseVars, srvVars, leaseTable
<1>12. CASE GenLLQEvents
  <2>1. main.pc = "select" /\ main'.pc = "query" /\ UNCHANGED <<zone, privateZone, srvs, leases, lingering, threads, astray>>
        /\ main' \in [pc : MainPC, todo : SUBSET (Zoned \union Questions)]
    BY <1>12 DEF GenLLQEvents, srvVars, leaseTable, MainPC
  <2> QED BY <2>1, MainMoves
<1>13. CASE SendAllEvents
  <2>1. main.pc = "query" /\ main' = [main EXCEPT !.pc = "select"]
        /\ UNCHANGED <<zone, privateZone, srvs, leases, lingering, threads, astray>>
    BY <1>13 DEF SendAllEvents, srvVars, leaseTable
  <2> QED BY <2>1, MainMoves DEF LeaseInv, LeaseTypes, MainPC
<1>14. ASSUME NEW x \in Questions, UpdateAnswerList(x) PROVE LeaseInv'
  <2>1. main.pc = "query" /\ main' = [main EXCEPT !.todo = @ \ {x}]
        /\ UNCHANGED <<zone, privateZone, srvs, leases, lingering, threads, astray>>
    BY <1>14 DEF UpdateAnswerList, srvVars, leaseTable
  <2> QED BY <2>1, MainMoves DEF LeaseInv, LeaseTypes, MainPC
<1>15. CASE Start \/ RecordsDeleted \/ Terminate \/ Exit
  BY <1>15, EndKeeps
<1>16. CASE Reread
  <2>1. /\ main.pc = "select" /\ privateZone' = ~privateZone
        /\ UNCHANGED <<zone, srvs, leases, lingering, threads, main, astray>>
    BY <1>16 DEF Reread, leaseTable
  <2> QED BY <2>1 DEF LeaseInv, LeaseTypes, Leased, OneRecords, LeasesFollowTheZone, Stopping,
             LeavesNothing, Recording
<1> QED BY <1>1, <1>2, <1>3, <1>4, <1>5, <1>6, <1>7, <1>8, <1>9, <1>10, <1>11, <1>12, <1>13, <1>14,
           <1>15, <1>16 DEF DnsExtdNext

LEMMA LeaseInvHolds == DnsExtdSpec => []LeaseInv
  BY LeaseInit, LeaseInductive, PTL DEF DnsExtdSpec

(* A record that the name server holds has a lease, and one that has a lease  *)
(* is held, however requests overtake one another; records whose updates met  *)
(* between the name server and the table, or failed there, excepted.          *)
THEOREM LeasesAreOfTheZone == DnsExtdSpec => []LeasesFollowTheZone
<1>1. LeaseInv => LeasesFollowTheZone
  BY DEF LeaseInv
<1> QED BY <1>1, LeaseInvHolds, PTL

(* Whatever its threads do meanwhile, a daemon that was told to stop leaves   *)
(* no record that it knows of, and its own services only in a zone that is no *)
(* longer private.                                                            *)
THEOREM NothingIsLeft == DnsExtdSpec => []LeavesNothing
<1>1. LeaseInv => LeavesNothing
  BY DEF LeaseInv
<1> QED BY <1>1, LeaseInvHolds, PTL

-----------------------------------------------------------------------------
(* The daemon: a walk through its table of queries is a fold, which takes the *)
(* positions from the last one down.                                          *)

LEMMA LeastExists ==
  ASSUME NEW T, T \subseteq Nat, T # {} PROVE \E x \in T : \A y \in T : x <= y
<1>1. PICK x \in T : \A y \in T : ~(<<y, x>> \in OpToRel(<, Nat))
  BY NatLessThanWellFounded, WFMin
<1>2. \A y \in T : ~(y < x)
  BY <1>1 DEF OpToRel
<1> QED
  BY <1>2

(* A set of numbers that is reached whole from each number before is whole.   *)
LEMMA Stepwise ==
  ASSUME NEW n \in Nat, NEW Q \in SUBSET (0 .. n), 0 \in Q, \A k \in 1 .. n : k - 1 \in Q => k \in Q
  PROVE  n \in Q
<1> DEFINE B == {k \in 0 .. n : k \notin Q}
<1>1. SUFFICES ASSUME B # {} PROVE FALSE
  OBVIOUS
<1>2. PICK k \in B : \A y \in B : k <= y
  <2>1. B \subseteq Nat
    OBVIOUS
  <2> HIDE DEF B
  <2> QED
    BY <1>1, <2>1, LeastExists
<1>3. k \in 1 .. n /\ k - 1 \in 0 .. n
  BY <1>2
<1>4. k - 1 \notin B
  BY <1>2, <1>3
<1> QED
  BY <1>2, <1>3, <1>4

LEMMA PartsAreFinite ==
  ASSUME NEW n \in Nat, NEW s \in SUBSET (1 .. n)
  PROVE  IsFiniteSet(s) /\ Cardinality(s) \in Nat /\ Cardinality(s) <= n
<1>1. IsFiniteSet(1 .. n) /\ Cardinality(1 .. n) = n
  BY FS_Interval
<1> QED
  BY <1>1, FS_Subset, FS_CardinalityType

Rest(s) == s \ {Max(s)}

LEMMA MaxIs ==
  ASSUME NEW n \in Nat, NEW s \in SUBSET (1 .. n), s # {}
  PROVE  Max(s) \in s /\ \A y \in s : Max(s) >= y
<1> DEFINE B == {n - y : y \in s}
<1>1. PICK b \in B : \A y \in B : b <= y
  <2>1. \A y \in s : n - y \in Nat
    OBVIOUS
  <2>2. B \subseteq Nat /\ B # {}
    BY <2>1
  <2> HIDE DEF B
  <2> QED
    BY <2>2, LeastExists
<1>2. PICK x \in s : b = n - x
  BY <1>1
<1>3. \A y \in s : x >= y
  <2> TAKE y \in s
  <2>1. n - y \in B
    OBVIOUS
  <2> QED
    BY <1>1, <1>2, <2>1
<1> QED
  BY <1>3 DEF Max

LEMMA RestIsSmaller ==
  ASSUME NEW n \in Nat, NEW s \in SUBSET (1 .. n), s # {}
  PROVE  /\ Max(s) \in s /\ Rest(s) \in SUBSET (1 .. n)
         /\ Cardinality(s) \in Nat /\ Cardinality(Rest(s)) \in Nat
         /\ Cardinality(Rest(s)) + 1 = Cardinality(s)
<1>1. Max(s) \in s
  BY MaxIs
<1>2. IsFiniteSet(s)
  BY PartsAreFinite
<1>3. Cardinality(Rest(s)) = Cardinality(s) - 1 /\ IsFiniteSet(Rest(s))
  BY <1>1, <1>2, FS_RemoveElement DEF Rest
<1>4. Cardinality(Rest(s)) \in Nat /\ Cardinality(s) \in Nat
  BY <1>2, <1>3, FS_CardinalityType
<1>5. Rest(s) \in SUBSET (1 .. n)
  BY DEF Rest
<1> QED
  BY <1>1, <1>3, <1>4, <1>5

(* What a fold with the step G makes of each set of positions.                *)
FoldsAs(f, n, b, G) ==
  \A s \in SUBSET (1 .. n) : f[s] = IF s = {} THEN b ELSE G[<<Max(s), f[Rest(s)]>>]

LEMMA FoldExists ==
  ASSUME NEW n \in Nat, NEW D, NEW b \in D, NEW G \in [(1 .. n) \X D -> D]
  PROVE  \E f \in [SUBSET (1 .. n) -> D] : FoldsAs(f, n, b, G)
<1> DEFINE T == 1 .. n
           Small(k) == {s \in SUBSET T : Cardinality(s) <= k}
           Right(k, f) == \A s \in Small(k) : f[s] = IF s = {} THEN b ELSE G[<<Max(s), f[Rest(s)]>>]
           Good == {k \in 0 .. n : \E f \in [Small(k) -> D] : Right(k, f)}
<1>1. 0 \in Good
  <2>1. \A s \in SUBSET T : Cardinality(s) <= 0 => s = {}
    <3> SUFFICES ASSUME NEW s \in SUBSET T, s # {} PROVE ~(Cardinality(s) <= 0)
      OBVIOUS
    <3>1. Cardinality(s) \in Nat /\ Cardinality(Rest(s)) \in Nat /\ Cardinality(Rest(s)) + 1 = Cardinality(s)
      BY RestIsSmaller
    <3> QED
      BY <3>1
  <2> DEFINE f == [s \in Small(0) |-> b]
  <2>2. f \in [Small(0) -> D] /\ Right(0, f)
    BY <2>1
  <2> HIDE DEF Small, Right, f
  <2> QED
    BY <2>2
<1>2. ASSUME NEW k \in 1 .. n, k - 1 \in Good PROVE k \in Good
  <2>1. PICK f \in [Small(k - 1) -> D] : Right(k - 1, f)
    BY <1>2
  <2> DEFINE g == [s \in Small(k) |-> IF s = {} THEN b ELSE G[<<Max(s), f[Rest(s)]>>]]
  <2>2. \A s \in Small(k) : s # {} => Max(s) \in T /\ Rest(s) \in Small(k - 1)
    <3> TAKE s \in Small(k)
    <3> HAVE s # {}
    <3>1. Max(s) \in s /\ Rest(s) \in SUBSET T /\ Cardinality(s) \in Nat /\ Cardinality(Rest(s)) \in Nat
          /\ Cardinality(Rest(s)) + 1 = Cardinality(s)
      BY RestIsSmaller
    <3>2. Cardinality(Rest(s)) <= k - 1
      BY <3>1
    <3> QED
      BY <3>1, <3>2
  <2>3. g \in [Small(k) -> D]
    BY <2>2
  <2>4. \A s \in Small(k - 1) : s \in Small(k) /\ g[s] = f[s]
    <3>1. \A s \in Small(k - 1) : s \in Small(k)
      <4> TAKE s \in Small(k - 1)
      <4>1. Cardinality(s) \in Nat
        BY PartsAreFinite
      <4> QED
        BY <4>1
    <3> QED
      BY <2>1, <3>1
  <2>5. Right(k, g)
    BY <2>2, <2>4
  <2> HIDE DEF Small, Right, g
  <2> QED
    BY <2>3, <2>5
<1>3. n \in Good
  <2>1. Good \in SUBSET (0 .. n)
    OBVIOUS
  <2> HIDE DEF Good
  <2> QED
    BY <1>1, <1>2, <2>1, Stepwise
<1>4. PICK f \in [Small(n) -> D] : Right(n, f)
  BY <1>3
<1>5. Small(n) = SUBSET T
  <2>1. \A s \in SUBSET T : Cardinality(s) <= n
    BY PartsAreFinite
  <2> QED
    BY <2>1
<1> QED
  BY <1>4, <1>5 DEF FoldsAs

(* A whole round, and the table after each of its queries.                    *)
AfterRound(b, T) == FoldLeft(DeleteOrTell, b, T)

IsRound(f, b, T) ==
  /\ f[0] = b /\ f[Len(T)] = AfterRound(b, T)
  /\ \A k \in 1 .. Len(T) : f[k] = DeleteOrTell(f[k - 1], T[k])

LEMMA RoundIs ==
  ASSUME NEW D, NEW b \in D, NEW T \in Seq(LLQEntry),
         \A s \in D, e \in LLQEntry : DeleteOrTell(s, e) \in D
  PROVE  \E f \in [0 .. Len(T) -> D] : IsRound(f, b, T)
<1> DEFINE n == Len(T)
           G == [y \in (1 .. n) \X D |-> DeleteOrTell(y[2], T[y[1]])]
           IsFold(g) == g = [s \in SUBSET DOMAIN T |->
                               IF s = {} THEN b ELSE DeleteOrTell(g[s \ {Max(s)}], T[Max(s)])]
           fold == CHOOSE g : IsFold(g)
<1>1. n \in Nat /\ DOMAIN T = 1 .. n /\ \A k \in 1 .. n : T[k] \in LLQEntry
  OBVIOUS
<1>2. G \in [(1 .. n) \X D -> D]
  BY <1>1
<1>3. AfterRound(b, T) = fold[DOMAIN T]
  BY DEF AfterRound, FoldLeft, MapThenFoldSet
<1> HIDE DEF n, G, IsFold, fold
<1>4. PICK f \in [SUBSET (1 .. n) -> D] : FoldsAs(f, n, b, G)
  BY <1>1, <1>2, FoldExists
<1>5. \A s \in SUBSET (1 .. n) : s # {} => Max(s) \in 1 .. n /\ Rest(s) \in SUBSET (1 .. n)
  BY <1>1, RestIsSmaller
<1>6. \A s \in SUBSET (1 .. n) : s # {} => G[<<Max(s), f[Rest(s)]>>] = DeleteOrTell(f[Rest(s)], T[Max(s)])
  BY <1>4, <1>5 DEF G
<1>7. IsFold(f)
  BY <1>1, <1>4, <1>6 DEF IsFold, FoldsAs, Rest
<1>8. IsFold(fold)
  BY <1>7 DEF fold
<1>9. fold[{}] = b /\ \A s \in SUBSET (1 .. n) : s # {} => fold[s] = DeleteOrTell(fold[Rest(s)], T[Max(s)])
  BY <1>1, <1>8 DEF IsFold, Rest
<1>10. ASSUME NEW k \in 1 .. n PROVE fold[1 .. k] = DeleteOrTell(fold[1 .. k - 1], T[k])
  <2> DEFINE s == 1 .. k
  <2>0. k \in s /\ \A y \in s : y \in 1 .. n /\ y <= k
    BY <1>1
  <2>1. s \in SUBSET (1 .. n) /\ s # {}
    BY <2>0
  <2>2. Max(s) = k
    <3>1. Max(s) \in s /\ \A y \in s : Max(s) >= y
      BY <1>1, <2>1, MaxIs
    <3> QED
      BY <1>1, <2>0, <3>1
  <2>3. Rest(s) = 1 .. k - 1
    BY <2>2 DEF Rest
  <2> QED
    BY <1>9, <2>1, <2>2, <2>3
<1>11. 1 .. 0 = {}
  OBVIOUS
<1>12. \A k \in 0 .. n : fold[1 .. k] \in D
  <2> TAKE k \in 0 .. n
  <2> DEFINE Q == {i \in 0 .. k : fold[1 .. i] \in D}
  <2>1. 0 \in Q /\ \A i \in 1 .. k : i - 1 \in Q => i \in Q
    BY <1>1, <1>9, <1>10, <1>11
  <2>2. Q \in SUBSET (0 .. k) /\ k \in Nat
    BY <1>1
  <2> HIDE DEF Q
  <2>3. k \in Q
    BY <2>1, <2>2, Stepwise
  <2> QED
    BY <2>3 DEF Q
<1> DEFINE g == [k \in 0 .. n |-> fold[1 .. k]]
<1>13. g \in [0 .. n -> D]
  BY <1>12
<1>14. g[0] = b /\ g[n] = AfterRound(b, T)
  BY <1>1, <1>3, <1>9, <1>11
<1>15. \A k \in 1 .. n : g[k] = DeleteOrTell(g[k - 1], T[k])
  BY <1>1, <1>10
<1> HIDE DEF g
<1> QED
  BY <1>13, <1>14, <1>15 DEF n, IsRound

-----------------------------------------------------------------------------
(* The queries that refer to the list of answers to a question.               *)
Referring(T, x) == {i \in DOMAIN T : T[i].q = x /\ T[i].list}
Count(T, x) == Cardinality(Referring(T, x))

LEMMA ReferringIsFinite ==
  ASSUME NEW T \in Seq(LLQEntry), NEW x
  PROVE  IsFiniteSet(Referring(T, x)) /\ Count(T, x) \in Nat
<1>1. Len(T) \in Nat /\ Referring(T, x) \in SUBSET (1 .. Len(T))
  BY DEF Referring
<1> QED
  BY <1>1, PartsAreFinite DEF Count

(* An entry that takes the place of another counts if it has the list.        *)
LEMMA PutCounts ==
  ASSUME NEW T \in Seq(LLQEntry), NEW i \in DOMAIN T, NEW e \in LLQEntry, e.q = T[i].q,
         T[i].list => e.list, NEW x
  PROVE  Count([T EXCEPT ![i] = e], x) =
           IF e.list /\ ~T[i].list /\ e.q = x THEN Count(T, x) + 1 ELSE Count(T, x)
<1> DEFINE U == [T EXCEPT ![i] = e]
<1>1. DOMAIN U = DOMAIN T /\ U[i] = e /\ \A j \in DOMAIN T : j # i => U[j] = T[j]
  OBVIOUS
<1> HIDE DEF U
<1>2. T[i].list \in BOOLEAN /\ e.list \in BOOLEAN
  <2>1. T[i] \in LLQEntry
    OBVIOUS
  <2> QED
    BY <2>1 DEF LLQEntry
<1>3. CASE e.list /\ ~T[i].list /\ e.q = x
  <2>1. Referring(U, x) = Referring(T, x) \cup {i} /\ i \notin Referring(T, x)
    BY <1>1, <1>3 DEF Referring
  <2> QED
    BY ZenonT(60), <1>3, <2>1, FS_AddElement, ReferringIsFinite DEF Count, U
<1>4. CASE ~(e.list /\ ~T[i].list /\ e.q = x)
  <2>1. Referring(U, x) = Referring(T, x)
    BY <1>1, <1>2, <1>4 DEF Referring
  <2> QED
    BY <1>4, <2>1 DEF Count, U
<1> QED
  BY <1>3, <1>4

LEMMA AppendCounts ==
  ASSUME NEW T \in Seq(LLQEntry), NEW e \in LLQEntry, NEW x
  PROVE  Count(Append(T, e), x) = IF e.list /\ e.q = x THEN Count(T, x) + 1 ELSE Count(T, x)
<1> DEFINE U == Append(T, e)
           n == Len(T) + 1
<1>1. DOMAIN U = DOMAIN T \cup {n} /\ n \notin DOMAIN T /\ U[n] = e /\ \A j \in DOMAIN T : U[j] = T[j]
  OBVIOUS
<1> HIDE DEF U, n
<1>2. CASE e.list /\ e.q = x
  <2>1. Referring(U, x) = Referring(T, x) \cup {n} /\ n \notin Referring(T, x)
    BY <1>1, <1>2 DEF Referring
  <2>2. Cardinality(Referring(T, x) \cup {n}) = Cardinality(Referring(T, x)) + 1
    BY <2>1, FS_AddElement, ReferringIsFinite
  <2> QED
    BY <1>2, <2>1, <2>2 DEF Count, U
<1>3. CASE ~(e.list /\ e.q = x)
  <2>1. Referring(U, x) = Referring(T, x)
    BY <1>1, <1>3 DEF Referring
  <2> QED
    BY <1>3, <2>1 DEF Count, U
<1> QED
  BY <1>2, <1>3

(* Positions that are renumbered one by one are as many.                      *)
LEMMA Renumbered ==
  ASSUME NEW S, IsFiniteSet(S), NEW U, NEW h \in [S -> U],
         \A i, j \in S : h[i] = h[j] => i = j, \A k \in U : \E i \in S : h[i] = k
  PROVE  Cardinality(U) = Cardinality(S)
<1>1. h \in Bijection(S, U)
  BY DEF Bijection, Injection, Surjection, IsInjective
<1> QED
  BY <1>1, FS_Bijection DEF ExistsBijection

LEMMA FirstCounts ==
  ASSUME NEW T \in Seq(LLQEntry), NEW e \in LLQEntry, ~e.list, NEW x
  PROVE  Count(<<e>> \o T, x) = Count(T, x)
<1> DEFINE U == <<e>> \o T
           h == [i \in Referring(T, x) |-> i + 1]
<1>1. U \in Seq(LLQEntry) /\ Len(U) = Len(T) + 1 /\ U[1] = e /\ \A i \in 1 .. Len(T) : U[i + 1] = T[i]
  OBVIOUS
<1> HIDE DEF U
<1>2. Len(T) \in Nat /\ DOMAIN T = 1 .. Len(T) /\ DOMAIN U = 1 .. Len(T) + 1
  BY <1>1
<1>3. \A i \in Referring(T, x) : i \in 1 .. Len(T) /\ i + 1 \in Referring(U, x)
  BY <1>1, <1>2 DEF Referring
<1>4. \A k \in Referring(U, x) : k - 1 \in Referring(T, x) /\ k = (k - 1) + 1
  <2> TAKE k \in Referring(U, x)
  <2>1. k \in 1 .. Len(T) + 1 /\ k # 1
    BY <1>1, <1>2 DEF Referring
  <2>2. k - 1 \in 1 .. Len(T) /\ k = (k - 1) + 1
    BY <1>2, <2>1
  <2>3. U[k] = T[k - 1]
    BY <1>1, <2>2
  <2> QED
    BY <1>2, <2>2, <2>3 DEF Referring
<1>5. h \in [Referring(T, x) -> Referring(U, x)] /\ \A i, j \in Referring(T, x) : h[i] = h[j] => i = j
  BY <1>2, <1>3
<1>6. \A k \in Referring(U, x) : \E i \in Referring(T, x) : h[i] = k
  BY <1>4
<1> HIDE DEF h
<1>7. Cardinality(Referring(U, x)) = Cardinality(Referring(T, x))
  BY <1>5, <1>6, ReferringIsFinite, Renumbered
<1> QED
  BY <1>7 DEF Count, U

LEMMA RemoveIs ==
  ASSUME NEW T \in Seq(LLQEntry), NEW i \in DOMAIN T
  PROVE  /\ RemoveAt(T, i) \in Seq(LLQEntry) /\ Len(RemoveAt(T, i)) = Len(T) - 1
         /\ \A j \in 1 .. Len(T) - 1 : RemoveAt(T, i)[j] = IF j < i THEN T[j] ELSE T[j + 1]
<1> DEFINE a == SubSeq(T, 1, i - 1)
           b == SubSeq(T, i + 1, Len(T))
<1>1. Len(T) \in Nat /\ i \in 1 .. Len(T)
  OBVIOUS
<1>2. a \in Seq(LLQEntry) /\ Len(a) = i - 1 /\ \A j \in 1 .. i - 1 : a[j] = T[j]
  BY <1>1
<1>3. b \in Seq(LLQEntry) /\ Len(b) = Len(T) - i /\ \A j \in 1 .. Len(T) - i : b[j] = T[i + j]
  BY <1>1
<1>4. RemoveAt(T, i) = a \o b
  BY DEF RemoveAt
<1> HIDE DEF a, b
<1>5. a \o b \in Seq(LLQEntry) /\ Len(a \o b) = Len(T) - 1
  BY <1>1, <1>2, <1>3
<1>6. ASSUME NEW j \in 1 .. Len(T) - 1 PROVE (a \o b)[j] = IF j < i THEN T[j] ELSE T[j + 1]
  <2>1. CASE j < i
    BY <1>1, <1>2, <1>3, <2>1
  <2>2. CASE ~(j < i)
    <3>1. j - (i - 1) \in 1 .. Len(T) - i /\ i + (j - (i - 1)) = j + 1
      BY <1>1, <2>2
    <3>2. (a \o b)[j] = b[j - (i - 1)]
      BY SMTT(30), <1>1, <1>2, <1>3, <2>2
    <3> QED
      BY <1>3, <2>2, <3>1, <3>2
  <2> QED
    BY <2>1, <2>2
<1> QED
  BY <1>4, <1>5, <1>6

LEMMA RemoveCounts ==
  ASSUME NEW T \in Seq(LLQEntry), NEW i \in DOMAIN T, T[i].list, NEW x
  PROVE  Count(RemoveAt(T, i), x) = IF T[i].q = x THEN Count(T, x) - 1 ELSE Count(T, x)
<1> DEFINE U == RemoveAt(T, i)
           S == Referring(T, x) \ {i}
           h == [j \in S |-> IF j < i THEN j ELSE j - 1]
<1>1. U \in Seq(LLQEntry) /\ Len(U) = Len(T) - 1
      /\ \A j \in 1 .. Len(T) - 1 : U[j] = IF j < i THEN T[j] ELSE T[j + 1]
  BY RemoveIs
<1> HIDE DEF U
<1>2. Len(T) \in Nat /\ DOMAIN T = 1 .. Len(T) /\ DOMAIN U = 1 .. Len(T) - 1 /\ i \in 1 .. Len(T)
  BY <1>1
<1>3. \A j \in S : /\ j \in 1 .. Len(T) /\ j # i
                  /\ (IF j < i THEN j ELSE j - 1) \in Referring(U, x)
  <2> TAKE j \in S
  <2>1. j \in 1 .. Len(T) /\ j # i /\ T[j].q = x /\ T[j].list
    BY <1>2 DEF Referring
  <2>2. CASE j < i
    <3>1. j \in 1 .. Len(T) - 1 /\ U[j] = T[j]
      BY <1>1, <1>2, <2>1, <2>2
    <3> QED
      BY <1>2, <2>1, <2>2, <3>1 DEF Referring
  <2>3. CASE ~(j < i)
    <3>1. j - 1 \in 1 .. Len(T) - 1 /\ ~(j - 1 < i) /\ (j - 1) + 1 = j
      BY <1>2, <2>1, <2>3
    <3>2. U[j - 1] = T[j]
      BY <1>1, <3>1
    <3> QED
      BY <1>2, <2>1, <2>3, <3>1, <3>2 DEF Referring
  <2> QED
    BY <2>2, <2>3
<1>4. ASSUME NEW k \in Referring(U, x) PROVE \E j \in S : h[j] = k
  <2>1. k \in 1 .. Len(T) - 1 /\ U[k].q = x /\ U[k].list
    BY <1>2 DEF Referring
  <2>2. CASE k < i
    <3>1. k \in S
      BY <1>1, <1>2, <2>1, <2>2 DEF Referring
    <3> QED
      BY <2>2, <3>1
  <2>3. CASE ~(k < i)
    <3>1. k + 1 \in 1 .. Len(T) /\ k + 1 # i /\ ~(k + 1 < i) /\ (k + 1) - 1 = k
      BY <1>2, <2>1, <2>3
    <3>2. k + 1 \in S
      BY <1>1, <1>2, <2>1, <2>3, <3>1 DEF Referring
    <3> QED
      BY <3>1, <3>2
  <2> QED
    BY <2>2, <2>3
<1>5. h \in [S -> Referring(U, x)] /\ \A j, k \in S : h[j] = h[k] => j = k
  BY <1>2, <1>3
<1>6. IsFiniteSet(Referring(T, x))
  BY ReferringIsFinite
<1>7. IsFiniteSet(S) /\ Cardinality(S) = IF T[i].q = x THEN Count(T, x) - 1 ELSE Count(T, x)
  <2>1. i \in Referring(T, x) <=> T[i].q = x
    BY DEF Referring
  <2> QED
    BY <1>6, <2>1, FS_RemoveElement DEF Count
<1> HIDE DEF h, S
<1>8. Cardinality(Referring(U, x)) = Cardinality(S)
  BY <1>4, <1>5, <1>7, Renumbered
<1> QED
  BY <1>7, <1>8 DEF Count, U

-----------------------------------------------------------------------------
(* A list of answers has as many references as queries, and what its clients  *)
(* were told is what it holds and what is about to go from it.                *)
TableInv(T, A) ==
  /\ T \in Seq(LLQEntry) /\ A \in [Questions -> AnswerListElem]
  /\ \A i \in DOMAIN T : T[i].list <=> T[i].state = "Established"
  /\ \A x \in Questions : A[x].refcount = Count(T, x)
  /\ \A x \in Questions : A[x].refcount > 0 => A[x].there
  /\ \A i \in DOMAIN T : T[i].list => T[i].told = A[T[i].q].known \cup A[T[i].q].rmvs

Changes(A) == \A x \in Questions : A[x].known \cap A[x].rmvs = {}

LEMMA ListedIsCounted ==
  ASSUME NEW T \in Seq(LLQEntry), NEW i \in DOMAIN T, T[i].list
  PROVE  T[i].q \in Questions /\ Count(T, T[i].q) > 0
<1>1. i \in Referring(T, T[i].q)
  BY DEF Referring
<1>2. T[i] \in LLQEntry
  OBVIOUS
<1>3. Count(T, T[i].q) # 0
  BY <1>1, ReferringIsFinite, FS_EmptySet DEF Count
<1>4. T[i].q \in Questions
  BY <1>2 DEF LLQEntry
<1>5. Count(T, T[i].q) \in Nat
  BY ReferringIsFinite
<1> QED
  BY <1>3, <1>4, <1>5

-----------------------------------------------------------------------------
(* A round of events.  An answer list is without a reference for as long as   *)
(* its refcount is that of the entries that went.                             *)
Round ==
  [left : Seq(LLQEntry),
   table : [Questions -> [known : SUBSET Zoned, adds : SUBSET Zoned, rmvs : SUBSET Zoned,
                          refcount : Int, there : BOOLEAN]]]

LEMMA EventsAre ==
  ASSUME NEW e \in LLQEntry, AnswerTable \in [Questions -> AnswerListElem]
  PROVE  /\ SendEvents(e) \in LLQEntry /\ SendEvents(e).q = e.q /\ SendEvents(e).list = e.list
         /\ SendEvents(e).state = e.state
         /\ e.state = "Established" =>
              SendEvents(e).told = (e.told \ AnswerTable[e.q].rmvs) \cup AnswerTable[e.q].adds
<1>1. e.q \in Questions /\ e.told \subseteq Zoned
  BY DEF LLQEntry
<1>2. AnswerTable[e.q].adds \subseteq Zoned
  BY <1>1 DEF AnswerListElem
<1> QED
  BY <1>1, <1>2 DEF SendEvents, LLQEntry

LEMMA RoundStep ==
  ASSUME AnswerTable \in [Questions -> AnswerListElem], NEW s \in Round, NEW e \in LLQEntry
  PROVE  LET r == DeleteOrTell(s, e) IN
         /\ r \in Round
         /\ e.live => r.left = Append(s.left, SendEvents(e)) /\ r.table = s.table
         /\ ~e.live => r.left = s.left
         /\ ~e.live /\ ~e.list => r.table = s.table
         /\ ~e.live /\ e.list =>
              /\ \A x \in Questions : x # e.q => r.table[x] = s.table[x]
              /\ r.table[e.q].refcount = s.table[e.q].refcount - 1
              /\ s.table[e.q].refcount # 1 => r.table[e.q].there = s.table[e.q].there
              /\ r.table[e.q].there =>
                   /\ r.table[e.q].known = s.table[e.q].known /\ r.table[e.q].adds = s.table[e.q].adds
                   /\ s.table[e.q].there
<1> DEFINE Loose == [known : SUBSET Zoned, adds : SUBSET Zoned, rmvs : SUBSET Zoned,
                     refcount : Int, there : BOOLEAN]
           r == DeleteOrTell(s, e)
<1>1. s.left \in Seq(LLQEntry) /\ s.table \in [Questions -> Loose] /\ e.q \in Questions
  BY DEF Round, LLQEntry
<1>2. CASE e.live
  <2>1. r = [s EXCEPT !.left = Append(s.left, SendEvents(e))]
    BY <1>2 DEF DeleteOrTell
  <2>2. Append(s.left, SendEvents(e)) \in Seq(LLQEntry)
    BY <1>1, EventsAre
  <2> QED
    BY <1>2, <2>1, <2>2 DEF Round
<1>3. CASE ~e.live /\ ~e.list
  <2>1. r = [s EXCEPT !.table = s.table]
    BY <1>3 DEF DeleteOrTell, Unrefer
  <2> QED
    BY <1>3, <2>1 DEF Round
<1>4. CASE ~e.live /\ e.list
  <2> DEFINE m == s.table[e.q].refcount - 1
             full == Cardinality({x \in Questions : s.table[x].there}) >= TableSize
             new == IF m = 0 /\ full THEN NoList ELSE [s.table[e.q] EXCEPT !.refcount = m]
             A == [s.table EXCEPT ![e.q] = new]
  <2>1. r = [s EXCEPT !.table = A]
    BY <1>4 DEF DeleteOrTell, Unrefer
  <2>2. s.table[e.q] \in Loose
    BY <1>1
  <2>3. /\ new \in Loose /\ new.refcount = m
        /\ m # 0 => new.there = s.table[e.q].there
        /\ new.there => /\ new.known = s.table[e.q].known /\ new.adds = s.table[e.q].adds
                        /\ s.table[e.q].there
    <3>1. CASE m = 0 /\ full
      <4>1. new = NoList /\ m = 0
        BY <3>1
      <4>2. NoList \in Loose /\ NoList.refcount = 0 /\ ~NoList.there
        BY DEF NoList
      <4> QED
        BY <4>1, <4>2
    <3>2. CASE ~(m = 0 /\ full)
      <4>1. new = [s.table[e.q] EXCEPT !.refcount = m] /\ m \in Int
        BY <2>2, <3>2
      <4> QED
        BY <2>2, <4>1
    <3> QED
      BY <3>1, <3>2
  <2>4. m # 0 <=> s.table[e.q].refcount # 1
    BY <2>2
  <2> HIDE DEF full, new
  <2>5. A \in [Questions -> Loose] /\ A[e.q] = new /\ \A x \in Questions : x # e.q => A[x] = s.table[x]
    BY <1>1, <2>3
  <2> HIDE DEF A
  <2>6. r.table = A /\ r.left = s.left /\ r \in Round
    BY <2>1, <2>5 DEF Round
  <2> QED
    BY <1>4, <2>3, <2>4, <2>5, <2>6
<1> QED
  BY <1>2, <1>3, <1>4

(* The queries that the round has still to come to.                           *)
Ahead(k, x) == {i \in DOMAIN LLQTable : i > k /\ LLQTable[i].q = x /\ LLQTable[i].list}

(* What holds after k of them.                                                *)
Reached(s, k) ==
  /\ \A x \in Questions : s.table[x].refcount = Count(s.left, x) + Cardinality(Ahead(k, x))
  /\ \A x \in Questions : s.table[x].refcount > 0 => s.table[x].there
  /\ \A x \in Questions : s.table[x].there =>
       /\ s.table[x].known = AnswerTable[x].known /\ s.table[x].adds = AnswerTable[x].adds
       /\ AnswerTable[x].there
  /\ \A j \in DOMAIN s.left :
       /\ s.left[j].list <=> s.left[j].state = "Established"
       /\ s.left[j].list =>
            s.left[j].told = AnswerTable[s.left[j].q].known \cup AnswerTable[s.left[j].q].adds

LEMMA AheadIs ==
  ASSUME LLQTable \in Seq(LLQEntry), NEW k \in 1 .. Len(LLQTable), NEW x
  PROVE  /\ Cardinality(Ahead(k - 1, x)) \in Nat /\ Cardinality(Ahead(k, x)) \in Nat
         /\ Cardinality(Ahead(k - 1, x)) =
              IF LLQTable[k].q = x /\ LLQTable[k].list THEN Cardinality(Ahead(k, x)) + 1
              ELSE Cardinality(Ahead(k, x))
<1>1. Len(LLQTable) \in Nat /\ DOMAIN LLQTable = 1 .. Len(LLQTable) /\ k \in Int
  OBVIOUS
<1>2. Ahead(k, x) \in SUBSET (1 .. Len(LLQTable)) /\ Ahead(k - 1, x) \in SUBSET (1 .. Len(LLQTable))
  BY <1>1 DEF Ahead
<1>3. IsFiniteSet(Ahead(k, x)) /\ Cardinality(Ahead(k, x)) \in Nat /\ Cardinality(Ahead(k - 1, x)) \in Nat
  BY <1>1, <1>2, PartsAreFinite
<1>4. CASE LLQTable[k].q = x /\ LLQTable[k].list
  <2>1. Ahead(k - 1, x) = Ahead(k, x) \cup {k} /\ k \notin Ahead(k, x)
    BY <1>1, <1>4 DEF Ahead
  <2>2. Cardinality(Ahead(k, x) \cup {k}) = Cardinality(Ahead(k, x)) + 1
    BY <1>3, <2>1, FS_AddElement
  <2> QED
    BY <1>3, <1>4, <2>1, <2>2
<1>5. CASE ~(LLQTable[k].q = x /\ LLQTable[k].list)
  <2>1. Ahead(k - 1, x) = Ahead(k, x)
    BY <1>1, <1>5 DEF Ahead
  <2> QED
    BY <1>3, <1>5, <2>1
<1> QED
  BY <1>4, <1>5

LEMMA ReachesNext ==
  ASSUME TableInv(LLQTable, AnswerTable), Changes(AnswerTable),
         NEW k \in 1 .. Len(LLQTable), NEW s \in Round, Reached(s, k - 1)
  PROVE  Reached(DeleteOrTell(s, LLQTable[k]), k)
<1> DEFINE e == LLQTable[k]
           r == DeleteOrTell(s, e)
<1>1. /\ LLQTable \in Seq(LLQEntry) /\ AnswerTable \in [Questions -> AnswerListElem]
      /\ k \in DOMAIN LLQTable /\ e \in LLQEntry /\ e.q \in Questions
  <2>1. LLQTable \in Seq(LLQEntry) /\ AnswerTable \in [Questions -> AnswerListElem]
    BY DEF TableInv
  <2>2. k \in DOMAIN LLQTable /\ e \in LLQEntry
    BY <2>1
  <2> QED
    BY <2>1, <2>2 DEF LLQEntry
<1>2. s.left \in Seq(LLQEntry) /\ \A x \in Questions : s.table[x].refcount \in Int
  BY DEF Round
<1>3. \A x \in Questions : Count(s.left, x) \in Nat
  BY <1>2, ReferringIsFinite
<1>4. e.list <=> e.state = "Established"
  BY <1>1 DEF TableInv
<1> HIDE DEF e, r
<1>5. \A x \in Questions :
        /\ Cardinality(Ahead(k - 1, x)) \in Nat /\ Cardinality(Ahead(k, x)) \in Nat
        /\ Cardinality(Ahead(k - 1, x)) = IF e.q = x /\ e.list THEN Cardinality(Ahead(k, x)) + 1
                                          ELSE Cardinality(Ahead(k, x))
  BY <1>1, AheadIs DEF e
<1>6. CASE e.live
  <2>1. r.left = Append(s.left, SendEvents(e)) /\ r.table = s.table
    BY <1>1, <1>6, RoundStep DEF r
  <2>2. /\ SendEvents(e) \in LLQEntry /\ SendEvents(e).q = e.q /\ SendEvents(e).list = e.list
        /\ SendEvents(e).state = e.state
    BY <1>1, EventsAre
  <2>3. e.list => SendEvents(e).told = AnswerTable[e.q].known \cup AnswerTable[e.q].adds
    <3>1. e.list => SendEvents(e).told = (e.told \ AnswerTable[e.q].rmvs) \cup AnswerTable[e.q].adds
      BY <1>1, <1>4, EventsAre
    <3>2. e.list => e.told = AnswerTable[e.q].known \cup AnswerTable[e.q].rmvs
      BY <1>1 DEF TableInv, e
    <3>3. AnswerTable[e.q].known \cap AnswerTable[e.q].rmvs = {}
      BY <1>1 DEF Changes
    <3> QED
      BY <3>1, <3>2, <3>3
  <2>4. \A x \in Questions : Count(r.left, x) = IF e.list /\ e.q = x THEN Count(s.left, x) + 1 ELSE Count(s.left, x)
    BY <1>2, <2>1, <2>2, AppendCounts
  <2>5. \A x \in Questions : r.table[x].refcount = Count(r.left, x) + Cardinality(Ahead(k, x))
    <3> TAKE x \in Questions
    <3>1. s.table[x].refcount = Count(s.left, x) + Cardinality(Ahead(k - 1, x))
      BY DEF Reached
    <3>2. r.table[x].refcount = s.table[x].refcount
      BY <2>1
    <3>3. Count(r.left, x) = IF e.list /\ e.q = x THEN Count(s.left, x) + 1 ELSE Count(s.left, x)
      BY <2>4
    <3> QED
      BY <1>3, <1>5, <3>1, <3>2, <3>3
  <2>6. ASSUME NEW j \in DOMAIN r.left
        PROVE  /\ r.left[j].list <=> r.left[j].state = "Established"
               /\ r.left[j].list =>
                    r.left[j].told = AnswerTable[r.left[j].q].known \cup AnswerTable[r.left[j].q].adds
    <3>1. (j \in DOMAIN s.left /\ r.left[j] = s.left[j]) \/ r.left[j] = SendEvents(e)
      BY <1>2, <2>1, <2>2
    <3>2. CASE j \in DOMAIN s.left /\ r.left[j] = s.left[j]
      BY <3>2 DEF Reached
    <3>3. CASE r.left[j] = SendEvents(e)
      BY <1>4, <2>2, <2>3, <3>3
    <3> QED
      BY <3>1, <3>2, <3>3
  <2> QED
    BY <2>1, <2>5, <2>6 DEF Reached, r, e
<1>7. CASE ~e.live /\ ~e.list
  <2>1. r.left = s.left /\ r.table = s.table
    BY <1>1, <1>7, RoundStep DEF r
  <2> QED
    BY <1>5, <1>7, <2>1 DEF Reached, r, e
<1>8. CASE ~e.live /\ e.list
  <2>1. /\ r.left = s.left
        /\ \A x \in Questions : x # e.q => r.table[x] = s.table[x]
        /\ r.table[e.q].refcount = s.table[e.q].refcount - 1
        /\ s.table[e.q].refcount # 1 => r.table[e.q].there = s.table[e.q].there
        /\ r.table[e.q].there =>
             /\ r.table[e.q].known = s.table[e.q].known /\ r.table[e.q].adds = s.table[e.q].adds
             /\ s.table[e.q].there
    BY <1>1, <1>8, RoundStep DEF r
  <2>2. \A x \in Questions : r.table[x].refcount = Count(r.left, x) + Cardinality(Ahead(k, x))
    <3> TAKE x \in Questions
    <3>1. s.table[x].refcount = Count(s.left, x) + Cardinality(Ahead(k - 1, x))
      BY DEF Reached
    <3>2. r.table[x].refcount = IF x = e.q THEN s.table[x].refcount - 1 ELSE s.table[x].refcount
      BY <2>1
    <3>3. Cardinality(Ahead(k - 1, x)) = IF x = e.q THEN Cardinality(Ahead(k, x)) + 1
                                          ELSE Cardinality(Ahead(k, x))
      BY <1>5, <1>8
    <3>4. r.left = s.left
      BY <2>1
    <3> QED
      BY <1>2, <1>3, <1>5, <3>1, <3>2, <3>3, <3>4
  <2>3. ASSUME NEW x \in Questions, r.table[x].refcount > 0
        PROVE  r.table[x].there
    <3>1. CASE x # e.q
      BY <2>1, <2>3, <3>1 DEF Reached
    <3>2. CASE x = e.q
      <4>1. s.table[x].refcount > 0 /\ s.table[x].refcount # 1
        BY SMTT(30), <1>2, <2>1, <2>3, <3>2
      <4> QED
        BY <2>1, <3>2, <4>1 DEF Reached
    <3> QED
      BY <3>1, <3>2
  <2>4. ASSUME NEW x \in Questions, r.table[x].there
        PROVE  /\ r.table[x].known = AnswerTable[x].known /\ r.table[x].adds = AnswerTable[x].adds
               /\ AnswerTable[x].there
    BY <2>1, <2>4 DEF Reached
  <2> QED
    BY ZenonT(60), <2>1, <2>2, <2>3, <2>4 DEF Reached, r, e
<1> QED
  BY <1>6, <1>7, <1>8

(* After the round the clients have been told all that the lists hold.        *)
LEMMA RoundKeeps ==
  ASSUME TableInv(LLQTable, AnswerTable), Changes(AnswerTable)
  PROVE  LET s == AfterRound([left |-> <<>>, table |-> AnswerTable], LLQTable)
             A == Merged(s.table)
         IN  /\ TableInv(s.left, A)
             /\ \A x \in Questions : A[x].there =>
                  AnswerTable[x].there /\ A[x].known = AnswerTable[x].known \cup AnswerTable[x].adds
<1> DEFINE b == [left |-> <<>>, table |-> AnswerTable]
           n == Len(LLQTable)
           s == AfterRound(b, LLQTable)
<1>1. /\ LLQTable \in Seq(LLQEntry) /\ AnswerTable \in [Questions -> AnswerListElem]
      /\ n \in Nat /\ DOMAIN LLQTable = 1 .. n
  BY DEF TableInv
<1>2. b \in Round
  <2>1. \A x \in Questions : AnswerTable[x] \in AnswerListElem
    BY <1>1
  <2>2. AnswerListElem \subseteq [known : SUBSET Zoned, adds : SUBSET Zoned, rmvs : SUBSET Zoned,
                                  refcount : Int, there : BOOLEAN]
    BY DEF AnswerListElem
  <2>3. AnswerTable \in [Questions -> [known : SUBSET Zoned, adds : SUBSET Zoned, rmvs : SUBSET Zoned,
                                       refcount : Int, there : BOOLEAN]]
    BY <1>1, <2>2
  <2> QED
    BY <2>3 DEF Round
<1>3. \A r \in Round, e \in LLQEntry : DeleteOrTell(r, e) \in Round
  BY <1>1, RoundStep
<1>4. \A i \in 1 .. n : LLQTable[i] \in LLQEntry
  BY <1>1
<1>5. Reached(b, 0)
  <2>1. b.left = <<>> /\ b.table = AnswerTable
    OBVIOUS
  <2>2. \A x \in Questions : Referring(<<>>, x) = {} /\ Ahead(0, x) = Referring(LLQTable, x)
    BY <1>1 DEF Referring, Ahead
  <2>3. \A x \in Questions : Count(<<>>, x) = 0 /\ Cardinality(Ahead(0, x)) = Count(LLQTable, x)
    BY <2>2, FS_EmptySet DEF Count
  <2>4. \A x \in Questions : AnswerTable[x].refcount = Count(LLQTable, x) /\ Count(LLQTable, x) \in Nat
    BY <1>1, ReferringIsFinite DEF TableInv
  <2> HIDE DEF b
  <2>5. \A x \in Questions : b.table[x].refcount = Count(b.left, x) + Cardinality(Ahead(0, x))
    BY <2>1, <2>3, <2>4
  <2>6. DOMAIN b.left = {}
    BY <2>1
  <2>7. \A x \in Questions : AnswerTable[x].refcount > 0 => AnswerTable[x].there
    BY DEF TableInv
  <2> QED
    BY <2>1, <2>5, <2>6, <2>7 DEF Reached
<1> HIDE DEF b, s
<1>6. PICK f \in [0 .. n -> Round] : /\ f[0] = b /\ f[n] = s
                                     /\ \A k \in 1 .. n : f[k] = DeleteOrTell(f[k - 1], LLQTable[k])
  <2>1. \E f \in [0 .. Len(LLQTable) -> Round] : IsRound(f, b, LLQTable)
    BY <1>1, <1>2, <1>3, RoundIs
  <2> QED
    BY <2>1 DEF IsRound, s
<1>7. Reached(s, n) /\ s \in Round
  <2> DEFINE Q == {k \in 0 .. n : Reached(f[k], k)}
  <2>1. 0 \in Q /\ Q \in SUBSET (0 .. n)
    BY <1>1, <1>5, <1>6
  <2>2. ASSUME NEW k \in 1 .. n, k - 1 \in Q PROVE k \in Q
    <3>1. k - 1 \in 0 .. n /\ Reached(f[k - 1], k - 1) /\ f[k - 1] \in Round
      BY <1>1, <1>6, <2>2
    <3>2. Reached(DeleteOrTell(f[k - 1], LLQTable[k]), k)
      BY <3>1, ReachesNext
    <3> QED
      BY <1>6, <3>2
  <2> HIDE DEF Q
  <2>3. n \in Q
    BY <1>1, <2>1, <2>2, Stepwise
  <2> QED
    BY <1>1, <1>6, <2>3 DEF Q
<1>8. \A x \in Questions : s.table[x].refcount = Count(s.left, x)
  <2>1. \A x \in Questions : Ahead(n, x) = {}
    BY <1>1 DEF Ahead
  <2>2. \A x \in Questions : Cardinality(Ahead(n, x)) = 0
    BY <2>1, FS_EmptySet
  <2>3. \A x \in Questions : Count(s.left, x) \in Nat
    BY <1>7, ReferringIsFinite DEF Round
  <2> QED
    BY <1>7, <2>2, <2>3 DEF Reached
<1> DEFINE A == Merged(s.table)
<1>9. \A x \in Questions :
        /\ A[x] \in AnswerListElem /\ A[x].refcount = Count(s.left, x) /\ A[x].rmvs = {} /\ A[x].adds = {}
        /\ A[x].known = s.table[x].known \cup s.table[x].adds /\ A[x].there = s.table[x].there
  <2> TAKE x \in Questions
  <2>1. s.table[x] \in [known : SUBSET Zoned, adds : SUBSET Zoned, rmvs : SUBSET Zoned,
                        refcount : Int, there : BOOLEAN]
    BY <1>7 DEF Round
  <2>2. s.table[x].refcount \in Nat /\ s.table[x].refcount = Count(s.left, x)
    BY <1>7, <1>8, ReferringIsFinite DEF Round
  <2>3. A[x] = [s.table[x] EXCEPT !.known = @ \cup s.table[x].adds, !.adds = {}, !.rmvs = {}]
    BY DEF Merged
  <2> QED
    BY <2>1, <2>2, <2>3 DEF AnswerListElem
<1>10. A \in [Questions -> AnswerListElem]
  <2>1. A = [x \in Questions |-> A[x]]
    BY DEF Merged
  <2> HIDE DEF A
  <2> QED
    BY <1>9, <2>1
<1> HIDE DEF A
<1>11. \A x \in Questions : A[x].refcount > 0 => A[x].there
  BY <1>7, <1>8, <1>9 DEF Reached
<1>12. ASSUME NEW i \in DOMAIN s.left, s.left[i].list
       PROVE  s.left[i].told = A[s.left[i].q].known \cup A[s.left[i].q].rmvs
  <2>1. s.left[i].q \in Questions /\ s.table[s.left[i].q].refcount > 0
    BY <1>7, <1>8, <1>12, ListedIsCounted DEF Round
  <2>2. s.left[i].told = AnswerTable[s.left[i].q].known \cup AnswerTable[s.left[i].q].adds
    BY <1>7, <1>12 DEF Reached
  <2> QED
    BY <1>7, <1>9, <2>1, <2>2 DEF Reached
<1>13. s.left \in Seq(LLQEntry) /\ \A i \in DOMAIN s.left : s.left[i].list <=> s.left[i].state = "Established"
  BY <1>7 DEF Round, Reached
<1> QED
  BY <1>7, <1>9, <1>10, <1>11, <1>12, <1>13 DEF TableInv, Reached, A, s, b

-----------------------------------------------------------------------------
(* What the handlers of long-lived queries make of the table.                 *)
NoChanges(A) == \A x \in Questions : A[x].adds = {} /\ A[x].rmvs = {}

LEMMA EntryIs ==
  ASSUME NEW T, NEW A, TableInv(T, A), NEW i \in DOMAIN T
  PROVE  /\ T[i] \in LLQEntry /\ T[i].q \in Questions /\ A[T[i].q] \in AnswerListElem
         /\ T[i].list => A[T[i].q].refcount > 0
<1>1. T \in Seq(LLQEntry) /\ A \in [Questions -> AnswerListElem]
  BY DEF TableInv
<1>2. T[i] \in LLQEntry
  BY <1>1
<1>3. T[i].q \in Questions
  BY <1>2 DEF LLQEntry
<1>4. T[i].list => Count(T, T[i].q) > 0
  BY <1>1, ListedIsCounted
<1> QED
  BY <1>1, <1>2, <1>3, <1>4 DEF TableInv

LEMMA PutKeeps ==
  ASSUME NEW T, NEW A, TableInv(T, A), NEW i \in DOMAIN T, NEW e \in LLQEntry, e.q = T[i].q,
         e.list <=> T[i].list, e.list <=> e.state = "Established", e.list => e.told = T[i].told
  PROVE  TableInv([T EXCEPT ![i] = e], A)
<1> DEFINE U == [T EXCEPT ![i] = e]
<1>1. T \in Seq(LLQEntry) /\ U \in Seq(LLQEntry) /\ DOMAIN U = DOMAIN T
      /\ U[i] = e /\ \A j \in DOMAIN T : j # i => U[j] = T[j]
  BY DEF TableInv
<1>2. \A x \in Questions : Count(U, x) = Count(T, x)
  BY <1>1, PutCounts
<1> HIDE DEF U
<1>3. \A j \in DOMAIN U : U[j].list <=> U[j].state = "Established"
  BY <1>1 DEF TableInv
<1>4. \A j \in DOMAIN U : U[j].list => U[j].told = A[U[j].q].known \cup A[U[j].q].rmvs
  BY <1>1 DEF TableInv
<1>5. TableInv(U, A)
  BY <1>1, <1>2, <1>3, <1>4 DEF TableInv
<1> QED
  BY <1>5 DEF U

LEMMA FirstKeeps ==
  ASSUME NEW T, NEW A, TableInv(T, A), NEW e \in LLQEntry, ~e.list, e.state # "Established"
  PROVE  TableInv(<<e>> \o T, A) /\ 1 \in DOMAIN (<<e>> \o T) /\ (<<e>> \o T)[1] = e
<1> DEFINE U == <<e>> \o T
<1>1. T \in Seq(LLQEntry) /\ U \in Seq(LLQEntry) /\ Len(U) = Len(T) + 1 /\ U[1] = e
      /\ \A j \in 1 .. Len(U) : j # 1 => U[j] = T[j - 1] /\ j - 1 \in 1 .. Len(T)
  BY DEF TableInv
<1>2. \A x \in Questions : Count(U, x) = Count(T, x)
  BY <1>1, FirstCounts
<1> HIDE DEF U
<1>3. DOMAIN T = 1 .. Len(T) /\ DOMAIN U = 1 .. Len(U) /\ Len(T) \in Nat
  BY <1>1
<1>4. \A j \in DOMAIN U : U[j].list <=> U[j].state = "Established"
  BY <1>1, <1>3 DEF TableInv
<1>5. ASSUME NEW j \in DOMAIN U, U[j].list PROVE U[j].told = A[U[j].q].known \cup A[U[j].q].rmvs
  <2>1. U[j] = T[j - 1] /\ j - 1 \in DOMAIN T
    BY <1>1, <1>3, <1>5
  <2>2. T[j - 1].list => T[j - 1].told = A[T[j - 1].q].known \cup A[T[j - 1].q].rmvs
    BY <2>1 DEF TableInv
  <2> QED
    BY <1>5, <2>1, <2>2
<1>6. TableInv(U, A)
  BY <1>1, <1>2, <1>4, <1>5 DEF TableInv
<1>7. 1 \in DOMAIN U
  BY <1>1, <1>3
<1> QED
  BY <1>1, <1>6, <1>7 DEF U

(* A query that gets the list of answers: a says which list it is now.        *)
LEMMA EstablishKeeps ==
  ASSUME NEW T, NEW A, TableInv(T, A), NEW i \in DOMAIN T, NoChanges(A),
         NEW a \in AnswerListElem, a.adds = {}, a.rmvs = {}, a.there,
         a.refcount = A[T[i].q].refcount,
         A[T[i].q].refcount > 0 => a.known = A[T[i].q].known
  PROVE  LET e == [T[i] EXCEPT !.state = "Established", !.list = TRUE, !.told = a.known]
             b == [a EXCEPT !.refcount = IF T[i].state = "Established" THEN @ ELSE @ + 1]
             B == [A EXCEPT ![T[i].q] = b]
         IN  TableInv([T EXCEPT ![i] = e], B) /\ NoChanges(B)
<1> DEFINE e == [T[i] EXCEPT !.state = "Established", !.list = TRUE, !.told = a.known]
           b == [a EXCEPT !.refcount = IF T[i].state = "Established" THEN @ ELSE @ + 1]
           y == T[i].q
           B == [A EXCEPT ![y] = b]
           U == [T EXCEPT ![i] = e]
<1>1. T[i] \in LLQEntry /\ y \in Questions /\ (T[i].list <=> T[i].state = "Established")
      /\ (T[i].list => A[y].refcount > 0)
  BY EntryIs DEF TableInv
<1>2. /\ e \in LLQEntry /\ e.q = y /\ e.list /\ e.state = "Established" /\ e.told = a.known
      /\ b \in AnswerListElem /\ b.known = a.known /\ b.adds = {} /\ b.rmvs = {} /\ b.there
      /\ b.refcount = IF T[i].list THEN a.refcount ELSE a.refcount + 1
  <2>1. a.known \subseteq Zoned /\ a.refcount \in Nat
    BY DEF AnswerListElem
  <2>2. e \in LLQEntry /\ e.q = y /\ e.list /\ e.state = "Established" /\ e.told = a.known
    BY <1>1, <2>1 DEF LLQEntry
  <2> DEFINE n == IF T[i].list THEN a.refcount ELSE a.refcount + 1
  <2>3. b = [a EXCEPT !.refcount = n] /\ n \in Nat
    BY <1>1, <2>1 DEF AnswerListElem
  <2> HIDE DEF n, b, e
  <2>4. b \in AnswerListElem /\ b.known = a.known /\ b.adds = {} /\ b.rmvs = {} /\ b.there /\ b.refcount = n
    BY <2>3 DEF AnswerListElem
  <2> QED
    BY <2>2, <2>4 DEF n
<1>3. /\ T \in Seq(LLQEntry) /\ A \in [Questions -> AnswerListElem]
  BY DEF TableInv
<1>4. /\ B \in [Questions -> AnswerListElem] /\ B[y] = b /\ \A x \in Questions : x # y => B[x] = A[x]
  BY <1>1, <1>2, <1>3
<1>5. /\ U \in Seq(LLQEntry) /\ DOMAIN U = DOMAIN T /\ U[i] = e /\ \A j \in DOMAIN T : j # i => U[j] = T[j]
  BY <1>2, <1>3
<1>6. \A x \in Questions : Count(U, x) = IF ~T[i].list /\ y = x THEN Count(T, x) + 1 ELSE Count(T, x)
  <2>1. T[i].list => e.list
    BY <1>2
  <2> HIDE DEF e
  <2> QED
    BY <1>2, <1>3, <2>1, PutCounts
<1> HIDE DEF e, b, B, U
<1>7. \A x \in Questions : B[x].refcount = Count(U, x)
  <2>1. \A x \in Questions : A[x].refcount = Count(T, x)
    BY DEF TableInv
  <2> QED
    BY <1>1, <1>2, <1>4, <1>6, <2>1
<1>8. \A x \in Questions : B[x].refcount > 0 => B[x].there
  BY <1>2, <1>4 DEF TableInv
<1>9. \A j \in DOMAIN U : U[j].list <=> U[j].state = "Established"
  BY <1>2, <1>5 DEF TableInv
<1>10. ASSUME NEW j \in DOMAIN U, U[j].list PROVE U[j].told = B[U[j].q].known \cup B[U[j].q].rmvs
  <2>1. CASE j = i
    BY <1>2, <1>4, <1>5, <2>1
  <2>2. CASE j # i
    <3>1. j \in DOMAIN T /\ U[j] = T[j] /\ T[j].list
      BY <1>5, <1>10, <2>2
    <3>2. T[j].told = A[T[j].q].known \cup A[T[j].q].rmvs
      BY <3>1 DEF TableInv
    <3>3. T[j].q \in Questions /\ A[T[j].q].refcount > 0
      BY <3>1, EntryIs
    <3>4. CASE T[j].q # y
      BY <1>4, <3>1, <3>2, <3>3, <3>4
    <3>5. CASE T[j].q = y
      BY <1>1, <1>2, <1>4, <3>1, <3>2, <3>3, <3>5 DEF NoChanges
    <3> QED
      BY <3>4, <3>5
  <2> QED
    BY <2>1, <2>2
<1>11. NoChanges(B)
  BY <1>2, <1>4 DEF NoChanges
<1>12. TableInv(U, B)
  BY <1>4, <1>5, <1>7, <1>8, <1>9, <1>10 DEF TableInv
<1> QED
  BY <1>11, <1>12 DEF e, b, B, U

LEMMA HandshakeKeeps ==
  ASSUME NEW T, TableInv(T, AnswerTable), NoChanges(AnswerTable), NEW i \in DOMAIN T, NEW m,
         CompleteHandshake(i, T[i], m, T)
  PROVE  TableInv(LLQTable', AnswerTable') /\ NoChanges(AnswerTable')
<1> DEFINE e == T[i]
<1>1. CASE ~Challenged(e, m)
  <2>1. LLQTable' = [T EXCEPT ![i] = T[i]] /\ AnswerTable' = AnswerTable
    BY <1>1 DEF CompleteHandshake
  <2>2. LLQTable' = T
    BY <2>1 DEF TableInv
  <2> QED
    BY <2>1, <2>2
<1>2. CASE Challenged(e, m)
  <2> DEFINE refer(b) == [b EXCEPT !.refcount = IF e.state = "Established" THEN @ ELSE @ + 1]
             establish(b) == /\ AnswerTable' = [AnswerTable EXCEPT ![e.q] = refer(b)]
                             /\ LLQTable' = [T EXCEPT ![i] = [e EXCEPT !.state = "Established", !.list = TRUE,
                                                                       !.told = b.known]]
             new(k) == [NoList EXCEPT !.known = k, !.there = TRUE]
             old == AnswerTable[e.q]
  <2>1. \/ old.there /\ establish(old)
        \/ ~old.there /\ \E known \in AnswerQuestion(e.q) : establish(new(known))
    BY <1>2 DEF CompleteHandshake
  <2>2. e.q \in Questions /\ old \in AnswerListElem /\ old.adds = {} /\ old.rmvs = {}
    BY EntryIs DEF NoChanges
  <2>3. CASE old.there /\ establish(old)
    <3> HIDE DEF old, e
    <3> QED
      BY <2>2, <2>3, EstablishKeeps DEF old, e
  <2>4. CASE ~old.there /\ \E known \in AnswerQuestion(e.q) : establish(new(known))
    <3>1. PICK known \in AnswerQuestion(e.q) : establish(new(known))
      BY <2>4
    <3>2. known \subseteq Zoned
      BY <2>2, <3>1, DnsExtdAssumption DEF AnswerQuestion
    <3>3. new(known) \in AnswerListElem /\ new(known).adds = {} /\ new(known).rmvs = {} /\ new(known).there
          /\ new(known).refcount = 0 /\ new(known).known = known
      BY <3>2 DEF AnswerListElem, NoList
    <3>4. old.refcount = 0
      BY <2>2, <2>4 DEF TableInv, AnswerListElem
    <3> DEFINE a == new(known)
    <3>5. a \in AnswerListElem /\ a.adds = {} /\ a.rmvs = {} /\ a.there /\ a.refcount = AnswerTable[T[i].q].refcount
          /\ ~(AnswerTable[T[i].q].refcount > 0)
      BY <3>3, <3>4
    <3>6. establish(a)
      BY <3>1
    <3> HIDE DEF a, new
    <3> QED
      BY <3>5, <3>6, EstablishKeeps
  <2> QED
    BY <2>1, <2>3, <2>4
<1> QED
  BY <1>1, <1>2

-----------------------------------------------------------------------------
ClientsInv ==
  /\ TableInv(LLQTable, AnswerTable) /\ lastId \in 0 .. MaxIds /\ Changes(AnswerTable)
  /\ \A x \in Questions : main.pc # "query" \/ x \in main.todo =>
       AnswerTable[x].adds = {} /\ AnswerTable[x].rmvs = {}

LEMMA ChallengeKeeps ==
  ASSUME NEW T, TableInv(T, AnswerTable), NoChanges(AnswerTable), NEW i \in DOMAIN T, NEW m,
         lastId \in 0 .. MaxIds, ~T[i].list, SetupChallenge(i, T[i], m, T)
  PROVE  TableInv(LLQTable', AnswerTable') /\ NoChanges(AnswerTable') /\ lastId' \in 0 .. MaxIds
<1>1. AnswerTable' = AnswerTable
  BY DEF SetupChallenge
<1>2. T[i] \in LLQEntry
  BY EntryIs
<1>3. CASE m.id # 0 \/ m.op # "setup"
  BY <1>1, <1>3 DEF SetupChallenge
<1>4. CASE ~(m.id # 0 \/ m.op # "setup")
  <2> DEFINE id == IF T[i].id = 0 THEN lastId + 1 ELSE T[i].id
             e == [T[i] EXCEPT !.id = id, !.state = "ChallengeSent"]
  <2>1. /\ T[i].id = 0 => RoomForId
        /\ lastId' = IF T[i].id = 0 THEN id ELSE lastId
        /\ LLQTable' = [T EXCEPT ![i] = e]
    BY <1>4 DEF SetupChallenge
  <2>2. id \in 0 .. MaxIds /\ lastId' \in 0 .. MaxIds
    BY <1>2, <2>1, DnsExtdAssumption DEF RoomForId, LLQEntry
  <2>3. e \in LLQEntry /\ e.q = T[i].q /\ e.list = T[i].list /\ e.state = "ChallengeSent"
    BY <1>2, <2>2 DEF LLQEntry
  <2> HIDE DEF e, id
  <2> QED
    BY <1>1, <2>1, <2>2, <2>3, PutKeeps
<1> QED
  BY <1>3, <1>4

LEMMA RefreshKeeps ==
  ASSUME TableInv(LLQTable, AnswerTable), NoChanges(AnswerTable), NEW i \in DOMAIN LLQTable, NEW m,
         LLQTable[i].list, LLQRefresh(i, LLQTable[i], m)
  PROVE  TableInv(LLQTable', AnswerTable') /\ NoChanges(AnswerTable')
<1> DEFINE e == LLQTable[i]
           y == e.q
<1>1. e \in LLQEntry /\ y \in Questions /\ AnswerTable[y] \in AnswerListElem /\ AnswerTable[y].refcount > 0
  BY EntryIs
<1>2. CASE m.lease
  <2> DEFINE f == [e EXCEPT !.live = TRUE]
  <2>1. LLQTable' = [LLQTable EXCEPT ![i] = f] /\ AnswerTable' = AnswerTable
    BY <1>2 DEF LLQRefresh
  <2>2. f \in LLQEntry /\ f.q = e.q /\ f.list = e.list /\ f.state = e.state /\ f.told = e.told
    BY <1>1 DEF LLQEntry
  <2>3. e.list <=> e.state = "Established"
    BY DEF TableInv
  <2> HIDE DEF f
  <2> QED
    BY <2>1, <2>2, <2>3, PutKeeps
<1>3. CASE ~m.lease
  <2> DEFINE U == RemoveAt(LLQTable, i)
             n == AnswerTable[y].refcount - 1
             full == Cardinality({x \in Questions : AnswerTable[x].there}) >= TableSize
             b == IF n = 0 /\ full THEN NoList ELSE [AnswerTable[y] EXCEPT !.refcount = n]
             B == [AnswerTable EXCEPT ![y] = b]
  <2>1. LLQTable' = U /\ AnswerTable' = B
    BY <1>3 DEF LLQRefresh, Unrefer
  <2>2. n \in Nat /\ AnswerTable[y].refcount \in Nat
    BY <1>1 DEF AnswerListElem
  <2>3. /\ b \in AnswerListElem /\ b.refcount = n /\ b.adds = {} /\ b.rmvs = {}
        /\ n # 0 => b.known = AnswerTable[y].known /\ b.there = AnswerTable[y].there
    <3>1. CASE n = 0 /\ full
      <4>1. b = NoList
        BY <3>1
      <4>2. NoList \in AnswerListElem /\ NoList.refcount = 0 /\ NoList.adds = {} /\ NoList.rmvs = {}
        BY DEF NoList, AnswerListElem
      <4>3. n = 0
        BY <3>1
      <4> HIDE DEF b, n
      <4> QED
        BY <4>1, <4>2, <4>3
    <3>2. CASE ~(n = 0 /\ full)
      <4>1. b = [AnswerTable[y] EXCEPT !.refcount = n]
        BY <3>2
      <4>2. AnswerTable[y].adds = {} /\ AnswerTable[y].rmvs = {}
        BY <1>1 DEF NoChanges
      <4> HIDE DEF b, n
      <4> QED
        BY <1>1, <2>2, <4>1, <4>2 DEF AnswerListElem
    <3> QED
      BY <3>1, <3>2
  <2>4. LLQTable \in Seq(LLQEntry) /\ AnswerTable \in [Questions -> AnswerListElem]
    BY DEF TableInv
  <2> HIDE DEF b, full
  <2>5. B \in [Questions -> AnswerListElem] /\ B[y] = b /\ \A x \in Questions : x # y => B[x] = AnswerTable[x]
    BY <1>1, <2>3, <2>4
  <2>6. /\ U \in Seq(LLQEntry)
        /\ \A j \in DOMAIN U : \E k \in DOMAIN LLQTable : U[j] = LLQTable[k]
    <3>1. /\ U \in Seq(LLQEntry) /\ Len(U) = Len(LLQTable) - 1
          /\ \A j \in 1 .. Len(LLQTable) - 1 : U[j] = IF j < i THEN LLQTable[j] ELSE LLQTable[j + 1]
      BY <2>4, RemoveIs
    <3> HIDE DEF U
    <3>2. ASSUME NEW j \in DOMAIN U PROVE \E k \in DOMAIN LLQTable : U[j] = LLQTable[k]
      <4>1. j \in 1 .. Len(LLQTable) - 1 /\ j \in DOMAIN LLQTable /\ j + 1 \in DOMAIN LLQTable
        BY <2>4, <3>1
      <4> QED
        BY <3>1, <4>1
    <3> QED
      BY <3>1, <3>2
  <2>7. \A x \in Questions : Count(U, x) = IF y = x THEN Count(LLQTable, x) - 1 ELSE Count(LLQTable, x)
    BY <2>4, RemoveCounts
  <2> HIDE DEF U, B
  <2>8. \A x \in Questions : B[x].refcount = Count(U, x)
    <3>1. \A x \in Questions : AnswerTable[x].refcount = Count(LLQTable, x)
      BY DEF TableInv
    <3> QED
      BY <1>1, <2>3, <2>5, <2>7, <3>1
  <2>9. \A x \in Questions : B[x].refcount > 0 => B[x].there
    <3>1. \A x \in Questions : AnswerTable[x].refcount > 0 => AnswerTable[x].there
      BY DEF TableInv
    <3> QED
      BY <1>1, <2>2, <2>3, <2>5, <3>1
  <2>10. \A j \in DOMAIN U : U[j].list <=> U[j].state = "Established"
    BY <2>6 DEF TableInv
  <2>11. ASSUME NEW j \in DOMAIN U, U[j].list PROVE U[j].told = B[U[j].q].known \cup B[U[j].q].rmvs
    <3>1. PICK k \in DOMAIN LLQTable : U[j] = LLQTable[k]
      BY <2>6
    <3>2. U[j].q \in Questions /\ Count(U, U[j].q) > 0
      BY <2>6, <2>11, ListedIsCounted
    <3>3. U[j].told = AnswerTable[U[j].q].known \cup AnswerTable[U[j].q].rmvs
      BY <2>11, <3>1 DEF TableInv
    <3>4. AnswerTable[U[j].q].rmvs = {}
      BY <3>2 DEF NoChanges
    <3>5. CASE U[j].q = y
      <4>1. n # 0
        BY <2>3, <2>5, <2>8, <3>2, <3>5
      <4> QED
        BY <2>3, <2>5, <3>3, <3>4, <3>5, <4>1
    <3>6. CASE U[j].q # y
      BY <2>5, <3>2, <3>3, <3>6
    <3> QED
      BY <3>5, <3>6
  <2>12. NoChanges(B)
    BY <2>3, <2>5 DEF NoChanges
  <2> QED
    BY <2>1, <2>5, <2>6, <2>8, <2>9, <2>10, <2>11, <2>12 DEF TableInv
<1> QED
  BY <1>2, <1>3

LEMMA UpdateKeeps ==
  ASSUME NEW T, TableInv(T, AnswerTable), NoChanges(AnswerTable), lastId \in 0 .. MaxIds,
         NEW i \in DOMAIN T, NEW m, ~m.tcp, T[i].list => T = LLQTable, UpdateLLQ(i, T[i], m, T)
  PROVE  TableInv(LLQTable', AnswerTable') /\ NoChanges(AnswerTable') /\ lastId' \in 0 .. MaxIds
<1>1. T[i] \in LLQEntry /\ (T[i].list <=> T[i].state = "Established")
  BY EntryIs DEF TableInv
<1>2. T[i].state \in {"RequestReceived", "ChallengeSent", "Established"}
  BY <1>1 DEF LLQEntry
<1>3. CASE T[i].state = "RequestReceived"
  <2>1. SetupChallenge(i, T[i], m, T)
    BY <1>3 DEF UpdateLLQ
  <2> QED
    BY <1>1, <1>3, <2>1, ChallengeKeeps
<1>4. CASE T[i].state = "ChallengeSent"
  <2>1. \/ SetupChallenge(i, T[i], m, T)
        \/ CompleteHandshake(i, T[i], m, T) /\ lastId' = lastId
    BY <1>4 DEF UpdateLLQ
  <2> QED
    BY <1>1, <1>4, <2>1, ChallengeKeeps, HandshakeKeeps
<1>5. CASE T[i].state = "Established"
  <2>1. \/ CompleteHandshake(i, T[i], m, T) /\ lastId' = lastId
        \/ LLQRefresh(i, T[i], m)
    BY <1>5 DEF UpdateLLQ
  <2>2. ASSUME LLQRefresh(i, T[i], m)
        PROVE  TableInv(LLQTable', AnswerTable') /\ NoChanges(AnswerTable') /\ lastId' = lastId
    <3>1. T = LLQTable
      BY <1>1, <1>5
    <3>2. TableInv(LLQTable', AnswerTable') /\ NoChanges(AnswerTable')
      BY <1>1, <1>5, <2>2, <3>1, RefreshKeeps
    <3> QED
      BY <2>2, <3>2 DEF LLQRefresh
  <2> QED
    BY <2>1, <2>2, HandshakeKeeps
<1> QED
  BY <1>2, <1>3, <1>4, <1>5

LEMMA RecvKeeps ==
  ASSUME ~PrivateLLQ, ClientsInv, NEW m \in LLQMessage, RecvLLQ(m) PROVE ClientsInv'
<1>1. main.pc = "select" /\ main' = main /\ NoChanges(AnswerTable) /\ TableInv(LLQTable, AnswerTable)
      /\ lastId \in 0 .. MaxIds
  BY DEF RecvLLQ, ClientsInv, NoChanges
<1>2. ~m.tcp
  BY DEF RecvLLQ, Sane, LLQMessage
<1> DEFINE e == NewLLQ(m)
           found == LookupLLQ(m)
<1>3. /\ found = {} => UpdateLLQ(1, e, m, <<e>> \o LLQTable)
      /\ found # {} => LET i == CHOOSE j \in found : \A k \in found : j <= k
                       IN  UpdateLLQ(i, LLQTable[i], m, LLQTable)
  BY DEF RecvLLQ
<1>4. CASE found = {}
  <2>1. e \in LLQEntry /\ ~e.list /\ e.state # "Established"
    BY DnsExtdAssumption DEF NewLLQ, LLQEntry, LLQMessage
  <2> DEFINE T == <<e>> \o LLQTable
  <2>2. TableInv(T, AnswerTable) /\ 1 \in DOMAIN T /\ T[1] = e
    BY <1>1, <2>1, FirstKeeps
  <2>3. UpdateLLQ(1, T[1], m, T)
    BY <1>3, <1>4, <2>2
  <2>4. ~T[1].list
    BY <2>1, <2>2
  <2> HIDE DEF T
  <2>5. TableInv(LLQTable', AnswerTable') /\ NoChanges(AnswerTable') /\ lastId' \in 0 .. MaxIds
    BY <1>1, <1>2, <2>2, <2>3, <2>4, UpdateKeeps
  <2> QED
    BY <1>1, <2>5 DEF ClientsInv, NoChanges, Changes
<1>5. CASE found # {}
  <2> DEFINE i == CHOOSE j \in found : \A k \in found : j <= k
  <2>1. i \in DOMAIN LLQTable
    <3>1. found \subseteq Nat /\ found \subseteq DOMAIN LLQTable
      BY <1>1 DEF LookupLLQ, TableInv
    <3>2. \E j \in found : \A k \in found : j <= k
      <4> HIDE DEF found
      <4> QED
        BY <1>5, <3>1, LeastExists
    <3> QED
      BY <3>1, <3>2
  <2>2. UpdateLLQ(i, LLQTable[i], m, LLQTable)
    BY <1>3, <1>5
  <2> HIDE DEF i
  <2>3. TableInv(LLQTable', AnswerTable') /\ NoChanges(AnswerTable') /\ lastId' \in 0 .. MaxIds
    BY <1>1, <1>2, <2>1, <2>2, UpdateKeeps
  <2> QED
    BY <1>1, <2>3 DEF ClientsInv, NoChanges, Changes
<1> QED
  BY <1>4, <1>5

-----------------------------------------------------------------------------
LEMMA RunsOutTells ==
  ASSUME ClientsInv, NEW i \in DOMAIN LLQTable, LLQRunsOut(i) PROVE ClientsInv'
<1> DEFINE e == [LLQTable[i] EXCEPT !.live = FALSE]
<1>1. LLQTable' = [LLQTable EXCEPT ![i] = e] /\ UNCHANGED <<AnswerTable, lastId, main>>
  BY DEF LLQRunsOut
<1>2. LLQTable[i] \in LLQEntry /\ (LLQTable[i].list <=> LLQTable[i].state = "Established")
  BY EntryIs DEF ClientsInv, TableInv
<1>3. /\ e \in LLQEntry /\ e.q = LLQTable[i].q /\ e.list = LLQTable[i].list
      /\ e.state = LLQTable[i].state /\ e.told = LLQTable[i].told
  BY <1>2 DEF LLQEntry
<1> HIDE DEF e
<1>4. TableInv(LLQTable', AnswerTable)
  BY <1>1, <1>2, <1>3, PutKeeps DEF ClientsInv
<1> QED
  BY <1>1, <1>4 DEF ClientsInv, Changes

LEMMA UpdateTells ==
  ASSUME ClientsInv, LeaseTypes, NEW x \in Questions, UpdateAnswerList(x) PROVE ClientsInv'
<1> DEFINE a == AnswerTable[x]
<1>1. PICK new \in AnswerQuestion(x) :
        AnswerTable' = [AnswerTable EXCEPT ![x] =
          [a EXCEPT !.known = a.known \intersect new, !.adds = new \ a.known, !.rmvs = a.known \ new]]
  BY DEF UpdateAnswerList
<1>2. /\ main.pc = "query" /\ x \in main.todo /\ main' = [main EXCEPT !.todo = @ \ {x}]
      /\ LLQTable' = LLQTable /\ lastId' = lastId
  BY DEF UpdateAnswerList
<1>3. main'.pc = "query" /\ main'.todo = main.todo \ {x}
  BY <1>2 DEF LeaseTypes
<1>4. new \subseteq Zoned
  BY <1>1, DnsExtdAssumption DEF AnswerQuestion
<1>5. AnswerTable \in [Questions -> AnswerListElem] /\ a \in AnswerListElem /\ a.rmvs = {}
  BY <1>2 DEF ClientsInv, TableInv
<1> DEFINE b == [a EXCEPT !.known = a.known \intersect new, !.adds = new \ a.known, !.rmvs = a.known \ new]
<1>6. /\ b \in AnswerListElem /\ b.refcount = a.refcount /\ b.there = a.there
      /\ b.known \cup b.rmvs = a.known /\ b.known \cap b.rmvs = {}
  BY <1>4, <1>5 DEF AnswerListElem
<1>7. AnswerTable' = [AnswerTable EXCEPT ![x] = b]
  BY <1>1
<1> HIDE DEF b
<1>8. /\ AnswerTable' \in [Questions -> AnswerListElem] /\ AnswerTable'[x] = b
      /\ \A y \in Questions : y # x => AnswerTable'[y] = AnswerTable[y]
  BY <1>5, <1>6, <1>7
<1>9. TableInv(LLQTable, AnswerTable')
  <2>1. TableInv(LLQTable, AnswerTable)
    BY DEF ClientsInv
  <2>2. \A y \in Questions : AnswerTable'[y].refcount = AnswerTable[y].refcount
                             /\ AnswerTable'[y].there = AnswerTable[y].there
    BY <1>6, <1>8
  <2>3. \A y \in Questions : AnswerTable'[y].known \cup AnswerTable'[y].rmvs
                             = AnswerTable[y].known \cup AnswerTable[y].rmvs
    BY <1>5, <1>6, <1>8
  <2>4. \A i \in DOMAIN LLQTable : LLQTable[i].q \in Questions
    BY <2>1, EntryIs
  <2> QED
    BY <1>8, <2>1, <2>2, <2>3, <2>4 DEF TableInv
<1>10. Changes(AnswerTable')
  BY <1>6, <1>8 DEF ClientsInv, Changes
<1>11. \A y \in Questions : main'.pc # "query" \/ y \in main'.todo =>
         AnswerTable'[y].adds = {} /\ AnswerTable'[y].rmvs = {}
  BY <1>2, <1>3, <1>8 DEF ClientsInv
<1> QED
  BY <1>2, <1>9, <1>10, <1>11 DEF ClientsInv, Changes

LEMMA SendTells ==
  ASSUME ClientsInv, SendAllEvents PROVE ClientsInv'
<1> DEFINE s == AfterRound([left |-> <<>>, table |-> AnswerTable], LLQTable)
<1>1. LLQTable' = s.left /\ AnswerTable' = Merged(s.table) /\ lastId' = lastId
  BY DEF SendAllEvents, AfterRound
<1>2. TableInv(LLQTable', AnswerTable')
  BY <1>1, RoundKeeps DEF ClientsInv
<1>3. \A x \in Questions : AnswerTable'[x].adds = {} /\ AnswerTable'[x].rmvs = {}
  <2> TAKE x \in Questions
  <2>1. AnswerTable'[x] = [s.table[x] EXCEPT !.known = @ \union s.table[x].adds, !.adds = {}, !.rmvs = {}]
    BY <1>1 DEF Merged
  <2>2. AnswerTable'[x] \in AnswerListElem
    BY <1>2 DEF TableInv
  <2> HIDE DEF s
  <2>3. AnswerTable'[x].adds \subseteq Zoned /\ AnswerTable'[x].rmvs \subseteq Zoned
    BY <2>2 DEF AnswerListElem
  <2>4. DOMAIN AnswerTable'[x] = {"known", "adds", "rmvs", "refcount", "there"}
    BY <2>2 DEF AnswerListElem
  <2>5. DOMAIN AnswerTable'[x] = DOMAIN s.table[x]
    BY <2>1
  <2> QED
    BY <2>1, <2>4, <2>5
<1> QED
  BY <1>1, <1>2, <1>3 DEF ClientsInv, Changes

LEMMA ClientsInit == DnsExtdInit => ClientsInv
<1> SUFFICES ASSUME DnsExtdInit PROVE ClientsInv
  OBVIOUS
<1>1. LLQTable = <<>> /\ AnswerTable = [x \in Questions |-> NoList] /\ lastId = 0
  BY DEF DnsExtdInit
<1>2. NoList \in AnswerListElem /\ NoList.refcount = 0 /\ NoList.adds = {} /\ NoList.rmvs = {} /\ NoList.known = {}
  BY DEF NoList, AnswerListElem
<1>3. \A x \in Questions : AnswerTable[x] = NoList
  BY <1>1
<1>4. AnswerTable \in [Questions -> AnswerListElem]
  BY <1>1, <1>2
<1>5. \A x \in Questions : Count(LLQTable, x) = 0
  <2>1. \A x \in Questions : Referring(LLQTable, x) = {}
    BY <1>1 DEF Referring
  <2> QED
    BY <2>1, FS_EmptySet DEF Count
<1>6. LLQTable \in Seq(LLQEntry) /\ DOMAIN LLQTable = {}
  BY <1>1
<1>7. TableInv(LLQTable, AnswerTable)
  BY <1>2, <1>3, <1>4, <1>5, <1>6 DEF TableInv
<1>8. 0 \in 0 .. MaxIds
  BY DnsExtdAssumption
<1> QED
  BY <1>1, <1>2, <1>3, <1>7, <1>8 DEF ClientsInv, Changes

(* Steps that leave the queries alone, and do not begin a round.              *)
LEMMA ElsewhereTells ==
  ASSUME ClientsInv, UNCHANGED llqVars, main.pc # "query", main'.pc # "query"
  PROVE  ClientsInv'
  BY DEF ClientsInv, Changes, llqVars

LEMMA ApartTells ==
  ASSUME ClientsInv, UNCHANGED <<llqVars, main>> PROVE ClientsInv'
  BY DEF ClientsInv, Changes, llqVars

LEMMA ClientsNext ==
  ASSUME ~PrivateLLQ, LeaseTypes, ClientsInv, [DnsExtdNext]_vars PROVE ClientsInv'
<1>1. CASE UNCHANGED vars
  <2>1. UNCHANGED <<llqVars, main>>
    BY <1>1 DEF vars, llqVars
  <2> QED
    BY <2>1, ApartTells
<1>2. ASSUME NEW t \in Threads, Relay(t) \/ UpdateLeaseTable(t) \/ Ping(t) PROVE ClientsInv'
  <2>1. UNCHANGED <<llqVars, main>>
    BY <1>2 DEF Relay, UpdateLeaseTable, Ping
  <2> QED
    BY <2>1, ApartTells
<1>3. ASSUME NEW req \in Updates, RecvUDPMessage(req) PROVE ClientsInv'
  BY <1>3, ApartTells DEF RecvUDPMessage
<1>4. ASSUME NEW c \in Conns, AcceptTCPConnection(c) \/ RecvTCPMessage(c) PROVE ClientsInv'
  BY <1>4, ApartTells DEF AcceptTCPConnection, RecvTCPMessage
<1>5. ASSUME NEW r \in Zoned, LeaseRunsOut(r) PROVE ClientsInv'
  <2>1. UNCHANGED <<llqVars, main>>
    BY <1>5 DEF LeaseRunsOut
  <2> QED
    BY <2>1, ApartTells
<1>6. ASSUME NEW r \in Zoned, DeleteOneRecord(r) PROVE ClientsInv'
  <2>1. main.pc # "query" /\ main'.pc = main.pc /\ UNCHANGED llqVars
    BY <1>6 DEF DeleteOneRecord, LeaseTypes
  <2> QED
    BY <2>1, ElsewhereTells
<1>7. CASE RecvPing \/ Reread
  BY <1>7, ApartTells DEF RecvPing, Reread
<1>8. CASE DeleteRecords \/ Terminate
  <2>1. main.pc # "query" /\ main'.pc # "query" /\ UNCHANGED llqVars
    BY <1>8 DEF DeleteRecords, Terminate
  <2> QED
    BY <2>1, ElsewhereTells
<1>9. CASE RecordsDeleted \/ Start \/ Exit
  <2>1. main.pc # "query" /\ main'.pc # "query" /\ UNCHANGED llqVars
    BY <1>9 DEF RecordsDeleted, Start, Exit, LeaseTypes
  <2> QED
    BY <2>1, ElsewhereTells
<1>10. ASSUME NEW m \in LLQMessage, RecvLLQ(m) PROVE ClientsInv'
  BY <1>10, RecvKeeps
<1>11. ASSUME NEW i \in DOMAIN LLQTable, LLQRunsOut(i) PROVE ClientsInv'
  BY <1>11, RunsOutTells
<1>12. CASE GenLLQEvents
  <2>1. main.pc = "select" /\ UNCHANGED llqVars
    BY <1>12 DEF GenLLQEvents
  <2> QED
    BY <2>1 DEF ClientsInv, Changes, llqVars
<1>13. CASE SendAllEvents
  BY <1>13, SendTells
<1>14. ASSUME NEW x \in Questions, UpdateAnswerList(x) PROVE ClientsInv'
  BY <1>14, UpdateTells
<1> QED
  BY <1>1, <1>2, <1>3, <1>4, <1>5, <1>6, <1>7, <1>8, <1>9, <1>10, <1>11, <1>12, <1>13, <1>14
  DEF DnsExtdNext

LEMMA ClientsAreTold == ASSUME ClientsInv PROVE ClientsHearAll
<1> SUFFICES ASSUME main.pc = "select" PROVE ClientsHearAll
  BY DEF ClientsHearAll
<1>1. TableInv(LLQTable, AnswerTable) /\ \A x \in Questions : AnswerTable[x].rmvs = {}
  BY DEF ClientsInv
<1>2. ASSUME NEW i \in DOMAIN LLQTable, LLQTable[i].state = "Established"
      PROVE  AnswerTable[LLQTable[i].q].there /\ LLQTable[i].told = AnswerTable[LLQTable[i].q].known
  <2>1. LLQTable[i].list /\ LLQTable[i].q \in Questions /\ AnswerTable[LLQTable[i].q].refcount > 0
    BY <1>1, <1>2, EntryIs DEF TableInv
  <2> QED
    BY <1>1, <2>1 DEF TableInv
<1>3. \A x \in Questions : AnswerTable[x].refcount =
        Cardinality({i \in DOMAIN LLQTable : LLQTable[i].q = x /\ LLQTable[i].list})
  BY <1>1 DEF TableInv, Count, Referring
<1> QED
  BY <1>2, <1>3 DEF ClientsHearAll

-----------------------------------------------------------------------------
(* A list of answers has what the zone has, or there is a thread that will    *)
(* tell of the change, or the daemon has been told, or it never will be.      *)
Covered(r) == \E t \in Threads : threads[t].pc \in {"lease", "ping"} /\ r \in Touches(threads[t].req)

Expected(x) == pinged \/ (EventsPending /\ (main.pc # "query" \/ x \in main.todo))

Agrees(x, r) == r \in AnswerTable[x].known \cup AnswerTable[x].adds <=> r \in zone

Follows ==
  main.pc # "stopped" =>
    \A x \in Questions : AnswerTable[x].there =>
      \A r \in AnswersTo[x] :
        <<x, r>> \in unseen \/ Covered(r) \/ Expected(x) \/ Agrees(x, r)

LEMMA FollowsInit == DnsExtdInit => Follows
  BY DEF DnsExtdInit, Follows, NoList

(* No list changes, and no record does that nobody will tell of.              *)
LEMMA FollowsOn ==
  ASSUME Follows, UNCHANGED AnswerTable, main.pc # "stopped",
         \A x \in Questions : \A r \in AnswersTo[x] : <<x, r>> \in unseen => <<x, r>> \in unseen',
         \A x \in Questions : \A r \in AnswersTo[x] : AnswerTable[x].there /\ Expected(x) => Expected(x)',
         \A x \in Questions : AnswerTable[x].there => \A r \in AnswersTo[x] :
           \/ <<x, r>> \in unseen' \/ Covered(r)' \/ Expected(x)'
           \/ (r \in zone' <=> r \in zone) /\ (Covered(r) => Covered(r)')
  PROVE  Follows'
  BY DEF Follows, Agrees

LEMMA MissedIs ==
  ASSUME NEW changed, unseen' = Missed(changed), NEW x \in Questions, NEW r \in AnswersTo[x]
  PROVE  /\ <<x, r>> \in unseen => <<x, r>> \in unseen'
         /\ AnswerTable[x].there /\ r \in changed => <<x, r>> \in unseen'
  BY DEF Missed

LEMMA FollowsRelay ==
  ASSUME Follows, LeaseTypes, main.pc # "stopped", NEW t \in Threads, Relay(t) PROVE Follows'
<1> DEFINE req == threads[t].req
<1>1. threads \in [Threads -> Thread] /\ threads[t].pc = "relay"
      /\ UNCHANGED <<AnswerTable, pinged, EventsPending, main>>
  BY DEF LeaseTypes, Relay, llqVars
<1>2. \A x \in Questions : Expected(x)' = Expected(x)
  BY <1>1 DEF Expected
<1>3. CASE req.adds # {} /\ ~req.lease
  <2>1. threads' = [threads EXCEPT ![t] = Idle] /\ UNCHANGED <<zone, unseen>>
    BY <1>3 DEF Relay, EndOf
  <2>2. \A r : Covered(r) => Covered(r)'
    BY <1>1, <2>1 DEF Covered
  <2> QED
    BY <1>1, <1>2, <2>1, <2>2, FollowsOn
<1>4. CASE ~(req.adds # {} /\ ~req.lease)
  <2>1. PICK o \in Relayed :
          /\ zone' = IF o.applied THEN (zone \ Touches(req)) \union req.adds ELSE zone
          /\ IF o.reply = "done"
               THEN threads' = [threads EXCEPT ![t].pc = "lease"] /\ UNCHANGED conns
               ELSE EndOf(t)
          /\ unseen' = IF o.applied /\ o.reply # "done" THEN Missed(Touches(req)) ELSE unseen
    BY <1>4 DEF Relay
  <2>2. \A r : r \notin Touches(req) => (r \in zone' <=> r \in zone)
    BY <2>1 DEF Touches
  <2>3. CASE o.reply = "done"
    <3>1. threads' = [threads EXCEPT ![t] = [threads[t] EXCEPT !.pc = "lease"]] /\ unseen' = unseen
      BY <2>1, <2>3
    <3>2. threads[t] \in Thread /\ threads[t] # Idle
      BY <1>1 DEF Idle
    <3>3. threads'[t].pc = "lease" /\ threads'[t].req = req
      BY <1>1, <3>1, <3>2 DEF Thread
    <3>4. \A r : Covered(r) => Covered(r)'
      BY <1>1, <3>1 DEF Covered
    <3>5. \A r \in Touches(req) : Covered(r)'
      BY <3>3 DEF Covered
    <3> QED
      BY <1>1, <1>2, <2>2, <3>1, <3>4, <3>5, FollowsOn
  <2>4. CASE o.reply # "done"
    <3>1. threads' = [threads EXCEPT ![t] = Idle]
      BY <2>1, <2>4 DEF EndOf
    <3>2. \A r : Covered(r) => Covered(r)'
      BY <1>1, <3>1 DEF Covered
    <3>3. CASE o.applied
      <4>1. unseen' = Missed(Touches(req))
        BY <2>1, <2>4, <3>3
      <4>2. \A x \in Questions : \A r \in AnswersTo[x] :
              /\ <<x, r>> \in unseen => <<x, r>> \in unseen'
              /\ AnswerTable[x].there /\ r \in Touches(req) => <<x, r>> \in unseen'
        BY <4>1, MissedIs
      <4> QED
        BY <1>1, <1>2, <2>2, <3>2, <4>2, FollowsOn
    <3>4. CASE ~o.applied
      <4>1. unseen' = unseen /\ zone' = zone
        BY <2>1, <3>4
      <4> QED
        BY <1>1, <1>2, <3>2, <4>1, FollowsOn
    <3> QED
      BY <3>3, <3>4
  <2> QED
    BY <2>3, <2>4
<1> QED
  BY <1>3, <1>4

LEMMA FollowsPing ==
  ASSUME Follows, LeaseTypes, main.pc # "stopped", NEW t \in Threads, UpdateLeaseTable(t) \/ Ping(t)
  PROVE  Follows'
<1>1. threads \in [Threads -> Thread]
  BY DEF LeaseTypes
<1>2. CASE UpdateLeaseTable(t)
  <2>1. /\ UNCHANGED <<AnswerTable, pinged, EventsPending, main, zone, unseen>> /\ threads[t].pc = "lease"
        /\ threads' = [threads EXCEPT ![t] = [threads[t] EXCEPT !.pc = "ping"]]
    BY <1>2 DEF UpdateLeaseTable, llqVars
  <2>2. threads[t] \in Thread /\ threads[t] # Idle
    BY <1>1, <2>1 DEF Idle
  <2>3. threads'[t].pc = "ping" /\ threads'[t].req = threads[t].req
    BY <1>1, <2>1, <2>2 DEF Thread
  <2>4. \A r : Covered(r) => Covered(r)'
    BY <1>1, <2>1, <2>3 DEF Covered
  <2>5. \A x \in Questions : Expected(x)' = Expected(x)
    BY <2>1 DEF Expected
  <2> QED
    BY <2>1, <2>4, <2>5, FollowsOn
<1>3. CASE Ping(t)
  <2>1. pinged' = TRUE
    BY <1>3 DEF Ping
  <2> QED
    BY <2>1 DEF Follows, Expected
<1> QED
  BY <1>2, <1>3

LEMMA FollowsDelete ==
  ASSUME Follows, LeaseTypes, main.pc # "stopped", NEW d \in Zoned, DeleteOneRecord(d) PROVE Follows'
<1>1. /\ UNCHANGED <<AnswerTable, pinged, EventsPending, threads>> /\ main.pc # "query"
      /\ unseen' = Missed({d}) /\ main'.pc = main.pc
  BY DEF DeleteOneRecord, llqVars, LeaseTypes
<1>2. \A r : r # d => (r \in zone' <=> r \in zone)
  BY DEF DeleteOneRecord
<1>3. \A x \in Questions : Expected(x)' = Expected(x)
  BY <1>1 DEF Expected
<1>4. \A r : Covered(r)' = Covered(r)
  BY <1>1 DEF Covered
<1>5. \A x \in Questions : \A r \in AnswersTo[x] :
        /\ <<x, r>> \in unseen => <<x, r>> \in unseen'
        /\ AnswerTable[x].there /\ r \in {d} => <<x, r>> \in unseen'
  BY <1>1, MissedIs
<1> QED
  BY <1>1, <1>2, <1>3, <1>4, <1>5, FollowsOn

-----------------------------------------------------------------------------
(* A message about a query makes a list of answers anew, drops one, or leaves *)
(* them as they are.                                                          *)
Renews(y) ==
  /\ \A x \in Questions : x # y => AnswerTable'[x] = AnswerTable[x]
  /\ \E known \in AnswerQuestion(y) :
       AnswerTable'[y].known = known /\ AnswerTable'[y].adds = {} /\ unseen' = Seen(y, known)

Keeps ==
  /\ unseen' = unseen
  /\ \A x \in Questions : AnswerTable'[x].there =>
       /\ AnswerTable[x].there
       /\ AnswerTable'[x].known = AnswerTable[x].known /\ AnswerTable'[x].adds = AnswerTable[x].adds

LEMMA HandshakeRenews ==
  ASSUME NEW T, TableInv(T, AnswerTable), NEW i \in DOMAIN T, NEW m,
         CompleteHandshake(i, T[i], m, T)
  PROVE  Keeps \/ \E y \in Questions : Renews(y)
<1> DEFINE e == T[i]
           old == AnswerTable[e.q]
           refer(b) == [b EXCEPT !.refcount = IF e.state = "Established" THEN @ ELSE @ + 1]
           new(k) == [NoList EXCEPT !.known = k, !.there = TRUE]
<1>1. e.q \in Questions /\ old \in AnswerListElem /\ AnswerTable \in [Questions -> AnswerListElem]
  BY EntryIs DEF TableInv
<1>2. CASE ~Challenged(e, m)
  BY <1>2 DEF CompleteHandshake, Keeps
<1>3. CASE Challenged(e, m) /\ old.there
  <2>1. AnswerTable' = [AnswerTable EXCEPT ![e.q] = refer(old)] /\ unseen' = unseen
    BY <1>3 DEF CompleteHandshake
  <2>2. refer(old).known = old.known /\ refer(old).adds = old.adds
    BY <1>1 DEF AnswerListElem
  <2> HIDE DEF refer
  <2>3. AnswerTable'[e.q] = refer(old) /\ \A x \in Questions : x # e.q => AnswerTable'[x] = AnswerTable[x]
    BY <1>1, <2>1
  <2> QED
    BY <1>1, <1>3, <2>1, <2>2, <2>3 DEF Keeps
<1>4. CASE Challenged(e, m) /\ ~old.there
  <2>1. PICK known \in AnswerQuestion(e.q) :
          AnswerTable' = [AnswerTable EXCEPT ![e.q] = refer(new(known))] /\ unseen' = Seen(e.q, known)
    BY <1>4 DEF CompleteHandshake
  <2>2. refer(new(known)).known = known /\ refer(new(known)).adds = {}
    BY DEF NoList
  <2> HIDE DEF refer, new
  <2>3. AnswerTable'[e.q] = refer(new(known)) /\ \A x \in Questions : x # e.q => AnswerTable'[x] = AnswerTable[x]
    BY <1>1, <2>1
  <2>4. Renews(e.q)
    BY <2>1, <2>2, <2>3 DEF Renews
  <2> QED
    BY <1>1, <2>4
<1> QED
  BY <1>2, <1>3, <1>4

LEMMA RefreshKeepsLists ==
  ASSUME TableInv(LLQTable, AnswerTable), NEW i \in DOMAIN LLQTable, NEW m,
         LLQRefresh(i, LLQTable[i], m)
  PROVE  Keeps
<1> DEFINE e == LLQTable[i]
<1>1. e.q \in Questions /\ AnswerTable[e.q] \in AnswerListElem /\ AnswerTable \in [Questions -> AnswerListElem]
      /\ unseen' = unseen
  BY EntryIs DEF TableInv, LLQRefresh
<1>2. CASE m.lease \/ ~e.list
  <2>1. AnswerTable' = AnswerTable
    BY <1>2 DEF LLQRefresh, Unrefer
  <2> QED
    BY <1>1, <2>1 DEF Keeps
<1>3. CASE ~m.lease /\ e.list
  <2> DEFINE n == AnswerTable[e.q].refcount - 1
             full == Cardinality({x \in Questions : AnswerTable[x].there}) >= TableSize
             b == IF n = 0 /\ full THEN NoList ELSE [AnswerTable[e.q] EXCEPT !.refcount = n]
  <2>1. AnswerTable' = [AnswerTable EXCEPT ![e.q] = b]
    BY <1>3 DEF LLQRefresh, Unrefer
  <2>2. b.there => /\ AnswerTable[e.q].there
                   /\ b.known = AnswerTable[e.q].known /\ b.adds = AnswerTable[e.q].adds
    <3>1. b = NoList \/ b = [AnswerTable[e.q] EXCEPT !.refcount = n]
      OBVIOUS
    <3> HIDE DEF b, n
    <3>2. CASE b = NoList
      BY <3>2 DEF NoList
    <3>3. CASE b = [AnswerTable[e.q] EXCEPT !.refcount = n]
      BY <1>1, <3>3 DEF AnswerListElem
    <3> QED
      BY <3>1, <3>2, <3>3
  <2> HIDE DEF b
  <2>3. AnswerTable'[e.q] = b /\ \A x \in Questions : x # e.q => AnswerTable'[x] = AnswerTable[x]
    BY <1>1, <2>1
  <2> QED
    BY <1>1, <2>2, <2>3 DEF Keeps
<1> QED
  BY <1>2, <1>3

LEMMA ChallengeKeepsLists ==
  ASSUME NEW i, NEW e, NEW m, NEW T, SetupChallenge(i, e, m, T) PROVE Keeps
  BY DEF SetupChallenge, Keeps

LEMMA UpdateRenews ==
  ASSUME NEW T, TableInv(T, AnswerTable), NEW i \in DOMAIN T, NEW m, ~m.tcp,
         T[i].list => T = LLQTable, UpdateLLQ(i, T[i], m, T)
  PROVE  Keeps \/ \E y \in Questions : Renews(y)
<1>1. T[i] \in LLQEntry /\ (T[i].list <=> T[i].state = "Established")
  BY EntryIs DEF TableInv
<1>2. T[i].state \in {"RequestReceived", "ChallengeSent", "Established"}
  BY <1>1 DEF LLQEntry
<1>3. CASE T[i].state = "RequestReceived"
  <2>1. SetupChallenge(i, T[i], m, T)
    BY <1>3 DEF UpdateLLQ
  <2> QED
    BY <2>1, ChallengeKeepsLists
<1>4. CASE T[i].state = "ChallengeSent"
  <2>1. SetupChallenge(i, T[i], m, T) \/ CompleteHandshake(i, T[i], m, T)
    BY <1>4 DEF UpdateLLQ
  <2> QED
    BY <2>1, ChallengeKeepsLists, HandshakeRenews
<1>5. CASE T[i].state = "Established"
  <2>1. CompleteHandshake(i, T[i], m, T) \/ LLQRefresh(i, T[i], m)
    BY <1>5 DEF UpdateLLQ
  <2>2. ASSUME LLQRefresh(i, T[i], m) PROVE Keeps
    <3>1. T = LLQTable
      BY <1>1, <1>5
    <3> QED
      BY <2>2, <3>1, RefreshKeepsLists
  <2> QED
    BY <2>1, <2>2, HandshakeRenews
<1> QED
  BY <1>2, <1>3, <1>4, <1>5

LEMMA ReceiptRenews ==
  ASSUME ~PrivateLLQ, ClientsInv, NEW m \in LLQMessage, RecvLLQ(m)
  PROVE  Keeps \/ \E y \in Questions : Renews(y)
<1>1. TableInv(LLQTable, AnswerTable) /\ ~m.tcp
  BY DEF RecvLLQ, Sane, LLQMessage, ClientsInv
<1> DEFINE e == NewLLQ(m)
           found == LookupLLQ(m)
<1>2. /\ found = {} => UpdateLLQ(1, e, m, <<e>> \o LLQTable)
      /\ found # {} => LET i == CHOOSE j \in found : \A k \in found : j <= k
                       IN  UpdateLLQ(i, LLQTable[i], m, LLQTable)
  BY DEF RecvLLQ
<1>3. CASE found = {}
  <2>1. e \in LLQEntry /\ ~e.list /\ e.state # "Established"
    BY DnsExtdAssumption DEF NewLLQ, LLQEntry, LLQMessage
  <2> DEFINE T == <<e>> \o LLQTable
  <2>2. TableInv(T, AnswerTable) /\ 1 \in DOMAIN T /\ T[1] = e
    BY <1>1, <2>1, FirstKeeps
  <2>3. UpdateLLQ(1, T[1], m, T)
    BY <1>2, <1>3, <2>2
  <2>4. ~T[1].list
    BY <2>1, <2>2
  <2> HIDE DEF T
  <2> QED
    BY <1>1, <2>2, <2>3, <2>4, UpdateRenews
<1>4. CASE found # {}
  <2> DEFINE i == CHOOSE j \in found : \A k \in found : j <= k
  <2>1. i \in DOMAIN LLQTable
    <3>1. found \subseteq Nat /\ found \subseteq DOMAIN LLQTable
      BY <1>1 DEF LookupLLQ, TableInv
    <3>2. \E j \in found : \A k \in found : j <= k
      <4> HIDE DEF found
      <4> QED
        BY <1>4, <3>1, LeastExists
    <3> QED
      BY <3>1, <3>2
  <2>2. UpdateLLQ(i, LLQTable[i], m, LLQTable)
    BY <1>2, <1>4
  <2> HIDE DEF i
  <2> QED
    BY <1>1, <2>1, <2>2, UpdateRenews
<1> QED
  BY <1>3, <1>4

(* A list made anew agrees with the zone, but for what is marked as unseen.   *)
LEMMA RenewedFollows ==
  ASSUME NEW y \in Questions, NEW known \in AnswerQuestion(y), unseen' = Seen(y, known),
         zone' = zone, AnswerTable'[y].known \cup AnswerTable'[y].adds = known
  PROVE  /\ \A r \in AnswersTo[y] : <<y, r>> \in unseen' \/ Agrees(y, r)'
         /\ \A x \in Questions : x # y => \A r \in AnswersTo[x] : <<x, r>> \in unseen => <<x, r>> \in unseen'
  BY DEF AnswerQuestion, Seen, Agrees

LEMMA FollowsRecv ==
  ASSUME ~PrivateLLQ, ClientsInv, Follows, NEW m \in LLQMessage, RecvLLQ(m) PROVE Follows'
<1>1. main.pc = "select" /\ UNCHANGED <<zone, threads, pinged, EventsPending, main>>
  BY DEF RecvLLQ
<1>2. \A r : Covered(r)' = Covered(r)
  BY <1>1 DEF Covered
<1>3. \A x \in Questions : Expected(x)' = Expected(x)
  BY <1>1 DEF Expected
<1>4. CASE Keeps
  <2>1. \A x \in Questions : AnswerTable'[x].there =>
          AnswerTable[x].there /\ \A r \in AnswersTo[x] : Agrees(x, r) => Agrees(x, r)'
    BY <1>1, <1>4 DEF Keeps, Agrees
  <2> QED
    BY <1>1, <1>2, <1>3, <1>4, <2>1 DEF Follows, Keeps
<1>5. ASSUME NEW y \in Questions, Renews(y) PROVE Follows'
  <2>1. PICK known \in AnswerQuestion(y) :
          AnswerTable'[y].known = known /\ AnswerTable'[y].adds = {} /\ unseen' = Seen(y, known)
    BY <1>5 DEF Renews
  <2>2. /\ \A r \in AnswersTo[y] : <<y, r>> \in unseen' \/ Agrees(y, r)'
        /\ \A x \in Questions : x # y => \A r \in AnswersTo[x] : <<x, r>> \in unseen => <<x, r>> \in unseen'
    BY <1>1, <2>1, RenewedFollows
  <2>3. \A x \in Questions : x # y => AnswerTable'[x] = AnswerTable[x]
    BY <1>5 DEF Renews
  <2>4. \A x \in Questions : x # y => \A r \in AnswersTo[x] : Agrees(x, r) => Agrees(x, r)'
    BY <1>1, <2>3 DEF Agrees
  <2> QED
    BY <1>1, <1>2, <1>3, <2>2, <2>3, <2>4 DEF Follows
<1> QED
  BY <1>4, <1>5, ReceiptRenews

LEMMA FollowsUpdate ==
  ASSUME ClientsInv, LeaseTypes, Follows, NEW y \in Questions, UpdateAnswerList(y) PROVE Follows'
<1>1. PICK new \in AnswerQuestion(y) :
        /\ AnswerTable' = [AnswerTable EXCEPT ![y] =
             [AnswerTable[y] EXCEPT !.known = AnswerTable[y].known \intersect new,
                                    !.adds = new \ AnswerTable[y].known, !.rmvs = AnswerTable[y].known \ new]]
        /\ unseen' = Seen(y, new)
  BY DEF UpdateAnswerList
<1>2. main.pc = "query" /\ main'.pc = "query" /\ main'.todo = main.todo \ {y}
      /\ UNCHANGED <<zone, threads, pinged, EventsPending>>
  BY DEF UpdateAnswerList, LeaseTypes
<1>3. AnswerTable \in [Questions -> AnswerListElem] /\ AnswerTable[y] \in AnswerListElem
  BY DEF ClientsInv, TableInv
<1>4. /\ AnswerTable'[y].known \cup AnswerTable'[y].adds = new
      /\ \A x \in Questions : x # y => AnswerTable'[x] = AnswerTable[x]
  BY <1>1, <1>3 DEF AnswerListElem
<1>5. /\ \A r \in AnswersTo[y] : <<y, r>> \in unseen' \/ Agrees(y, r)'
      /\ \A x \in Questions : x # y => \A r \in AnswersTo[x] : <<x, r>> \in unseen => <<x, r>> \in unseen'
  BY <1>1, <1>2, <1>4, RenewedFollows
<1>6. \A r : Covered(r)' = Covered(r)
  BY <1>2 DEF Covered
<1>7. \A x \in Questions : x # y => Expected(x)' = Expected(x)
  BY <1>2 DEF Expected
<1>8. \A x \in Questions : x # y => \A r \in AnswersTo[x] : Agrees(x, r) => Agrees(x, r)'
  BY <1>2, <1>4 DEF Agrees
<1> QED
  BY <1>2, <1>4, <1>5, <1>6, <1>7, <1>8 DEF Follows

LEMMA FollowsSend ==
  ASSUME ClientsInv, LeaseTypes, Follows, SendAllEvents PROVE Follows'
<1> DEFINE s == AfterRound([left |-> <<>>, table |-> AnswerTable], LLQTable)
<1>1. AnswerTable' = Merged(s.table)
  BY DEF SendAllEvents, AfterRound
<1>2. \A x \in Questions : AnswerTable'[x].there =>
        AnswerTable[x].there /\ AnswerTable'[x].known = AnswerTable[x].known \cup AnswerTable[x].adds
  BY <1>1, RoundKeeps DEF ClientsInv
<1>3. \A x \in Questions : AnswerTable'[x].adds = {}
  BY SendTells DEF ClientsInv, SendAllEvents, LeaseTypes
<1>4. /\ main.pc = "query" /\ main.todo = {} /\ UNCHANGED <<zone, threads, pinged, unseen>>
  BY DEF SendAllEvents
<1>5. \A r : Covered(r)' = Covered(r)
  BY <1>4 DEF Covered
<1>6. \A x \in Questions : Expected(x) => Expected(x)'
  BY <1>4 DEF Expected
<1>7. \A x \in Questions : AnswerTable'[x].there => \A r \in AnswersTo[x] : Agrees(x, r) => Agrees(x, r)'
  BY <1>2, <1>3, <1>4 DEF Agrees
<1> QED
  BY <1>2, <1>4, <1>5, <1>6, <1>7 DEF Follows

LEMMA FollowsNext ==
  ASSUME ~PrivateLLQ, LeaseTypes, ClientsInv, Follows, main.pc = "stopped" => main' = main,
         [DnsExtdNext]_vars
  PROVE  Follows'
<1>1. CASE main.pc = "stopped"
  BY <1>1 DEF Follows
<1> SUFFICES ASSUME main.pc # "stopped" PROVE Follows'
  BY <1>1
<1>2. ASSUME UNCHANGED <<AnswerTable, zone, threads, unseen, pinged, EventsPending>>,
             main.pc # "query" \/ main' = main, main'.pc # "query" \/ main' = main
      PROVE  Follows'
  <2>1. \A x \in Questions : Expected(x) => Expected(x)'
    BY <1>2 DEF Expected
  <2>2. \A r : Covered(r)' = Covered(r)
    BY <1>2 DEF Covered
  <2>3. \A x \in Questions : \A r \in AnswersTo[x] : Agrees(x, r)' = Agrees(x, r)
    BY <1>2 DEF Agrees
  <2> QED
    BY <1>2, <2>1, <2>2, <2>3 DEF Follows
<1>3. CASE UNCHANGED vars
  <2>1. UNCHANGED <<AnswerTable, zone, threads, unseen, pinged, EventsPending>> /\ main' = main
    BY <1>3 DEF vars
  <2> QED
    BY <1>2, <2>1
<1>4. ASSUME NEW t \in Threads, Relay(t) \/ UpdateLeaseTable(t) \/ Ping(t) PROVE Follows'
  BY <1>4, FollowsRelay, FollowsPing
<1>5. ASSUME NEW c, NEW req \in Updates, Hand(req, c),
             UNCHANGED <<AnswerTable, zone, unseen, pinged, EventsPending, main>>
      PROVE  Follows'
  <2>1. PICK t \in Threads : threads[t] = Idle
          /\ threads' = [threads EXCEPT ![t] = [pc |-> "relay", req |-> req, conn |-> c]]
    BY <1>5 DEF Hand
  <2>2. threads \in [Threads -> Thread]
    BY DEF LeaseTypes
  <2>3. \A r : Covered(r) => Covered(r)'
    BY <2>1, <2>2 DEF Covered, Idle
  <2>4. \A x \in Questions : Expected(x)' = Expected(x)
    BY <1>5 DEF Expected
  <2> QED
    BY <1>5, <2>3, <2>4, FollowsOn
<1>6. ASSUME NEW req \in Updates, RecvUDPMessage(req) PROVE Follows'
  <2>1. /\ UNCHANGED <<AnswerTable, zone, unseen, pinged, EventsPending>> /\ main' = main
        /\ UNCHANGED threads \/ Hand(req, Nobody)
    BY <1>6 DEF RecvUDPMessage, llqVars
  <2> QED
    BY <1>2, <1>5, <2>1
<1>7. ASSUME NEW c \in Conns, AcceptTCPConnection(c) \/ RecvTCPMessage(c) PROVE Follows'
  <2>1. /\ UNCHANGED <<AnswerTable, zone, unseen, pinged, EventsPending>> /\ main' = main
        /\ UNCHANGED threads \/ \E req \in Updates : Hand(req, c)
    BY <1>7 DEF AcceptTCPConnection, RecvTCPMessage, llqVars
  <2> QED
    BY <1>2, <1>5, <2>1
<1>8. ASSUME NEW r \in Zoned, LeaseRunsOut(r) PROVE Follows'
  <2>1. UNCHANGED <<AnswerTable, zone, threads, unseen, pinged, EventsPending>> /\ main' = main
    BY <1>8 DEF LeaseRunsOut, llqVars
  <2> QED
    BY <1>2, <2>1
<1>9. ASSUME NEW r \in Zoned, DeleteOneRecord(r) PROVE Follows'
  BY <1>9, FollowsDelete
<1>10. CASE RecvPing
  <2>1. main.pc = "select" /\ main' = main /\ EventsPending' = TRUE
    BY <1>10 DEF RecvPing
  <2> QED
    BY <2>1 DEF Follows, Expected
<1>11. CASE DeleteRecords \/ Terminate \/ Reread
  <2>1. /\ UNCHANGED <<AnswerTable, zone, threads, unseen, pinged, EventsPending>>
        /\ main.pc # "query" /\ main'.pc # "query"
    BY <1>11 DEF DeleteRecords, Terminate, Reread, llqVars
  <2> QED
    BY <1>2, <2>1
<1>12. CASE RecordsDeleted \/ Start
  <2>1. /\ UNCHANGED <<AnswerTable, zone, threads, unseen, pinged, EventsPending>>
        /\ main.pc # "query" /\ main'.pc # "query"
    BY <1>12 DEF RecordsDeleted, Start, LeaseTypes, llqVars
  <2> QED
    BY <1>2, <2>1
<1>13. CASE Exit
  <2>1. main'.pc = "stopped"
    BY <1>13 DEF Exit, LeaseTypes
  <2> QED
    BY <2>1 DEF Follows
<1>14. ASSUME NEW m \in LLQMessage, RecvLLQ(m) PROVE Follows'
  BY <1>14, FollowsRecv
<1>15. ASSUME NEW i \in DOMAIN LLQTable, LLQRunsOut(i) PROVE Follows'
  <2>1. UNCHANGED <<AnswerTable, zone, threads, unseen, pinged, EventsPending>> /\ main' = main
    BY <1>15 DEF LLQRunsOut
  <2> QED
    BY <1>2, <2>1
<1>16. CASE GenLLQEvents
  <2>1. /\ EventsPending /\ EventsPending' = EventsPending /\ UNCHANGED AnswerTable
        /\ main'.todo = {x \in Questions : AnswerTable[x].there}
    BY <1>16 DEF GenLLQEvents, llqVars
  <2>2. \A x \in Questions : AnswerTable'[x].there => Expected(x)'
    BY <2>1 DEF Expected
  <2> QED
    BY <2>2 DEF Follows
<1>17. CASE SendAllEvents
  BY <1>17, FollowsSend
<1>18. ASSUME NEW x \in Questions, UpdateAnswerList(x) PROVE Follows'
  BY <1>18, FollowsUpdate
<1> QED
  BY <1>3, <1>4, <1>6, <1>7, <1>8, <1>9, <1>10, <1>11, <1>12, <1>13, <1>14, <1>15, <1>16, <1>17, <1>18
  DEF DnsExtdNext

LEMMA FollowsIsMeant ==
  ASSUME ClientsInv, Follows PROVE AnswersFollowTheZone
<1> SUFFICES ASSUME main.pc = "select", ~pinged, ~EventsPending, NEW x \in Questions, AnswerTable[x].there,
                    NEW r \in AnswersTo[x], <<x, r>> \notin unseen,
                    \A t \in Threads : threads[t].pc \in {"lease", "ping"} => r \notin Touches(threads[t].req)
             PROVE  r \in AnswerTable[x].known <=> r \in zone
  BY DEF AnswersFollowTheZone
<1>1. ~Covered(r) /\ ~Expected(x)
  BY DEF Covered, Expected
<1>2. AnswerTable[x].adds = {}
  BY DEF ClientsInv
<1> QED
  BY <1>1, <1>2 DEF Follows, Agrees

LEMMA StaysStopped ==
  ASSUME LeaseInv, main.pc = "stopped", [DnsExtdNext]_vars PROVE main' = main
<1>1. \A t \in Threads : threads[t] = Idle
  BY DEF LeaseInv, Stopping
<1>2. \A t \in Threads : ~Relay(t) /\ ~UpdateLeaseTable(t) /\ ~Ping(t)
  BY <1>1 DEF Relay, UpdateLeaseTable, Ping, Idle
<1>3. ASSUME DnsExtdNext PROVE main' = main
  <2>1. \A r \in Zoned : DeleteOneRecord(r) => FALSE
    BY DEF DeleteOneRecord
  <2>2. \A r \in Zoned : LeaseRunsOut(r) => FALSE
    BY DEF LeaseRunsOut
  <2>3. \A c \in Conns : ~AcceptTCPConnection(c) /\ ~RecvTCPMessage(c)
    BY DEF AcceptTCPConnection, RecvTCPMessage
  <2>4. \A m \in LLQMessage : ~RecvLLQ(m)
    BY DEF RecvLLQ
  <2>5. \A i \in DOMAIN LLQTable : ~LLQRunsOut(i)
    BY DEF LLQRunsOut
  <2>6. \A x \in Questions : ~UpdateAnswerList(x)
    BY DEF UpdateAnswerList
  <2>7. ~RecvPing /\ ~DeleteRecords /\ ~RecordsDeleted /\ ~GenLLQEvents /\ ~SendAllEvents
    BY DEF RecvPing, DeleteRecords, RecordsDeleted, GenLLQEvents, SendAllEvents
  <2>8. ~Start /\ ~Reread /\ ~Terminate /\ ~Exit
    BY DEF Start, Reread, Terminate, Exit
  <2> QED
    BY <1>2, <1>3, <2>1, <2>2, <2>3, <2>4, <2>5, <2>6, <2>7, <2>8 DEF DnsExtdNext
<1>4. CASE UNCHANGED vars
  BY <1>4 DEF vars
<1> QED
  BY <1>3, <1>4

-----------------------------------------------------------------------------
LEMMA ClientsInvHolds == ASSUME ~PrivateLLQ PROVE DnsExtdSpec => []ClientsInv
<1>1. DnsExtdInit => ClientsInv
  BY ClientsInit
<1>2. LeaseInv => LeaseTypes
  BY DEF LeaseInv
<1>3. LeaseTypes /\ ClientsInv /\ [DnsExtdNext]_vars => ClientsInv'
  BY ClientsNext
<1> QED
  BY <1>1, <1>2, <1>3, LeaseInvHolds, PTL DEF DnsExtdSpec

LEMMA FollowsHolds == ASSUME ~PrivateLLQ PROVE DnsExtdSpec => []Follows
<1>1. DnsExtdInit => Follows
  BY FollowsInit
<1>2. LeaseInv /\ ClientsInv /\ Follows /\ [DnsExtdNext]_vars => Follows'
  BY FollowsNext, StaysStopped DEF LeaseInv
<1> QED
  BY <1>1, <1>2, LeaseInvHolds, ClientsInvHolds, PTL DEF DnsExtdSpec

(* Between two rounds of events every client has been told what its list of   *)
(* answers holds, and a list that goes has no query left that refers to it,   *)
(* whatever queries come, run out and are refreshed, as long as none is set   *)
(* up over TLS.                                                               *)
THEOREM EveryClientIsTold == ASSUME ~PrivateLLQ PROVE DnsExtdSpec => []ClientsHearAll
<1>1. ClientsInv => ClientsHearAll
  BY ClientsAreTold
<1> QED
  BY <1>1, ClientsInvHolds, PTL

(* What the clients of a question know is what the zone answers, once every   *)
(* update that the name server acknowledged has been told of.                 *)
THEOREM AnswersAreOfTheZone == ASSUME ~PrivateLLQ PROVE DnsExtdSpec => []AnswersFollowTheZone
<1>1. ClientsInv /\ Follows => AnswersFollowTheZone
  BY FollowsIsMeant
<1> QED
  BY <1>1, ClientsInvHolds, FollowsHolds, PTL

-----------------------------------------------------------------------------
(* The client of a long-lived query.                                          *)

Requests == {"setup", "challenge", "refresh", "acked", "poll", "nothing"}
Answers == {"setup", "ack", "refreshed", "refused", "answer", "event"}

QueryMessage ==
  [to : {"server", "client"}, kind : Requests \union Answers, via : {"udp", "tcp"},
   id : {0} \union Ids, lease : BOOLEAN, version : Nat, err : BOOLEAN, now : BOOLEAN]

(* The counters of a question are left open: their bounds play no part.       *)
Question ==
  [on : BOOLEAN, state : {"InitialRequest", "SecondaryRequest", "Established", "Poll"},
   timer : BOOLEAN, private : BOOLEAN, nta : {"none", "SOA", "SRV", "A", "known"}, label : Nat,
   asks : {"LLQ", "query"}, servPort : BOOLEAN, unusable : BOOLEAN,
   tcp : {"none", "connecting", "open", "answered"}, request : {"none", "refresh"},
   ntries : Nat, id : {0} \union Ids, ReqLease : BOOLEAN, expired : BOOLEAN,
   seen : Nat, latest : Nat, misled : BOOLEAN]

Server ==
  [version : Nat, entry : [Ids -> {"none", "requested", "established"}], told : [Ids -> Nat],
   used : 0 .. Entries]

Types == q \in Question /\ server \in Server /\ \A m \in net : m \in QueryMessage

(* Nobody knows more than there is.                                           *)
Versioned ==
  /\ \A m \in net : m.version <= server.version
  /\ \A i \in Ids : server.told[i] <= server.version
  /\ q.latest <= server.version

(* The server gives each query a number that nothing has had before.          *)
Numbered ==
  /\ \A m \in net : m.id <= server.used
  /\ \A i \in Ids : server.entry[i] # "none" => i <= server.used
  /\ q.id <= server.used

(* The question knows what the server has established, and has not taken a    *)
(* challenge for that.                                                        *)
Knows == q.state = "Established" /\ ~q.misled /\ q.id # 0

(* A query that was acknowledged, or has had events, is not at its beginning. *)
Begun ==
  /\ \A m \in net : m.kind \in {"ack", "event", "acked"} /\ m.id # 0 => server.entry[m.id] # "requested"
  /\ Knows => server.entry[q.id] # "requested"

(* The numbers that the question has, or may have again.                      *)
Mine == {q.id} \union {m.id : m \in {n \in net : n.now /\ n.kind \in {"setup", "ack", "challenge"}}}

(* An event is acknowledged by who has seen it, or by one that is no more.    *)
Acked ==
  \A m \in net : m.kind = "acked" =>
    IF m.now THEN m.version <= q.latest ELSE m.id = 0 \/ m.id \notin Mine

(* What the server counts on has been seen, or comes with what tells the      *)
(* question that its query is established.                                    *)
Told ==
  /\ Knows /\ server.entry[q.id] = "established" => server.told[q.id] <= q.latest
  /\ \A m \in net : m.now /\ m.kind \in {"ack", "event"} /\ m.id # 0 /\ m.id \in Mine =>
       server.told[m.id] <= m.version \/ server.told[m.id] <= q.latest

(* Who asks for nothing waits for nothing.                                    *)
Silent == ~q.on => q = NewQuestion /\ \A m \in net : m.now => m.kind = "event" /\ m.to = "client"

LLQInv == Types /\ Versioned /\ Numbered /\ Begun /\ Acked /\ Told /\ Silent

LEMMA LLQInit == ASSUME LongLivedAssumption PROVE LongLivedInit => LLQInv
  BY DEF LongLivedAssumption, LongLivedInit, LLQInv, Types, Versioned, Numbered, Begun, Knows, Acked,
     Told, Silent, NewQuestion, Question, Server, Ids

-----------------------------------------------------------------------------
(* What a handler may make of a question p when the messages got have come:   *)
(* x, and what is sent.                                                       *)

Sends(sent, x, got) == \A s \in sent :
  /\ s \in QueryMessage /\ s.to = "server" /\ s.now /\ ~s.err /\ s.id \in {0, x.id}
  /\ s.kind \in Requests
  /\ IF s.kind = "acked"
     THEN s.version <= x.latest /\ \E m \in got : m.kind = "event" /\ m.id = s.id
     ELSE s.version = 0

NamesAQuery(m) == m.now /\ m.kind \in {"setup", "ack"}

(* An acknowledgment, or an event of the query that p has.                    *)
Confirms(m, p) == m.now /\ (m.kind = "ack" \/ (m.kind = "event" /\ m.id = p.id))

Handles(p, x, got) ==
  /\ x \in Question /\ x.on = p.on
  /\ p.latest <= x.latest
  /\ x.latest = p.latest \/ \E m \in got : x.latest = m.version
  /\ x.id = p.id \/ \E m \in got : NamesAQuery(m) /\ x.id = m.id
  /\ x.state = "Established" /\ ~x.misled =>
       \/ p.state = "Established" /\ ~p.misled /\ x.id = p.id
       \/ \E m \in got : Confirms(m, p) /\ x.id = m.id /\ m.version <= x.latest

LEMMA HandlingKeeps ==
  ASSUME LongLivedAssumption, LLQInv, NEW x, NEW sent, NEW got \in SUBSET net,
         Handles(q, x, got), Sends(sent, x, got), q.on \/ (x = q /\ sent = {}),
         \A m \in got : m.to = "client",
         q' = x, net' \subseteq (net \ got) \union sent, UNCHANGED server
  PROVE  LLQInv'
<1>1. Types'
  BY DEF LLQInv, Types, Handles, Sends
<1>2. Versioned'
  BY <1>1 DEF LLQInv, Types, Versioned, Handles, Sends, QueryMessage, Question, Server
<1>3. Numbered'
  <2>1. x.id <= server.used
    BY DEF LLQInv, Types, Numbered, Handles
  <2>2. 0 <= server.used
    BY DEF LLQInv, Types, Server
  <2>3. \A s \in sent : s.id <= server.used
    BY <2>1, <2>2 DEF Sends
  <2> QED BY <2>1, <2>3 DEF LLQInv, Numbered
<1>4. Begun'
  <2>1. \A n \in net' : n.kind \in {"ack", "event", "acked"} /\ n.id # 0 => server.entry[n.id] # "requested"
    BY DEF LLQInv, Begun, Sends, Requests
  <2>2. Knows' => server.entry[x.id] # "requested"
    BY DEF LLQInv, Begun, Knows, Handles, Confirms
  <2> QED BY <2>1, <2>2 DEF Begun
<1>5. Mine' \subseteq Mine \union {0}
  <2>1. x.id \in Mine
    BY DEF Mine, Handles, NamesAQuery
  <2>2. \A n \in net' : n \in net \/ n.id \in {0, x.id}
    BY DEF Sends
  <2> QED BY <2>1, <2>2 DEF Mine
<1>6. q.latest \in Nat /\ x.latest \in Nat /\ q.latest <= x.latest
  BY DEF LLQInv, Types, Handles, Question
<1>7. Acked'
  BY <1>1, <1>5, <1>6 DEF LLQInv, Types, Acked, Sends, QueryMessage
<1>8. Told'
  <2>1. \A i \in Ids : server.told[i] \in Nat
    BY DEF LLQInv, Types, Server
  <2>2. ASSUME Knows', server.entry[x.id] = "established" PROVE server.told[x.id] <= x.latest
    <3>1. x.id \in Ids
      BY <2>2 DEF Handles, Question, Knows
    <3>2. CASE q.state = "Established" /\ ~q.misled /\ x.id = q.id
      BY <1>6, <2>1, <2>2, <3>1, <3>2 DEF LLQInv, Told, Knows
    <3>3. CASE \E m \in got : Confirms(m, q) /\ x.id = m.id /\ m.version <= x.latest
      <4>1. PICK m \in got : Confirms(m, q) /\ x.id = m.id /\ m.version <= x.latest
        BY <3>3
      <4>2. m \in net /\ m \in QueryMessage /\ m.id \in Mine /\ m.id # 0
        BY <2>2, <4>1 DEF LLQInv, Types, Confirms, Mine, Knows
      <4>3. server.told[m.id] <= m.version \/ server.told[m.id] <= q.latest
        BY <4>1, <4>2 DEF LLQInv, Told, Confirms
      <4>4. m.version \in Nat
        BY <4>2 DEF QueryMessage
      <4> QED BY <1>6, <2>1, <3>1, <4>1, <4>3, <4>4
    <3> QED BY <2>2, <3>2, <3>3 DEF Handles, Knows
  <2>3. ASSUME NEW n \in net', n.now, n.kind \in {"ack", "event"}, n.id # 0, n.id \in Mine'
        PROVE  server.told[n.id] <= n.version \/ server.told[n.id] <= x.latest
    <3>1. n \in net /\ n.id \in Mine /\ n.id \in Ids
      BY <1>5, <2>3 DEF Sends, Requests, LLQInv, Types, QueryMessage
    <3> QED BY <1>6, <2>1, <2>3, <3>1 DEF LLQInv, Told
  <2> QED BY <2>2, <2>3 DEF Told, Knows
<1>9. Silent'
  BY <1>1 DEF LLQInv, Types, Silent, Handles, Sends, QueryMessage, Question
<1> QED BY <1>1, <1>2, <1>3, <1>4, <1>7, <1>8, <1>9 DEF LLQInv

-----------------------------------------------------------------------------
(* What the functions of the client do.                                       *)

Goes(p, r) == Handles(p, r.q, {}) /\ Sends(r.sent, r.q, {})

LEMMA Unsent == ASSUME NEW p, NEW x, Handles(p, x, {}) PROVE Goes(p, Quiet(x))
  BY DEF Goes, Quiet, Result, Sends

LEMMA OneSent ==
  ASSUME NEW p, NEW x, Handles(p, x, {}), NEW s, Sends({s}, x, {})
  PROVE  Goes(p, Result(x, {s}))
  BY DEF Goes, Result

LEMMA Then ==
  ASSUME NEW p \in Question, NEW y, NEW x, NEW got, Handles(p, y, got), Handles(y, x, {})
  PROVE  Handles(p, x, got)
<1>1. p.latest \in Nat /\ y.latest \in Nat /\ x.latest \in Nat
  BY DEF Handles, Question
<1> QED BY <1>1 DEF Handles

LEMMA ThenGoes ==
  ASSUME NEW p \in Question, NEW y, NEW r, Handles(p, y, {}), Goes(y, r)
  PROVE  Goes(p, r)
  BY Then DEF Goes

(* Who changes none of what the invariant is about.                           *)
Alike(p, x) ==
  /\ x.on = p.on /\ x.latest = p.latest /\ x.id = p.id
  /\ x.state = "Established" => p.state = "Established" /\ x.misled = p.misled

LEMMA AlikeHandles ==
  ASSUME NEW p \in Question, NEW x \in Question, Alike(p, x)
  PROVE  Handles(p, x, {})
<1>1. p.latest \in Nat /\ x.latest \in Nat
  BY DEF Question
<1> QED BY <1>1 DEF Handles, Alike

LEMMA Same == ASSUME NEW p \in Question PROVE Handles(p, p, {})
  BY AlikeHandles DEF Alike

LEMMA Small ==
  ASSUME NEW p \in Question
  PROVE  /\ Handles(p, Timer(p), {}) /\ Handles(p, StartLLQPolling(p), {})
         /\ Handles(p, DisposeTCPConn(p), {}) /\ Handles(p, CancelGetZoneData(p), {})
         /\ Handles(p, SetLLQTimer(p), {})
         /\ \A asks \in {"LLQ", "query"} : Handles(p, StartGetZoneData(p, asks), {})
         /\ \A request \in {"none", "refresh"} : Handles(p, MakeTCPConn(p, request), {})
<1>1. Handles(p, Timer(p), {})
  <2>1. Timer(p) \in Question
    BY DEF Timer, Question
  <2>2. Alike(p, Timer(p))
    BY DEF Timer, Question, Alike
  <2> QED BY <2>1, <2>2, AlikeHandles
<1>2. Handles(p, StartLLQPolling(p), {})
  <2>1. StartLLQPolling(p) \in Question
    BY DEF Timer, StartLLQPolling, Question
  <2>2. Alike(p, StartLLQPolling(p))
    BY DEF Timer, StartLLQPolling, Question, Alike
  <2> QED BY <2>1, <2>2, AlikeHandles
<1>3. Handles(p, DisposeTCPConn(p), {})
  <2>1. DisposeTCPConn(p) \in Question
    BY DEF DisposeTCPConn, Question
  <2>2. Alike(p, DisposeTCPConn(p))
    BY DEF DisposeTCPConn, Question, Alike
  <2> QED BY <2>1, <2>2, AlikeHandles
<1>4. Handles(p, CancelGetZoneData(p), {})
  <2>1. CancelGetZoneData(p) \in Question
    BY DEF CancelGetZoneData, Question
  <2>2. Alike(p, CancelGetZoneData(p))
    BY DEF CancelGetZoneData, Question, Alike
  <2> QED BY <2>1, <2>2, AlikeHandles
<1>5. Handles(p, SetLLQTimer(p), {})
  <2>1. SetLLQTimer(p) \in Question
    BY DEF Timer, SetLLQTimer, Question
  <2>2. Alike(p, SetLLQTimer(p))
    BY DEF Timer, SetLLQTimer, Question, Alike
  <2> QED BY <2>1, <2>2, AlikeHandles
<1>6. ASSUME NEW asks \in {"LLQ", "query"} PROVE Handles(p, StartGetZoneData(p, asks), {})
  <2>1. StartGetZoneData(p, asks) \in Question
    BY DEF StartGetZoneData, Question
  <2>2. Alike(p, StartGetZoneData(p, asks))
    BY DEF StartGetZoneData, Question, Alike
  <2> QED BY <2>1, <2>2, AlikeHandles
<1>7. ASSUME NEW request \in {"none", "refresh"} PROVE Handles(p, MakeTCPConn(p, request), {})
  <2>1. MakeTCPConn(p, request) \in Question
    BY DEF MakeTCPConn, Question
  <2>2. Alike(p, MakeTCPConn(p, request))
    BY DEF MakeTCPConn, Question, Alike
  <2> QED BY <2>1, <2>2, AlikeHandles
<1> QED BY <1>1, <1>2, <1>3, <1>4, <1>5, <1>6, <1>7

Kept(p, x) ==
  /\ x \in Question /\ x.on = p.on /\ x.id = p.id /\ x.state = p.state
  /\ x.latest = p.latest /\ x.misled = p.misled

LEMMA KeptBy ==
  ASSUME NEW p \in Question
  PROVE  /\ Kept(p, Timer(p)) /\ Kept(p, CancelGetZoneData(p)) /\ Kept(p, DisposeTCPConn(p))
         /\ Kept(p, MakeTCPConn(p, "none")) /\ Kept(p, SetLLQTimer(p))
<1>1. /\ Timer(p) \in Question /\ CancelGetZoneData(p) \in Question /\ DisposeTCPConn(p) \in Question
      /\ MakeTCPConn(p, "none") \in Question /\ SetLLQTimer(p) \in Question
  BY Small DEF Handles
<1>2. Kept(p, Timer(p))
  BY <1>1 DEF Kept, Timer, Question
<1>3. Kept(p, CancelGetZoneData(p))
  BY <1>1 DEF Kept, CancelGetZoneData, Question
<1>4. Kept(p, DisposeTCPConn(p))
  BY <1>1 DEF Kept, DisposeTCPConn, Question
<1>5. Kept(p, MakeTCPConn(p, "none"))
  BY <1>1 DEF Kept, MakeTCPConn, Question
<1>6. Kept(p, SetLLQTimer(p))
  BY <1>1 DEF Kept, SetLLQTimer, Timer, Question
<1> QED BY <1>2, <1>3, <1>4, <1>5, <1>6

LEMMA MessageIs ==
  ASSUME NEW kind \in Requests, NEW p \in Question, NEW lease \in BOOLEAN
  PROVE  LET s == Message(kind, p, lease) IN
         /\ s \in QueryMessage /\ s.to = "server" /\ s.now /\ ~s.err /\ s.id = p.id /\ s.kind = kind
         /\ s.version = 0 /\ s.via = IF p.tcp = "none" THEN "udp" ELSE "tcp"
  BY DEF Message, QueryMessage, Question

LEMMA MessageSends ==
  ASSUME NEW kind \in {"challenge", "refresh", "poll", "nothing"}, NEW p \in Question,
         NEW lease \in BOOLEAN, NEW x, x.id = p.id
  PROVE  Sends({Message(kind, p, lease)}, x, {})
<1>1. kind \in Requests
  BY DEF Requests
<1> QED BY <1>1, MessageIs DEF Sends

LEMMA ChallengeGoes ==
  ASSUME LongLivedAssumption, NEW p \in Question
  PROVE  Goes(p, sendChallengeResponse(p))
<1> DEFINE more == [p EXCEPT !.ntries = @ + 1]
<1>1. more \in Question /\ Handles(p, more, {})
  <2>1. more \in Question
    BY DEF Question
  <2>2. Alike(p, more)
    BY DEF Alike, Question
  <2> QED BY <2>1, <2>2, AlikeHandles
<1>2. Handles(p, StartLLQPolling(more), {}) /\ Handles(p, Timer(more), {})
  BY <1>1, Small, Then
<1>3. Sends({Message("challenge", p, TRUE)}, Timer(more), {})
  <2>1. Timer(more).id = p.id
    BY <1>2 DEF Handles
  <2> QED BY <2>1, MessageSends
<1> QED BY <1>2, <1>3, Unsent, OneSent, Same DEF sendChallengeResponse

LEMMA NextTry ==
  ASSUME NEW p \in Question, NEW n \in Nat
  PROVE  LET x == [p EXCEPT !.ntries = n, !.state = "InitialRequest", !.ReqLease = TRUE, !.misled = FALSE]
         IN x \in Question /\ Handles(p, x, {})
<1> DEFINE x == [p EXCEPT !.ntries = n, !.state = "InitialRequest", !.ReqLease = TRUE, !.misled = FALSE]
<1>1. x \in Question
  BY DEF Question
<1>2. Alike(p, x)
  BY DEF Alike, Question
<1> QED BY <1>1, <1>2, AlikeHandles

LEMMA HandshakeGoes ==
  ASSUME LongLivedAssumption, NEW p \in Question, NEW nat
  PROVE  Goes(p, startLLQHandshake(p, nat))
<1> DEFINE closed == DisposeTCPConn(p)
           next == [p EXCEPT !.ntries = @ + 1, !.state = "InitialRequest", !.ReqLease = TRUE, !.misled = FALSE]
           more == Timer(next)
           setup == [Message("setup", p, TRUE) EXCEPT !.id = 0, !.via = "udp"]
<1>1. Handles(p, closed, {}) /\ closed \in Question
  BY Small DEF Handles
<1>2. CASE nat = "asking" \/ nat # "mapped"
  BY <1>2, Small, Unsent DEF startLLQHandshake
<1>3. CASE nat = "mapped" /\ ~p.servPort
  <2> DEFINE timed == [Timer(p) EXCEPT !.unusable = FALSE]
  <2>1. timed \in Question /\ Handles(p, timed, {})
    <3>1. timed \in Question
      BY DEF Question, Timer
    <3>2. Alike(p, timed)
      BY DEF Alike, Question, Timer
    <3> QED BY <3>1, <3>2, AlikeHandles
  <2>2. Handles(p, StartGetZoneData(timed, "LLQ"), {})
    BY <2>1, Small, Then
  <2> QED BY <1>3, <2>2, Unsent DEF startLLQHandshake
<1>4. CASE nat = "mapped" /\ p.servPort /\ p.private
  <2> DEFINE made == [MakeTCPConn(closed, "none") EXCEPT
                              !.state = "SecondaryRequest", !.ReqLease = TRUE, !.timer = FALSE]
  <2>1. Handles(p, StartGetZoneData(closed, "LLQ"), {}) /\ Handles(p, Timer(closed), {})
    BY <1>1, Small, Then
  <2>2. MakeTCPConn(closed, "none") \in Question /\ Handles(p, MakeTCPConn(closed, "none"), {})
    BY ZenonT(60), <1>1, Small, Then DEF Handles
  <2>3. Handles(p, made, {})
    BY ZenonT(60), <2>2 DEF Handles, Question
  <2>4. p.nta \in {"none", "SOA", "SRV", "A", "known"}
    BY DEF Question
  <2> QED BY <1>4, <2>1, <2>3, <2>4, Unsent DEF startLLQHandshake
<1>5. CASE nat = "mapped" /\ p.servPort /\ ~p.private /\ p.ntries >= kLLQ_MAX_TRIES
  <2>1. [p EXCEPT !.ntries = kLLQ_MAX_TRIES + 1] \in Question /\ Handles(p, [p EXCEPT !.ntries = kLLQ_MAX_TRIES + 1], {})
    <3>1. [p EXCEPT !.ntries = kLLQ_MAX_TRIES + 1] \in Question
      BY DEF Question, LongLivedAssumption
    <3>2. Alike(p, [p EXCEPT !.ntries = kLLQ_MAX_TRIES + 1])
      BY DEF Alike, Question, LongLivedAssumption
    <3> QED BY <3>1, <3>2, AlikeHandles
  <2>2. Handles(p, StartLLQPolling([p EXCEPT !.ntries = kLLQ_MAX_TRIES + 1]), {})
    BY <2>1, Small, Then
  <2> QED BY <1>5, <2>2, Unsent DEF startLLQHandshake
<1>6. CASE nat = "mapped" /\ p.servPort /\ ~p.private /\ ~(p.ntries >= kLLQ_MAX_TRIES)
  <2>1. Handles(p, more, {})
    <3>1. p.ntries + 1 \in Nat
      BY DEF Question
    <3>2. next \in Question /\ Handles(p, next, {})
      BY <3>1, NextTry
    <3>3. Handles(next, Timer(next), {})
      BY <3>2, Small
    <3> QED BY <3>2, <3>3, Then
  <2>2. setup \in QueryMessage /\ setup.to = "server" /\ setup.now /\ ~setup.err /\ setup.id = 0 
        /\ setup.kind = "setup" /\ setup.version = 0
    <3>1. Message("setup", p, TRUE) \in QueryMessage
      BY MessageIs DEF Requests
    <3>2. setup \in QueryMessage
      BY <3>1 DEF QueryMessage
    <3> QED BY <3>2, MessageIs DEF Requests, QueryMessage, Message
  <2>4. Sends({setup}, more, {})
    BY <2>2 DEF Sends, Requests
  <2> QED BY <1>6, <2>1, <2>4, OneSent DEF startLLQHandshake
<1> QED BY <1>2, <1>3, <1>4, <1>5, <1>6

LEMMA RefreshGoes ==
  ASSUME LongLivedAssumption, NEW p \in Question
  PROVE  Goes(p, sendLLQRefresh(p))
<1> DEFINE more == [p EXCEPT !.ntries = IF @ > kLLQ_MAX_TRIES THEN @ ELSE @ + 1]
<1>1. more \in Question /\ Handles(p, more, {})
  <2>1. more \in Question
    BY DEF Question
  <2>2. Alike(p, more)
    BY DEF Alike, Question
  <2> QED BY <2>1, <2>2, AlikeHandles
<1>2. Handles(p, MakeTCPConn(more, "refresh"), {}) /\ Handles(p, DisposeTCPConn(more), {})
  BY <1>1, Small, Then
<1>3. Sends({Message("refresh", p, p.ReqLease)}, more, {})
  <2>1. more.id = p.id /\ p.ReqLease \in BOOLEAN
    BY <1>1 DEF Handles, Question
  <2> QED BY <2>1, MessageSends
<1> QED BY <1>1, <1>2, <1>3, Unsent, OneSent, Same, Small DEF sendLLQRefresh

LEMMA ZoneDataGoes ==
  ASSUME LongLivedAssumption, NEW p \in Question, NEW found \in BOOLEAN, NEW private \in BOOLEAN
  PROVE  Goes(p, ZoneDataCallback(p, found, private))
<1>1. Goes(p, LLQGotZoneData(p, found))
  <2> DEFINE x == [p EXCEPT !.servPort = TRUE, !.unusable = FALSE, !.ntries = 0,
                            !.nta = IF p.private THEN "known" ELSE "none"]
             y == [CancelGetZoneData(p) EXCEPT !.servPort = FALSE, !.unusable = FALSE]
  <2>1. x \in Question /\ Handles(p, x, {})
    <3>1. x \in Question
      BY ZenonT(60) DEF Question
    <3>2. Alike(p, x)
      BY DEF Alike, Question
    <3> QED BY <3>1, <3>2, AlikeHandles
  <2>2. y \in Question /\ Handles(p, y, {})
    <3>1. y \in Question
      BY DEF Question, CancelGetZoneData
    <3>2. Alike(p, y)
      BY DEF Alike, Question, CancelGetZoneData
    <3> QED BY <3>1, <3>2, AlikeHandles
  <2>3. Goes(p, startLLQHandshake(x, LLQNAT))
    BY <2>1, HandshakeGoes, ThenGoes
  <2>4. Handles(p, StartLLQPolling(y), {})
    BY <2>2, Small, Then
  <2> QED BY <2>3, <2>4, Unsent DEF LLQGotZoneData
<1>2. Goes(p, PrivateQueryGotZoneData(p, found, private))
  <2> DEFINE x == [CancelGetZoneData(p) EXCEPT !.private = FALSE]
  <2>1. x \in Question /\ Handles(p, x, {})
    <3>1. x \in Question
      BY DEF Question, CancelGetZoneData
    <3>2. Alike(p, x)
      BY DEF Alike, Question, CancelGetZoneData
    <3> QED BY <3>1, <3>2, AlikeHandles
  <2>2. Handles(p, Timer(x), {})
    BY <2>1, Small, Then
  <2>3. DisposeTCPConn(p) \in Question /\ Handles(p, DisposeTCPConn(p), {})
    BY Small DEF Handles
  <2>4. MakeTCPConn(DisposeTCPConn(p), "none") \in Question /\ Handles(p, MakeTCPConn(DisposeTCPConn(p), "none"), {})
    BY ZenonT(60), <2>3, Small, Then DEF Handles
  <2>5. Handles(p, CancelGetZoneData(MakeTCPConn(DisposeTCPConn(p), "none")), {})
    BY <2>4, Small, Then
  <2>6. Handles(p, CancelGetZoneData(p), {})
    BY Small
  <2> QED BY <2>2, <2>5, <2>6, Unsent DEF PrivateQueryGotZoneData
<1> QED BY <1>1, <1>2 DEF ZoneDataCallback

-----------------------------------------------------------------------------
(* Answers.                                                                   *)

LEMMA SawIs ==
  ASSUME NEW p \in Question, NEW version \in Nat
  PROVE  LET x == Saw(p, version) IN
         /\ x \in Question /\ x.on = p.on /\ x.id = p.id /\ x.state = p.state /\ x.misled = p.misled
         /\ p.latest <= x.latest /\ version <= x.latest /\ x.latest \in {p.latest, version}
<1>1. Saw(p, version) \in Question
  BY DEF Saw, Question
<1>2. p.latest \in Nat
  BY DEF Question
<1> QED BY <1>1, <1>2 DEF Saw, Question

LEMMA ShowsIs ==
  ASSUME NEW p \in Question, NEW m \in QueryMessage
  PROVE  LET x == Shows(p, m) IN
         /\ x \in Question /\ x.on = p.on /\ x.id = p.id /\ x.state = p.state /\ x.misled = p.misled
         /\ p.latest <= x.latest /\ x.latest \in {p.latest, m.version}
         /\ m.kind \in {"ack", "answer", "event"} => m.version <= x.latest
<1>1. m.version \in Nat /\ p.latest \in Nat
  BY DEF QueryMessage, Question
<1>2. CASE m.kind \in {"ack", "answer", "event"}
  BY <1>1, <1>2, SawIs DEF Shows
<1>3. CASE m.kind \notin {"ack", "answer", "event"}
  <2>1. [p EXCEPT !.seen = 0] \in Question
    BY DEF Question
  <2> QED BY <1>1, <1>3, <2>1 DEF Shows, Question
<1> QED BY <1>2, <1>3

(* What is seen changes nothing but the answers.                              *)
LEMMA Seeing ==
  ASSUME NEW p \in Question, NEW y, Handles(p, y, {}), NEW m \in QueryMessage,
         NEW x \in {Shows(y, m), Saw(y, m.version)}
  PROVE  Handles(p, x, {m})
<1>1. y \in Question /\ y.latest \in Nat /\ p.latest \in Nat /\ m.version \in Nat
  BY DEF Handles, Question, QueryMessage
<1>2. /\ x \in Question /\ x.on = y.on /\ x.id = y.id /\ x.state = y.state /\ x.misled = y.misled
      /\ y.latest <= x.latest /\ x.latest \in {y.latest, m.version}
  <2>1. CASE x = Shows(y, m)
    BY <1>1, <2>1, ShowsIs
  <2>2. CASE x = Saw(y, m.version)
    BY <1>1, <2>2, SawIs
  <2> QED BY <2>1, <2>2
<1>3. x.latest \in Nat
  BY <1>2 DEF Question
<1> QED BY <1>1, <1>2, <1>3 DEF Handles

LEMMA Before ==
  ASSUME NEW p \in Question, NEW y, NEW x, NEW got, Handles(p, y, {}), Handles(y, x, got)
  PROVE  Handles(p, x, got)
<1>1. p.latest \in Nat /\ y.latest \in Nat /\ x.latest \in Nat
  BY DEF Handles, Question
<1>2. y.id = p.id
  BY DEF Handles
<1> QED BY <1>1, <1>2 DEF Handles, Confirms

IsResult(r) == r = Result(r.q, r.sent)

LEMMA QuietIs == ASSUME NEW x PROVE IsResult(Quiet(x)) /\ Quiet(x).q = x /\ Quiet(x).sent = {}
  BY DEF IsResult, Quiet, Result

LEMMA ResultIs ==
  ASSUME NEW x, NEW sent
  PROVE  IsResult(Result(x, sent)) /\ Result(x, sent).q = x /\ Result(x, sent).sent = sent
  BY DEF IsResult, Result

LEMMA SeesQuiet == ASSUME NEW x, NEW m PROVE Sees(Quiet(x), m) = Quiet(Shows(x, m))
  BY DEF Sees, Quiet, Result

LEMMA SeesResult ==
  ASSUME NEW x, NEW sent, NEW m
  PROVE  Sees(Result(x, sent), m) = Result(Shows(x, m), sent)
  BY DEF Sees, Result

LEMMA SeesIs ==
  ASSUME NEW r, IsResult(r), NEW m
  PROVE  Sees(r, m) = Result(Shows(r.q, m), r.sent)
  BY DEF IsResult, Result, Sees

LEMMA Establishing ==
  ASSUME NEW p \in Question, NEW b \in BOOLEAN
  PROVE  LET x == [p EXCEPT !.state = "Established", !.ntries = 0, !.misled = b] IN
         x \in Question /\ x.on = p.on /\ x.latest = p.latest /\ x.id = p.id /\ x.misled = b
<1>1. [p EXCEPT !.state = "Established", !.ntries = 0, !.misled = b] \in Question
  BY DEF Question
<1> QED BY <1>1 DEF Question

(* A setup answer that is not refused brings the number that is then used; who *)
(* is established with it, and not with the acknowledgment, is misled.         *)
LEMMA SetupResponse ==
  ASSUME LongLivedAssumption, NEW p \in Question, NEW m \in QueryMessage, m.kind \in {"setup", "ack", "refused"}
  PROVE  LET r == recvSetupResponse(p, m) IN
         /\ IsResult(r) /\ Sends(r.sent, r.q, {})
         /\ r.q \in Question /\ r.q.on = p.on /\ r.q.latest = p.latest
         /\ r.q.id = p.id \/ (r.q.id = m.id /\ m.kind \in {"setup", "ack"})
         /\ r.q.state = "Established" /\ ~r.q.misled =>
              \/ p.state = "Established" /\ ~p.misled /\ r.q.id = p.id
              \/ p.state # "InitialRequest" /\ m.kind = "ack" /\ r.q.id = m.id
<1> DEFINE r == recvSetupResponse(p, m)
           y == [p EXCEPT !.state = "SecondaryRequest", !.id = m.id, !.ntries = 0,
                          !.ReqLease = TRUE, !.expired = FALSE]
           known == IF p.private THEN [p EXCEPT !.id = m.id] ELSE p
           x == [known EXCEPT !.state = "Established", !.ntries = 0, !.misled = (m.kind = "setup")]
<1>0. m.id \in {0} \union Ids
  BY DEF QueryMessage
<1>r. CASE m.kind = "refused"
  <2>1. r = Quiet(p)
    BY <1>r DEF recvSetupResponse
  <2> QED BY <2>1, QuietIs, <1>r DEF Sends
<1>1. CASE m.kind # "refused" /\ m.err /\ p.state = "InitialRequest"
  <2>1. r = Quiet(StartLLQPolling(p))
    BY <1>1 DEF recvSetupResponse
  <2>2. Handles(p, StartLLQPolling(p), {})
    BY Small
  <2> QED BY <2>1, <2>2, QuietIs, <1>1 DEF Handles, Sends
<1>2. CASE m.kind # "refused" /\ ~m.err /\ p.state = "InitialRequest"
  <2>1. r = sendChallengeResponse(y)
    BY <1>2 DEF recvSetupResponse
  <2>2. y \in Question
    BY <1>0 DEF Question
  <2>3. y.on = p.on /\ y.latest = p.latest /\ y.id = m.id /\ y.state = "SecondaryRequest"
    BY DEF Question
  <2> HIDE DEF y
  <2>4. Goes(y, r)
    BY <2>1, <2>2, ChallengeGoes
  <2>5. IsResult(r)
    BY <2>1, QuietIs, ResultIs DEF sendChallengeResponse
  <2> QED BY <2>3, <2>4, <2>5, <1>2 DEF Goes, Handles
<1>3. CASE m.kind # "refused" /\ p.state # "InitialRequest"
  <2>1. known \in Question /\ known.on = p.on /\ known.latest = p.latest /\ known.misled = p.misled
        /\ known.state = p.state /\ known.id = IF p.private THEN m.id ELSE p.id
    BY <1>0 DEF Question
  <2> HIDE DEF known
  <2>2. x \in Question /\ x.on = known.on /\ x.latest = known.latest /\ x.id = known.id
        /\ x.misled = (m.kind = "setup")
    <3> DEFINE b == (m.kind = "setup")
    <3>1. b \in BOOLEAN /\ x = [known EXCEPT !.state = "Established", !.ntries = 0, !.misled = b]
      OBVIOUS
    <3> HIDE DEF b, x
    <3>2. /\ x \in Question /\ x.on = known.on /\ x.latest = known.latest /\ x.id = known.id
          /\ x.misled = b
      BY <2>1, <3>1, Establishing, ZenonT(60)
    <3> QED BY <3>2 DEF b
  <2> HIDE DEF x
  <2>4. r = IF m.err THEN Quiet(StartLLQPolling(known))
            ELSE IF known.id # m.id THEN Quiet(known) ELSE Quiet(SetLLQTimer(x))
    BY <1>3 DEF recvSetupResponse, known, x
  <2>5. Handles(known, StartLLQPolling(known), {}) /\ Kept(x, SetLLQTimer(x))
    BY <2>1, <2>2, Small, KeptBy
  <2>6. StartLLQPolling(known).state = "Poll"
    BY <2>1 DEF StartLLQPolling, Timer, Question
  <2>7. CASE m.err
    BY <2>7, <1>3, <2>1, <2>4, <2>5, <2>6, QuietIs DEF Handles, Sends
  <2>8. CASE ~m.err /\ known.id # m.id
    BY <2>8, <1>3, <2>1, <2>4, QuietIs DEF Sends
  <2>9. CASE ~m.err /\ known.id = m.id
    <3>1. r.q = SetLLQTimer(x) /\ r.sent = {} /\ IsResult(r)
      BY <2>9, <2>4, QuietIs
    <3> QED BY <2>9, <1>3, <2>1, <2>2, <2>5, <3>1 DEF Kept, Sends
  <2> QED BY <2>7, <2>8, <2>9
<1>4. m.err \in BOOLEAN
  BY DEF QueryMessage
<1> QED BY <1>r, <1>1, <1>2, <1>3, <1>4

(* What comes is seen; an answer to a plain query has nothing sent back.       *)
Responds(p, r, m) ==
  /\ IsResult(r) /\ Handles(p, r.q, {m}) /\ Sends(r.sent, r.q, {m})
  /\ m.kind = "answer" => r.sent = {}

LEMMA QuietResponds ==
  ASSUME NEW p, NEW m, NEW x, Handles(p, x, {m})
  PROVE  Responds(p, Quiet(x), m)
  BY QuietIs DEF Responds, Sends

LEMMA Fewer == ASSUME NEW p, NEW x, NEW m, Handles(p, x, {}) PROVE Handles(p, x, {m})
  BY DEF Handles

LEMMA SetupResponds ==
  ASSUME LongLivedAssumption, NEW p \in Question, NEW m \in QueryMessage, m.now,
         m.kind \in {"setup", "ack", "refused"}, p.state \in {"InitialRequest", "SecondaryRequest"}
  PROVE  Responds(p, IF p.state = "SecondaryRequest" THEN Sees(recvSetupResponse(p, m), m)
                     ELSE recvSetupResponse(p, m), m)
<1> DEFINE r == recvSetupResponse(p, m)
           x == Shows(r.q, m)
<1>1. /\ IsResult(r) /\ Sends(r.sent, r.q, {})
      /\ r.q \in Question /\ r.q.on = p.on /\ r.q.latest = p.latest
      /\ r.q.id = p.id \/ (r.q.id = m.id /\ m.kind \in {"setup", "ack"})
      /\ r.q.state = "Established" /\ ~r.q.misled => p.state # "InitialRequest" /\ m.kind = "ack" /\ r.q.id = m.id
  BY SetupResponse
<1>2. p.latest \in Nat /\ m.version \in Nat
  BY DEF Question, QueryMessage
<1> HIDE DEF r
<1>3. CASE p.state = "InitialRequest"
  <2>1. Handles(p, r.q, {m})
    BY <1>1, <1>2, <1>3 DEF Handles, NamesAQuery
  <2>2. Sends(r.sent, r.q, {m})
    BY <1>1 DEF Sends
  <2> QED BY <1>1, <1>3, <2>1, <2>2 DEF Responds, r
<1>4. CASE p.state = "SecondaryRequest"
  <2>1. Sees(r, m) = Result(x, r.sent)
    BY <1>1, SeesIs
  <2>2. /\ x \in Question /\ x.on = r.q.on /\ x.id = r.q.id /\ x.state = r.q.state /\ x.misled = r.q.misled
        /\ r.q.latest <= x.latest /\ x.latest \in {r.q.latest, m.version}
        /\ m.kind = "ack" => m.version <= x.latest
    BY <1>1, ShowsIs
  <2> HIDE DEF x
  <2>3. Handles(p, x, {m})
    BY <1>1, <1>2, <1>4, <2>2 DEF Handles, NamesAQuery, Confirms
  <2>4. Sends(r.sent, x, {m})
    BY <1>1, <2>2 DEF Sends
  <2> QED BY <1>4, <2>1, <2>3, <2>4, ResultIs DEF Responds, r
<1> QED BY <1>3, <1>4

LEMMA Answered ==
  ASSUME NEW p \in Question
  PROVE  Handles(p, [p EXCEPT !.tcp = "answered"], {})
<1>1. [p EXCEPT !.tcp = "answered"] \in Question
  BY DEF Question
<1>2. Alike(p, [p EXCEPT !.tcp = "answered"])
  BY DEF Alike, Question
<1> QED BY <1>1, <1>2, AlikeHandles

LEMMA Refreshed ==
  ASSUME NEW p \in Question, NEW lease \in BOOLEAN
  PROVE  LET x == [p EXCEPT !.ntries = 0, !.ReqLease = lease] IN x \in Question /\ Handles(p, x, {})
<1> DEFINE x == [p EXCEPT !.ntries = 0, !.ReqLease = lease]
<1>1. x \in Question
  BY DEF Question
<1>2. Alike(p, x)
  BY DEF Alike, Question
<1> QED BY <1>1, <1>2, AlikeHandles

LEMMA EventAcked ==
  ASSUME NEW p \in Question, NEW m \in QueryMessage, m.kind = "event", m.id = p.id,
         NEW x, x.id = p.id, m.version <= x.latest
  PROVE  Sends({[Message("acked", p, TRUE) EXCEPT !.version = m.version, !.via = "udp"]}, x, {m})
<1> DEFINE base == Message("acked", p, TRUE)
           acked == [base EXCEPT !.version = m.version, !.via = "udp"]
<1>1. /\ base \in QueryMessage /\ base.to = "server" /\ base.now /\ ~base.err /\ base.id = p.id
      /\ base.kind = "acked"
  BY ZenonT(60), MessageIs DEF Requests
<1> HIDE DEF base
<1>2. acked \in QueryMessage
  BY <1>1 DEF QueryMessage
<1>3. /\ acked.to = "server" /\ acked.now /\ ~acked.err /\ acked.id = p.id /\ acked.kind = "acked"
      /\ acked.version = m.version
  BY <1>1 DEF QueryMessage
<1> HIDE DEF acked
<1>4. Sends({acked}, x, {m})
  BY <1>2, <1>3 DEF Sends, Requests
<1> QED BY <1>4 DEF acked, base

(* A query is no longer misled when the acknowledgment or an event comes.      *)
LEMMA Undeceived ==
  ASSUME NEW p \in Question, NEW m \in QueryMessage, m.now, m.kind \in {"ack", "event"},
         NEW x \in {Shows(NotMisled(p, m), m), Saw(NotMisled(p, m), m.version)}
  PROVE  Handles(p, x, {m}) /\ x.id = p.id /\ m.version <= x.latest
<1> DEFINE y == NotMisled(p, m)
<1>1. /\ y \in Question /\ y.on = p.on /\ y.id = p.id /\ y.state = p.state /\ y.latest = p.latest
      /\ ~y.misled => ~p.misled \/ m.id = p.id
  BY DEF NotMisled, Question
<1>2. p.latest \in Nat /\ m.version \in Nat
  BY DEF Question, QueryMessage
<1> HIDE DEF y
<1>3. /\ x \in Question /\ x.on = y.on /\ x.id = y.id /\ x.state = y.state /\ x.misled = y.misled
      /\ y.latest <= x.latest /\ x.latest \in {y.latest, m.version} /\ m.version <= x.latest
  <2>1. CASE x = Shows(y, m)
    BY <1>1, <2>1, ShowsIs
  <2>2. CASE x = Saw(y, m.version)
    BY <1>1, <1>2, <2>2, SawIs
  <2> QED BY <2>1, <2>2 DEF y
<1> QED BY <1>1, <1>2, <1>3 DEF Handles, Confirms

LEMMA ResponseGoes ==
  ASSUME LongLivedAssumption, q \in Question, NEW m \in QueryMessage
  PROVE  Responds(q, uDNS_recvLLQResponse(m), m)
<1> DEFINE p == IF q.tcp = "open" /\ m.via = "tcp" THEN [q EXCEPT !.tcp = "answered"] ELSE q
           again == [p EXCEPT !.servPort = FALSE,
                        !.state = IF ~p.unusable /\ LLQNAT = "mapped" THEN "InitialRequest" ELSE @]
           acked == [Message("acked", p, TRUE) EXCEPT !.version = m.version, !.via = "udp"]
           told == NotMisled(p, m)
           fresh == [p EXCEPT !.ntries = 0, !.ReqLease = m.lease]
           r == uDNS_recvLLQResponse(m)
<1>1. p \in Question /\ Handles(q, p, {})
  <2> DEFINE open == [q EXCEPT !.tcp = "answered"]
  <2>1. Handles(q, open, {}) /\ Handles(q, q, {})
    BY Answered, Same
  <2> HIDE DEF open
  <2>2. p = open \/ p = q
    BY DEF open
  <2> HIDE DEF p
  <2> QED BY <2>1, <2>2 DEF Handles
<1> HIDE DEF p
<1>2. ASSUME NEW x, Responds(p, x, m) PROVE Responds(q, x, m)
  BY <1>1, <1>2, Before DEF Responds
<1>3. Responds(p, Quiet(p), m)
  BY <1>1, Same, Fewer, QuietResponds
<1>4. Responds(p, Sees(Quiet(Timer(again)), m), m) \/ p.state # "Poll"
  <2> SUFFICES ASSUME p.state = "Poll" PROVE Responds(p, Sees(Quiet(Timer(again)), m), m)
    OBVIOUS
  <2>1. again \in Question
    BY ZenonT(60), <1>1 DEF Question
  <2>2. Alike(p, again)
    BY <1>1 DEF Alike, Question
  <2> HIDE DEF again
  <2>3. Handles(p, Timer(again), {})
    BY <1>1, <2>1, <2>2, AlikeHandles, Small, Then
  <2>4. Handles(p, Shows(Timer(again), m), {m})
    BY <1>1, <2>3, Seeing
  <2>5. Sees(Quiet(Timer(again)), m) = Quiet(Shows(Timer(again), m))
    BY SeesQuiet
  <2> QED BY <2>4, <2>5, QuietResponds
<1>5. m.now /\ m.kind = "event" /\ m.id = p.id => Responds(p, Sees(Result(told, {acked}), m), m)
  <2> SUFFICES ASSUME m.now, m.kind = "event", m.id = p.id PROVE Responds(p, Sees(Result(told, {acked}), m), m)
    OBVIOUS
  <2> DEFINE x == Shows(told, m)
  <2>1. Sees(Result(told, {acked}), m) = Result(x, {acked})
    BY SeesResult
  <2>2. Handles(p, x, {m}) /\ x.id = p.id /\ m.version <= x.latest
    BY <1>1, Undeceived
  <2> HIDE DEF x
  <2>3. Sends({acked}, x, {m})
    BY <1>1, <2>2, EventAcked
  <2> QED BY <2>1, <2>2, <2>3, ResultIs DEF Responds
<1>6. Responds(p, Quiet(IF m.err THEN p ELSE SetLLQTimer(fresh)), m)
  <2>0. m.lease \in BOOLEAN
    BY DEF QueryMessage
  <2>1. fresh \in Question /\ Handles(p, fresh, {})
    BY <1>1, <2>0, Refreshed
  <2> HIDE DEF fresh
  <2>2. Handles(fresh, SetLLQTimer(fresh), {})
    BY <2>1, Small
  <2>3. Handles(p, SetLLQTimer(fresh), {})
    BY <1>1, <2>1, <2>2, Then
  <2> QED BY <1>3, <2>3, Fewer, QuietResponds
<1>7. Responds(p, Quiet(Saw(p, m.version)), m)
  BY <1>1, Same, Seeing, QuietResponds
<1>a. m.now /\ m.kind = "ack" => Responds(p, Quiet(Saw(told, m.version)), m)
  BY <1>1, Undeceived, QuietResponds
<1>8. Responds(p, r, m)
  <2> DEFINE setup == {"setup", "ack", "refreshed", "refused"}
             handled == IF m.kind = "refreshed" THEN Quiet(p) ELSE recvSetupResponse(p, m)
  <2>1. CASE ~m.now
    BY <2>1, <1>3 DEF uDNS_recvLLQResponse, p
  <2>2. CASE m.now /\ p.state = "Poll" /\ m.kind \in setup \union {"answer"}
    BY <2>2, <1>4 DEF uDNS_recvLLQResponse, p
  <2>3. CASE m.now /\ p.state = "Established" /\ m.kind = "event" /\ m.id = p.id
    BY <2>3, <1>5 DEF uDNS_recvLLQResponse, p
  <2>4. CASE m.now /\ p.state = "Established" /\ m.kind = "refreshed" /\ m.id = p.id
    BY <2>4, <1>6 DEF uDNS_recvLLQResponse, p
  <2>5. CASE m.now /\ p.state \in {"InitialRequest", "SecondaryRequest"} /\ m.kind \in setup
    <3>1. r = IF p.state = "SecondaryRequest" THEN Sees(handled, m) ELSE handled
      BY <2>5 DEF uDNS_recvLLQResponse, p
    <3>2. CASE m.kind = "refreshed"
      <4>1. Sees(Quiet(p), m) = Quiet(Shows(p, m))
        BY SeesQuiet
      <4>2. Responds(p, Quiet(Shows(p, m)), m)
        BY <1>1, Same, Seeing, QuietResponds
      <4> QED BY <3>1, <3>2, <4>1, <4>2, <1>3
    <3>3. CASE m.kind \in {"setup", "ack", "refused"}
      <4>1. Responds(p, IF p.state = "SecondaryRequest" THEN Sees(recvSetupResponse(p, m), m)
                         ELSE recvSetupResponse(p, m), m)
        BY <1>1, <2>5, <3>3, SetupResponds
      <4> QED BY <3>1, <3>3, <4>1
    <3> QED BY <2>5, <3>2, <3>3
  <2>6. CASE /\ m.now
             /\ ~(p.state = "Poll" /\ m.kind \in setup \union {"answer"})
             /\ ~(p.state = "Established" /\ m.kind \in {"event", "refreshed"} /\ m.id = p.id)
             /\ ~(p.state \in {"InitialRequest", "SecondaryRequest"} /\ m.kind \in setup)
    BY <2>6, <1>3, <1>7, <1>a DEF uDNS_recvLLQResponse, p
  <2> QED BY <2>1, <2>2, <2>3, <2>4, <2>5, <2>6
<1> QED BY <1>2, <1>8

-----------------------------------------------------------------------------
(* The steps of the client.                                                   *)

LEMMA DoKeeps ==
  ASSUME LongLivedAssumption, LLQInv, q.on, NEW r, Goes(q, r), Do(r), UNCHANGED server
  PROVE  LLQInv'
<1>1. q' = r.q /\ net' \subseteq (net \ {}) \union r.sent
  BY DEF Do
<1>2. Handles(q, r.q, {}) /\ Sends(r.sent, r.q, {})
  BY DEF Goes
<1> QED BY <1>1, <1>2, HandlingKeeps

LEMMA OnlyTheAsked == LLQInv => q \in Question /\ (~q.on => q = NewQuestion)
  BY DEF LLQInv, Types, Silent

LEMMA StepNATCallback ==
  ASSUME LongLivedAssumption, LLQInv, LLQNATCallback PROVE LLQInv'
  BY OnlyTheAsked, HandshakeGoes, DoKeeps DEF LLQNATCallback

LEMMA StepSuspend ==
  ASSUME LongLivedAssumption, LLQInv, SuspendLLQs PROVE LLQInv'
<1> DEFINE p == [q EXCEPT !.ReqLease = FALSE]
<1>1. q \in Question
  BY OnlyTheAsked
<1>2. p \in Question
  BY <1>1 DEF Question
<1>3. Alike(q, p)
  BY <1>1 DEF Alike, Question
<1>4. Do(sendLLQRefresh(p)) /\ q.on /\ UNCHANGED server
  BY DEF SuspendLLQs
<1> HIDE DEF p
<1>5. Goes(q, sendLLQRefresh(p))
  BY <1>1, <1>2, <1>3, AlikeHandles, RefreshGoes, ThenGoes
<1> QED BY <1>4, <1>5, DoKeeps

LEMMA StepLeaseEnds ==
  ASSUME LongLivedAssumption, LLQInv, LeaseEnds PROVE LLQInv'
<1> DEFINE p == [q EXCEPT !.expired = TRUE]
<1>1. q \in Question /\ q.on
  BY OnlyTheAsked DEF LeaseEnds, NewQuestion
<1>2. p \in Question
  BY <1>1 DEF Question
<1>3. Alike(q, p)
  BY <1>1 DEF Alike, Question
<1>4. q' = p /\ UNCHANGED <<net, server>>
  BY DEF LeaseEnds
<1> HIDE DEF p
<1>5. Handles(q, p, {}) /\ Sends({}, p, {}) /\ net' \subseteq (net \ {}) \union {}
  BY <1>1, <1>2, <1>3, <1>4, AlikeHandles DEF Sends
<1> QED BY <1>1, <1>4, <1>5, HandlingKeeps

(* A query that is polled for.                                                *)
LEMMA PollSent ==
  ASSUME NEW p \in Question, NEW x, NEW s \in QueryMessage, s.to = "server", s.now, ~s.err, s.kind \in {"poll", "setup"},
         s.id = 0, s.version = 0
  PROVE  Sends({s}, x, {})
  BY DEF Sends, Requests

LEMMA PollIs ==
  ASSUME NEW p \in Question, NEW kind \in {"poll", "setup"}, NEW lease \in BOOLEAN
  PROVE  /\ LET s == [Message(kind, p, lease) EXCEPT !.id = 0, !.via = "udp"]
            IN /\ s \in QueryMessage /\ s.to = "server" /\ s.now /\ ~s.err /\ s.kind = kind
               /\ s.id = 0 /\ s.version = 0 /\ s.via = "udp"
         /\ LET s == [Message(kind, p, lease) EXCEPT !.id = 0]
            IN /\ s \in QueryMessage /\ s.to = "server" /\ s.now /\ ~s.err /\ s.kind = kind
               /\ s.id = 0 /\ s.version = 0 /\ s.via = IF p.tcp = "none" THEN "udp" ELSE "tcp"
<1> DEFINE base == Message(kind, p, lease)
           udp == [base EXCEPT !.id = 0, !.via = "udp"]
           own == [base EXCEPT !.id = 0]
<1>1. /\ base \in QueryMessage /\ base.to = "server" /\ base.now /\ ~base.err /\ base.kind = kind
      /\ base.version = 0 /\ base.via = IF p.tcp = "none" THEN "udp" ELSE "tcp"
  BY MessageIs DEF Requests
<1> HIDE DEF base
<1>2. udp \in QueryMessage /\ own \in QueryMessage
  BY <1>1 DEF QueryMessage
<1>3. /\ udp.to = "server" /\ udp.now /\ ~udp.err /\ udp.kind = kind
      /\ udp.id = 0 /\ udp.version = 0 /\ udp.via = "udp"
  BY <1>1 DEF QueryMessage
<1>4. /\ own.to = "server" /\ own.now /\ ~own.err /\ own.kind = kind
      /\ own.id = 0 /\ own.version = 0 /\ own.via = base.via
  BY <1>1 DEF QueryMessage
<1> QED BY <1>1, <1>2, <1>3, <1>4 DEF base

LEMMA StepCheck ==
  ASSUME LongLivedAssumption, LLQInv, uDNS_CheckCurrentQuestion PROVE LLQInv'
<1> DEFINE poll == [Message("poll", q, FALSE) EXCEPT !.id = 0, !.via = "udp"]
           r == CASE q.state = "InitialRequest" -> startLLQHandshake(q, LLQNAT)
                  [] q.state = "SecondaryRequest" ->
                       IF q.private THEN startLLQHandshake(q, LLQNAT) ELSE sendChallengeResponse(q)
                  [] q.state = "Established" -> sendLLQRefresh(q)
                  [] q.state = "Poll" ->
                       IF q.private THEN Quiet(StartGetZoneData(q, "query")) ELSE Result(q, {poll})
<1>1. q \in Question /\ q.on /\ Do(r) /\ UNCHANGED server
  BY OnlyTheAsked DEF uDNS_CheckCurrentQuestion
<1>2. Goes(q, startLLQHandshake(q, LLQNAT)) /\ Goes(q, sendChallengeResponse(q)) /\ Goes(q, sendLLQRefresh(q))
  BY <1>1, HandshakeGoes, ChallengeGoes, RefreshGoes
<1>3. Goes(q, Quiet(StartGetZoneData(q, "query")))
  BY <1>1, Small, Unsent
<1>4. Goes(q, Result(q, {poll}))
  <2>1. /\ poll \in QueryMessage /\ poll.to = "server" /\ poll.now /\ ~poll.err /\ poll.kind = "poll"
        /\ poll.id = 0 /\ poll.version = 0
    BY ZenonT(60), <1>1, PollIs
  <2>2. Sends({poll}, q, {})
    BY <1>1, <2>1, PollSent
  <2> QED BY <1>1, <2>2, OneSent, Same
<1>5. q.state \in {"InitialRequest", "SecondaryRequest", "Established", "Poll"}
  BY <1>1 DEF Question
<1>6. Goes(q, r)
  <2> HIDE DEF poll
  <2> QED BY <1>2, <1>3, <1>4, <1>5
<1> QED BY <1>1, <1>6, DoKeeps

LEMMA Looking ==
  ASSUME NEW p \in Question
  PROVE  /\ Handles(p, [p EXCEPT !.nta = "SRV"], {}) /\ Handles(p, [p EXCEPT !.nta = "A"], {})
         /\ Handles(p, [p EXCEPT !.label = @ + 1], {})
<1>1. /\ [p EXCEPT !.nta = "SRV"] \in Question /\ [p EXCEPT !.nta = "A"] \in Question
      /\ [p EXCEPT !.label = @ + 1] \in Question
  BY DEF Question
<1>2. Alike(p, [p EXCEPT !.nta = "SRV"]) /\ Alike(p, [p EXCEPT !.nta = "A"])
      /\ Alike(p, [p EXCEPT !.label = @ + 1])
  BY DEF Alike, Question
<1> QED BY <1>1, <1>2, AlikeHandles

LEMMA ZoneDataIs ==
  ASSUME NEW p \in Question, NEW found \in BOOLEAN, NEW private \in BOOLEAN
  PROVE  IsResult(ZoneDataCallback(p, found, private))
<1>1. \A y : IsResult(startLLQHandshake(y, LLQNAT))
  BY QuietIs, ResultIs DEF startLLQHandshake
<1>2. IsResult(LLQGotZoneData(p, found))
  BY <1>1, QuietIs DEF LLQGotZoneData
<1>3. IsResult(PrivateQueryGotZoneData(p, found, private))
  BY QuietIs DEF PrivateQueryGotZoneData
<1> QED BY <1>2, <1>3 DEF ZoneDataCallback

LEMMA Unusable ==
  ASSUME NEW p \in Question, NEW r, IsResult(r), Goes(p, r), NEW b \in BOOLEAN
  PROVE  Goes(p, [r EXCEPT !.q.unusable = b])
<1> DEFINE y == r.q
           x == [y EXCEPT !.unusable = b]
<1>1. Handles(p, y, {}) /\ Sends(r.sent, y, {}) /\ y \in Question
  BY DEF Goes, Handles
<1>2. [r EXCEPT !.q.unusable = b] = Result(x, r.sent)
  BY DEF IsResult, Result
<1> HIDE DEF y
<1>3. x \in Question
  BY <1>1 DEF Question
<1>4. Alike(y, x)
  BY <1>1 DEF Alike, Question
<1> HIDE DEF x
<1>5. Handles(p, x, {})
  BY <1>1, <1>3, <1>4, AlikeHandles, Then
<1>6. Sends(r.sent, x, {})
  BY <1>1, <1>4 DEF Sends, Alike
<1>7. Goes(p, Result(x, r.sent))
  BY <1>5, <1>6, ResultIs DEF Goes
<1> QED BY <1>2, <1>7, Zenon

LEMMA StepGetZoneData ==
  ASSUME LongLivedAssumption, LLQInv, GetZoneData_QuestionCallback PROVE LLQInv'
<1>1. q \in Question /\ q.on /\ UNCHANGED server /\ q.nta \in {"SOA", "SRV", "A"}
  BY OnlyTheAsked DEF GetZoneData_QuestionCallback
<1> DEFINE last(private) == ZoneDataCallback(q, FALSE, private)
           r(found, private) ==
             CASE q.nta = "SOA" /\ found -> Quiet([q EXCEPT !.nta = "SRV"])
               [] q.nta = "SOA" /\ ~found ->
                    IF q.label < Labels THEN Quiet([q EXCEPT !.label = @ + 1])
                    ELSE [last(private) EXCEPT !.q.unusable = (q.asks = "LLQ")]
               [] q.nta = "SRV" /\ found -> Quiet([q EXCEPT !.nta = "A"])
               [] OTHER -> ZoneDataCallback(q, found /\ q.nta = "A", private)
<1>2. PICK found \in BOOLEAN, private \in BOOLEAN : Do(r(found, private))
  BY DEF GetZoneData_QuestionCallback
<1>3. Goes(q, Quiet([q EXCEPT !.nta = "SRV"])) /\ Goes(q, Quiet([q EXCEPT !.nta = "A"]))
      /\ Goes(q, Quiet([q EXCEPT !.label = @ + 1]))
  BY <1>1, Looking, Unsent
<1>4. Goes(q, [last(private) EXCEPT !.q.unusable = (q.asks = "LLQ")])
  BY <1>1, ZoneDataGoes, ZoneDataIs, Unusable
<1>5. Goes(q, ZoneDataCallback(q, found /\ q.nta = "A", private))
  BY <1>1, ZoneDataGoes
<1>6. Goes(q, r(found, private))
  <2> HIDE DEF last
  <2> QED BY <1>1, <1>3, <1>4, <1>5
<1> QED BY <1>1, <1>2, <1>6, DoKeeps

LEMMA Opened ==
  ASSUME NEW q0 \in Question
  PROVE  LET p == Timer([q0 EXCEPT !.tcp = "open", !.request = "none"]) IN
         p \in Question /\ Handles(q0, p, {}) /\ p.tcp = "open" /\ p.id = q0.id
<1> DEFINE y == [q0 EXCEPT !.tcp = "open", !.request = "none"]
<1>1. y \in Question
  BY DEF Question
<1>2. Alike(q0, y) /\ y.tcp = "open" /\ y.id = q0.id
  BY DEF Alike, Question
<1> HIDE DEF y
<1>3. Timer(y).tcp = "open" /\ Timer(y).id = q0.id
  BY <1>1, <1>2 DEF Timer, Question
<1>4. Handles(q0, Timer(y), {})
  BY <1>1, <1>2, AlikeHandles, Small, Then
<1> QED BY <1>3, <1>4 DEF Handles, y

LEMMA Tried ==
  ASSUME NEW p \in Question
  PROVE  LET x == [p EXCEPT !.ntries = 0] IN x \in Question /\ Handles(p, x, {})
<1>1. [p EXCEPT !.ntries = 0] \in Question
  BY DEF Question
<1>2. Alike(p, [p EXCEPT !.ntries = 0])
  BY DEF Alike, Question
<1> QED BY <1>1, <1>2, AlikeHandles

LEMMA Retried ==
  ASSUME LongLivedAssumption, NEW p \in Question
  PROVE  LET x == Timer([p EXCEPT !.ntries = IF p.timer \/ @ > kLLQ_MAX_TRIES THEN @ ELSE @ + 1])
         IN x \in Question /\ Handles(p, x, {})
<1> DEFINE n == IF p.timer \/ p.ntries > kLLQ_MAX_TRIES THEN p.ntries ELSE p.ntries + 1
           x == [p EXCEPT !.ntries = n]
<1>1. n \in Nat
  BY DEF Question
<1> HIDE DEF n
<1>2. x \in Question
  BY <1>1 DEF Question
<1>3. Alike(p, x)
  BY DEF Alike, Question
<1>4. Handles(p, Timer(x), {})
  BY <1>2, <1>3, AlikeHandles, Small, Then
<1> QED BY <1>4 DEF Handles, n

LEMMA BackAgain ==
  ASSUME NEW p \in Question
  PROVE  LET x == [p EXCEPT !.state = IF @ = "SecondaryRequest" THEN "InitialRequest" ELSE @]
         IN x \in Question /\ Handles(p, x, {})
<1> DEFINE x == [p EXCEPT !.state = IF @ = "SecondaryRequest" THEN "InitialRequest" ELSE @]
<1>1. x \in Question
  BY DEF Question
<1>2. Alike(p, x)
  BY DEF Alike, Question
<1> QED BY <1>1, <1>2, AlikeHandles

LEMMA StepConnected ==
  ASSUME LongLivedAssumption, LLQInv, Connected PROVE LLQInv'
<1> DEFINE y == [q EXCEPT !.tcp = "open", !.request = "none"]
           p == Timer(y)
           more == [p EXCEPT !.ntries = 0]
           kept == Message(IF q.request = "refresh" THEN "refresh" ELSE "nothing", p, q.ReqLease)
           setup == [Message("setup", p, TRUE) EXCEPT !.id = 0]
           poll == [Message("poll", p, FALSE) EXCEPT !.id = 0]
           r == IF q.state = "Established" THEN Result(p, {kept})
                ELSE IF q.state # "Poll" /\ LLQNAT = "mapped" /\ q.servPort THEN Result(more, {setup})
                ELSE Result(p, {poll})
<1>1. q \in Question /\ q.on /\ Do(r) /\ UNCHANGED server
  BY OnlyTheAsked DEF Connected, NewQuestion
<1>2. p \in Question /\ Handles(q, p, {}) /\ p.tcp = "open" /\ p.id = q.id
  BY <1>1, Opened
<1> HIDE DEF p
<1>3. more \in Question /\ Handles(q, more, {})
  BY <1>1, <1>2, Tried, Then
<1>4. Goes(q, Result(p, {kept}))
  <2>1. q.ReqLease \in BOOLEAN
    BY <1>1 DEF Question
  <2>2. Sends({kept}, p, {})
    BY <1>2, <2>1, MessageSends
  <2> QED BY <1>2, <2>2, OneSent
<1>5. Goes(q, Result(more, {setup}))
  <2>1. /\ setup \in QueryMessage /\ setup.to = "server" /\ setup.now /\ ~setup.err /\ setup.kind = "setup"
        /\ setup.id = 0 /\ setup.version = 0 /\ setup.via = "tcp"
    BY ZenonT(60), <1>2, PollIs
  <2> HIDE DEF setup, more
  <2>2. Sends({setup}, more, {})
    BY <2>1 DEF Sends, Requests
  <2> QED BY <1>3, <2>2, OneSent
<1>6. Goes(q, Result(p, {poll}))
  <2>1. /\ poll \in QueryMessage /\ poll.to = "server" /\ poll.now /\ ~poll.err /\ poll.kind = "poll"
        /\ poll.id = 0 /\ poll.version = 0
    BY ZenonT(60), <1>2, PollIs
  <2> HIDE DEF poll
  <2>2. Sends({poll}, p, {})
    BY <2>1 DEF Sends, Requests
  <2> QED BY <1>2, <2>2, OneSent
<1>7. Goes(q, r)
  <2> HIDE DEF kept, setup, poll, more
  <2> QED BY <1>4, <1>5, <1>6
<1> QED BY <1>1, <1>7, DoKeeps

LEMMA StepDisconnected ==
  ASSUME LongLivedAssumption, LLQInv, Disconnected PROVE LLQInv'
<1> DEFINE retry == Timer([q EXCEPT !.ntries = IF q.timer \/ @ > kLLQ_MAX_TRIES THEN @ ELSE @ + 1])
           back == [retry EXCEPT !.state = IF @ = "SecondaryRequest" THEN "InitialRequest" ELSE @]
           left(err) == IF q.tcp = "answered" /\ err = "ConnFailed" THEN q
                        ELSE IF err = "other" THEN StartLLQPolling(back) ELSE back
<1>1. q \in Question /\ q.on /\ UNCHANGED server
  BY OnlyTheAsked DEF Disconnected, NewQuestion
<1>2. PICK err \in {"ConnFailed", "other"} : Do(Quiet(DisposeTCPConn(left(err))))
  BY DEF Disconnected
<1>3. back \in Question /\ Handles(q, back, {})
  <2>1. retry \in Question /\ Handles(q, retry, {})
    BY <1>1, Retried
  <2> HIDE DEF retry
  <2> QED BY <1>1, <2>1, BackAgain, Then
<1> HIDE DEF back
<1>4. Handles(back, StartLLQPolling(back), {})
  BY <1>3, Small
<1>5. Handles(q, left(err), {})
  BY <1>1, <1>3, <1>4, Then, Same
<1> HIDE DEF left
<1>6. Handles(left(err), DisposeTCPConn(left(err)), {})
  BY <1>5, Small DEF Handles
<1>7. Goes(q, Quiet(DisposeTCPConn(left(err))))
  BY <1>1, <1>5, <1>6, Then, Unsent
<1> QED BY <1>1, <1>2, <1>7, DoKeeps

(* From the beginning: what is still on its way is of no account.             *)
LEMMA OldKeeps ==
  ASSUME LongLivedAssumption, LLQInv, NEW S \in SUBSET net, NEW bye,
         \A b \in bye : b \in QueryMessage /\ b.id = q.id /\ b.kind = "refresh" /\ b.version = 0,
         net' = Old(S) \union Old(bye), q' \in Question, q'.id = 0, q'.state = "InitialRequest",
         q'.latest <= server.version, ~q'.on => q' = NewQuestion, UNCHANGED server
  PROVE  LLQInv'
<1> DEFINE O(m) == [m EXCEPT !.now = FALSE]
<1>1. ASSUME NEW m \in QueryMessage
      PROVE  /\ O(m) \in QueryMessage /\ ~O(m).now /\ O(m).to = m.to /\ O(m).kind = m.kind /\ O(m).id = m.id
             /\ O(m).version = m.version
  BY <1>1 DEF QueryMessage
<1>2. \A x \in net' : \E m \in S \union bye : x = O(m) /\ m \in QueryMessage
  BY DEF Old, LLQInv, Types
<1> HIDE DEF O
<1>3. \A x \in net' : x \in QueryMessage /\ ~x.now
  BY <1>1, <1>2
<1>4. Types' /\ Versioned'
  <2>1. 0 <= server.version
    BY DEF LLQInv, Types, Server
  <2> QED BY <1>1, <1>2, <1>3, <2>1 DEF LLQInv, Types, Versioned
<1>5. Numbered'
  <2>1. 0 <= server.used
    BY DEF LLQInv, Types, Server
  <2> QED BY <1>1, <1>2, <2>1 DEF LLQInv, Numbered
<1>6. Begun'
  BY <1>1, <1>2 DEF LLQInv, Begun, Knows
<1>7. Acked' /\ Told' /\ Silent'
  BY <1>3 DEF Acked, Told, Knows, Silent, Mine
<1> QED BY <1>4, <1>5, <1>6, <1>7 DEF LLQInv

LEMMA FromTheBeginning ==
  ASSUME NEW p \in Question
  PROVE  LET x == Timer(ActivateUnicastQuery(p)) IN
         x \in Question /\ x.on = p.on /\ x.id = 0 /\ x.state = "InitialRequest" /\ x.latest = p.latest
<1> DEFINE y == [p EXCEPT !.state = "InitialRequest", !.id = 0, !.servPort = FALSE, !.misled = FALSE]
           z == CancelGetZoneData(y)
           w == DisposeTCPConn(z)
<1>1. y \in Question
  BY DEF Question
<1>2. y.on = p.on /\ y.id = 0 /\ y.state = "InitialRequest" /\ y.latest = p.latest
  BY DEF Question
<1>3. Timer(ActivateUnicastQuery(p)) = Timer(w)
  BY DEF ActivateUnicastQuery
<1> HIDE DEF y
<1>4. Kept(y, z) /\ z \in Question
  BY <1>1, KeptBy DEF Kept
<1> HIDE DEF z
<1>5. Kept(z, w) /\ w \in Question
  BY <1>4, KeptBy DEF Kept
<1> HIDE DEF w
<1>6. Kept(w, Timer(w))
  BY <1>5, KeptBy
<1> QED BY <1>2, <1>3, <1>4, <1>5, <1>6 DEF Kept

LEMMA Asked ==
  ASSUME NEW private \in BOOLEAN
  PROVE  LET x == Timer([NewQuestion EXCEPT !.on = TRUE, !.private = private]) IN
         x \in Question /\ x.on /\ x.id = 0 /\ x.state = "InitialRequest" /\ x.latest = 0
<1> DEFINE y == [NewQuestion EXCEPT !.on = TRUE, !.private = private]
<1>1. NewQuestion \in Question
  BY DEF Question, NewQuestion
<1>2. y \in Question
  BY <1>1 DEF Question
<1>3. y.on /\ y.id = 0 /\ y.state = "InitialRequest" /\ y.latest = 0
  BY DEF NewQuestion
<1> HIDE DEF y
<1>4. /\ Timer(y) \in Question /\ Timer(y).on = y.on /\ Timer(y).id = y.id
      /\ Timer(y).state = y.state /\ Timer(y).latest = y.latest
  BY <1>2, KeptBy DEF Kept
<1> QED BY <1>3, <1>4 DEF y

LEMMA AskedAgain ==
  ASSUME NEW p \in Question, NEW y, NEW m \in QueryMessage, m.kind = "answer", Handles(p, y, {m})
  PROVE  Handles(p, [MakeTCPConn(y, "none") EXCEPT !.seen = p.seen, !.latest = p.latest], {m})
<1> DEFINE z == MakeTCPConn(y, "none")
           x == [z EXCEPT !.seen = p.seen, !.latest = p.latest]
<1>1. p.seen \in Nat /\ p.latest \in Nat
  BY DEF Question
<1>2. y \in Question
  BY DEF Handles
<1>3. z \in Question /\ z.on = y.on /\ z.id = y.id /\ z.state = y.state /\ z.misled = y.misled
  BY <1>2, KeptBy DEF Kept
<1> HIDE DEF z
<1>4. x \in Question /\ x.on = z.on /\ x.id = z.id /\ x.state = z.state /\ x.misled = z.misled
      /\ x.latest = p.latest
  BY <1>1, <1>3 DEF Question
<1> HIDE DEF x
<1>5. Handles(p, x, {m})
  BY <1>1, <1>3, <1>4 DEF Handles, NamesAQuery, Confirms
<1> QED BY <1>5 DEF x, z

LEMMA StepRestart ==
  ASSUME LongLivedAssumption, LLQInv, Restart PROVE LLQInv'
<1> DEFINE y == [q EXCEPT !.state = "InitialRequest", !.id = 0, !.servPort = FALSE, !.misled = FALSE]
           x == Timer(ActivateUnicastQuery(q))
<1>1. q \in Question /\ q.on /\ UNCHANGED server /\ q' = x
  BY OnlyTheAsked DEF Restart
<1>2. x \in Question /\ x.on /\ x.id = 0 /\ x.state = "InitialRequest" /\ x.latest = q.latest
  BY <1>1, FromTheBeginning
<1>3. net' = Old({m \in net : m.via = "udp"}) \union Old({})
  BY DEF Restart, Old
<1>4. q.latest <= server.version
  BY DEF LLQInv, Versioned
<1> HIDE DEF x
<1> QED BY <1>1, <1>2, <1>3, <1>4, OldKeeps

LEMMA StepStop ==
  ASSUME LongLivedAssumption, LLQInv, mDNS_StopQuery PROVE LLQInv'
<1> DEFINE closed == DisposeTCPConn(q)
           bye == IF q.state # "Established" \/ (q.private /\ q.nta = "none") THEN {}
                  ELSE {Message("refresh", closed, FALSE)}
<1>1. q \in Question /\ UNCHANGED server /\ q' = NewQuestion
      /\ net' = Old({m \in net : m.via = "udp"}) \union Old(bye)
  BY OnlyTheAsked DEF mDNS_StopQuery
<1>2. closed \in Question /\ closed.id = q.id
  BY <1>1, Small DEF Handles
<1>3. \A b \in bye : b \in QueryMessage /\ b.id = q.id /\ b.kind = "refresh" /\ b.version = 0
  <2> DEFINE s == Message("refresh", closed, FALSE)
  <2>1. s \in QueryMessage /\ s.id = closed.id /\ s.kind = "refresh" /\ s.version = 0
    BY ZenonT(60), <1>2, MessageIs DEF Requests
  <2>2. \A b \in bye : b = s
    OBVIOUS
  <2> HIDE DEF s, bye, closed
  <2> QED BY <1>2, <2>1, <2>2
<1> HIDE DEF bye
<1>4. NewQuestion \in Question /\ NewQuestion.id = 0 /\ NewQuestion.state = "InitialRequest"
      /\ NewQuestion.latest = 0
  BY DEF NewQuestion, Question
<1>5. 0 <= server.version
  BY DEF LLQInv, Types, Server
<1> QED BY <1>1, <1>3, <1>4, <1>5, OldKeeps

LEMMA StepStart ==
  ASSUME LongLivedAssumption, LLQInv, mDNS_StartQuery PROVE LLQInv'
<1>1. PICK private \in BOOLEAN : q' = Timer([NewQuestion EXCEPT !.on = TRUE, !.private = private])
  <2>1. PICK z \in Zones : q' = Timer([NewQuestion EXCEPT !.on = TRUE, !.private = (z = "private")])
    BY DEF mDNS_StartQuery
  <2>2. (z = "private") \in BOOLEAN
    OBVIOUS
  <2> QED BY <2>1, <2>2
<1>2. q' \in Question /\ q'.on /\ q'.id = 0 /\ q'.state = "InitialRequest" /\ q'.latest = 0
  BY <1>1, Asked
<1>3. q = NewQuestion /\ (\A m \in net : m.now => m.kind = "event") /\ UNCHANGED <<net, server>>
  BY DEF mDNS_StartQuery, LLQInv, Silent
<1>4. NewQuestion.id = 0
  BY DEF NewQuestion
<1>5. 0 <= server.version /\ 0 <= server.used
  BY DEF LLQInv, Types, Server
<1>6. Types' /\ Versioned' /\ Numbered' /\ Begun'
  BY <1>2, <1>3, <1>5 DEF LLQInv, Types, Versioned, Numbered, Begun, Knows
<1>7. Mine' = Mine
  BY <1>2, <1>3, <1>4 DEF Mine
<1>8. Acked'
  BY <1>2, <1>3, <1>4, <1>7 DEF LLQInv, Acked, NewQuestion
<1>9. Told' /\ Silent'
  BY <1>2, <1>3, <1>4, <1>7 DEF LLQInv, Told, Knows, Silent, NewQuestion
<1> QED BY <1>6, <1>7, <1>8, <1>9 DEF LLQInv

LEMMA StepReceive ==
  ASSUME LongLivedAssumption, LLQInv, NEW m \in net, Receive(m) PROVE LLQInv'
<1> DEFINE r == uDNS_recvLLQResponse(m)
           x == [MakeTCPConn(r.q, "none") EXCEPT !.seen = q.seen, !.latest = q.latest]
<1>1. q \in Question /\ q.on /\ m \in QueryMessage /\ m.to = "client" /\ UNCHANGED server
  BY OnlyTheAsked DEF LLQInv, Types, Receive
<1>2. IsResult(r) /\ Handles(q, r.q, {m}) /\ Sends(r.sent, r.q, {m}) /\ (m.kind = "answer" => r.sent = {})
  BY <1>1, ResponseGoes DEF Responds
<1>3. PICK s \in uDNS_ReceiveMsg(m) : q' = s.q /\ net' \subseteq (net \ {m}) \union s.sent
  BY DEF Receive
<1>4. s = r \/ (m.kind = "answer" /\ s = [r EXCEPT !.q = x])
  BY <1>3 DEF uDNS_ReceiveMsg, IsResult, Result
<1> HIDE DEF r
<1>5. CASE s = r
  BY <1>1, <1>2, <1>3, <1>5, HandlingKeeps
<1>6. CASE m.kind = "answer" /\ s = [r EXCEPT !.q = x]
  <2>1. s = Result(x, r.sent)
    BY <1>2, <1>6 DEF IsResult, Result
  <2>2. s.q = x /\ s.sent = {}
    BY <1>2, <1>6, <2>1, ResultIs
  <2>3. Handles(q, x, {m})
    BY <1>1, <1>2, <1>6, AskedAgain
  <2> HIDE DEF x
  <2> QED BY <1>1, <1>3, <2>2, <2>3, HandlingKeeps DEF Sends
<1> QED BY <1>4, <1>5, <1>6

-----------------------------------------------------------------------------
(* The steps of the server, and of the network.                               *)

Answering(r, m, kind, id) ==
  /\ r \in QueryMessage /\ r.to = "client" /\ r.kind = kind /\ r.id = id /\ r.now = m.now
  /\ r.version = server.version

LEMMA ReplyIs ==
  ASSUME LLQInv, NEW m \in QueryMessage, NEW kind \in Answers, NEW id, id = 0 \/ id \in Ids
  PROVE  Answering(Reply(m, kind, id), m, kind, id)
<1>1. server.version \in Nat
  BY DEF LLQInv, Types, Server
<1>2. Reply(m, kind, id) \in QueryMessage
  BY <1>1 DEF Reply, QueryMessage
<1> QED BY <1>2 DEF Reply, QueryMessage, Answering

LEMMA RefusalIs ==
  ASSUME LLQInv, NEW m \in QueryMessage, NEW kind \in Answers, NEW id, id = 0 \/ id \in Ids
  PROVE  Answering(Refusal(m, kind, id), m, kind, id)
<1> DEFINE y == Reply(m, kind, id)
           r == [y EXCEPT !.err = TRUE]
<1>1. Answering(y, m, kind, id)
  BY ReplyIs
<1> HIDE DEF y
<1>2. r \in QueryMessage
  BY <1>1 DEF QueryMessage, Answering
<1>3. r.to = y.to /\ r.kind = y.kind /\ r.id = y.id /\ r.now = y.now /\ r.version = y.version
  BY <1>1 DEF QueryMessage, Answering
<1> QED BY <1>1, <1>2, <1>3 DEF y, Answering, Refusal

(* A request is taken off, and an answer that gives no new number put in its  *)
(* place; what the server holds may end, and what it counts on may grow to    *)
(* what the client has seen.                                                  *)
Served(m) ==
  /\ \A r \in net' : r \in net \ {m} \/ \E kind \in {"setup", "refreshed", "refused", "answer"}, id \in {0, m.id} :
                    Answering(r, m, kind, id) /\ (kind = "setup" => id = 0 \/ m.kind = "challenge")
  /\ q' = q /\ server' \in Server /\ server'.version = server.version /\ server'.used = server.used
  /\ \A i \in Ids : server'.entry[i] \in {server.entry[i], "none"}
  /\ \A i \in Ids : server'.told[i] = server.told[i] \/
                    (m.kind = "acked" /\ i = m.id /\ server'.told[i] = m.version)

LEMMA ServeKeeps ==
  ASSUME LongLivedAssumption, LLQInv, NEW m \in net, m.to = "server", Served(m)
  PROVE  LLQInv'
<1>0. /\ \A r \in net' : r \in net \ {m} \/
           (/\ r \in QueryMessage /\ r.to = "client" /\ r.kind \in {"setup", "refreshed", "refused", "answer"}
            /\ r.now = m.now /\ r.version = server.version /\ r.id \in {0, m.id}
            /\ (r.kind = "setup" => r.id = 0 \/ m.kind = "challenge"))
      /\ q' = q /\ server' \in Server /\ server'.version = server.version /\ server'.used = server.used
      /\ \A i \in Ids : server'.entry[i] \in {server.entry[i], "none"}
      /\ \A i \in Ids : server'.told[i] = server.told[i] \/
                        (m.kind = "acked" /\ i = m.id /\ server'.told[i] = m.version)
  BY DEF Served, Answering
<1>1. Types'
  BY <1>0 DEF LLQInv, Types
<1>2. Versioned'
  <2>1. server.version \in Nat
    BY DEF LLQInv, Types, Server
  <2> QED BY <1>0, <2>1 DEF LLQInv, Versioned
<1>3. Numbered'
  <2>1. 0 <= server.used
    BY DEF LLQInv, Types, Server
  <2> QED BY <1>0, <2>1 DEF LLQInv, Numbered
<1>4. Begun'
  BY <1>0, <1>1 DEF LLQInv, Types, Begun, Knows, QueryMessage, Question
<1>6. Mine' \subseteq Mine \union {0}
  BY <1>0 DEF Mine
<1>7. Acked'
  BY <1>0, <1>6 DEF LLQInv, Acked
<1>8. Told'
  <2>1. \A i \in Ids \intersect Mine : server'.told[i] = server.told[i] \/ server'.told[i] <= q.latest
    BY <1>0 DEF LLQInv, Types, Acked, QueryMessage, Ids, LongLivedAssumption
  <2>2. q.id \in Mine
    BY DEF Mine
  <2>3. Knows' => Knows
    BY <1>0 DEF Knows
  <2>4. Knows => q.id \in Ids
    BY DEF Knows, LLQInv, Types, Question
  <2>5. Knows' /\ server'.entry[q.id] = "established" => server'.told[q.id] <= q.latest
    BY <1>0, <2>1, <2>2, <2>3, <2>4 DEF LLQInv, Told
  <2>6. ASSUME NEW n \in net', n.now, n.kind \in {"ack", "event"}, n.id # 0, n.id \in Mine'
        PROVE  server'.told[n.id] <= n.version \/ server'.told[n.id] <= q.latest
    <3>1. n \in net /\ n.id \in Mine /\ n.id \in Ids
      BY <1>0, <1>6, <2>6 DEF LLQInv, Types, QueryMessage
    <3> QED BY <2>1, <2>6, <3>1 DEF LLQInv, Told
  <2> QED BY <1>0, <2>5, <2>6 DEF Told, Knows
<1>9. Silent'
  BY <1>0 DEF LLQInv, Silent
<1> QED BY <1>1, <1>2, <1>3, <1>4, <1>7, <1>8, <1>9 DEF LLQInv

(* A new number: nothing has had it before.                                   *)
LEMMA ServeSetup ==
  ASSUME LongLivedAssumption, LLQInv, NEW m \in net, m \in QueryMessage, m.to = "server", m.kind = "setup",
         m.via = "udp", server.used + 1 \in Ids, UNCHANGED q,
         net' = (net \ {m}) \union {Reply(m, "setup", server.used + 1)},
         server' = [server EXCEPT !.entry[server.used + 1] = "requested", !.used = server.used + 1]
  PROVE  LLQInv'
<1> DEFINE new == server.used + 1
           r == Reply(m, "setup", new)
<1>1. q \in Question /\ server \in Server /\ (\A n \in net : n \in QueryMessage)
  BY DEF LLQInv, Types
<1>a. Answering(r, m, "setup", new)
  BY ReplyIs DEF Answers
<1>2. r \in QueryMessage /\ r.to = "client" /\ r.kind = "setup" /\ r.id = new /\ r.now = m.now /\ r.version = server.version
  BY <1>a DEF Answering
<1>3. server.used \in Nat /\ server.version \in Nat
  BY <1>1, LongLivedAssumption DEF Server, LongLivedAssumption
<1>4. /\ server' \in Server /\ server'.version = server.version /\ server'.told = server.told
      /\ server'.used = new /\ server'.entry[new] = "requested"
      /\ \A i \in Ids : i # new => server'.entry[i] = server.entry[i]
  <2>1. new \in 0 .. Entries
    BY DEF Ids
  <2> QED BY <1>1, <2>1 DEF Server
<1>5. net' = (net \ {m}) \union {r}
  OBVIOUS
<1>6. (\A n \in net : n.id # new) /\ q.id # new
  BY <1>1, <1>3 DEF LLQInv, Numbered, QueryMessage, Question, Ids
<1>7. new \in Ids /\ server.used <= new
  BY <1>3
<1> HIDE DEF r, new
<1>8. Types' /\ Versioned'
  BY <1>1, <1>2, <1>3, <1>4, <1>5 DEF LLQInv, Types, Versioned
<1>9. Numbered'
  <2>1. \A n \in net : n.id <= new
    BY <1>1, <1>3, <1>7 DEF LLQInv, Numbered, QueryMessage, Ids
  <2>2. q.id <= new
    BY <1>1, <1>3, <1>7 DEF LLQInv, Numbered, Question, Ids
  <2>3. \A i \in Ids : server.entry[i] # "none" => i <= new
    BY <1>3, <1>7 DEF LLQInv, Numbered, Ids
  <2>4. new <= new
    BY <1>7 DEF Ids
  <2> QED BY <1>2, <1>4, <1>5, <2>1, <2>2, <2>3, <2>4 DEF Numbered
<1>10. Begun'
  BY <1>1, <1>2, <1>4, <1>5, <1>6 DEF LLQInv, Begun, Knows, QueryMessage, Question
<1>12. Mine' \subseteq Mine \union {new}
  BY <1>2, <1>5 DEF Mine
<1>13. Acked'
  BY <1>2, <1>5, <1>6, <1>12 DEF LLQInv, Acked
<1>14. Told'
  BY <1>1, <1>2, <1>4, <1>5, <1>6, <1>12 DEF LLQInv, Told, Knows, QueryMessage, Question
<1>15. Silent'
  BY <1>2, <1>5 DEF LLQInv, Silent
<1> QED BY <1>8, <1>9, <1>10, <1>13, <1>14, <1>15 DEF LLQInv

(* A challenge that is repeated is that of a query that nobody can know to be *)
(* established.                                                               *)
LEMMA ServeAgain ==
  ASSUME LongLivedAssumption, LLQInv, NEW m \in net, m \in QueryMessage, m.to = "server",
         NEW i \in Ids, server.entry[i] = "requested", UNCHANGED <<q, server>>,
         net' = (net \ {m}) \union {Reply(m, "setup", i)}
  PROVE  LLQInv'
<1> DEFINE r == Reply(m, "setup", i)
<1>1. q \in Question /\ server \in Server /\ (\A n \in net : n \in QueryMessage)
  BY DEF LLQInv, Types
<1>a. Answering(r, m, "setup", i)
  BY ReplyIs DEF Answers
<1>2. r \in QueryMessage /\ r.to = "client" /\ r.kind = "setup" /\ r.id = i /\ r.now = m.now /\ r.version = server.version
  BY <1>a DEF Answering
<1>3. net' = (net \ {m}) \union {r}
  OBVIOUS
<1>4. server.version <= server.version
  BY <1>1 DEF Server
<1> HIDE DEF r
<1>5. \A n \in net : n.kind \in {"ack", "event", "acked"} => n.id # i
  BY DEF LLQInv, Begun, Ids
<1>6. Types' /\ Versioned' /\ Numbered'
  BY <1>1, <1>2, <1>3, <1>4 DEF LLQInv, Types, Versioned, Numbered
<1>7. Begun'
  BY <1>2, <1>3 DEF LLQInv, Begun, Knows
<1>8. Mine' \subseteq Mine \union {i}
  BY <1>2, <1>3 DEF Mine
<1>9. Acked'
  BY <1>2, <1>3, <1>5, <1>8 DEF LLQInv, Acked
<1>10. Told'
  BY <1>2, <1>3, <1>5, <1>8 DEF LLQInv, Told, Knows
<1>11. Silent'
  BY <1>2, <1>3 DEF LLQInv, Silent
<1> QED BY <1>6, <1>7, <1>9, <1>10, <1>11 DEF LLQInv

(* In private the query is established with its answer.                       *)
LEMMA ServePrivate ==
  ASSUME LongLivedAssumption, LLQInv, NEW m \in net, m \in QueryMessage, m.to = "server", m.kind = "setup",
         server.used + 1 \in Ids, UNCHANGED q,
         net' = (net \ {m}) \union {Reply(m, "ack", server.used + 1)},
         server' = [Establish(server.used + 1) EXCEPT !.used = server.used + 1]
  PROVE  LLQInv'
<1> DEFINE new == server.used + 1
           r == Reply(m, "ack", new)
<1>1. q \in Question /\ server \in Server /\ (\A n \in net : n \in QueryMessage)
  BY DEF LLQInv, Types
<1>a. Answering(r, m, "ack", new)
  BY ReplyIs DEF Answers
<1>2. r \in QueryMessage /\ r.to = "client" /\ r.kind = "ack" /\ r.id = new /\ r.now = m.now /\ r.version = server.version
  BY <1>a DEF Answering
<1>3. server.used \in Nat /\ server.version \in Nat
  BY <1>1, LongLivedAssumption DEF Server, LongLivedAssumption
<1>4. server.entry[new] # "established"
  BY <1>3 DEF LLQInv, Numbered
<1>5. /\ server' \in Server /\ server'.version = server.version
      /\ server'.used = new /\ server'.entry[new] = "established" /\ server'.told[new] = server.version
      /\ \A i \in Ids : i # new => server'.entry[i] = server.entry[i] /\ server'.told[i] = server.told[i]
  <2>1. new \in 0 .. Entries
    BY DEF Ids
  <2> DEFINE est == Establish(new)
  <2>2. /\ est \in Server /\ est.version = server.version /\ est.entry[new] = "established"
        /\ est.told[new] = server.version
        /\ \A i \in Ids : i # new => est.entry[i] = server.entry[i] /\ est.told[i] = server.told[i]
    BY <1>1, <1>3, <1>4 DEF Establish, Server
  <2>3. server' = [est EXCEPT !.used = new]
    OBVIOUS
  <2> HIDE DEF est, new
  <2> QED BY <2>1, <2>2, <2>3 DEF Server
<1>6. net' = (net \ {m}) \union {r}
  OBVIOUS
<1>7. (\A n \in net : n.id # new) /\ q.id # new
  BY <1>1, <1>3 DEF LLQInv, Numbered, QueryMessage, Question, Ids
<1>8. new \in Ids /\ server.used <= new
  BY <1>3
<1> HIDE DEF r, new
<1>9. Types' /\ Versioned'
  BY <1>1, <1>2, <1>3, <1>5, <1>6 DEF LLQInv, Types, Versioned
<1>10. Numbered'
  <2>1. \A n \in net : n.id <= new
    BY <1>1, <1>3, <1>8 DEF LLQInv, Numbered, QueryMessage, Ids
  <2>2. q.id <= new
    BY <1>1, <1>3, <1>8 DEF LLQInv, Numbered, Question, Ids
  <2>3. \A i \in Ids : server.entry[i] # "none" => i <= new
    BY <1>3, <1>8 DEF LLQInv, Numbered, Ids
  <2>4. new <= new
    BY <1>8 DEF Ids
  <2> QED BY <1>2, <1>5, <1>6, <2>1, <2>2, <2>3, <2>4 DEF Numbered
<1>11. Begun'
  BY <1>1, <1>2, <1>5, <1>6, <1>7 DEF LLQInv, Begun, Knows, QueryMessage, Question
<1>13. Mine' \subseteq Mine \union {new}
  BY <1>2, <1>6 DEF Mine
<1>14. Acked'
  BY <1>2, <1>6, <1>7, <1>13 DEF LLQInv, Acked
<1>15. Told'
  <2>1. server'.told[r.id] <= r.version
    BY <1>2, <1>3, <1>5
  <2> QED BY <1>1, <1>2, <1>5, <1>6, <1>7, <1>13, <2>1 DEF LLQInv, Told, Knows, QueryMessage, Question
<1>16. Silent'
  BY <1>2, <1>6 DEF LLQInv, Silent
<1> QED BY <1>9, <1>10, <1>11, <1>14, <1>15, <1>16 DEF LLQInv

(* A challenge that comes back establishes the query; one that is repeated     *)
(* changes nothing of what the server counts on.                               *)
LEMMA ServeChallenge ==
  ASSUME LongLivedAssumption, LLQInv, NEW m \in net, m \in QueryMessage, m.to = "server", m.kind = "challenge",
         m.id # 0, server.entry[m.id] # "none", UNCHANGED q,
         net' = (net \ {m}) \union {Reply(m, "ack", m.id)},
         server' = Establish(m.id)
  PROVE  LLQInv'
<1> DEFINE r == Reply(m, "ack", m.id)
<1>1. q \in Question /\ server \in Server /\ (\A n \in net : n \in QueryMessage) /\ m.id \in {0} \union Ids
  BY DEF LLQInv, Types, QueryMessage
<1>a. Answering(r, m, "ack", m.id)
  BY <1>1, ReplyIs DEF Answers
<1>2. r \in QueryMessage /\ r.to = "client" /\ r.kind = "ack" /\ r.id = m.id /\ r.now = m.now /\ r.version = server.version
  BY <1>a DEF Answering
<1>3. server.used \in Nat /\ server.version \in Nat
  BY <1>1, LongLivedAssumption DEF Server, LongLivedAssumption
<1>4. /\ server' \in Server /\ server'.version = server.version /\ server'.used = server.used
      /\ \A i \in Ids : IF i = m.id /\ server.entry[i] # "established"
                        THEN server'.entry[i] = "established" /\ server'.told[i] = server.version
                        ELSE server'.entry[i] = server.entry[i] /\ server'.told[i] = server.told[i]
  BY <1>1, <1>3 DEF Establish, Server, Ids
<1>5. net' = (net \ {m}) \union {r}
  OBVIOUS
<1>6. m.id # 0 => server'.entry[m.id] = "established" /\ server'.told[m.id] <= server.version
  BY <1>1, <1>3, <1>4 DEF LLQInv, Versioned
<1> HIDE DEF r
<1>7. Types' /\ Versioned'
  BY <1>1, <1>2, <1>3, <1>4, <1>5, <1>6 DEF LLQInv, Types, Versioned
<1>8. Numbered'
  BY <1>1, <1>2, <1>4, <1>5 DEF LLQInv, Numbered, QueryMessage
<1>9. ASSUME NEW i \in Ids, server.entry[i] # "requested"
      PROVE  server'.entry[i] = server.entry[i] /\ server'.told[i] = server.told[i]
  BY <1>9, <1>1, <1>4 DEF Server
<1>10. Knows => q.id \in Ids /\ server.entry[q.id] # "requested"
  BY <1>1 DEF LLQInv, Begun, Knows, Question
<1>11. \A n \in net : n.kind \in {"ack", "event", "acked"} /\ n.id # 0 => n.id \in Ids /\ server.entry[n.id] # "requested"
  BY <1>1 DEF LLQInv, Begun, QueryMessage
<1>a2. Begun'
  BY <1>2, <1>5, <1>6, <1>9, <1>10, <1>11 DEF LLQInv, Begun, Knows
<1>12. Mine' \subseteq Mine
  BY <1>2, <1>5 DEF Mine
<1>13. Acked'
  BY <1>2, <1>5, <1>12 DEF LLQInv, Acked
<1>14. Told'
  BY <1>2, <1>5, <1>6, <1>9, <1>10, <1>11, <1>12 DEF LLQInv, Told, Knows
<1>15. Silent'
  BY <1>2, <1>5 DEF LLQInv, Silent
<1> QED BY <1>7, <1>8, <1>a2, <1>13, <1>14, <1>15 DEF LLQInv

(* An answer that gives no number, or one that was given.                     *)
LEMMA ServeAnswer ==
  ASSUME LongLivedAssumption, LLQInv, NEW m \in net, m \in QueryMessage, m.to = "server", UNCHANGED <<q, server>>,
         NEW r, net' = (net \ {m}) \union {r} \/ net' = net \ {m},
         \E kind \in {"setup", "refreshed", "refused", "answer"}, id \in {0, m.id} :
           Answering(r, m, kind, id) /\ (kind = "setup" => id = 0 \/ m.kind = "challenge")
  PROVE  LLQInv'
<1>1. server \in Server
  BY DEF LLQInv, Types
<1>2. Served(m)
  BY <1>1 DEF Served
<1> QED BY <1>2, ServeKeeps

LEMMA StepServe ==
  ASSUME LongLivedAssumption, LLQInv, NEW m \in net, Serve(m) PROVE LLQInv'
<1> DEFINE new == server.used + 1
<1>1. m \in QueryMessage /\ q' = q /\ q \in Question /\ server \in Server
  BY DEF LLQInv, Types, Serve
<1>2. m.id \in {0} \union Ids /\ m.version \in Nat
  BY <1>1 DEF QueryMessage
<1>3. CASE Challenge(m)
  <2>1. CASE \E i \in Ids : server.entry[i] = "requested" /\ Taken(m, {Reply(m, "setup", i)}) /\ UNCHANGED server
    BY <1>1, <2>1, ServeAgain DEF Taken
  <2>2. CASE /\ new \in Ids /\ Taken(m, {Reply(m, "setup", new)})
             /\ server' = [server EXCEPT !.entry[new] = "requested", !.used = new]
    BY <1>1, <1>3, <2>2, ServeSetup DEF Taken, Challenge
  <2> QED BY <1>3, <2>1, <2>2 DEF Challenge
<1>4. CASE Acknowledge(m)
  BY <1>1, <1>4, ServeChallenge DEF Acknowledge, Taken
<1>5. CASE AcknowledgeAtOnce(m)
  BY <1>1, <1>5, ServePrivate DEF AcknowledgeAtOnce, Taken
<1>6. CASE Refresh(m)
  <2> DEFINE r == Reply(m, "refreshed", m.id)
             gone == [server EXCEPT !.entry[m.id] = "none"]
  <2>1. Answering(r, m, "refreshed", m.id)
    BY <1>1, <1>2, ReplyIs DEF Answers
  <2>2. m.to = "server" /\ net' = (net \ {m}) \union {r} /\ server' \in {server, gone}
    BY <1>6 DEF Refresh, Taken
  <2>3. gone \in Server
    BY <1>1 DEF Server
  <2>4. gone.version = server.version /\ gone.used = server.used /\ gone.told = server.told
        /\ \A i \in Ids : gone.entry[i] \in {server.entry[i], "none"}
    BY <1>1 DEF Server
  <2> HIDE DEF r, gone
  <2>5. Served(m)
    BY <1>1, <2>1, <2>2, <2>3, <2>4 DEF Served
  <2> QED BY <2>2, <2>5, ServeKeeps
<1>7. CASE EventTaken(m)
  <2> DEFINE told == [server EXCEPT !.told[m.id] = m.version]
  <2>1. m.to = "server" /\ net' = (net \ {m}) \union {} /\ m.kind = "acked"
        /\ server' = IF m.version = server.version /\ m.id # 0 THEN told ELSE server
    BY <1>7 DEF EventTaken, Taken
  <2>3. told \in Server
    BY <1>1, <1>2 DEF Server
  <2>4. told.version = server.version /\ told.used = server.used /\ told.entry = server.entry
        /\ \A i \in Ids : told.told[i] = server.told[i] \/ (i = m.id /\ told.told[i] = m.version)
    BY <1>1, <1>2 DEF Server
  <2> HIDE DEF told
  <2>5. Served(m)
    BY <1>1, <2>1, <2>3, <2>4 DEF Served
  <2> QED BY <2>1, <2>5, ServeKeeps
<1>8. CASE Answer(m)
  <2>1. Answering(Reply(m, "answer", 0), m, "answer", 0)
    BY <1>1, ReplyIs DEF Answers
  <2> QED BY <1>1, <1>8, <2>1, ServeAnswer DEF Answer, Taken
<1>9. CASE Decline(m)
  <2>1. /\ Answering(Refusal(m, "setup", 0), m, "setup", 0) /\ Answering(Reply(m, "refused", 0), m, "refused", 0)
        /\ Answering(Refusal(m, "setup", m.id), m, "setup", m.id)
        /\ Answering(Refusal(m, "refreshed", m.id), m, "refreshed", m.id)
    BY <1>1, <1>2, ReplyIs, RefusalIs DEF Answers
  <2>2. CASE m.kind = "setup"
    BY <1>1, <1>9, <2>1, <2>2, ServeAnswer DEF Decline, Taken
  <2>3. CASE m.kind = "challenge"
    BY <1>1, <1>9, <2>1, <2>3, ServeAnswer DEF Decline, Taken
  <2>4. CASE m.kind = "refresh"
    BY <1>1, <1>9, <2>1, <2>4, ServeAnswer DEF Decline, Taken
  <2>5. CASE m.kind = "nothing"
    BY <1>1, <1>9, <2>1, <2>5, ServeAnswer DEF Decline, Taken
  <2> QED BY <1>9, <2>2, <2>3, <2>4, <2>5 DEF Decline
<1> QED BY <1>3, <1>4, <1>5, <1>6, <1>7, <1>8, <1>9 DEF Serve

LEMMA StepChange ==
  ASSUME LongLivedAssumption, LLQInv, Change PROVE LLQInv'
<1>1. server \in Server /\ q \in Question /\ (\A m \in net : m \in QueryMessage)
  BY DEF LLQInv, Types
<1>2. server.version \in Nat
  BY <1>1 DEF Server
<1>3. /\ server' \in Server /\ server'.version = server.version + 1 /\ server'.entry = server.entry
      /\ server'.told = server.told /\ server'.used = server.used /\ q' = q /\ net' = net
  <2>1. server' = [server EXCEPT !.version = server.version + 1] /\ q' = q /\ net' = net
    BY DEF Change
  <2>2. server.version + 1 \in Nat
    BY <1>2
  <2> QED BY <1>1, <2>1, <2>2 DEF Server
<1>4. Versioned'
  <2>1. \A n \in Nat : n <= server.version => n <= server.version + 1
    BY <1>2
  <2> QED BY <1>1, <1>3, <2>1 DEF LLQInv, Versioned, QueryMessage, Question, Server
<1>5. Mine' = Mine
  BY <1>3 DEF Mine
<1>6. Types' /\ Numbered' /\ Begun' /\ Acked' /\ Told' /\ Silent'
  BY <1>1, <1>3, <1>5 DEF LLQInv, Types, Numbered, Begun, Acked, Told, Knows, Silent
<1> QED BY <1>4, <1>5, <1>6 DEF LLQInv

LEMMA StepEvent ==
  ASSUME LongLivedAssumption, LLQInv, NEW i \in Ids, Event(i) PROVE LLQInv'
<1> DEFINE e == [to |-> "client", kind |-> "event", via |-> "udp", id |-> i, lease |-> TRUE,
                 version |-> server.version, err |-> FALSE, now |-> TRUE]
<1>1. server \in Server /\ q \in Question /\ (\A m \in net : m \in QueryMessage)
  BY DEF LLQInv, Types
<1>2. server.version \in Nat
  BY <1>1 DEF Server
<1>3. /\ e \in QueryMessage /\ e.to = "client" /\ e.kind = "event" /\ e.id = i /\ e.now
      /\ e.version = server.version
  BY <1>2 DEF QueryMessage, Answers
<1>4. net' = net \union {e} /\ UNCHANGED <<q, server>> /\ server.entry[i] = "established"
  BY DEF Event
<1> HIDE DEF e
<1>5. Types' /\ Versioned'
  BY <1>1, <1>2, <1>3, <1>4 DEF LLQInv, Types, Versioned
<1>6. Numbered' /\ Begun'
  BY <1>3, <1>4 DEF LLQInv, Numbered, Begun, Knows
<1>8. Mine' = Mine
  BY <1>3, <1>4 DEF Mine
<1>9. Acked'
  BY <1>3, <1>4, <1>8 DEF LLQInv, Acked
<1>10. Told' /\ Silent'
  BY <1>3, <1>4, <1>8 DEF LLQInv, Versioned, Told, Knows, Silent
<1> QED BY <1>5, <1>6, <1>9, <1>10 DEF LLQInv

LEMMA StepEntryEnds ==
  ASSUME LongLivedAssumption, LLQInv, NEW i \in Ids, EntryEnds(i) PROVE LLQInv'
<1> DEFINE gone == [server EXCEPT !.entry[i] = "none"]
<1>1. server \in Server /\ q \in Question /\ (\A m \in net : m \in QueryMessage)
  BY DEF LLQInv, Types
<1>2. /\ gone \in Server /\ gone.version = server.version /\ gone.used = server.used /\ gone.told = server.told
      /\ \A j \in Ids : gone.entry[j] \in {server.entry[j], "none"}
  BY <1>1 DEF Server
<1>3. server' = gone /\ UNCHANGED <<q, net>>
  BY DEF EntryEnds
<1> HIDE DEF gone
<1>4. Types' /\ Versioned' /\ Numbered'
  BY <1>1, <1>2, <1>3 DEF LLQInv, Types, Versioned, Numbered
<1>5. Mine' = Mine
  BY <1>3 DEF Mine
<1>6. Begun' /\ Told'
  BY <1>1, <1>2, <1>3, <1>5 DEF LLQInv, Begun, Told, Knows, QueryMessage, Question
<1>7. Acked' /\ Silent'
  BY <1>3, <1>5 DEF LLQInv, Acked, Silent
<1> QED BY <1>4, <1>6, <1>7 DEF LLQInv

LEMMA StepLose ==
  ASSUME LongLivedAssumption, LLQInv, NEW m \in net, Lose(m) PROVE LLQInv'
<1>1. net' \subseteq net /\ UNCHANGED <<q, server>>
  BY DEF Lose
<1>2. Mine' \subseteq Mine
  BY <1>1 DEF Mine
<1> QED BY <1>1, <1>2 DEF LLQInv, Types, Versioned, Numbered, Begun, Knows, Acked, Told, Silent

LEMMA StutterKeeps == ASSUME LLQInv, UNCHANGED queryVars PROVE LLQInv'
  BY DEF LLQInv, queryVars, Types, Versioned, Numbered, Begun, Knows, Mine, Acked, Told, Silent

LEMMA LLQNext == ASSUME LongLivedAssumption, LLQInv, [LongLivedNext]_queryVars PROVE LLQInv'
<1>1. CASE mDNS_StartQuery \/ mDNS_StopQuery \/ Restart \/ LLQNATCallback \/ SuspendLLQs \/ LeaseEnds
  BY <1>1, StepStart, StepStop, StepRestart, StepNATCallback, StepSuspend, StepLeaseEnds
<1>2. CASE uDNS_CheckCurrentQuestion \/ GetZoneData_QuestionCallback \/ Connected \/ Disconnected
  BY <1>2, StepCheck, StepGetZoneData, StepConnected, StepDisconnected
<1>3. CASE \E m \in net : Receive(m) \/ Serve(m) \/ Lose(m)
  BY <1>3, StepReceive, StepServe, StepLose
<1>4. CASE Change \/ \E i \in Ids : Event(i) \/ EntryEnds(i)
  BY <1>4, StepChange, StepEvent, StepEntryEnds
<1>5. CASE UNCHANGED queryVars
  BY <1>5, StutterKeeps
<1> QED BY <1>1, <1>2, <1>3, <1>4, <1>5 DEF LongLivedNext

LEMMA LLQCurrent == ASSUME LLQInv PROVE EstablishedIsCurrent
<1>1. q.latest \in Nat /\ server.version \in Nat
  BY DEF LLQInv, Types, Question, Server
<1> QED BY <1>1 DEF LLQInv, Versioned, Told, Knows, EstablishedIsCurrent

(* Whatever is lost, repeated, late or out of order between the client of a   *)
(* long-lived query (uDNS.c) and its server: when the server holds the query  *)
(* and counts its events as delivered, the client has seen the answers as     *)
(* they are now, unless a challenge that was sent twice has made it believe   *)
(* that the query was acknowledged, and neither the acknowledgment nor an     *)
(* event has come since.                                                      *)
THEOREM EstablishedQueriesAreCurrent ==
  ASSUME LongLivedAssumption PROVE LongLivedSpec => []EstablishedIsCurrent
<1>1. LongLivedInit => LLQInv
  BY LLQInit
<1>2. LLQInv /\ [LongLivedNext]_queryVars => LLQInv'
  BY LLQNext
<1>3. LLQInv => EstablishedIsCurrent
  BY LLQCurrent
<1> QED BY <1>1, <1>2, <1>3, PTL DEF LongLivedSpec
==============================================================================

------------------------------ MODULE SleepProxy ------------------------------
(* Going to sleep and standing in for sleepers, in mDNSCore/mDNS.c.  A machine
   about to sleep resolves the sleep proxies it knows, hands its records over
   in DNS updates, and leaves once they are acknowledged, or says goodbye; a
   proxy answers for the records it holds until their lease ends, their owner
   is heard again or somebody needs the owner, which it then wakes with magic
   packets.  A proxy that goes to sleep itself hands all it holds to another.

   A machine has one interface and one record per name; time is a choice: a
   retry is due, a limit passes, a lease ends at any moment.  Updates and
   answers may be lost and overtake one another. *)
EXTENDS Integers, Sequences, FiniteSets, FiniteSetsExt

CONSTANTS
  Machines,         \* the machines of the link
  Servers,          \* those that may be asked to be a sleep proxy
  Records,          \* the records of all machines
  OwnerOf,          \* [Records -> Machines]
  Services,         \* the records that are SRV records of a service
  Addresses,        \* those that map an address of their owner to its name
  Ports, PortOf,    \* ports, [Services -> Ports]
  Slots,            \* sleep proxies tried, 3 in the code
  Tries,            \* attempts at each, 3 in the code
  MaxProxyRecords,  \* MAX_PROXY_RECORDS
  Links,            \* what the machines may do, see Link
  None

\* sleepers go to sleep, at most so many times, and wakers wake again; switching
\* proxies begin and cease; known are the lists of proxies a cache may hold;
\* updates bounds the registrations, and noIPv6 machines cannot send over IPv6.
Link == [sleepers : SUBSET Machines, wakers : SUBSET Machines, switching : SUBSET Servers,
         noIPv6 : SUBSET Machines, records : SUBSET Records, sleeps : Nat, updates : Nat,
         known : [Machines -> SUBSET UNION {[1 .. n -> Servers] : n \in 0 .. Slots}]]

ASSUME SleepProxyAssumption ==
  /\ Servers \subseteq Machines /\ OwnerOf \in [Records -> Machines] /\ Services \subseteq Records
  /\ Addresses \subseteq Records /\ PortOf \in [Services -> Ports]
  /\ Slots \in Nat \ {0} /\ Tries \in Nat \ {0, 1} /\ MaxProxyRecords \in Nat
  /\ Links \subseteq Link /\ None \notin Machines /\ IsFiniteSet(Records)
  /\ \A r \in Records : OwnerOf[r] \notin Servers   \* a proxy's own services are left out

VARIABLES
  link,          \* one of Links
  power,         \* SleepState, and "off" once the machine is asleep
  SleepSeqNum,   \* the period of wakefulness
  DelaySleep,    \* woken moments ago: sleep is put off
  SleepLimit,    \* "none", "ahead" or "passed"
  NetWake,       \* NetWakeBrowse is running
  SPSSocket,     \* open for registrations
  SPSState,      \* 0 off, 1 running, 2 shutting down, 3 suspended
  SPSType,       \* 1 when it was asked to be a sleep proxy
  NextSPSAttempt,
  slots,         \* NetWakeResolve, SPSAddr
  records,       \* its own records and those it stands in for
  ProxyRecords,  \* how many those are
  leaving,       \* those that are deregistered and say goodbye
  lastId,        \* the last message id
  net,           \* updates and answers under way
  quiet,         \* the machine left without saying goodbye
  asked,         \* it sent its records to a proxy, in this sleep
  fate,          \* what the last proxy to see a record in this sleep made of it
  woken          \* machines a magic packet was sent to in this sleep

sleepVars == <<link, power, SleepSeqNum, DelaySleep, SleepLimit, NetWake, SPSSocket, SPSState, SPSType,
               NextSPSAttempt, slots, records, ProxyRecords, leaving, lastId, net, quiet, asked, fate, woken>>
server == <<SPSSocket, SPSState, SPSType>>
sleeper == <<link, power, SleepSeqNum, DelaySleep, SleepLimit, NetWake, NextSPSAttempt, slots, quiet, lastId, asked>>

Slot == [ask : {"no", "srv", "aaaa", "a"}, who : Machines \cup {None}, addr : {"none", "v4", "v6"}]
NoSlot == [ask |-> "no", who |-> None, addr |-> "none"]

AuthRecord == [state : {"none", "registered", "waking"}, hmac : Machines \cup {None}, seq : Nat, updateid : Nat]
NoRecord == [state |-> "none", hmac |-> None, seq |-> 0, updateid |-> 0]
OwnRecord == [NoRecord EXCEPT !.state = "registered"]

\* Records with an HMAC are those the machine stands in for: "registered", or
\* "waking", deregistered and sending magic packets.
Held(m) == {r \in Records : records[m][r].state = "registered" /\ records[m][r].hmac # None}
Woken(m) == {r \in Records : records[m][r].state = "waking"}
Foreign(m) == {r \in Records : records[m][r].state # "none" /\ OwnerOf[r] # m}

SleepTypeOK ==
  /\ power \in [Machines -> {"awake", "transferring", "sleeping", "off"}]
  /\ SleepSeqNum \in [Machines -> 0 .. link.sleeps] /\ DelaySleep \in [Machines -> BOOLEAN]
  /\ SleepLimit \in [Machines -> {"none", "ahead", "passed"}] /\ NetWake \in [Machines -> BOOLEAN]
  /\ SPSSocket \in [Machines -> BOOLEAN] /\ SPSState \in [Machines -> 0 .. 3] /\ SPSType \in [Machines -> 0 .. 1]
  /\ NextSPSAttempt \in [Machines -> -1 .. Slots * Tries - 1]
  /\ slots \in [Machines -> [0 .. Slots - 1 -> Slot]]
  /\ \A m \in Machines, r \in Records :
       /\ records[m][r] \in AuthRecord /\ records[m][r].updateid <= lastId[m]
       /\ OwnerOf[r] = m /\ r \in link.records => records[m][r].state = "registered" /\ records[m][r].hmac = None
  /\ leaving \in [Machines -> Nat] /\ quiet \in [Machines -> BOOLEAN] /\ asked \in [Machines -> BOOLEAN]
  /\ fate \in [Records -> {"none", "accepted", "refused"}] /\ woken \subseteq Machines

------------------------------------------------------------------------------
(* Standing in for a machine. *)

Waking(recs, rs) == [r \in Records |-> IF r \in rs THEN [recs[r] EXCEPT !.state = "waking"] ELSE recs[r]]
Freed(recs, rs) == [r \in Records |-> IF r \in rs THEN NoRecord ELSE recs[r]]

\* What ClearProxyRecords removes: what was registered in another period of the
\* owner's wakefulness, or longer than a minute ago.
ClearProxyRecords(s, o, seq, old) ==
  {r \in Held(s) \cup Woken(s) : records[s][r].hmac = o /\ (records[s][r].seq # seq \/ r \in old)}

\* For a minute after it woke, a machine puts an owner option in what it sends.
Announce(m, s) ==
  /\ power[m] = "awake" /\ s # m /\ power[s] # "off"
  /\ \E old \in SUBSET Held(s) : LET gone == ClearProxyRecords(s, m, SleepSeqNum[m], old) IN
       /\ gone # {}
       /\ records' = [records EXCEPT ![s] = Freed(@, gone)]
       /\ ProxyRecords' = [ProxyRecords EXCEPT ![s] = @ - Cardinality(gone)]
  /\ UNCHANGED <<sleeper, server, leaving, net, fate, woken>>

\* Mutant: the records go without a magic packet.
CheckProxyRecords_Silently(s) ==
  /\ power[s] # "off"
  /\ \E ended \in (IF SPSSocket[s] THEN SUBSET Held(s) ELSE {Held(s)}) :
       /\ ended # {}
       /\ records' = [records EXCEPT ![s] = Freed(@, ended)]
       /\ ProxyRecords' = [ProxyRecords EXCEPT ![s] = @ - Cardinality(ended)]
  /\ UNCHANGED <<sleeper, server, leaving, net, fate, woken>>

\* From mDNS_Execute: leases that have ended, or all when the socket is closed.
CheckProxyRecords(s) ==
  /\ power[s] # "off"
  /\ \E ended \in (IF SPSSocket[s] THEN SUBSET Held(s) ELSE {Held(s)}) :
       /\ ended # {}
       /\ records' = [records EXCEPT ![s] = Waking(@, ended)]
  /\ UNCHANGED <<sleeper, server, ProxyRecords, leaving, net, fate, woken>>

Of(s, o) == {r \in Held(s) : records[s][r].hmac = o}

ScheduleWakeup(s, o) ==
  /\ records' = [records EXCEPT ![s] = Waking(@, Of(s, o))]
  /\ UNCHANGED <<sleeper, server, ProxyRecords, leaving, net, fate, woken>>

\* Another machine speaks from the address of a sleeper, in ARP or in IPv6
\* neighbour discovery.
mDNSCoreReceiveRawARP(s, r) ==
  /\ power[s] # "off" /\ r \in Held(s) \cap Addresses
  /\ ScheduleWakeup(s, records[s][r].hmac)

\* The packets worth waking a machine for: no end of a connection, of TCP but its
\* beginning or more of SSH, and no keepalive of IPsec or plain query of ARD.
Packet == [kind : {"icmp", "tcp", "udp"}, port : Ports, syn : BOOLEAN, fin : BOOLEAN, rst : BOOLEAN, idle : BOOLEAN]
Wakes(pkt) ==
  \/ pkt.kind = "tcp" /\ ~pkt.rst /\ (pkt.fin => pkt.syn) /\ (pkt.syn \/ pkt.port = "ssh")
  \/ pkt.kind = "udp" /\ (pkt.port \in {"ipsec", "ard"} => ~pkt.idle)

WakingPackets == {pkt \in Packet : Wakes(pkt)}

\* Such a packet for the address of a sleeper that has a service on the port.
mDNSCoreReceiveRawTransportPacket(s, r) ==
  /\ power[s] # "off" /\ r \in Held(s) \cap Addresses
  /\ {pkt \in WakingPackets : \/ \E srv \in Of(s, records[s][r].hmac) \cap Services : PortOf[srv] = pkt.port
                              \/ pkt.port = "ipsec"} # {}
  /\ ScheduleWakeup(s, records[s][r].hmac)

\* Somebody else has the record's name: it is lost, and its owner woken.
SPSRecordCallback(s, r) ==
  /\ power[s] # "off" /\ r \in Foreign(s) \ Woken(s)
  /\ LET o == records[s][r].hmac
     IN  /\ woken' = IF o = None THEN woken ELSE woken \cup {o}
         /\ records' = [records EXCEPT ![s] = Freed(Waking(@, Of(s, o)), {r})]
  /\ ProxyRecords' = [ProxyRecords EXCEPT ![s] = @ - 1]
  /\ UNCHANGED <<sleeper, server, leaving, net, fate>>

\* A round of magic packets counts down every record of the owner further on in
\* the list.  One whose count is small loses its HMAC; a waking one then leaves.
SendWakeup(s, r) ==
  /\ power[s] # "off" /\ r \in Woken(s)
  /\ woken' = woken \cup {records[s][r].hmac}
  /\ \E down \in SUBSET {q \in Held(s) \cup Woken(s) : records[s][q].hmac = records[s][r].hmac} :
       /\ records' = [records EXCEPT ![s] = [q \in Records |->
                        IF q \notin down THEN @[q]
                        ELSE IF @[q].state = "waking" THEN NoRecord ELSE [@[q] EXCEPT !.hmac = None]]]
       /\ leaving' = [leaving EXCEPT ![s] = @ + Cardinality(down \cap Woken(s))]
  /\ UNCHANGED <<sleeper, server, ProxyRecords, net, fate>>

\* The last goodbye of a record has been sent: it is freed and counted off.
LastGoodbye(s) ==
  /\ power[s] # "off" /\ leaving[s] > 0
  /\ leaving' = [leaving EXCEPT ![s] = @ - 1]
  /\ ProxyRecords' = [ProxyRecords EXCEPT ![s] = @ - 1]
  /\ UNCHANGED <<sleeper, server, records, net, fate, woken>>

------------------------------------------------------------------------------
(* Being a sleep proxy. *)

Seen(msg, verdict) == [r \in Records |->
  IF r \in msg.recs /\ msg.owner = OwnerOf[r] /\ msg.seq = SleepSeqNum[OwnerOf[r]] THEN verdict ELSE fate[r]]

\* The sender lets go of what is refused, of whatever sleep it is, and the proxy
\* of what it throws away.
Refused(msg, gone) == [r \in Records |->
  IF fate[r] = "accepted" /\ r \in msg.recs \cup gone THEN "refused" ELSE Seen(msg, "refused")[r]]

\* An identical record of the same owner makes room for the new one; one that is
\* being deregistered only loses its HMAC, and one without HMAC stays as it is.
Register(s, msg, got, gone) ==
  LET same == {r \in got : records[s][r].state = "registered" /\ records[s][r].hmac = msg.owner}
      other == {r \in got : records[s][r].state # "none"} \ same
  IN  /\ records' = [records EXCEPT ![s] = [r \in Records |->
                       IF r \in got
                         THEN [state |-> "registered", hmac |-> msg.owner, seq |-> msg.seq, updateid |-> 0]
                         ELSE IF r \in gone THEN NoRecord ELSE @[r]]]
      /\ leaving' = [leaving EXCEPT ![s] = @ + Cardinality(other)]
      /\ ProxyRecords' = [ProxyRecords EXCEPT ![s] =
                            @ + Cardinality(got) - Cardinality(same) - Cardinality(gone)]

\* Memory runs out half way: what was registered so far stays, as it is of this
\* very minute, and what the proxy held for the owner before may go.
OutOfMemory(s, msg) ==
  \E got \in SUBSET msg.recs \ {msg.recs}, old \in SUBSET Held(s) :
    LET gone == ClearProxyRecords(s, msg.owner, msg.seq, old) \ got
    IN  /\ Register(s, msg, got, gone)
        /\ fate' = Refused(msg, gone)

mDNSCoreReceiveUpdate(s, msg) ==
  /\ msg \in net /\ msg.type = "update" /\ msg.to = s /\ power[s] # "off" /\ SPSSocket[s]
  /\ LET fits == ProxyRecords[s] + Cardinality(msg.recs) <= MaxProxyRecords
     IN  \/ fits /\ Register(s, msg, msg.recs, {}) /\ fate' = Seen(msg, "accepted")
         \/ fits /\ OutOfMemory(s, msg)
         \/ ~fits /\ fate' = Refused(msg, {}) /\ UNCHANGED <<records, ProxyRecords, leaving>>
  /\ net' = (net \ {msg}) \cup {[type |-> "answer", from |-> s, to |-> msg.from, id |-> msg.id]}
  /\ UNCHANGED <<sleeper, server, woken>>

\* MemFree for the service the proxy offers.
SleepProxyServerCallback(s) ==
  /\ SPSState[s] = 2 /\ power[s] # "off"
  /\ SPSState' = [SPSState EXCEPT ![s] = IF power[s] # "awake" THEN 3 ELSE IF SPSSocket[s] THEN 1 ELSE 0]
  /\ UNCHANGED <<sleeper, SPSSocket, SPSType, records, ProxyRecords, leaving, net, fate, woken>>

BeSleepProxyServer(s, type) ==
  /\ s \in link.switching /\ power[s] = "awake" /\ type # SPSType[s]
  /\ SPSType' = [SPSType EXCEPT ![s] = type]
  /\ SPSSocket' = [SPSSocket EXCEPT ![s] = (type = 1)]
  /\ SPSState' = [SPSState EXCEPT ![s] = IF @ = 1 THEN 2 ELSE IF @ = 0 /\ type = 1 THEN 1 ELSE @]
  /\ UNCHANGED <<sleeper, records, ProxyRecords, leaving, net, fate, woken>>

------------------------------------------------------------------------------
(* Registering with a sleep proxy.  A registration is worked out as a record of
   all it changes on the machine, and of the updates it sends. *)

\* The slot of an attempt, by the division of C, where -1/3 is 0.
SlotOf(attempt) == IF attempt < 0 THEN 0 ELSE attempt \div Tries
Further(attempt) == IF attempt < Slots * Tries - 1 THEN attempt + 1 ELSE attempt

Now(m) == [attempt |-> NextSPSAttempt[m], slots |-> slots[m], lastId |-> lastId[m],
           records |-> records[m], sent |-> {}]

Update(m, to, id, owner, recs) ==
  [type |-> "update", from |-> m, to |-> to, id |-> id, recs |-> recs,
   owner |-> IF owner.hmac = None THEN m ELSE owner.hmac,
   seq |-> IF owner.hmac = None THEN SleepSeqNum[m] ELSE owner.seq]

\* SendSPSRegistrationForOwner with a new id: all the records of one owner.  Where
\* IPv6 fails the IPv4 address is asked for, and nothing has been sent.
ForOwner(m, owner, st) ==
  LET i == SlotOf(st.attempt)
      slot == st.slots[i]
      recs == {r \in Records : records[m][r].state = "registered"
                               /\ records[m][r].hmac = owner.hmac /\ records[m][r].seq = owner.seq}
      id == st.lastId + 1
      marked == [st EXCEPT !.lastId = id, !.records = [r \in Records |->
                   IF r \in recs THEN [st.records[r] EXCEPT !.updateid = id] ELSE st.records[r]]]
      lost == m \in link.noIPv6 /\ slot.addr = "v6"
  IN  IF slot.addr = "none" \/ recs = {} THEN [st EXCEPT !.attempt = Further(@)]
      ELSE IF lost /\ slot.ask = "no" THEN [marked EXCEPT !.slots[i].ask = "a"]
      ELSE [marked EXCEPT !.attempt = Further(@),
                          !.sent = IF lost THEN @ ELSE @ \cup {Update(m, slot.who, id, owner, recs)}]

\* First its own, then those of each other owner it stands in for.
NoOwner == [hmac |-> None, seq |-> 0]
OwnersOf(m) == {[hmac |-> records[m][r].hmac, seq |-> records[m][r].seq] : r \in Held(m) \cup Foreign(m)} \ {NoOwner}
SendSPSRegistration(m, st) ==
  FoldSet(LAMBDA o, sofar : ForOwner(m, o, sofar), ForOwner(m, NoOwner, st), OwnersOf(m))

Apply(m, st) ==
  /\ st.lastId # lastId[m] => st.lastId <= link.updates
  /\ NextSPSAttempt' = [NextSPSAttempt EXCEPT ![m] = st.attempt]
  /\ slots' = [slots EXCEPT ![m] = st.slots]
  /\ lastId' = [lastId EXCEPT ![m] = st.lastId]
  /\ asked' = [asked EXCEPT ![m] = @ \/ st.lastId # lastId[m]]

\* An answer to one of the questions for a sleep proxy: its port, or an address.
NetWakeResolve(m, i) ==
  /\ power[m] # "off"
  /\ LET slot == slots[m][i]
         asks(q) == [Now(m) EXCEPT !.slots[i].ask = q]
         knows(addr) == LET st == [Now(m) EXCEPT !.slots[i].ask = "no", !.slots[i].addr = addr]
                        IN  IF i = SlotOf(st.attempt) THEN SendSPSRegistration(m, st) ELSE st
     IN  \E st \in CASE slot.ask = "srv" -> {asks("aaaa")}
                     [] slot.ask = "aaaa" -> {asks("a"), knows("v6")}
                     [] slot.ask = "a" -> {knows("v4")}
                     [] OTHER -> {} :
           Apply(m, st) /\ records' = [records EXCEPT ![m] = st.records] /\ net' = net \cup st.sent
  /\ UNCHANGED <<link, power, SleepSeqNum, DelaySleep, SleepLimit, NetWake, quiet, server,
                 ProxyRecords, leaving, fate, woken>>

Outstanding(m) == {records[m][r].updateid : r \in Records} \ {0}

\* RetrySPSRegistrations: what was sent and is not answered goes out again under
\* its id, to the proxy whose turn it is now.  Where IPv6 fails the IPv4 address
\* is asked for, and the attempt counts if anything else of the round came through.
RetrySPSRegistrations(m) ==
  /\ power[m] = "transferring"
  /\ LET i == SlotOf(NextSPSAttempt[m])
         slot == slots[m][i]
         lost == m \in link.noIPv6 /\ slot.addr = "v6"
         again(id) == LET recs == {r \in Records : records[m][r].updateid = id}
                          some == records[m][CHOOSE r \in recs : TRUE]
                      IN  Update(m, slot.who, id, [hmac |-> some.hmac, seq |-> some.seq], recs)
     IN  \E due \in SUBSET Outstanding(m) \ {{}} :
           /\ slot.addr # "none"
           /\ net' = IF lost THEN net ELSE net \cup {again(id) : id \in due}
           /\ slots' = IF lost /\ slot.ask = "no" THEN [slots EXCEPT ![m][i].ask = "a"] ELSE slots
           /\ NextSPSAttempt' = [NextSPSAttempt EXCEPT ![m] =
                IF @ = 0 \/ (lost /\ slot.ask = "no" /\ Cardinality(due) = 1 /\ OwnersOf(m) = {}) THEN @ ELSE Further(@)]
  /\ UNCHANGED <<link, power, SleepSeqNum, DelaySleep, SleepLimit, NetWake, quiet, lastId, asked, server,
                 records, ProxyRecords, leaving, fate, woken>>

\* The answer of a sleep proxy, whatever it says.  What the machine stood in for
\* itself is the other's from now on.
mDNSCoreReceiveUpdateR(m, msg) ==
  /\ msg \in net /\ msg.type = "answer" /\ msg.to = m /\ power[m] # "off"
  /\ net' = net \ {msg}
  /\ LET done == {r \in Records : records[m][r].updateid = msg.id}
         over == done \cap Held(m)
     IN  /\ records' = [records EXCEPT ![m] = [r \in Records |->
                          IF r \in over THEN NoRecord
                          ELSE IF r \in done THEN [@[r] EXCEPT !.updateid = 0] ELSE @[r]]]
         /\ ProxyRecords' = [ProxyRecords EXCEPT ![m] = @ - Cardinality(over)]
  /\ UNCHANGED <<sleeper, server, leaving, fate, woken>>

------------------------------------------------------------------------------
(* Going to sleep and waking. *)

HaveAdvertisedMulticastServices(m) == \E r \in Services : records[m][r].state # "none"

\* With no proxy to be had, or nothing to hand over, it says goodbye.
BeginSleepProcessing(m) ==
  \E sps \in link.known[m] :
    IF sps = <<>> \/ ~HaveAdvertisedMulticastServices(m)
      THEN power' = [power EXCEPT ![m] = "sleeping"] /\ UNCHANGED <<NextSPSAttempt, slots>>
      ELSE /\ power' = [power EXCEPT ![m] = "transferring"]
           /\ NextSPSAttempt' = [NextSPSAttempt EXCEPT ![m] = 0]
           /\ slots' = [slots EXCEPT ![m] = [i \in 0 .. Slots - 1 |->
                          IF i < Len(sps) THEN [ask |-> "srv", who |-> sps[i + 1], addr |-> "none"] ELSE NoSlot]]

\* What is told of a sleep is told of this one.
AnotherSleep(m) ==
  /\ asked' = [asked EXCEPT ![m] = FALSE]
  /\ fate' = [r \in Records |-> IF OwnerOf[r] = m THEN "none" ELSE fate[r]]
  /\ woken' = woken \ {m}

Sleep(m) ==
  /\ m \in link.sleepers /\ power[m] = "awake" /\ SleepSeqNum[m] < link.sleeps
  /\ SPSState' = [SPSState EXCEPT ![m] = IF SPSSocket[m] THEN 2 ELSE @]
  /\ SleepLimit' = [SleepLimit EXCEPT ![m] = "ahead"]
  /\ IF DelaySleep[m]
       THEN power' = [power EXCEPT ![m] = "transferring"] /\ UNCHANGED <<NextSPSAttempt, slots>>
       ELSE BeginSleepProcessing(m)
  /\ AnotherSleep(m)
  /\ UNCHANGED <<link, SleepSeqNum, DelaySleep, NetWake, SPSSocket, SPSType, quiet, lastId,
                 records, ProxyRecords, leaving, net>>

\* From mDNS_Execute, sixteen seconds after the machine woke.
DelayOver(m) ==
  /\ DelaySleep[m] /\ power[m] # "off"
  /\ DelaySleep' = [DelaySleep EXCEPT ![m] = FALSE]
  /\ IF power[m] = "transferring" THEN BeginSleepProcessing(m) ELSE UNCHANGED <<link, power, NextSPSAttempt, slots>>
  /\ UNCHANGED <<link, SleepSeqNum, SleepLimit, NetWake, quiet, lastId, asked, server,
                 records, ProxyRecords, leaving, net, fate, woken>>

LimitPasses(m) ==
  /\ SleepLimit[m] = "ahead" /\ power[m] # "off"
  /\ SleepLimit' = [SleepLimit EXCEPT ![m] = "passed"]
  /\ UNCHANGED <<link, power, SleepSeqNum, DelaySleep, NetWake, NextSPSAttempt, slots, quiet, lastId, asked, server,
                 records, ProxyRecords, leaving, net, fate, woken>>

\* Mutant: answers that are outstanding are not waited for.
Waiting_Not(st) ==
  st.slots[IF st.attempt = 0 THEN 0 ELSE SlotOf(st.attempt - 1)].ask # "no"

\* What mDNSCoreReadyForSleep waits for, after a registration that is due: the
\* question of the last attempt's proxy, and every answer that is outstanding.
Waiting(st) ==
  \/ st.slots[IF st.attempt = 0 THEN 0 ELSE SlotOf(st.attempt - 1)].ask # "no"
  \/ \E r \in Records : st.records[r].updateid # 0

NoUpdates(recs) == [r \in Records |-> [recs[r] EXCEPT !.updateid = 0]]

\* Past the limit it gives up on sleep proxies and says goodbye.
GiveUp(m, st) ==
  /\ power' = [power EXCEPT ![m] = "sleeping"]
  /\ SleepLimit' = [SleepLimit EXCEPT ![m] = "ahead"]
  /\ NetWake' = [NetWake EXCEPT ![m] = FALSE]
  /\ Apply(m, IF NetWake[m] THEN [st EXCEPT !.attempt = -1, !.slots = [i \in 0 .. Slots - 1 |-> NoSlot]] ELSE st)
  /\ records' = [records EXCEPT ![m] = NoUpdates(st.records)]
  /\ net' = net \cup st.sent
  /\ UNCHANGED quiet

Leave(m, st) ==
  /\ power' = [power EXCEPT ![m] = "off"]
  /\ quiet' = [quiet EXCEPT ![m] = (power[m] = "transferring")]
  /\ Apply(m, st)
  /\ records' = [records EXCEPT ![m] = st.records]
  /\ net' = {msg \in net \cup st.sent : msg.to # m}
  /\ UNCHANGED <<SleepLimit, NetWake>>

\* The platform asks again and again whether the machine may sleep.
mDNSCoreReadyForSleep(m) ==
  /\ power[m] \in {"transferring", "sleeping"} /\ ~DelaySleep[m]
  /\ \E due \in BOOLEAN :
       LET st == IF due /\ NextSPSAttempt[m] >= 0 THEN SendSPSRegistration(m, Now(m)) ELSE Now(m)
       IN  IF ~Waiting(st) THEN Leave(m, st)
           ELSE IF SleepLimit[m] = "passed" THEN GiveUp(m, st)
           ELSE /\ Apply(m, st) /\ records' = [records EXCEPT ![m] = st.records] /\ net' = net \cup st.sent
                /\ UNCHANGED <<link, power, SleepLimit, NetWake, quiet>>
  /\ UNCHANGED <<link, SleepSeqNum, DelaySleep, server, ProxyRecords, leaving, fate, woken>>

\* Woken, or told to stay awake.  What was under way before a sleep is gone.
Wake(m) ==
  /\ m \in link.wakers /\ power[m] # "awake"
  /\ power' = [power EXCEPT ![m] = "awake"]
  /\ SleepSeqNum' = [SleepSeqNum EXCEPT ![m] = @ + 1]
  /\ SleepLimit' = [SleepLimit EXCEPT ![m] = "none"]
  /\ DelaySleep' = [DelaySleep EXCEPT ![m] = TRUE]
  /\ SPSState' = [SPSState EXCEPT ![m] = IF @ = 3 THEN SPSType[m] ELSE @]
  /\ records' = [records EXCEPT ![m] = NoUpdates(@)]
  /\ NextSPSAttempt' = [NextSPSAttempt EXCEPT ![m] = -1]
  /\ quiet' = [quiet EXCEPT ![m] = FALSE] /\ AnotherSleep(m)
  /\ net' = IF power[m] = "off" THEN {msg \in net : m \notin {msg.from, msg.to}} ELSE net
  /\ UNCHANGED <<link, NetWake, slots, lastId, SPSSocket, SPSType, ProxyRecords, leaving>>

\* The platform registers the interface again.
ActivateNetWake(m) ==
  /\ power[m] = "awake" /\ ~NetWake[m]
  /\ NetWake' = [NetWake EXCEPT ![m] = TRUE]
  /\ UNCHANGED <<link, power, SleepSeqNum, DelaySleep, SleepLimit, NextSPSAttempt, slots, quiet, lastId, asked, server,
                 records, ProxyRecords, leaving, net, fate, woken>>

------------------------------------------------------------------------------

SleepInit ==
  /\ link \in Links
  /\ power = [m \in Machines |-> "awake"] /\ SleepSeqNum = [m \in Machines |-> 0]
  /\ DelaySleep = [m \in Machines |-> FALSE] /\ SleepLimit = [m \in Machines |-> "none"]
  /\ NetWake = [m \in Machines |-> TRUE] /\ NextSPSAttempt = [m \in Machines |-> -1]
  /\ slots = [m \in Machines |-> [i \in 0 .. Slots - 1 |-> NoSlot]]
  /\ SPSSocket = [m \in Machines |-> m \in Servers]
  /\ SPSState = [m \in Machines |-> IF m \in Servers THEN 1 ELSE 0]
  /\ SPSType = SPSState
  /\ records = [m \in Machines |-> [r \in Records |-> IF OwnerOf[r] = m /\ r \in link.records THEN OwnRecord ELSE NoRecord]]
  /\ ProxyRecords = [m \in Machines |-> 0] /\ leaving = [m \in Machines |-> 0]
  /\ lastId = [m \in Machines |-> 0] /\ net = {} /\ quiet = [m \in Machines |-> FALSE]
  /\ asked = [m \in Machines |-> FALSE]
  /\ fate = [r \in Records |-> "none"] /\ woken = {}

SleepNext ==
  \/ \E m \in Machines : \/ Sleep(m) \/ DelayOver(m) \/ LimitPasses(m) \/ mDNSCoreReadyForSleep(m) \/ Wake(m)
                         \/ ActivateNetWake(m) \/ RetrySPSRegistrations(m)
                         \/ \E i \in 0 .. Slots - 1 : NetWakeResolve(m, i)
                         \/ \E msg \in net : mDNSCoreReceiveUpdate(m, msg) \/ mDNSCoreReceiveUpdateR(m, msg)
  \/ \E s \in Servers : \/ CheckProxyRecords(s) \/ LastGoodbye(s) \/ SleepProxyServerCallback(s)
                        \/ \E type \in {0, 1} : BeSleepProxyServer(s, type)
                        \/ \E m \in Machines : Announce(m, s)
                        \/ \E r \in Records : \/ SPSRecordCallback(s, r) \/ SendWakeup(s, r) \/ mDNSCoreReceiveRawARP(s, r)
                                           \/ mDNSCoreReceiveRawTransportPacket(s, r)

SleepSpec == SleepInit /\ [][SleepNext]_sleepVars

------------------------------------------------------------------------------

\* What limits registrations and keeps a proxy awake, ProxyRecords, is the number
\* of records of others the machine has, whatever way they went.
ProxiesAreCounted ==
  \A m \in Machines : ProxyRecords[m] = Cardinality(Foreign(m)) + leaving[m]

\* A machine that has asked a sleep proxy and leaves without goodbyes has had all
\* its records looked at by one in this very sleep.
SilentOnlyIfAnswered ==
  \A m \in Machines : power[m] = "off" /\ quiet[m] /\ asked[m] =>
    \A r \in link.records : OwnerOf[r] = m => fate[r] # "none"

\* "Failed to register with SPS, now sending goodbyes" (mDNS.c:5333): a machine
\* leaves without goodbyes only when it has asked one.
SilentOnlyIfAsked ==
  \A m \in Machines : power[m] = "off" /\ quiet[m] => asked[m]

\* As long as its owner sleeps, a record that was accepted is held by some proxy,
\* also across the sleep of proxies, unless the owner has been sent for.
HeldOrWoken ==
  \A r \in Records : LET o == OwnerOf[r] IN
    power[o] = "off" /\ quiet[o] /\ fate[r] = "accepted" =>
      o \in woken \/ \E m \in Machines \ {o} : records[m][r].state # "none"

\* "If we're ready for this result, use it now" (mDNS.c:5017): a machine hands its
\* records to a proxy only when it is about to sleep.  This fails, and no run
\* checks it: the question for a proxy outlives the sleep it was asked for, and its
\* answer finds NextSPSAttempt -1, which is of the first proxy, as -1/3 is 0.
OnlyWhenReady ==
  \A m \in Machines, r \in Records : power[m] = "awake" => records[m][r].updateid = 0
===============================================================================

-------------------------- MODULE MdnsRegistration --------------------------
(***************************************************************************)
(* The life of the records that hosts on one link register with            *)
(* mDNSResponder (mdnsresponder/mDNSCore/mDNS.c): a unique record is       *)
(* probed, verified and announced, and gives way or fights back when       *)
(* another host claims its name; a shared record is announced at once and  *)
(* leaves with goodbyes; of identical records on a host one is active and  *)
(* the others wait on the duplicate list.                                  *)
(*                                                                         *)
(* Every record has the same name, type, class and interface, no           *)
(* DependentOn and no RRSet, so that two records are identical when their  *)
(* rdata is.  Time is counted in probe intervals of 250 ms; announcements  *)
(* and answers are sent at any time within one.  The link is a quick one   *)
(* that loses nothing: a packet is delivered and answered within a probe   *)
(* interval, in any order.                                                 *)
(***************************************************************************)
EXTENDS Integers, FiniteSets

CONSTANTS
  Hosts,
  Records,        \* the AuthRecord structures of the clients
  HostOf,         \* the host each of them is registered on
  DataOf,         \* the rdata a client may register or set each record with
  RData,          \* the rdata, ordered as CompareRData orders it
  NoRData,
  TypesOf,        \* the RecordTypes a client may register each record with
  Probes,         \* DefaultProbeCountForTypeUnique
  Announcements,  \* InitialAnnounceCount
  Goodbyes,       \* GoodbyeCount
  Deferral,       \* probe intervals in the second a loser waits
  Updates,        \* clients may call mDNS_Update
  MaxCallsMade    \* bound: calls of mDNS_Register, and of mDNS_Update

ASSUME RegistrationAssumption ==
  /\ HostOf \in [Records -> Hosts]
  /\ DataOf \in [Records -> SUBSET RData]
  /\ RData \subseteq Int
  /\ NoRData \notin RData
  /\ TypesOf \in [Records -> SUBSET {"Unique", "Shared", "KnownUnique"}]
  /\ Probes \in Nat \ {0}
  /\ Announcements \in Nat \ {0}
  /\ Goodbyes \in Nat \ {0}
  /\ Deferral \in Nat \ {0}
  /\ Updates \in BOOLEAN
  /\ MaxCallsMade \in Nat
  /\ Hosts \cap {"no", "all", "mark"} = {}

VARIABLES
  rr,            \* the records
  net,           \* the packets on their way, one for each receiver
  ShutdownTime,  \* hosts that have called mDNS_StartExit
  callsMade,     \* the number of calls made
  updated        \* history: the hosts whose records have been updated

registrationVars == <<rr, net, ShutdownTime, callsMade, updated>>

UniqueMask == {"Unique", "Verified", "KnownUnique"}
ActiveMask == {"Shared", "Verified", "KnownUnique"}
RecordTypes == {"Unregistered", "Deregistering"} \cup UniqueMask \cup ActiveMask

(* "all" answers on the interface, "mark" on every interface, a host by    *)
(* unicast.                                                                *)
ImmedAnswers == {"no", "all", "mark"} \cup Hosts

AuthRecord ==
  [RecordType : RecordTypes,
   list : {"none", "main", "duplicate"},
   rdata : RData \cup {NoRData},
   NewRData : RData \cup {NoRData},
   ProbeCount : 0 .. Probes + 1,
   wait : 0 .. Deferral,   \* LastAPTime + ThisAPInterval, in intervals from now
   recent : 0 .. Deferral, \* LastMCTime: what is left of the second after it
   AnnounceCount : 0 .. Announcements + Goodbyes,
   RequireGoodbye : BOOLEAN,
   Acknowledged : BOOLEAN,
   ImmedAnswer : ImmedAnswers]

Packet ==
  [kind : {"probe"}, from : Hosts, to : Hosts, rdata : RData, unicast : BOOLEAN]
    \cup
  [kind : {"answer"}, from : Hosts, to : Hosts, rdata : RData,
   goodbye : BOOLEAN, flush : BOOLEAN]

Unregistered ==
  [RecordType |-> "Unregistered", list |-> "none", rdata |-> NoRData,
   NewRData |-> NoRData, ProbeCount |-> 0, wait |-> 0, recent |-> 0,
   AnnounceCount |-> 0, RequireGoodbye |-> FALSE, Acknowledged |-> FALSE, ImmedAnswer |-> "no"]

(* The types of the state, and what the lists say of the records on them. *)
RegistrationTypeOK ==
  /\ rr \in [Records -> AuthRecord]
  /\ net \subseteq Packet
  /\ ShutdownTime \in [Hosts -> BOOLEAN]
  /\ callsMade \in 0 .. MaxCallsMade
  /\ updated \subseteq Hosts
  /\ \A r \in Records :
       /\ (rr[r].list = "none") <=> (rr[r].RecordType = "Unregistered")
       /\ rr[r].list = "duplicate" => rr[r].RecordType # "Deregistering"
       /\ rr[r].list # "none" => rr[r].rdata \in RData

RegistrationInit ==
  /\ rr = [r \in Records |-> Unregistered]
  /\ net = {}
  /\ ShutdownTime = [h \in Hosts |-> FALSE]
  /\ callsMade = 0
  /\ updated = {}

ResourceRecords(h) == {r \in Records : HostOf[r] = h /\ rr[r].list = "main"}
DuplicateRecords(h) == {r \in Records : HostOf[r] = h /\ rr[r].list = "duplicate"}

(* RecordLDT and RecordIsLocalDuplicate.                                   *)
RecordIsLocalDuplicate(a, b) ==
  /\ a.rdata = b.rdata
  /\ \/ a.RecordType = b.RecordType
     \/ {a.RecordType, b.RecordType} = {"Unique", "Verified"}
     \/ "Deregistering" \in {a.RecordType, b.RecordType}

-----------------------------------------------------------------------------
(* The calls of the clients.                                               *)

Called == callsMade < MaxCallsMade /\ callsMade' = callsMade + 1

NewRecord(type, data) ==
  [RecordType |-> type, list |-> "main", rdata |-> data, NewRData |-> NoRData,
   ProbeCount |-> IF type = "Unique" THEN Probes ELSE 0,
   wait |-> IF type = "Unique" THEN 1 ELSE 0,
   recent |-> Deferral,
   AnnounceCount |-> Announcements,
   RequireGoodbye |-> FALSE,
   Acknowledged |-> type # "Unique",
   ImmedAnswer |-> "no"]

(* The search stops at the first live duplicate, so that the goodbyes of   *)
(* only some departing ones may be cancelled before it.                    *)
mDNS_Register(r, type, data) ==
  LET same == {q \in ResourceRecords(HostOf[r]) :
                 RecordIsLocalDuplicate(rr[q], NewRecord(type, data))}
      leaving == {q \in same : rr[q].RecordType = "Deregistering"}
  IN
  /\ rr[r].list = "none" /\ ~ShutdownTime[HostOf[r]]
  /\ \E cancelled \in SUBSET leaving :
       /\ same = leaving => cancelled = leaving
       /\ rr' = [q \in Records |->
            IF q # r THEN
              IF q \in cancelled THEN [rr[q] EXCEPT !.AnnounceCount = 0] ELSE rr[q]
            ELSE IF same = leaving THEN NewRecord(type, data)
            ELSE [NewRecord(type, data) EXCEPT
                    !.list = "duplicate",
                    !.ProbeCount = IF type = "Unique" /\ \E s \in same : rr[s].RecordType = "Verified"
                                   THEN 0 ELSE @]]
  /\ Called
  /\ UNCHANGED <<net, ShutdownTime, updated>>

(* What becomes of an active record that nobody takes over from.           *)
Departed(a, goodbyes) ==
  IF a.RecordType = "Shared" /\ a.RequireGoodbye
  THEN [a EXCEPT !.RecordType = "Deregistering", !.AnnounceCount = goodbyes]
  ELSE Unregistered

Successor(a, d) ==
  [a EXCEPT !.NewRData = d.NewRData, !.Acknowledged = d.Acknowledged]

(* Mutant: nobody takes over from a record that leaves.                    *)
mDNS_Deregister_NoSuccessor(r) ==
  /\ rr[r].list # "none" /\ rr[r].RecordType # "Deregistering"
  /\ rr' = [rr EXCEPT ![r] = IF @.list = "main" THEN Departed(@, Goodbyes) ELSE Unregistered]
  /\ UNCHANGED <<net, ShutdownTime, callsMade, updated>>

(* mDNS_Deregister_internal with mDNS_Dereg_normal.                        *)
mDNS_Deregister(r) ==
  LET heirs == {d \in DuplicateRecords(HostOf[r]) : RecordIsLocalDuplicate(rr[d], rr[r])}
  IN
  /\ rr[r].list # "none" /\ rr[r].RecordType # "Deregistering"
  /\ \/ /\ rr[r].list = "duplicate"
        /\ rr' = [rr EXCEPT ![r] = Unregistered]
     \/ /\ rr[r].list = "main" /\ heirs = {}
        /\ rr' = [rr EXCEPT ![r] = Departed(@, Goodbyes)]
     \/ /\ rr[r].list = "main"
        /\ \E d \in heirs :
             rr' = [rr EXCEPT ![d] = Successor(rr[r], rr[d]), ![r] = Unregistered]
  /\ UNCHANGED <<net, ShutdownTime, callsMade, updated>>

(* Updates are few enough for their credits to last.  InitializeLastAPTime *)
(* leaves the time of the next probe as it is; a record that has sent its  *)
(* last one need not wait any more (SuppressProbes is past by then).       *)
mDNS_Update(r, data) ==
  /\ Updates
  /\ rr[r].list # "none" /\ rr[r].RecordType # "Deregistering"
  /\ IF data = rr[r].rdata
     THEN rr' = [rr EXCEPT ![r].NewRData = NoRData]
     ELSE rr' = [rr EXCEPT ![r].NewRData = data, ![r].AnnounceCount = Announcements,
                           ![r].recent = Deferral,
                           ![r].wait = IF rr[r].ProbeCount > 0 THEN @ ELSE 0]
  /\ Called
  /\ updated' = updated \cup {HostOf[r]}
  /\ UNCHANGED <<net, ShutdownTime>>

(* mDNS_StartExit: duplicates first, so that none of them takes over.      *)
mDNS_StartExit(h) ==
  LET Exit(a) ==
        IF a.list = "duplicate" THEN Unregistered
        ELSE IF a.list = "main" /\ a.RecordType = "Deregistering"
        THEN [a EXCEPT !.AnnounceCount = IF @ > 1 THEN 1 ELSE @]
        ELSE IF a.list = "main" THEN Departed(a, 1) ELSE a
  IN
  /\ ~ShutdownTime[h]
  /\ ShutdownTime' = [ShutdownTime EXCEPT ![h] = TRUE]
  /\ rr' = [r \in Records |-> IF HostOf[r] = h THEN Exit(rr[r]) ELSE rr[r]]
  /\ UNCHANGED <<net, callsMade, updated>>

-----------------------------------------------------------------------------
(* Probing: the part of SendQueries that deals with records.               *)

ToAll(h, packets) == {[p EXCEPT !.to = t] : p \in packets, t \in Hosts}

(* Everything sent so far has been received and answered, and what is new  *)
(* has been announced for the first time.                                  *)
Quiet ==
  /\ net = {}
  /\ \A r \in Records : rr[r].list = "main" =>
       /\ rr[r].ImmedAnswer = "no"
       /\ rr[r].RecordType \in ActiveMask => rr[r].AnnounceCount < Announcements

(* A count above the default marks a record that has lost its name late.   *)
AfterProbe(a) ==
  LET left == (IF a.ProbeCount > Probes THEN Probes ELSE a.ProbeCount) - 1 IN
  [a EXCEPT !.ProbeCount = left, !.wait = 1, !.Acknowledged = @ \/ left = 0]

Verified(a) == [a EXCEPT !.RecordType = "Verified", !.Acknowledged = TRUE]

(* due are the records whose interval has passed.  A record that sent its  *)
(* last probe an interval ago is verified; the duplicates of one that      *)
(* sends its last probe now are acknowledged with it.                      *)
SendProbes(h, due) ==
  LET probing == {r \in due : rr[r].ProbeCount > 0}
      Stepped(r) == IF r \in probing THEN AfterProbe(rr[r]) ELSE Verified(rr[r])
      probed == {r \in probing : Stepped(r).ProbeCount = 0}
      Done(d) == \/ rr[d].ProbeCount = 0
                 \/ \E r \in probed : RecordIsLocalDuplicate(rr[d], rr[r])
      ready == {d \in DuplicateRecords(h) : rr[d].RecordType = "Unique" /\ Done(d)}
      probes == {[kind |-> "probe", from |-> h, to |-> h, rdata |-> rr[r].rdata,
                  unicast |-> Stepped(r).ProbeCount >= Probes - 1] : r \in probing}
  IN
  /\ due \subseteq {r \in ResourceRecords(h) : rr[r].RecordType = "Unique" /\ rr[r].wait = 0}
  /\ due # {} \/ \E d \in ready : ~rr[d].Acknowledged
  /\ rr' = [r \in Records |->
              IF r \in due THEN Stepped(r)
              ELSE IF r \in ready
              THEN [rr[r] EXCEPT !.ProbeCount = 0, !.Acknowledged = TRUE]
              ELSE rr[r]]
  /\ net' = net \cup ToAll(h, probes)
  /\ UNCHANGED <<ShutdownTime, callsMade, updated>>

-----------------------------------------------------------------------------
(* SendResponses: due are the records that are to be announced, or to say  *)
(* goodbye, now.                                                           *)

Answer(h, a, data, bye) ==
  [kind |-> "answer", from |-> h, to |-> h, rdata |-> data, goodbye |-> bye,
   flush |-> a.RecordType \in UniqueMask]

Outdated(a) ==
  a.NewRData # NoRData /\ a.RecordType = "Shared" /\ a.RequireGoodbye

(* A record after it has been multicast: its update is complete.           *)
AfterMulticast(a, isDue) ==
  [a EXCEPT !.rdata = IF a.NewRData = NoRData THEN @ ELSE a.NewRData,
            !.NewRData = NoRData,
            !.recent = Deferral,
            !.AnnounceCount = IF isDue THEN @ - 1 ELSE @,
            !.RequireGoodbye = a.RecordType # "Deregistering",
            !.ImmedAnswer = "no"]

Sendable(a) ==
  a.AnnounceCount > 0
    /\ (a.RecordType \in ActiveMask \cup {"Deregistering"} \/ a.ImmedAnswer \in {"all", "mark"})

SendResponses(h, due) ==
  LET main == ResourceRecords(h)
      unicast == {r \in main : rr[r].ImmedAnswer \in Hosts}
      asked == {r \in main : rr[r].ImmedAnswer \in {"all", "mark"}} \cup due
      \* A unique record is sent with its whole record set.
      marked == asked \cup
        (IF \E r \in asked : rr[r].RecordType \in UniqueMask
         THEN {r \in main : rr[r].RecordType \in ActiveMask} ELSE {})
      after == [r \in main |->
        IF r \in marked THEN AfterMulticast(rr[r], r \in due)
        ELSE IF r \in unicast THEN [rr[r] EXCEPT !.RequireGoodbye = TRUE, !.ImmedAnswer = "no"]
        ELSE IF rr[r].RecordType = "Deregistering"
        THEN [rr[r] EXCEPT !.NewRData = NoRData,
                           !.rdata = IF rr[r].NewRData = NoRData THEN @ ELSE rr[r].NewRData]
        ELSE rr[r]]
      \* CompleteDeregistration.
      complete == {r \in main : after[r].RecordType = "Deregistering" /\ after[r].AnnounceCount = 0}
      Heirs(r) == {d \in DuplicateRecords(h) :
                     rr[d].RecordType = "Shared" /\ rr[d].rdata = after[r].rdata}
      byes == {Answer(h, rr[r], rr[r].rdata, TRUE) : r \in {q \in marked : Outdated(rr[q])}}
      sent == {Answer(h, rr[r],
                 IF rr[r].NewRData = NoRData \/ rr[r].RecordType = "Deregistering"
                 THEN rr[r].rdata ELSE rr[r].NewRData,
                 rr[r].RecordType = "Deregistering") : r \in marked}
      replies == {[Answer(h, rr[r], rr[r].rdata, rr[r].RecordType = "Deregistering")
                     EXCEPT !.to = rr[r].ImmedAnswer] : r \in unicast}
  IN
  /\ due \subseteq {r \in main : Sendable(rr[r])}
  /\ marked \cup unicast \cup complete # {}
  /\ \E heirs \in SUBSET UNION {Heirs(r) : r \in complete} :
       /\ \A r \in complete :
            Cardinality(heirs \cap Heirs(r)) =
              IF Cardinality(Heirs(r)) < Cardinality({c \in complete : after[c].rdata = after[r].rdata})
              THEN Cardinality(Heirs(r))
              ELSE Cardinality({c \in complete : after[c].rdata = after[r].rdata})
       /\ rr' = [r \in Records |->
                   IF r \in complete THEN Unregistered
                   ELSE IF r \in main THEN after[r]
                   ELSE IF r \in heirs
                   THEN [rr[r] EXCEPT !.list = "main", !.AnnounceCount = 0, !.RequireGoodbye = FALSE]
                   ELSE rr[r]]
  /\ net' = net \cup ToAll(h, byes \cup sent) \cup replies
  /\ UNCHANGED <<ShutdownTime, callsMade, updated>>

-----------------------------------------------------------------------------
(* Receiving.  Host h hears its own multicasts too; these are in its queue *)
(* as they are sent, before anything sent later.                           *)

Arrives(p) ==
  /\ p \in net
  /\ p.from = p.to \/ ~\E q \in net : q.from = p.to /\ q.to = p.to

(* PacketRRConflict, for a record that is not identical to the packet's.   *)
Conflict(a, p) == a.RecordType \in UniqueMask /\ a.rdata # p.rdata

(* Mutant: neither of two simultaneous probes gives way.                   *)
LosesTo_Never(a, p) == FALSE

(* ResolveSimultaneousProbe: the later rdata wins.                         *)
LosesTo(a, p) == Conflict(a, p) /\ a.rdata < p.rdata

ProbeAgain(a, count, delay) ==
  [a EXCEPT !.RecordType = "Unique", !.ProbeCount = count, !.wait = delay,
            !.recent = Deferral, !.AnnounceCount = Announcements]

(* ProcessQuery.  A question that need not be answered by unicast is not   *)
(* answered when the record was multicast within the last second.          *)
ReceiveProbe(p) ==
  LET h == p.to
      Asked(a) == IF p.unicast /\ a.ImmedAnswer \in {"no", p.from} THEN p.from
                  ELSE IF a.ImmedAnswer = "mark" THEN "mark" ELSE "all"
      answering == {r \in ResourceRecords(h) :
                      rr[r].RecordType \in ActiveMask /\ (p.unicast \/ rr[r].recent = 0)}
  IN
  /\ Arrives(p) /\ p.kind = "probe"
  /\ rr' = [r \in Records |->
       IF r \in answering THEN [rr[r] EXCEPT !.ImmedAnswer = Asked(rr[r])]
       ELSE IF r \in ResourceRecords(h) /\ rr[r].RecordType = "Unique" /\ LosesTo(rr[r], p)
       THEN ProbeAgain(rr[r], Probes, Deferral)
       ELSE rr[r]]
  /\ net' = net \ {p}
  /\ UNCHANGED <<ShutdownTime, callsMade, updated>>

(* mDNSCoreReceiveResponse, for one record of the response.                *)
(* The same record from elsewhere answers for us; a goodbye for it that is *)
(* not ours makes us say that it is still there.                           *)
SeenIdentical(a, p) ==
  IF ~p.goodbye \/ a.RecordType = "Deregistering"
  THEN [a EXCEPT !.ImmedAnswer = IF @ = "mark" THEN @ ELSE "no"]
  ELSE [a EXCEPT !.ImmedAnswer = IF @ = "no" THEN "all" ELSE @]

(* Mutant: packets older than our first probe count as well.               *)
LosesName_Stale(a, p) ==
  Conflict(a, p) /\ ~p.goodbye /\ a.RecordType \in {"Unique", "KnownUnique"}

(* Packets older than our first probe are ignored.                         *)
LosesName(a, p) ==
  Conflict(a, p) /\ ~p.goodbye /\ a.ProbeCount < Probes
    /\ a.RecordType \in {"Unique", "KnownUnique"}

MustDefend(a, p) ==
  Conflict(a, p) /\ ~p.goodbye /\ a.RecordType = "Verified"

ReceiveAnswer(p) ==
  LET h == p.to
      losers == {r \in ResourceRecords(h) : LosesName(rr[r], p)}
      \* The duplicates of a record that loses its name lose it with it.
      gone == losers \cup {d \in DuplicateRecords(h) :
                             \E r \in losers : RecordIsLocalDuplicate(rr[d], rr[r])}
      others == {r \in ResourceRecords(h) : rr[r].rdata # p.rdata
                                             /\ (p.goodbye \/ rr[r].RecordType \notin UniqueMask)}
  IN
  /\ Arrives(p) /\ p.kind = "answer"
  /\ \E reassert \in SUBSET {r \in others : p.flush} :
       rr' = [r \in Records |->
               IF r \in gone THEN Unregistered
               ELSE IF r \notin ResourceRecords(h) THEN rr[r]
               ELSE IF rr[r].rdata = p.rdata THEN SeenIdentical(rr[r], p)
               ELSE IF MustDefend(rr[r], p) THEN ProbeAgain(rr[r], Probes + 1, 1)
               ELSE IF r \in reassert THEN [rr[r] EXCEPT !.ImmedAnswer = "mark"]
               ELSE rr[r]]
  /\ net' = net \ {p}
  /\ UNCHANGED <<ShutdownTime, callsMade, updated>>

(* A probe interval passes.                                                *)
Waiting == {r \in Records : rr[r].list = "main" /\ rr[r].wait + rr[r].recent > 0}

Less(n) == IF n > 0 THEN n - 1 ELSE 0

Tick ==
  /\ Quiet /\ Waiting # {}
  /\ \A r \in Records : rr[r].list = "main" /\ rr[r].RecordType = "Unique" => rr[r].wait > 0
  /\ rr' = [r \in Records |->
              IF rr[r].list = "main"
              THEN [rr[r] EXCEPT !.wait = Less(@), !.recent = Less(@)] ELSE rr[r]]
  /\ UNCHANGED <<net, ShutdownTime, callsMade, updated>>

-----------------------------------------------------------------------------
Receive(p) == ReceiveProbe(p) \/ ReceiveAnswer(p)
Probe(h) == \E due \in SUBSET ResourceRecords(h) : SendProbes(h, due)
Respond(h) == \E due \in SUBSET ResourceRecords(h) : SendResponses(h, due)
Client(r) ==
  \/ \E type \in TypesOf[r], data \in DataOf[r] : mDNS_Register(r, type, data)
  \/ mDNS_Deregister(r)
  \/ \E data \in DataOf[r] : mDNS_Update(r, data)

RegistrationNext ==
  \/ \E r \in Records : Client(r)
  \/ \E h \in Hosts : mDNS_StartExit(h) \/ Probe(h) \/ Respond(h)
  \/ \E p \in net : Receive(p)
  \/ Tick

RegistrationSpec == RegistrationInit /\ [][RegistrationNext]_registrationVars

-----------------------------------------------------------------------------
(* Two records that hold one name with different contents.                 *)
Rivals(a, b) ==
  a.RecordType = "Verified" /\ b.RecordType = "Verified" /\ a.rdata # b.rdata

(* Probing works: on a link without losses, where packets are faster than  *)
(* probes, two hosts never both own the name with different contents,      *)
(* however their probes, answers and announcements interleave.             *)
UniqueOnLink ==
  \A q, r \in Records :
    HostOf[q] # HostOf[r] /\ rr[q].list = "main" /\ rr[r].list = "main"
      => ~Rivals(rr[q], rr[r])

(* A record waits on the duplicate list only while a live record that is   *)
(* identical to it is being advertised in its place, on a host where no    *)
(* record has been given new contents: mDNS_Update does not look at the    *)
(* duplicates.                                                             *)
DuplicatesCovered ==
  \A d \in Records : rr[d].list = "duplicate" /\ HostOf[d] \notin updated =>
    \E r \in ResourceRecords(HostOf[d]) :
      /\ rr[r].RecordType # "Deregistering"
      /\ RecordIsLocalDuplicate(rr[r], rr[d])

(* A client is told of a name conflict only when another host has claimed  *)
(* the name: a host's own old packets, which it hears too, never cost it   *)
(* its name.                                                               *)
ConflictsAreReal ==
  [][\A r \in Records : \A p \in net \ net' :
       rr[r].list # "none" /\ rr'[r].list = "none"
         => p.from # HostOf[r] /\ p.rdata # rr[r].rdata]_registrationVars
=============================================================================

------------------------------ MODULE DnsUpdate ------------------------------
(* Registration of records with a name server by dynamic update, mDNSCore/uDNS.c:
   service records whose target is the name of the host, the text records that
   follow them, and the address records of the host's names themselves.

   Updates go by UDP to one zone that is not private, under one key.  Time passes
   as it likes: the timer of a record is due, or it is not yet.  A message holds
   all the records of a group.  The port of a service that the NAT gateway gives
   is not part of its data.  The reverse lookup of a host name (GetStaticHostname)
   finds none. *)
EXTENDS Naturals, FiniteSets, FiniteSetsExt

CONSTANTS
  Services,    \* SRV records
  Texts,       \* TXT and PTR records
  Hosts,       \* address records of host names
  ServiceOf,   \* [Texts -> Services]
  Values,      \* of texts
  Addresses,   \* the interface has
  Outside,     \* the address the NAT gateway has
  Networks,    \* where the interface may be: behind a NAT gateway, or not
  Refusing,    \* the errors the server answers with: "unknown" to a lease, "refused"
  MaxCalls, MaxLosses, MaxUnderway,  \* bounds: calls and events of the network; messages lost; on their way
  Empty

ASSUME DnsUpdateAssumption ==
  /\ IsFiniteSet(Services) /\ IsFiniteSet(Texts) /\ IsFiniteSet(Hosts)
  /\ Services \intersect Texts = {} /\ (Services \union Texts) \intersect Hosts = {}
  /\ ServiceOf \in [Texts -> Services] /\ Networks \subseteq BOOLEAN /\ {MaxCalls, MaxLosses, MaxUnderway} \subseteq Nat
  /\ Refusing \subseteq {"unknown", "refused"}
  /\ Empty \notin Services \union Texts \union Hosts \union Values \union Addresses \union {Outside}

VARIABLES
  rr,          \* the records
  Hostnames,   \* the names of the host
  AdvertisedV4,
  NextSRVUpdate,
  SleepState,
  Behind,      \* the interface's addresses are private
  net,         \* updates and answers on their way
  server,      \* what the zone holds of each record
  stray,       \* records of which the server may not know the latest
  moved,       \* services that got a new target while an update was under way
  calls, losses
updateVars == <<rr, Hostnames, AdvertisedV4, NextSRVUpdate, SleepState, Behind, net, server, stray, moved, calls,
                losses>>
hostVars == <<Hostnames, AdvertisedV4, Behind>>
netVars == <<net, server, stray, moved, losses>>

Records == Services \union Texts \union Hosts
DataOf(r) == IF r \in Services THEN Hosts ELSE IF r \in Texts THEN Values
             ELSE Addresses \union {Outside}
Ids == 1 .. 2 * Cardinality(Records) + 1

regState == {"Zero", "Pending", "Registered", "Refresh", "UpdatePending", "DeregPending",
             "NoTarget", "NATMap", "Unregistered"}
AuthRecord(r) ==
  [type : {"Unregistered", "Registered", "Deregistering"}, state : regState,
   nta : {"none", "asked", "known"},   \* the zone's data
   id : {0} \union Ids,                \* updateid
   due : BOOLEAN, uselease : BOOLEAN, SRVChanged : BOOLEAN, RequireGoodbye : BOOLEAN,
   updateError : BOOLEAN,
   nat : {"off", "asked", "mapped", "used"},
   data : DataOf(r) \union {Empty}, InFlight : DataOf(r) \union {Empty},
   Queued : DataOf(r) \union {Empty}]
NewRecord ==
  [type |-> "Unregistered", state |-> "Zero", nta |-> "none", id |-> 0, due |-> FALSE,
   uselease |-> FALSE, SRVChanged |-> FALSE, RequireGoodbye |-> FALSE, updateError |-> FALSE,
   nat |-> "off", data |-> Empty, InFlight |-> Empty, Queued |-> Empty]

Active == {"Pending", "Registered", "Refresh", "UpdatePending", "DeregPending"}
Listed(R) == {r \in Records : R[r].type # "Unregistered"}

\* The parts of the system agree on their shapes, a record in the list is in no
\* state that it has only outside, and an update under way has its data.
DnsUpdateTypeOK ==
  /\ \A r \in Records : rr[r] \in AuthRecord(r)
  /\ \A r \in Listed(rr) : rr[r].state \in Active \union {"NoTarget", "NATMap"}
  /\ \A r \in Records : rr[r].state = "UpdatePending" => rr[r].InFlight # Empty
  /\ \A r \in Records : rr[r].state \in {"NoTarget", "NATMap"} => r \notin Hosts
  /\ Hostnames \subseteq Hosts /\ AdvertisedV4 \in Addresses \union {Empty}
  /\ {NextSRVUpdate, SleepState, Behind} \subseteq BOOLEAN
  /\ \A m \in net : m.id \in Ids /\ m.dir \in {"update", "answer"}
  /\ \A r \in Records : server[r] \subseteq DataOf(r)
  /\ stray \subseteq Records /\ moved \subseteq Services /\ calls \in 0 .. MaxCalls /\ losses \in 0 .. MaxLosses

DnsUpdateInit ==
  /\ rr = [r \in Records |-> NewRecord]
  /\ Hostnames = Hosts /\ AdvertisedV4 = Empty /\ NextSRVUpdate = FALSE /\ SleepState = FALSE
  /\ Behind \in Networks /\ net = {} /\ server = [r \in Records |-> {}] /\ stray = {}
  /\ moved = {}
  /\ calls = 0 /\ losses = 0

-----------------------------------------------------------------------------
\* The records and their timers.  R stands for a version of rr.

\* The name of the host that services point to: one that is registered.
GetServiceTarget(R) ==
  LET up == {h \in Hostnames : R[h].state \in {"Registered", "Refresh"}}
  IN  IF up = {} THEN Empty ELSE CHOOSE h \in up : TRUE

\* Texts wait for their service; what is being deregistered goes on with that.
ActivateUnicastRegistration(R, r) ==
  LET state == IF r \in Texts THEN R[ServiceOf[r]].state ELSE R[r].state
      deregistering == R[r].type = "Deregistering"
  IN IF state = "NoTarget" THEN [R EXCEPT ![r].state = state]
     ELSE [R EXCEPT ![r] =
            [@ EXCEPT !.state = IF deregistering THEN "DeregPending" ELSE "Pending",
                      !.due = TRUE, !.uselease = TRUE, !.id = 0, !.SRVChanged = FALSE,
                      !.updateError = FALSE, !.nat = "off", !.nta = "none"]]

\* SetTargetToHostName: without a host name the service waits for one.
Register(R, r, data) ==
  LET noTarget == r \in Services /\ GetServiceTarget(R) = Empty
      new == [NewRecord EXCEPT !.type = "Registered", !.nat = R[r].nat,
                               !.data = IF r \in Services THEN GetServiceTarget(R) ELSE data]
  IN IF noTarget THEN [R EXCEPT ![r] = [new EXCEPT !.state = "NoTarget"]]
     ELSE ActivateUnicastRegistration([R EXCEPT ![r] = new], r)

\* AdvertiseHostname: behind a NAT gateway its address has to be found first.
AdvertiseHostname(R, h) ==
  IF AdvertisedV4' = Empty \/ R[h].type # "Unregistered" THEN R
  ELSE IF Behind THEN [R EXCEPT ![h].nat = "asked", ![h].state = "Unregistered", ![h].data = AdvertisedV4']
  ELSE Register(R, h, AdvertisedV4')

\* The record is free, its client hears of that (HostnameCallback).
CompleteDeregistration(R, r) ==
  LET free == [R EXCEPT ![r] = [@ EXCEPT !.type = "Unregistered", !.RequireGoodbye = FALSE, !.id = 0,
                                         !.nta = "none",
                                         !.nat = IF r \in Hosts /\ r \in Hostnames' THEN R[r].nat ELSE "off"]]
  IN IF r \in Hostnames' THEN AdvertiseHostname(free, r) ELSE free

uDNS_DeregisterRecord(R, r) ==
  IF R[r].state \in Active THEN [R EXCEPT ![r].state = "DeregPending", ![r].InFlight = Empty, ![r].due = TRUE]
  ELSE IF R[r].type = "Deregistering" THEN CompleteDeregistration(R, r) ELSE R

\* A record the server was never told of goes at once.
Deregister(R, r) ==
  IF R[r].RequireGoodbye
  THEN uDNS_DeregisterRecord([R EXCEPT ![r].type = "Deregistering"], r)
  ELSE IF R[r].type = "Deregistering" THEN R
  ELSE CompleteDeregistration([R EXCEPT ![r].nat = IF r \in Hosts THEN @ ELSE "off"], r)

UpdateAllServiceRecords(R, s, reg) ==
  IF reg /\ R[s].state = "NoTarget" THEN R
  ELSE [r \in Records |->
    IF ~(r \in Texts /\ ServiceOf[r] = s /\ r \in Listed(R)) THEN R[r]
    ELSE IF ~reg THEN [R[r] EXCEPT !.SRVChanged = TRUE, !.due = TRUE, !.state = "DeregPending",
                                   !.InFlight = Empty]
    ELSE LET same == [R[r] EXCEPT !.SRVChanged = FALSE] IN
         IF R[r].state = "Registered" \/ (R[r].state = "Pending" /\ R[r].nta = "known") THEN same
         ELSE ActivateUnicastRegistration([R EXCEPT ![r] = same], r)[r]]

RegisterAllServiceRecords(R, s) ==
  UpdateAllServiceRecords(Register([R EXCEPT ![s].nat = "off"], s, Empty), s, TRUE)

NoTarget(R, s) == [R EXCEPT ![s].data = Empty, ![s].state = "NoTarget"]

UpdateOneSRVRecord(R, s) ==
  LET new == GetServiceTarget(R)
      needNAT == Behind /\ R[s].nta = "known"
      targetChanged == (new # Empty /\ R[s].state = "NoTarget") \/ R[s].data # new
      natChanged == (R[s].nat = "off" /\ needNAT) \/ (~needNAT /\ R[s].nat = "mapped")
      changed == [R EXCEPT ![s].SRVChanged = TRUE, ![s].due = TRUE]
  IN IF ~(targetChanged \/ natChanged) \/ R[s].type = "Deregistering"
        \/ R[s].state \in {"NATMap", "UpdatePending"} THEN R
     ELSE IF R[s].state = "NoTarget" THEN IF new = Empty THEN R ELSE RegisterAllServiceRecords(R, s)
     ELSE IF new # Empty THEN [changed EXCEPT ![s].state = "Pending"]
     ELSE UpdateAllServiceRecords([changed EXCEPT ![s].state = "DeregPending"], s, FALSE)

UpdateAllSRVRecords ==
  /\ NextSRVUpdate /\ NextSRVUpdate' = FALSE
  /\ rr' = FoldSet(LAMBDA s, R : UpdateOneSRVRecord(R, s), rr, Services \intersect Listed(rr))
  /\ UNCHANGED <<hostVars, SleepState, netVars, calls>>

-----------------------------------------------------------------------------
\* Calls of clients and of the platform.

Loss == losses < MaxLosses /\ calls + losses < MaxCalls
Called == calls + losses < MaxCalls /\ calls' = calls + 1

\* mDNS_RegisterService: the service, then its texts.
mDNS_RegisterService(s, d) ==
  LET texts == {t \in Texts : ServiceOf[t] = s} IN
  /\ Called /\ \A r \in {s} \union texts : rr[r].type = "Unregistered"
  /\ rr' = FoldSet(LAMBDA t, R : Register(R, t, d), Register(rr, s, Empty), texts)
  /\ UNCHANGED <<hostVars, NextSRVUpdate, SleepState, netVars>>

\* The texts of a service are deregistered with it.  A record without a target, or
\* whose port is being mapped, goes without a word to the server.
mDNS_DeregisterService(s) ==
  /\ Called /\ rr[s].type = "Registered" /\ UNCHANGED hostVars
  /\ LET all == {s} \union {t \in Texts : ServiceOf[t] = s /\ rr[t].type = "Registered"} IN
     /\ rr' = FoldSet(LAMBDA r, R : Deregister(R, r), rr, all)
     /\ stray' = stray \union {r \in all : rr[r].state \in {"NoTarget", "NATMap"}}
  /\ UNCHANGED <<NextSRVUpdate, SleepState, net, server, moved, losses>>

mDNS_Update_Refreshed(t, new) ==
  /\ Called /\ rr[t].type = "Registered" /\ rr[t].state # "DeregPending"
  /\ rr' = IF rr[t].state = "Registered"
           THEN [rr EXCEPT ![t].InFlight = new, ![t].state = "UpdatePending", ![t].due = TRUE]
           ELSE [rr EXCEPT ![t].data = new]
  /\ UNCHANGED <<hostVars, NextSRVUpdate, SleepState, netVars>>

\* uDNS_UpdateRecord.
mDNS_Update(t, new) ==
  /\ Called /\ rr[t].type = "Registered" /\ rr[t].state # "DeregPending"
  /\ rr' = CASE rr[t].state \in {"NATMap", "NoTarget"} -> [rr EXCEPT ![t].data = new]
             [] rr[t].state \in {"Pending", "Refresh", "UpdatePending"} -> [rr EXCEPT ![t].Queued = new]
             [] rr[t].state = "Registered" ->
                  [rr EXCEPT ![t].InFlight = new, ![t].state = "UpdatePending", ![t].due = TRUE]
  /\ UNCHANGED <<hostVars, NextSRVUpdate, SleepState, netVars>>

mDNS_AddDynDNSHostName(h) ==
  /\ Called /\ h \notin Hostnames /\ rr[h].type = "Unregistered" /\ rr[h].nat = "off"
  /\ Hostnames' = Hostnames \union {h} /\ UNCHANGED <<AdvertisedV4, Behind>>
  /\ rr' = AdvertiseHostname(rr, h)
  /\ UNCHANGED <<NextSRVUpdate, SleepState, netVars>>

mDNS_RemoveDynDNSHostName(h) ==
  /\ Called /\ h \in Hostnames
  /\ Hostnames' = Hostnames \ {h} /\ UNCHANGED <<AdvertisedV4, Behind>>
  /\ rr' = IF h \in Listed(rr) /\ rr[h].state # "Unregistered" THEN Deregister(rr, h) ELSE rr
  /\ NextSRVUpdate' = TRUE
  /\ UNCHANGED <<SleepState, netVars>>

mDNS_SetPrimaryInterfaceInfo(a) ==
  /\ Called /\ a # AdvertisedV4 /\ AdvertisedV4' = a /\ UNCHANGED <<Hostnames, Behind>>
  /\ rr' = FoldSet(LAMBDA h, R : AdvertiseHostname(
                     IF R[h].type = "Registered" /\ R[h].data # a THEN Deregister(R, h) ELSE R, h),
                   rr, Hostnames)
  /\ NextSRVUpdate' = TRUE
  /\ UNCHANGED <<SleepState, netVars>>

\* The gateway has told its address.
hostnameGetPublicAddressCallback(h) ==
  /\ rr[h].nat = "asked" /\ UNCHANGED hostVars
  /\ rr[h].type = "Unregistered"
  /\ rr' = Register([rr EXCEPT ![h].nat = "off"], h, Outside)
  /\ UNCHANGED <<NextSRVUpdate, SleepState, netVars, calls>>

\* The gateway has mapped the port of a service, to another one than before, or cannot.
\* The updateid stays: the answer to an update under way is taken for one to the new.
CompleteRecordNatMap(s) ==
  /\ rr[s].nat # "off"
  /\ IF rr[s].nat = "asked" THEN UNCHANGED calls ELSE Called
  /\ \E mapped \in BOOLEAN :
     LET R == [rr EXCEPT ![s].nat = "mapped"]
         target == GetServiceTarget(rr)
         pending(d) == [R EXCEPT ![s].state = "Pending", ![s].due = TRUE, ![s].data = d,
                                 ![s].SRVChanged = FALSE]
     IN rr' = IF rr[s].type = "Deregistering" \/ rr[s].state = "DeregPending" THEN R
              ELSE IF rr[s].nta # "known"
              THEN [rr EXCEPT ![s].nat = "off", ![s].state = "Pending", ![s].due = TRUE]
              ELSE IF target = Empty \/ ~mapped THEN UpdateAllServiceRecords(NoTarget(R, s), s, FALSE)
              ELSE UpdateAllServiceRecords(pending(target), s, TRUE)
  /\ stray' = IF rr'[s].state = "NoTarget" THEN stray \union {s} ELSE stray
  /\ moved' = IF rr[s].id # 0 /\ rr'[s].state = "Pending" /\ rr'[s].data # rr[s].data
              THEN moved \union {s} ELSE moved
  /\ UNCHANGED <<hostVars, NextSRVUpdate, SleepState, net, server, losses>>

\* SleepRecordRegistrations: an update under way counts as made.
Sleep ==
  /\ ~SleepState /\ Called /\ SleepState' = TRUE /\ UNCHANGED hostVars
  /\ LET done(R, r) == IF R[r].state # "UpdatePending" THEN R
                       ELSE [R EXCEPT ![r].state = "Registered", ![r].data = R[r].InFlight, ![r].InFlight = Empty]
         quiet(R, r) == [R EXCEPT ![r].id = IF R[r].nta = "none" THEN @ ELSE 0, ![r].nta = "none",
                                  ![r].nat = IF r \in Hosts THEN @ ELSE "off"]
     IN rr' = FoldSet(LAMBDA r, R : uDNS_DeregisterRecord(quiet(done(R, r), r), r), rr, Listed(rr))
  /\ UNCHANGED <<NextSRVUpdate, netVars>>

WakeUp ==
  /\ SleepState /\ SleepState' = FALSE /\ NextSRVUpdate' = TRUE
  /\ rr' = FoldSet(LAMBDA r, R : ActivateUnicastRegistration(R, r),
                   [r \in Records |-> [rr[r] EXCEPT !.id = 0]], Listed(rr))
  /\ UNCHANGED <<hostVars, netVars, calls>>

\* An interface came: find the server again.
RestartRecordGetZoneData ==
  /\ Called
  /\ rr' = [r \in Records |->
       IF r \in Listed(rr) /\ rr[r].state # "NoTarget"
       THEN [rr[r] EXCEPT !.id = IF rr[r].nta = "none" THEN @ ELSE 0, !.nta = "asked"] ELSE rr[r]]
  /\ UNCHANGED <<hostVars, NextSRVUpdate, SleepState, netVars>>

-----------------------------------------------------------------------------
\* Updates.

Time(r) ==
  /\ r \in Listed(rr) /\ ~rr[r].due /\ rr[r].state \in Active
  /\ IF rr[r].state = "Registered" THEN Called ELSE UNCHANGED calls
  /\ rr' = [rr EXCEPT ![r].due = TRUE]
  /\ UNCHANGED <<hostVars, NextSRVUpdate, SleepState, netVars>>

IsRecordMergeable(r) ==
  r \in Listed(rr) /\ rr[r].due /\ rr[r].state \in Active /\ rr[r].nta = "known" /\ rr[r].uselease

\* MarkRRForSending: with what has to go, what will have to be refreshed before long.
Refreshable(r) ==
  r \in Listed(rr) /\ rr[r].state \in {"Registered", "Refresh"} /\ rr[r].nta = "known" /\ rr[r].uselease

\* BuildUpdateMessage: the change of one record, and the record once it is sent.
Change(r) ==
  CASE rr[r].state = "DeregPending" -> [kind |-> "delete", old |-> rr[r].data, new |-> Empty]
    [] rr[r].state = "UpdatePending" -> [kind |-> "update", old |-> rr[r].data, new |-> rr[r].InFlight]
    [] OTHER -> [kind |-> "add", old |-> Empty, new |-> rr[r].data]

\* SetRecordRetry, with BuildUpdateMessage.
Sent(q, id) ==
  LET p == [q EXCEPT !.id = id, !.due = FALSE] IN
  IF q.state = "DeregPending" THEN p
  ELSE [p EXCEPT !.RequireGoodbye = TRUE,
                 !.nat = IF @ = "mapped" THEN "used" ELSE @,
                 !.state = CASE @ = "Registered" -> "Refresh"
                             [] @ \in {"Refresh", "UpdatePending"} -> @
                             [] OTHER -> "Pending"]

FreeIds == {i \in Ids : (\A r \in Records : rr[r].id # i) /\ \A m \in net : m.id # i}

\* Without a lease for the record that the server refused one, with one for a group.
SendRecord(r, id) ==
  [dir |-> "update", id |-> id, rs |-> {r}, err |-> FALSE, what |-> [x \in {r} |-> Change(r)],
   lease |-> rr[r].uselease]
SendGroup(rs, id) ==
  [dir |-> "update", id |-> id, rs |-> rs, err |-> FALSE, what |-> [r \in rs |-> Change(r)],
   lease |-> TRUE]

\* CheckRecordUpdates: a group, each of the others that is due by itself, and the
\* zone's data for those that lack it.
CheckRecordUpdates ==
  LET due == {r \in Listed(rr) : rr[r].due /\ rr[r].state \in Active}
      group == {r \in due : IsRecordMergeable(r)}
      single == {r \in due : rr[r].nta = "known"} \ group
  IN /\ due # {} /\ Cardinality(net) < MaxUnderway
     /\ \E more \in SUBSET {r \in Records \ group : group # {} /\ Refreshable(r)} :
        \E ids \in [single \union {Empty} -> FreeIds] :
          /\ \A x, y \in DOMAIN ids : x # y => ids[x] # ids[y]
          /\ \A x \in DOMAIN ids, i \in FreeIds : i < ids[x] => \E y \in DOMAIN ids : ids[y] = i
          /\ LET all == group \union more
             IN /\ net' = net \union {SendRecord(r, ids[r]) : r \in single \ all}
                              \union IF all = {} THEN {} ELSE {SendGroup(all, ids[Empty])}
                /\ rr' = [r \in Records |->
                     IF r \in all THEN Sent(rr[r], ids[Empty])
                     ELSE IF r \in single THEN Sent(rr[r], ids[r])
                     ELSE IF r \in due
                     THEN [rr[r] EXCEPT !.nta = "asked", !.due = FALSE,
                                        !.id = IF rr[r].nta = "none" THEN @ ELSE 0]
                     ELSE rr[r]]
  /\ UNCHANGED <<hostVars, NextSRVUpdate, SleepState, server, stray, moved, calls, losses>>

StartRecordNatMap(R, s) == [R EXCEPT ![s].state = "NATMap", ![s].nat = "asked"]

\* The zone's data is there, or cannot be had.
RecordRegistrationGotZoneData(r) ==
  /\ rr[r].nta = "asked" /\ UNCHANGED hostVars
  /\ \E found \in BOOLEAN :
     /\ found \/ Loss
     /\ losses' = IF found THEN losses ELSE losses + 1
     /\ LET known == [rr EXCEPT ![r].nta = "known"]
            none == [rr EXCEPT ![r].nta = "none"]
        IN rr' = IF ~found THEN none
                 ELSE IF rr[r].state = "DeregPending" THEN uDNS_DeregisterRecord(known, r)
                 ELSE IF r \in Services /\ GetServiceTarget(rr) = Empty THEN NoTarget(none, r)
                 ELSE IF r \in Services /\ Behind /\ rr[r].nat = "off"
                 THEN StartRecordNatMap(known, r)
                 ELSE [known EXCEPT ![r].due = @ \/ ~rr[r].updateError]
  /\ stray' = IF rr'[r].state = "NoTarget" THEN stray \union {r} ELSE stray
  /\ UNCHANGED <<NextSRVUpdate, SleepState, net, server, moved, calls>>

\* An old service is gone, or has its new target.
hndlSRVChanged(R, s) ==
  LET target == GetServiceTarget(R)
      state == R[s].state
      done(Q) == [Q EXCEPT ![s].SRVChanged = FALSE]
  IN IF target = Empty
     THEN IF state = "DeregPending" THEN done(NoTarget(R, s))
          ELSE IF state = "Pending" THEN [R EXCEPT ![s].due = TRUE, ![s].state = "DeregPending"]
          ELSE done(R)
     ELSE IF state = "DeregPending" \/ (state = "Pending" /\ target # R[s].data)
          THEN UpdateOneSRVRecord(done(NoTarget(R, s)), s)
          ELSE done([R EXCEPT ![s].state = IF @ = "Pending" THEN "Registered" ELSE @])

hndlRecordUpdateReply(R, r, err) ==
  LET p == [R[r] EXCEPT !.due = FALSE, !.id = 0, !.nta = "none", !.updateError = err # "none"]
      q == IF p.state = "UpdatePending"
           THEN [p EXCEPT !.state = "Registered", !.data = p.InFlight, !.InFlight = Empty] ELSE p
      with(x) == [R EXCEPT ![r] = x]
      registered == [q EXCEPT !.state = IF q.state \in {"Pending", "Refresh"} /\ err = "none"
                                        THEN "Registered" ELSE @]
  IN IF p.type = "Deregistering" /\ p.state = "DeregPending"
     THEN CompleteDeregistration(with([p EXCEPT !.state = "Unregistered"]), r)
     ELSE IF SleepState
     THEN with([p EXCEPT !.state = IF r \in Services /\ @ = "DeregPending" THEN "NoTarget" ELSE @])
     ELSE IF q.SRVChanged
     THEN IF r \in Services THEN hndlSRVChanged(with(q), r)
          ELSE with([q EXCEPT !.SRVChanged = FALSE, !.state = "NoTarget"])
     ELSE IF q.state \in {"Pending", "Refresh"} /\ err = "unknown" /\ q.uselease
     THEN with([q EXCEPT !.uselease = FALSE, !.due = TRUE])
     ELSE IF registered.Queued # Empty /\ registered.state = "Registered"
     THEN with([registered EXCEPT !.state = "UpdatePending", !.InFlight = registered.Queued,
                                  !.Queued = Empty, !.due = TRUE])
     ELSE with(registered)

\* HostnameCallback: services look for their target again.
HostnameChanged(r, err) ==
  /\ r \in Hosts /\ err = "none" /\ ~SleepState
  /\ rr[r].type = "Registered" /\ rr[r].state \in {"Pending", "UpdatePending"} /\ rr[r].Queued = Empty

\* The records of the answer's update in turn: one that is activated anew on the way is
\* not among them any more.
uDNS_ReceiveMsg(m) ==
  /\ m \in net /\ m.dir = "answer" /\ net' = net \ {m} /\ UNCHANGED hostVars
  /\ LET to == {r \in Listed(rr) : rr[r].id = m.id} IN
     /\ rr' = FoldSet(LAMBDA r, R : IF R[r].id = m.id THEN hndlRecordUpdateReply(R, r, m.err) ELSE R, rr, to)
     /\ NextSRVUpdate' = (NextSRVUpdate \/ \E r \in to : HostnameChanged(r, m.err))
     /\ stray' = stray \union {r \in to : m.err # "none"
                                \/ m.what[r].kind # Change(r).kind}
  /\ UNCHANGED <<SleepState, server, moved, calls, losses>>

-----------------------------------------------------------------------------
\* The name server and the network, external.

Applied(held, c) ==
  CASE c.kind = "add" -> {c.new}
    [] c.kind = "delete" -> held \ {c.old}
    [] c.kind = "update" -> (held \ {c.old}) \union {c.new}

\* An update is applied as a whole, or not at all.
Serve(m) ==
  /\ m \in net /\ m.dir = "update"
  /\ \E err \in {"none"} \union {e \in Refusing : (e = "unknown") => m.lease} :
     /\ net' = (net \ {m}) \union {[m EXCEPT !.dir = "answer", !.err = err]}
     /\ server' = [r \in Records |->
          IF err = "none" /\ r \in m.rs THEN Applied(server[r], m.what[r]) ELSE server[r]]
     /\ stray' = stray \union {r \in m.rs : err # "none" \/ rr[r].id # m.id}
     /\ err = "none" \/ Loss
     /\ losses' = IF err = "none" THEN losses ELSE losses + 1
  /\ UNCHANGED <<rr, hostVars, NextSRVUpdate, SleepState, moved, calls>>

Lose(m) ==
  /\ m \in net /\ Loss /\ losses' = losses + 1
  /\ net' = net \ {m}
  /\ stray' = stray \union {r \in m.rs : rr[r].id # m.id}
  /\ UNCHANGED <<rr, hostVars, NextSRVUpdate, SleepState, server, moved, calls>>

DnsUpdateNext ==
  \/ UpdateAllSRVRecords \/ CheckRecordUpdates
  \/ \E r \in Records : Time(r) \/ RecordRegistrationGotZoneData(r)
  \/ \E s \in Services : mDNS_DeregisterService(s) \/ CompleteRecordNatMap(s)
                         \/ \E v \in Values : mDNS_RegisterService(s, v)
  \/ \E t \in Texts, v \in Values : mDNS_Update(t, v)
  \/ \E h \in Hosts : mDNS_AddDynDNSHostName(h) \/ mDNS_RemoveDynDNSHostName(h)
                      \/ hostnameGetPublicAddressCallback(h)
  \/ \E a \in Addresses : mDNS_SetPrimaryInterfaceInfo(a)
  \/ Sleep \/ WakeUp \/ RestartRecordGetZoneData
  \/ \E m \in net : uDNS_ReceiveMsg(m) \/ Serve(m) \/ Lose(m)

DnsUpdateSpec == DnsUpdateInit /\ [][DnsUpdateNext]_updateVars

-----------------------------------------------------------------------------
\* What the daemon takes for registered is what the zone holds, whatever is on its way: when
\* an update that overtook another, a refusal or a loss has not come between them, and the
\* NAT gateway has not had a say while an update was under way.
RegisteredIsCurrent ==
  \A r \in Records \ (stray \union moved) : rr[r].state = "Registered" => server[r] = {rr[r].data}

\* regState_Registered: update sent, reply received (mDNSEmbeddedAPI.h:1113).  Not kept: of
\* the target that a service gets while its update is under way, neither.
RegisteredWasSent ==
  \A r \in Records \ stray : rr[r].state = "Registered" => server[r] = {rr[r].data}

\* RequireGoodbye: announced on the wire, and will require a goodbye (mDNSEmbeddedAPI.h:1207).
\* Not kept: a service that changes its target is registered from the beginning, and what is
\* registered from the beginning has announced nothing; deregistered now it stays in the zone.
GoodbyeIsOwed ==
  \A r \in Records \ (stray \union moved) : server[r] # {} => rr[r].RequireGoodbye

\* Services point to a name of the host that is registered, or will look for another.
TargetsAreNamed ==
  \A s \in Services :
    rr[s].type = "Registered" /\ rr[s].state = "Registered" /\ ~NextSRVUpdate /\ ~rr[s].SRVChanged
      => rr[s].data = GetServiceTarget(rr)

\* Added hostnames may be removed (deregistered) (mDNSEmbeddedAPI.h:2459).  Not kept: a
\* name that still waits for its NAT mapping when it is removed is registered afterwards.
RemovedHostsAreGone == \A h \in Hosts \ Hostnames : rr[h].type # "Registered"
=============================================================================

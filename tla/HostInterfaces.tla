--------------------------- MODULE HostInterfaces ---------------------------
(* The addresses of the machine as mDNSPosix.c finds them, and what the     *)
(* core makes of them: which of the addresses of an interface speaks for    *)
(* it, the host records that are advertised on it, and the name of the      *)
(* host in them, which changes when somebody else on the link has it.       *)
(*                                                                          *)
(* Every call of the core is a step, since it calls back into its clients:  *)
(* while the list is taken down and set up again the records and questions  *)
(* of the clients live with what is left of it.  Packets and requests are   *)
(* handled in between, when the list is not being changed.                  *)
EXTENDS Integers, Sequences, FiniteSets

CONSTANTS
  Addresses,            \* what may be an address of the machine
  Attributes,           \* of each: name and index of its interface, type, usable, loopback, mask
  Enumeration,          \* the order in which get_ifi_info lists them
  Services,             \* records with a host name for a target
  Labels,               \* the host labels: 1, 2 .. are a name and its renamings
  Taken,                \* those which others on the link have
  NoLabel,
  MaxChanges,           \* bounds the changes of the machine's addresses
  MaxFailures           \* bounds the sockets and the watch that cannot be set up

ASSUME HostAssumption ==
  /\ \A a \in Addresses : Attributes[a].type \in {"v4", "v6"}
  /\ Enumeration \in Seq(Addresses) /\ \A a \in Addresses : \E i \in DOMAIN Enumeration : Enumeration[i] = a
  /\ 1 \in Labels /\ Labels \subseteq Nat

VARIABLES
  system,               \* the addresses the machine has
  changes,              \* how often that has changed
  notices,              \* indices of interfaces in unread notifications
  watching,             \* whether there is a socket for them
  unseen,               \* whether something changed of which there is no notification
  stage,                   \* what mDNSPlatformInit or the refresh does next
  todo,                 \* the addresses still to be set up, and loopback ones
  foundav4,
  HostInterfaces,       \* the list, as the core has it
  intf,                 \* each NetworkInterfaceInfo
  cache,                \* what has been learnt on an interface
  hostlabel,
  MulticastHostname,
  target,               \* the host each service names
  failures
interfaceVars == <<system, changes, notices, watching, unseen, stage, todo, foundav4, HostInterfaces,
                   intf, cache, hostlabel, MulticastHostname, target, failures>>

Type(a) == Attributes[a].type
None == "none"

(* A NetworkInterfaceInfo outside the list; the record types are those of   *)
(* its RR_A and RR_PTR.                                                     *)
Fresh ==
  [InterfaceID |-> None, InterfaceActive |-> FALSE, IPv4Available |-> FALSE, IPv6Available |-> FALSE,
   RR_A |-> "Unregistered", name |-> NoLabel, RRSet |-> None,
   RR_PTR |-> "Unregistered", host |-> NoLabel, sockets |-> {}]

NetworkInterfaceInfo ==
  [InterfaceID : Addresses \cup {None}, InterfaceActive : BOOLEAN,
   IPv4Available : BOOLEAN, IPv6Available : BOOLEAN,
   RR_A : {"Unregistered", "Unique", "Verified"}, name : Labels \cup {NoLabel}, RRSet : Addresses \cup {None},
   RR_PTR : {"Unregistered", "KnownUnique"}, host : Labels \cup {NoLabel}, sockets : SUBSET {"v4", "v6"}]

Listed(list) == {list[i] : i \in DOMAIN list}
OnInterface(list, at, id) == {a \in Listed(list) : at[a].InterfaceID = id}
Ids == Addresses

---------------------------------------------------------------------------
(* The host records                                                         *)

(* All the host records of the machine are one set, the one of the first    *)
(* address.  On Posix all addresses are advertised, and no HINFO record is. *)
AdvertiseInterface(list, at, set, fqdn) ==
  LET primary == IF list = <<>> THEN set ELSE list[1]
  IN  [at EXCEPT ![set].RR_A = "Unique", ![set].name = fqdn, ![set].RRSet = primary,
                 ![set].RR_PTR = "KnownUnique", ![set].host = fqdn]

\* A bug: those that shared the set of the address that goes are left with it.
DeadvertiseInterface_Shared(list, at, set) ==
  [at EXCEPT ![set].RR_A = "Unregistered", ![set].RR_PTR = "Unregistered"]
DeadvertiseInterface(list, at, set) ==
  LET primary == IF list = <<>> THEN None ELSE list[1]
      shared  == [a \in Addresses |->
                    IF a \in Listed(list) /\ at[a].RRSet = set THEN [at[a] EXCEPT !.RRSet = primary] ELSE at[a]]
  IN  [shared EXCEPT ![set].RR_A = "Unregistered", ![set].RR_PTR = "Unregistered"]

(* Every address of the list taken back and advertised anew.                *)
Renamed(list, at, fqdn) ==
  [a \in Addresses |->
     IF a \in Listed(list) THEN AdvertiseInterface(list, at, a, fqdn)[a] ELSE at[a]]

mDNS_SetFQDN(label) ==
  /\ hostlabel' = label
  /\ MulticastHostname' = label
  /\ intf' = Renamed(HostInterfaces, intf, label)
  /\ target' = [s \in Services |-> IF target[s] = NoLabel THEN NoLabel ELSE label]

(* The name is somebody else's: the next one, if nobody has chosen another. *)
IncrementLabelSuffix(label) == label + 1
mDNS_HostNameCallback(a) ==
  /\ intf[a].RR_A = "Unique"
  /\ IncrementLabelSuffix(hostlabel) \in Labels
  /\ mDNS_SetFQDN(IncrementLabelSuffix(hostlabel))

---------------------------------------------------------------------------
(* The list of the core                                                     *)

FirstInterfaceForID(list, at, id) ==
  LET found == {i \in DOMAIN list : at[list[i]].InterfaceID = id}
  IN  IF found = {} THEN None ELSE list[CHOOSE i \in found : \A j \in found : i <= j]

UpdateInterfaceProtocols(list, at, active) ==
  LET same == OnInterface(list, at, at[active].InterfaceID)
  IN  [at EXCEPT ![active].IPv4Available = (\E a \in same : Type(a) = "v4"),
                 ![active].IPv6Available = (\E a \in same : Type(a) = "v6")]

(* An address more.  What is unique on its interface is probed for again if *)
(* the interface, or the type of address, is new to it.                     *)
mDNS_RegisterInterface(list, at, set, id, fqdn) ==
  LET same   == OnInterface(list, at, id)
      linked == Append(list, set)
      known  == [a \in Addresses |->
                   IF a = set THEN [at[a] EXCEPT !.InterfaceID = id, !.InterfaceActive = same = {},
                                                 !.IPv4Available = Type(set) = "v4",
                                                 !.IPv6Available = Type(set) = "v6"]
                   ELSE IF a \in same
                   THEN [at[a] EXCEPT !.IPv4Available = @ \/ Type(set) = "v4",
                                      !.IPv6Available = @ \/ Type(set) = "v6"]
                   ELSE at[a]]
      new    == same = {} \/ \A a \in same : Type(a) # Type(set)
      advertised == AdvertiseInterface(linked, known, set, fqdn)
  IN  [a \in Addresses |->
         IF new /\ advertised[a].InterfaceID = id /\ advertised[a].RR_A = "Verified"
         THEN [advertised[a] EXCEPT !.RR_A = "Unique"] ELSE advertised[a]]

Succeeded(at, set, next) ==
  IF at[set].InterfaceActive /\ next # None THEN [at EXCEPT ![next].InterfaceActive = TRUE] ELSE at

Unlinked(list, set) ==
  LET p == CHOOSE i \in DOMAIN list : list[i] = set IN SubSeq(list, 1, p - 1) \o SubSeq(list, p + 1, Len(list))

(* An address less.  If it spoke for its interface, the next one does; what *)
(* was learnt on the interface is doubted if the type of address is gone    *)
(* from it, and forgotten with the last address.                            *)
mDNS_DeregisterInterface(list, at, set) ==
  LET id     == at[set].InterfaceID
      rest   == Unlinked(list, set)
      next   == FirstInterfaceForID(rest, at, id)
      spoken == Succeeded(at, set, next)
      active == {a \in OnInterface(rest, spoken, id) : spoken[a].InterfaceActive}
      known  == IF active = {} THEN spoken
                ELSE UpdateInterfaceProtocols(rest, spoken, CHOOSE a \in active : TRUE)
  IN  [list |-> rest,
       intf |-> [DeadvertiseInterface(rest, known, set) EXCEPT ![set] = Fresh],
       cache |-> IF next = None THEN "nothing"
                 ELSE IF /\ at[set].InterfaceActive /\ cache[id] = "records"
                         /\ \A a \in Listed(rest) : at[a].InterfaceID = id => Type(a) # Type(set)
                      THEN "doubtful" ELSE cache[id]]

---------------------------------------------------------------------------
(* The list of the machine                                                  *)

Usable(a) == a \in system /\ Attributes[a].usable

Loopback(a) == Attributes[a].loopback
Position(a) == CHOOSE i \in DOMAIN Enumeration : Enumeration[i] = a
(* Of some addresses the one that is enumerated first, if there is any.     *)
FirstOf(some) == {a \in some : \A b \in some : Position(a) <= Position(b)}

(* The addresses as they are now; loopback ones are for when no other of    *)
(* version 4 is found.                                                      *)
SetupInterfaceList ==
  /\ todo' = {a \in Addresses : Usable(a)}
  /\ foundav4' = FALSE
  /\ stage' = "setup"
Normal == {a \in todo : ~Loopback(a)}

SearchForInterfaceByName(name) ==
  LET found == {i \in DOMAIN HostInterfaces : Attributes[HostInterfaces[i]].name = name}
  IN  IF found = {} THEN None ELSE HostInterfaces[CHOOSE i \in found : \A j \in found : i <= j]

(* The first address of an interface has the sockets of all of them, and is *)
(* what the core knows the interface by.  Without a socket of its type the  *)
(* address is left out.                                                     *)
SetupOneInterface(a, works) ==
  LET alias == IF SearchForInterfaceByName(Attributes[a].name) = None THEN a
               ELSE SearchForInterfaceByName(Attributes[a].name)
      with  == [intf EXCEPT ![alias].sockets = @ \cup {Type(a)}]
  IN  IF Type(a) \in intf[alias].sockets \/ works
      THEN IF Attributes[a].mask
           THEN /\ HostInterfaces' = Append(HostInterfaces, a)
                /\ intf' = mDNS_RegisterInterface(HostInterfaces, with, a, alias, MulticastHostname)
           ELSE /\ intf' = IF alias = a THEN intf ELSE with
                /\ UNCHANGED HostInterfaces
      ELSE UNCHANGED <<HostInterfaces, intf>>

(* What a socket is set up by, any of which may fail; with a failure it is   *)
(* closed again.  The option IP_RECVTTL is wished for and not needed.       *)
SocketSteps4 == {"socket", "SO_REUSEPORT", "IP_PKTINFO", "IP_ADD_MEMBERSHIP", "IP_MULTICAST_IF", "IP_TTL",
                 "IP_MULTICAST_TTL", "bind", "O_NONBLOCK"}
SocketSteps6 == {"socket", "SO_REUSEPORT", "IPV6_PKTINFO", "IPV6_HOPLIMIT", "IPV6_JOIN_GROUP",
                 "IPV6_MULTICAST_IF", "IPV6_V6ONLY", "IPV6_UNICAST_HOPS", "IPV6_MULTICAST_HOPS",
                 "bind", "O_NONBLOCK"}
SetupSocket(type, failing) == failing \notin (IF type = "v4" THEN SocketSteps4 ELSE SocketSteps6)
Failings == {"nothing", "IP_RECVTTL"} \cup SocketSteps4 \cup SocketSteps6

(* At most MaxFailures times something fails.                               *)
Failing(failing) ==
  /\ failing = "nothing" \/ failures < MaxFailures
  /\ failures' = IF failing = "nothing" THEN failures ELSE failures + 1

Setup(failing) ==
  /\ stage = "setup"
  /\ Failing(failing)
  /\ \E a \in FirstOf(Normal) :
       /\ SetupOneInterface(a, SetupSocket(Type(a), failing))
       /\ todo' = todo \ {a}
       /\ foundav4' = (foundav4 \/ (Type(a) = "v4" /\ a \in Listed(HostInterfaces')))
  /\ UNCHANGED <<system, changes, notices, watching, unseen, stage, cache, hostlabel, MulticastHostname, target>>

SetupLoopback(failing) ==
  /\ stage = "setup" /\ Normal = {} /\ ~foundav4
  /\ Failing(failing)
  /\ \E a \in FirstOf(todo) : SetupOneInterface(a, SetupSocket(Type(a), failing))
  /\ todo' = {}
  /\ UNCHANGED <<system, changes, notices, watching, unseen, stage, foundav4, cache, hostlabel, MulticastHostname,
                 target>>

(* What has been set up is watched from now on: a change in between is not  *)
(* seen.  Later the socket is there already.                                *)
SetupDone ==
  /\ stage = "setup" /\ Normal = {}
  /\ foundav4 \/ todo = {}
  /\ stage' = "idle"
  /\ todo' = {}
  /\ \/ watching' = TRUE
     \/ ~watching /\ failures < MaxFailures /\ watching' = FALSE
  /\ failures' = IF watching' THEN failures ELSE failures + 1
  /\ UNCHANGED <<system, changes, notices, unseen, foundav4, HostInterfaces, intf, cache,
                 hostlabel, MulticastHostname, target>>

mDNSPlatformInit ==
  /\ stage = "init"
  /\ mDNS_SetFQDN(hostlabel)
  /\ SetupInterfaceList
  /\ UNCHANGED <<system, changes, notices, watching, unseen, HostInterfaces, cache, failures>>

(* All notifications are read.  One for an index of 32 or more may not show *)
(* in the 32 bits they are gathered in.                                     *)
InterfaceChangeCallback ==
  /\ stage = "idle" /\ notices # {}
  /\ notices' = {}
  /\ \/ stage' = "clear" /\ UNCHANGED unseen
     \/ (\A i \in notices : i >= 32) /\ unseen' = TRUE /\ UNCHANGED stage
  /\ UNCHANGED <<system, changes, watching, todo, foundav4, HostInterfaces, intf, cache, hostlabel,
                 MulticastHostname, target, failures>>

ClearInterfaceList ==
  /\ stage = "clear"
  /\ IF HostInterfaces = <<>>
     THEN /\ SetupInterfaceList
          /\ unseen' = FALSE
          /\ UNCHANGED <<HostInterfaces, intf, cache>>
     ELSE LET set  == Head(HostInterfaces)
              left == mDNS_DeregisterInterface(HostInterfaces, intf, set)
          IN  /\ HostInterfaces' = left.list
              /\ intf' = left.intf
              /\ cache' = [cache EXCEPT ![intf[set].InterfaceID] = left.cache]
              /\ UNCHANGED <<stage, todo, foundav4, unseen>>
  /\ UNCHANGED <<system, changes, notices, watching, hostlabel, MulticastHostname, target, failures>>

---------------------------------------------------------------------------
(* The machine, its clients and the link                                    *)

(* The socket is told of links and of addresses of version 4, no others.    *)
Change(a) ==
  /\ changes < MaxChanges
  /\ changes' = changes + 1
  /\ system' = IF a \in system THEN system \ {a} ELSE system \cup {a}
  /\ LET told == watching /\ Type(a) = "v4"
     IN  /\ notices' = IF told THEN notices \cup {Attributes[a].index} ELSE notices
         /\ unseen' = (unseen \/ ~told)
  /\ UNCHANGED <<watching, stage, todo, foundav4, HostInterfaces, intf, cache, hostlabel, MulticastHostname,
                 target, failures>>

(* A client names the host, or registers a service with it for a target.    *)
handle_sethost_request(label) ==
  /\ stage = "idle" /\ label # hostlabel
  /\ mDNS_SetFQDN(label)
  /\ UNCHANGED <<system, changes, notices, watching, unseen, stage, todo, foundav4, HostInterfaces, cache, failures>>

SetTargetToHostName(s) ==
  /\ stage = "idle" /\ target[s] = NoLabel
  /\ target' = [target EXCEPT ![s] = MulticastHostname]
  /\ UNCHANGED <<system, changes, notices, watching, unseen, stage, todo, foundav4, HostInterfaces, intf, cache,
                 hostlabel, MulticastHostname, failures>>

Conflict ==
  /\ stage = "idle" /\ MulticastHostname \in Taken
  /\ \E a \in Listed(HostInterfaces) : mDNS_HostNameCallback(a)
  /\ UNCHANGED <<system, changes, notices, watching, unseen, stage, todo, foundav4, HostInterfaces, cache, failures>>

(* Nobody answered the probes.                                              *)
Probed(a) ==
  /\ stage = "idle" /\ a \in Listed(HostInterfaces)
  /\ intf[a].RR_A = "Unique"
  /\ intf[a].name \notin Taken
  /\ intf' = [intf EXCEPT ![a].RR_A = "Verified"]
  /\ UNCHANGED <<system, changes, notices, watching, unseen, stage, todo, foundav4, HostInterfaces, cache,
                 hostlabel, MulticastHostname, target, failures>>

Learn(id) ==
  /\ stage = "idle" /\ cache[id] # "records"
  /\ \E a \in OnInterface(HostInterfaces, intf, id) :
       intf[a].InterfaceActive /\ (intf[a].IPv4Available \/ intf[a].IPv6Available)
  /\ cache' = [cache EXCEPT ![id] = "records"]
  /\ UNCHANGED <<system, changes, notices, watching, unseen, stage, todo, foundav4, HostInterfaces, intf,
                 hostlabel, MulticastHostname, target, failures>>

InterfaceInit ==
  /\ system \in SUBSET Addresses
  /\ changes = 0 /\ notices = {} /\ watching = FALSE /\ unseen = FALSE
  /\ stage = "init" /\ todo = {} /\ foundav4 = FALSE
  /\ HostInterfaces = <<>>
  /\ intf = [a \in Addresses |-> Fresh]
  /\ cache = [id \in Ids |-> "nothing"]
  /\ hostlabel = 1 /\ MulticastHostname = NoLabel
  /\ target = [s \in Services |-> NoLabel]
  /\ failures = 0

InterfaceNext ==
  \/ mDNSPlatformInit
  \/ \E failing \in Failings : Setup(failing) \/ SetupLoopback(failing)
  \/ SetupDone
  \/ InterfaceChangeCallback \/ ClearInterfaceList
  \/ \E a \in Addresses : Change(a)
  \/ \E label \in Labels : handle_sethost_request(label)
  \/ \E s \in Services : SetTargetToHostName(s)
  \/ Conflict
  \/ \E a \in Addresses : Probed(a)
  \/ \E id \in Ids : Learn(id)

InterfaceSpec == InterfaceInit /\ [][InterfaceNext]_interfaceVars

---------------------------------------------------------------------------
(* Properties                                                               *)

(* The records, the list and the places that go with them are of their      *)
(* kinds; what is not in the list holds nothing.                            *)
InterfaceTypeOK ==
  /\ stage \in {"init", "setup", "clear", "idle"}
  /\ HostInterfaces \in Seq(Addresses)
  /\ \A i, j \in DOMAIN HostInterfaces : HostInterfaces[i] = HostInterfaces[j] => i = j
  /\ intf \in [Addresses -> NetworkInterfaceInfo]
  /\ \A a \in Addresses : a \notin Listed(HostInterfaces) => intf[a] = Fresh
  /\ todo \subseteq Addresses
  /\ hostlabel \in Labels /\ MulticastHostname \in Labels \cup {NoLabel}
  /\ target \in [Services -> Labels \cup {NoLabel}]
  /\ cache \in [Ids -> {"nothing", "records", "doubtful"}]
  /\ failures \in Nat

(* Of the addresses of an interface exactly one speaks for all of them: the *)
(* core sends by whichever version any of them has, and by no other.  The   *)
(* list is scanned for it with every packet.                                *)
OneSpeaksForAll ==
  \A a \in Listed(HostInterfaces) :
    LET same == OnInterface(HostInterfaces, intf, intf[a].InterfaceID)
    IN  \E b \in same :
          /\ {c \in same : intf[c].InterfaceActive} = {b}
          /\ intf[b].IPv4Available = (\E c \in same : Type(c) = "v4")
          /\ intf[b].IPv6Available = (\E c \in same : Type(c) = "v6")

(* The host records of the machine are one set, known by a record that is   *)
(* there: else they would be in conflict with one another, or compared with *)
(* memory that has been freed.  And they all have the name the host has, as *)
(* the services do that point to it.                                        *)
HostRecordsAreOneSet ==
  LET first == HostInterfaces[1]
  IN  /\ \A a \in Listed(HostInterfaces) :
           /\ intf[a].RR_A # "Unregistered" /\ intf[a].RR_PTR # "Unregistered"
           /\ intf[a].RRSet = first
           /\ intf[a].name = MulticastHostname /\ intf[a].host = MulticastHostname
      /\ \A s \in Services : target[s] \in {NoLabel, MulticastHostname}

(* Between one refresh and the next the list is what the machine has, up to *)
(* what no socket could be had for and what no notification told of.        *)
ListFollowsTheMachine ==
  (/\ stage = "idle" /\ notices = {} /\ watching /\ ~unseen /\ failures = 0) =>
    LET wanted == {a \in Addresses : Usable(a) /\ Attributes[a].mask /\ ~Attributes[a].loopback}
    IN  /\ wanted \subseteq Listed(HostInterfaces)
        /\ \A a \in Listed(HostInterfaces) \ wanted :
             Usable(a) /\ Attributes[a].loopback /\ \A b \in wanted : Type(b) # "v4"
        /\ (\A b \in wanted : Type(b) # "v4") =>
             FirstOf({a \in Addresses : Usable(a) /\ Loopback(a)}) \subseteq Listed(HostInterfaces)
        /\ \A a \in Listed(HostInterfaces) :
             /\ intf[a].InterfaceID \in Listed(HostInterfaces)
             /\ Type(a) \in intf[intf[a].InterfaceID].sockets
        /\ \A id \in Ids : cache[id] # "nothing" => id \in Listed(HostInterfaces)
=============================================================================

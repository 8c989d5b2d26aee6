----------------------------- MODULE HostProofs -----------------------------
(* Proofs about the host's side of the daemon: that its host records are    *)
(* one set under one name, that no signal is lost between the handler and   *)
(* MainLoop, and that a client is told once of the end of its service; and, *)
(* at the end, about CtUuidClock: that the UUIDs of a host differ.          *)
EXTENDS HostInterfaces, PosixLoop, ServiceRecords, CtUuidClock, FiniteSetTheorems, WellFoundedInduction, TLAPS

---------------------------------------------------------------------------
(* What the routines make of an address's records.                          *)

LEMMA Assumed ==
  /\ \A a \in Addresses : Type(a) \in {"v4", "v6"}
  /\ 1 \in Labels
  BY HostAssumption DEF Type

Names == Labels \cup {NoLabel}
Infos == [Addresses -> NetworkInterfaceInfo]

LEMMA FreshIsInfo == Fresh \in NetworkInterfaceInfo
  BY DEF Fresh, NetworkInterfaceInfo

LEMMA InfoFields == ASSUME NEW r \in NetworkInterfaceInfo
  PROVE /\ r.RR_A \in {"Unregistered", "Unique", "Verified"} /\ r.RR_PTR \in {"Unregistered", "KnownUnique"}
        /\ r.InterfaceID \in Addresses \cup {None} /\ r.RRSet \in Addresses \cup {None}
        /\ r.sockets \subseteq {"v4", "v6"} /\ r.InterfaceActive \in BOOLEAN
  BY DEF NetworkInterfaceInfo

LEMMA HeadListed == ASSUME NEW list \in Seq(Addresses), list # <<>>
  PROVE list[1] \in Addresses /\ list[1] \in Listed(list) /\ 1 \in DOMAIN list
  BY DEF Listed

LEMMA ListedAre == ASSUME NEW list \in Seq(Addresses) PROVE Listed(list) \subseteq Addresses
  BY DEF Listed

(* One record as the routines leave it.                                     *)
Advertised(r, primary, fqdn) ==
  [r EXCEPT !.RR_A = "Unique", !.name = fqdn, !.RRSet = primary, !.RR_PTR = "KnownUnique", !.host = fqdn]

LEMMA AdvertisedFields ==
  ASSUME NEW r \in NetworkInterfaceInfo, NEW primary \in Addresses, NEW fqdn \in Names
  PROVE LET t == Advertised(r, primary, fqdn)
        IN  /\ t \in NetworkInterfaceInfo
            /\ t.RR_A = "Unique" /\ t.RR_PTR = "KnownUnique" /\ t.RRSet = primary
            /\ t.name = fqdn /\ t.host = fqdn
  BY DEF Advertised, NetworkInterfaceInfo, Names

Primary(list, set) == IF list = <<>> THEN set ELSE list[1]

LEMMA AdvertiseFields ==
  ASSUME NEW list \in Seq(Addresses), NEW at \in Infos, NEW set \in Addresses, NEW fqdn \in Names
  PROVE AdvertiseInterface(list, at, set, fqdn) =
          [at EXCEPT ![set] = Advertised(at[set], Primary(list, set), fqdn)]
  BY DEF AdvertiseInterface, Advertised, Infos, NetworkInterfaceInfo, Primary

(* The records an address has in the host's set.                            *)
HasRecords(r, first, fqdn) ==
  /\ r.RR_A # "Unregistered" /\ r.RR_PTR # "Unregistered"
  /\ r.RRSet = first /\ r.name = fqdn /\ r.host = fqdn

SameRecords(r, t) ==
  /\ t \in NetworkInterfaceInfo
  /\ t.RR_A = "Unregistered" <=> r.RR_A = "Unregistered"
  /\ t.RR_PTR = r.RR_PTR /\ t.RRSet = r.RRSet /\ t.name = r.name /\ t.host = r.host

LEMMA SameKeeps ==
  ASSUME NEW r, NEW t, NEW first, NEW fqdn, SameRecords(r, t), HasRecords(r, first, fqdn)
  PROVE HasRecords(t, first, fqdn)
  BY DEF SameRecords, HasRecords

LEMMA RenamedFields ==
  ASSUME NEW list \in Seq(Addresses), NEW at \in Infos, NEW fqdn \in Names
  PROVE LET new == Renamed(list, at, fqdn)
        IN  /\ new \in Infos
            /\ \A a \in Listed(list) : HasRecords(new[a], list[1], fqdn)
            /\ \A a \in Addresses : a \notin Listed(list) => new[a] = at[a]
<1> DEFINE new == Renamed(list, at, fqdn)
<1>1. ASSUME NEW a \in Addresses, a \in Listed(list)
      PROVE new[a] = Advertised(at[a], list[1], fqdn) /\ list[1] \in Addresses
  <2>1. list # <<>> /\ list[1] \in Addresses
    BY <1>1 DEF Listed
  <2>2. AdvertiseInterface(list, at, a, fqdn)[a] = Advertised(at[a], list[1], fqdn)
    BY <2>1, AdvertiseFields DEF Infos, Primary
  <2> QED
    BY <1>1, <2>1, <2>2 DEF Renamed
<1>2. ASSUME NEW a \in Addresses, a \notin Listed(list) PROVE new[a] = at[a]
  BY <1>2 DEF Renamed
<1>3. ASSUME NEW a \in Addresses, a \in Listed(list)
      PROVE new[a] \in NetworkInterfaceInfo /\ HasRecords(new[a], list[1], fqdn)
  BY <1>1, <1>3, AdvertisedFields DEF Infos, HasRecords
<1>4. new \in Infos
  <2>1. \A a \in Addresses : new[a] \in NetworkInterfaceInfo
    BY <1>2, <1>3 DEF Infos
  <2>2. new = [a \in Addresses |-> new[a]]
    BY DEF Renamed
  <2> QED
    BY <2>1, <2>2 DEF Infos
<1> QED
  BY <1>2, <1>3, <1>4, ListedAre

(* An address more.                                                         *)
LEMMA AppendListed ==
  ASSUME NEW list \in Seq(Addresses), NEW a \in Addresses
  PROVE LET new == Append(list, a)
        IN  /\ new \in Seq(Addresses) /\ Listed(new) = Listed(list) \cup {a}
            /\ new # <<>> /\ new[1] = Primary(list, a)
            /\ list # <<>> => new[1] = list[1]
            /\ list = <<>> => Listed(list) = {}
<1> DEFINE new == Append(list, a)
<1>1. new \in Seq(Addresses) /\ Len(new) = Len(list) + 1 /\ new[Len(list) + 1] = a
      /\ \A i \in 1 .. Len(list) : new[i] = list[i]
  OBVIOUS
<1>2. DOMAIN list = 1 .. Len(list) /\ DOMAIN new = 1 .. Len(list) + 1 /\ Len(list) \in Nat
  OBVIOUS
<1> HIDE DEF new
<1>3. Listed(new) = Listed(list) \cup {a}
  BY <1>1, <1>2 DEF Listed
<1>4. list # <<>> => Len(list) >= 1
  OBVIOUS
<1>5. list = <<>> => Len(list) = 0
  OBVIOUS
<1>6. new # <<>>
  BY <1>1, <1>2
<1>7. CASE list = <<>>
  <2>1. new[1] = a /\ Listed(list) = {}
    BY <1>1, <1>2, <1>5, <1>7 DEF Listed
  <2> QED
    BY <1>1, <1>3, <1>6, <1>7, <2>1 DEF Primary, new
<1>8. CASE list # <<>>
  <2>1. new[1] = list[1]
    BY <1>1, <1>2, <1>4, <1>8
  <2> QED
    BY <1>1, <1>3, <1>6, <1>8, <2>1 DEF Primary, new
<1> QED
  BY <1>7, <1>8

LEMMA RegisterFields ==
  ASSUME NEW list \in Seq(Addresses), NEW at \in Infos, NEW set \in Addresses, NEW id \in Addresses,
         NEW fqdn \in Names
  PROVE LET new == mDNS_RegisterInterface(list, at, set, id, fqdn)
        IN  /\ new \in Infos
            /\ HasRecords(new[set], Primary(list, set), fqdn)
            /\ \A a \in Addresses : a # set => SameRecords(at[a], new[a])
            /\ \A a \in Addresses : a # set /\ a \notin Listed(list) /\ at[a] = Fresh => new[a] = Fresh
<1> DEFINE same   == OnInterface(list, at, id)
           linked == Append(list, set)
           known  == [a \in Addresses |->
                   IF a = set THEN [at[a] EXCEPT !.InterfaceID = id, !.InterfaceActive = same = {},
                                                 !.IPv4Available = Type(set) = "v4",
                                                 !.IPv6Available = Type(set) = "v6"]
                   ELSE IF a \in same
                   THEN [at[a] EXCEPT !.IPv4Available = @ \/ Type(set) = "v4",
                                      !.IPv6Available = @ \/ Type(set) = "v6"]
                   ELSE at[a]]
           isNew == same = {} \/ \A a \in same : Type(a) # Type(set)
           advertised == AdvertiseInterface(linked, known, set, fqdn)
           new == [a \in Addresses |->
             IF isNew /\ advertised[a].InterfaceID = id /\ advertised[a].RR_A = "Verified"
             THEN [advertised[a] EXCEPT !.RR_A = "Unique"] ELSE advertised[a]]
<1>1. mDNS_RegisterInterface(list, at, set, id, fqdn) = new
  BY DEF mDNS_RegisterInterface
<1>2. ASSUME NEW a \in Addresses PROVE known[a] \in NetworkInterfaceInfo /\ SameRecords(at[a], known[a])
  <2> at[a] \in NetworkInterfaceInfo
    BY DEF Infos
  <2>1. CASE a = set
    <3> DEFINE r == at[a]
    <3>1. known[a] = [InterfaceID |-> id, InterfaceActive |-> (same = {}),
                      IPv4Available |-> (Type(set) = "v4"), IPv6Available |-> (Type(set) = "v6"),
                      RR_A |-> r.RR_A, name |-> r.name, RRSet |-> r.RRSet,
                      RR_PTR |-> r.RR_PTR, host |-> r.host, sockets |-> r.sockets]
      BY <2>1 DEF NetworkInterfaceInfo
    <3>2. (same = {}) \in BOOLEAN /\ (Type(set) = "v4") \in BOOLEAN /\ (Type(set) = "v6") \in BOOLEAN
      OBVIOUS
    <3>3. /\ r.RR_A \in {"Unregistered", "Unique", "Verified"} /\ r.name \in Labels \cup {NoLabel}
          /\ r.RRSet \in Addresses \cup {None} /\ r.RR_PTR \in {"Unregistered", "KnownUnique"}
          /\ r.host \in Labels \cup {NoLabel} /\ r.sockets \in SUBSET {"v4", "v6"}
      BY DEF NetworkInterfaceInfo
    <3> HIDE DEF known, same, r
    <3>4. known[a] \in NetworkInterfaceInfo
      BY <3>1, <3>2, <3>3 DEF NetworkInterfaceInfo
    <3>5. /\ known[a].RR_A = r.RR_A /\ known[a].RR_PTR = r.RR_PTR /\ known[a].RRSet = r.RRSet
          /\ known[a].name = r.name /\ known[a].host = r.host
      BY <3>1
    <3> QED
      BY <3>4, <3>5 DEF SameRecords, r
  <2>2. CASE a # set /\ a \in same
    <3>1. known[a] = [at[a] EXCEPT !.IPv4Available = @ \/ Type(set) = "v4",
                                   !.IPv6Available = @ \/ Type(set) = "v6"]
      BY <2>2
    <3>2. (at[a].IPv4Available \/ Type(set) = "v4") \in BOOLEAN /\ (at[a].IPv6Available \/ Type(set) = "v6") \in BOOLEAN
      OBVIOUS
    <3> HIDE DEF known, same
    <3> QED
      BY <3>1, <3>2 DEF NetworkInterfaceInfo, SameRecords
  <2>3. CASE a # set /\ a \notin same
    <3>1. known[a] = at[a]
      BY <2>3
    <3> QED
      BY <3>1 DEF SameRecords
  <2> QED
    BY <2>1, <2>2, <2>3
<1>3. known \in Infos
  BY <1>2 DEF Infos
<1>4. linked \in Seq(Addresses) /\ linked # <<>> /\ Primary(linked, set) = Primary(list, set)
      /\ Primary(list, set) \in Addresses
  BY AppendListed, HeadListed DEF Primary
<1> HIDE DEF known, linked, isNew
<1>5. advertised = [known EXCEPT ![set] = Advertised(known[set], Primary(list, set), fqdn)]
  BY <1>3, <1>4, AdvertiseFields
<1>6. /\ advertised[set] \in NetworkInterfaceInfo /\ HasRecords(advertised[set], Primary(list, set), fqdn)
  <2>1. advertised[set] = Advertised(known[set], Primary(list, set), fqdn)
    BY <1>3, <1>5 DEF Infos
  <2> HIDE DEF advertised
  <2> QED
    BY <1>2, <1>4, <2>1, AdvertisedFields DEF HasRecords
<1>7. ASSUME NEW a \in Addresses, a # set
      PROVE advertised[a] = known[a]
  BY <1>3, <1>5, <1>7 DEF Infos
<1> HIDE DEF advertised
<1>8. ASSUME NEW r \in NetworkInterfaceInfo, r.RR_A = "Verified"
      PROVE SameRecords(r, [r EXCEPT !.RR_A = "Unique"])
  BY <1>8 DEF NetworkInterfaceInfo, SameRecords
<1>9. ASSUME NEW a \in Addresses
      PROVE advertised[a] \in NetworkInterfaceInfo /\ SameRecords(advertised[a], new[a])
  <2>1. advertised[a] \in NetworkInterfaceInfo
    BY <1>2, <1>6, <1>7
  <2>2. CASE isNew /\ advertised[a].InterfaceID = id /\ advertised[a].RR_A = "Verified"
    <3>1. new[a] = [advertised[a] EXCEPT !.RR_A = "Unique"]
      BY <2>2
    <3> QED
      BY <1>8, <2>1, <2>2, <3>1
  <2>3. CASE ~(isNew /\ advertised[a].InterfaceID = id /\ advertised[a].RR_A = "Verified")
    <3>1. new[a] = advertised[a]
      BY <2>3
    <3> QED
      BY <2>1, <3>1 DEF SameRecords
  <2> QED
    BY <2>1, <2>2, <2>3
<1>10. new \in Infos
  <2>1. \A a \in Addresses : new[a] \in NetworkInterfaceInfo
    BY <1>9 DEF SameRecords
  <2> QED
    BY <2>1 DEF Infos
<1>11. HasRecords(new[set], Primary(list, set), fqdn)
  BY <1>6, <1>9, SameKeeps
<1>12. ASSUME NEW a \in Addresses, a # set PROVE SameRecords(at[a], new[a])
  BY <1>2, <1>7, <1>9, <1>12 DEF SameRecords
<1>13. ASSUME NEW a \in Addresses, a # set, a \notin Listed(list), at[a] = Fresh PROVE new[a] = Fresh
  <2>1. a \notin same
    BY <1>13 DEF OnInterface
  <2>2. known[a] = Fresh
    BY <1>13, <2>1 DEF known
  <2>3. advertised[a] = Fresh
    BY <1>7, <1>13, <2>2
  <2>4. Fresh.RR_A # "Verified"
    BY DEF Fresh
  <2> QED
    BY <2>3, <2>4
<1> QED
  BY <1>1, <1>10, <1>11, <1>12, <1>13

(* An address less, the first of the list.                                  *)
NoDuplicates(list) == \A i, j \in DOMAIN list : list[i] = list[j] => i = j

LEMMA UnlinkedFields ==
  ASSUME NEW list \in Seq(Addresses), list # <<>>, NoDuplicates(list)
  PROVE LET rest == Unlinked(list, list[1])
        IN  /\ rest \in Seq(Addresses) /\ NoDuplicates(rest)
            /\ list[1] \notin Listed(rest)
            /\ Listed(list) = Listed(rest) \cup {list[1]}
<1> DEFINE rest == Unlinked(list, list[1])
<1>1. Len(list) \in Nat /\ Len(list) >= 1 /\ DOMAIN list = 1 .. Len(list)
  OBVIOUS
<1> DEFINE p == CHOOSE i \in DOMAIN list : list[i] = list[1]
<1>2. p = 1
  <2>1. 1 \in DOMAIN list /\ \A i \in DOMAIN list : list[i] = list[1] => i = 1
    BY <1>1 DEF NoDuplicates
  <2> QED
    BY <2>1
<1>3. rest = SubSeq(list, 1, 0) \o SubSeq(list, 2, Len(list))
  <2>1. rest = SubSeq(list, 1, p - 1) \o SubSeq(list, p + 1, Len(list))
    BY DEF Unlinked
  <2> HIDE DEF p
  <2>2. p - 1 = 0 /\ p + 1 = 2
    BY <1>2
  <2> QED
    BY <2>1, <2>2
<1>4. SubSeq(list, 1, 0) \in Seq(Addresses) /\ Len(SubSeq(list, 1, 0)) = 0
  BY <1>1
<1>5. /\ SubSeq(list, 2, Len(list)) \in Seq(Addresses) /\ Len(SubSeq(list, 2, Len(list))) = Len(list) - 1
      /\ \A i \in 1 .. Len(list) - 1 : SubSeq(list, 2, Len(list))[i] = list[i + 1]
  BY <1>1
<1>6. /\ rest \in Seq(Addresses) /\ Len(rest) = Len(list) - 1
      /\ \A i \in 1 .. Len(list) - 1 : rest[i] = list[i + 1]
  BY <1>1, <1>3, <1>4, <1>5
<1>7. DOMAIN rest = 1 .. Len(list) - 1
  BY <1>6
<1> HIDE DEF rest, p
<1>8. \A i \in DOMAIN rest : i + 1 \in DOMAIN list /\ i + 1 # 1 /\ rest[i] = list[i + 1]
  BY <1>1, <1>6, <1>7
<1>9. NoDuplicates(rest)
  <2> SUFFICES ASSUME NEW i \in DOMAIN rest, NEW j \in DOMAIN rest, rest[i] = rest[j] PROVE i = j
    BY DEF NoDuplicates
  <2>1. i + 1 = j + 1
    BY <1>8 DEF NoDuplicates
  <2>2. i \in Nat /\ j \in Nat
    BY <1>1, <1>7
  <2> QED
    BY <2>1, <2>2
<1>10. list[1] \notin Listed(rest)
  BY <1>1, <1>8 DEF Listed, NoDuplicates
<1>11. Listed(list) \subseteq Listed(rest) \cup {list[1]}
  <2> SUFFICES ASSUME NEW k \in DOMAIN list, k # 1 PROVE list[k] \in Listed(rest)
    BY DEF Listed
  <2>1. k - 1 \in DOMAIN rest /\ (k - 1) + 1 = k
    BY <1>1, <1>7
  <2>2. rest[k - 1] = list[k]
    BY <1>8, <2>1
  <2> QED
    BY <2>1, <2>2 DEF Listed
<1>12. Listed(rest) \cup {list[1]} \subseteq Listed(list)
  BY <1>1, <1>8 DEF Listed
<1> QED
  BY <1>6, <1>9, <1>10, <1>11, <1>12 DEF rest

LEMMA LeastExists ==
  ASSUME NEW T, T \subseteq Nat, T # {} PROVE \E x \in T : \A y \in T : x <= y
<1>1. PICK x \in T : \A y \in T : ~(<<y, x>> \in OpToRel(<, Nat))
  BY NatLessThanWellFounded, WFMin
<1>2. \A y \in T : ~(y < x)
  BY <1>1 DEF OpToRel
<1> QED
  BY <1>2

LEMMA FoundIsListed ==
  ASSUME NEW list \in Seq(Addresses), NEW at, NEW id
  PROVE FirstInterfaceForID(list, at, id) \in Listed(list) \cup {None}
<1> DEFINE found == {i \in DOMAIN list : at[list[i]].InterfaceID = id}
<1>1. CASE found = {}
  BY <1>1 DEF FirstInterfaceForID
<1>2. CASE ~(found = {})
  <2> DEFINE k == CHOOSE i \in found : \A j \in found : i <= j
  <2>1. FirstInterfaceForID(list, at, id) = list[k]
    BY <1>2 DEF FirstInterfaceForID
  <2>2. found \subseteq Nat /\ found \subseteq DOMAIN list
    OBVIOUS
  <2>3. k \in found
    BY <1>2, <2>2, LeastExists
  <2> HIDE DEF k, found
  <2> QED
    BY <2>1, <2>2, <2>3 DEF Listed
<1> QED
  BY <1>1, <1>2

(* The flags of an address do not count for its records.                    *)
LEMMA FlagsAside ==
  ASSUME NEW r \in NetworkInterfaceInfo, NEW x \in BOOLEAN, NEW y \in BOOLEAN
  PROVE /\ SameRecords(r, [r EXCEPT !.InterfaceActive = x])
        /\ SameRecords(r, [r EXCEPT !.IPv4Available = x, !.IPv6Available = y])
  BY DEF NetworkInterfaceInfo, SameRecords

Kept(list, at, new) ==
  /\ new \in Infos
  /\ \A a \in Addresses : SameRecords(at[a], new[a]) /\ (a \notin Listed(list) => new[a] = at[a])

LEMMA KeptOne ==
  ASSUME NEW list \in Seq(Addresses), NEW at \in Infos, NEW k \in Listed(list), NEW r, SameRecords(at[k], r)
  PROVE Kept(list, at, [at EXCEPT ![k] = r])
<1> DEFINE new == [at EXCEPT ![k] = r]
<1>1. k \in Addresses /\ r \in NetworkInterfaceInfo
  BY ListedAre DEF SameRecords
<1>2. new \in Infos
  BY <1>1 DEF Infos
<1>3. ASSUME NEW a \in Addresses PROVE SameRecords(at[a], new[a]) /\ (a # k => new[a] = at[a])
  <2>1. CASE a = k
    BY <1>1, <2>1 DEF Infos
  <2>2. CASE a # k
    <3>1. new[a] = at[a] /\ at[a] \in NetworkInterfaceInfo
      BY <1>1, <2>2 DEF Infos
    <3> QED
      BY <3>1 DEF SameRecords
  <2> QED
    BY <2>1, <2>2
<1> QED
  BY <1>2, <1>3 DEF Kept

LEMMA KeptAll == ASSUME NEW list, NEW at \in Infos PROVE Kept(list, at, at)
  BY DEF Kept, SameRecords, Infos

LEMMA SucceededFields ==
  ASSUME NEW list \in Seq(Addresses), NEW at \in Infos, NEW set \in Addresses, NEW next \in Listed(list) \cup {None}
  PROVE Kept(list, at, Succeeded(at, set, next))
<1>1. CASE at[set].InterfaceActive /\ next # None
  <2>1. next \in Listed(list) /\ next \in Addresses
    BY <1>1, ListedAre
  <2>2. Succeeded(at, set, next) = [at EXCEPT ![next] = [at[next] EXCEPT !.InterfaceActive = TRUE]]
    BY <1>1, <2>1 DEF Succeeded, Infos
  <2>3. at[next] \in NetworkInterfaceInfo
    BY <2>1 DEF Infos
  <2>4. SameRecords(at[next], [at[next] EXCEPT !.InterfaceActive = TRUE])
    BY <2>3, FlagsAside
  <2> DEFINE r == [at[next] EXCEPT !.InterfaceActive = TRUE]
  <2> HIDE DEF r
  <2>5. SameRecords(at[next], r) /\ Succeeded(at, set, next) = [at EXCEPT ![next] = r]
    BY <2>2, <2>4 DEF r
  <2>6. Kept(list, at, [at EXCEPT ![next] = r])
    BY <2>1, <2>5, KeptOne
  <2> QED
    BY <2>5, <2>6
<1>2. CASE ~(at[set].InterfaceActive /\ next # None)
  BY <1>2, KeptAll DEF Succeeded
<1> QED
  BY <1>1, <1>2

LEMMA ProtocolFields ==
  ASSUME NEW list \in Seq(Addresses), NEW at \in Infos, NEW active \in Listed(list)
  PROVE Kept(list, at, UpdateInterfaceProtocols(list, at, active))
<1> DEFINE same == OnInterface(list, at, at[active].InterfaceID)
           x == \E a \in same : Type(a) = "v4"
           y == \E a \in same : Type(a) = "v6"
<1>1. active \in Addresses
  BY ListedAre
<1>2. UpdateInterfaceProtocols(list, at, active) =
        [at EXCEPT ![active].IPv4Available = x, ![active].IPv6Available = y]
  BY DEF UpdateInterfaceProtocols
<1>3. at[active] \in NetworkInterfaceInfo
  BY <1>1 DEF Infos
<1>4. x \in BOOLEAN /\ y \in BOOLEAN
  OBVIOUS
<1> HIDE DEF x, y
<1>5. UpdateInterfaceProtocols(list, at, active) =
        [at EXCEPT ![active] = [at[active] EXCEPT !.IPv4Available = x, !.IPv6Available = y]]
  BY <1>1, <1>2, <1>3 DEF Infos, NetworkInterfaceInfo
<1>6. SameRecords(at[active], [at[active] EXCEPT !.IPv4Available = x, !.IPv6Available = y])
  BY <1>3, <1>4, FlagsAside
<1> DEFINE r == [at[active] EXCEPT !.IPv4Available = x, !.IPv6Available = y]
<1> HIDE DEF r
<1>7. SameRecords(at[active], r) /\ UpdateInterfaceProtocols(list, at, active) = [at EXCEPT ![active] = r]
  BY <1>5, <1>6 DEF r
<1>8. Kept(list, at, [at EXCEPT ![active] = r])
  BY <1>7, KeptOne
<1> QED
  BY <1>7, <1>8

LEMMA KeptTwice ==
  ASSUME NEW list, NEW at, NEW mid, NEW new, Kept(list, at, mid), Kept(list, mid, new)
  PROVE Kept(list, at, new)
  BY DEF Kept, SameRecords

(* The set of those that shared the one that goes is that of the first left.*)
LEMMA DeadvertiseFields ==
  ASSUME NEW list \in Seq(Addresses), NEW at \in Infos, NEW set \in Addresses, set \notin Listed(list)
  PROVE LET new == [DeadvertiseInterface(list, at, set) EXCEPT ![set] = Fresh]
        IN  /\ new \in Infos
            /\ new[set] = Fresh
            /\ \A a \in Addresses : a \notin Listed(list) /\ a # set => new[a] = at[a]
            /\ \A a \in Listed(list), fqdn \in Names :
                 HasRecords(at[a], set, fqdn) => HasRecords(new[a], list[1], fqdn)
<1> DEFINE primary == IF list = <<>> THEN None ELSE list[1]
           shared == [a \in Addresses |->
                    IF a \in Listed(list) /\ at[a].RRSet = set THEN [at[a] EXCEPT !.RRSet = primary] ELSE at[a]]
           gone == [shared EXCEPT ![set].RR_A = "Unregistered", ![set].RR_PTR = "Unregistered"]
           new == [gone EXCEPT ![set] = Fresh]
<1>1. DeadvertiseInterface(list, at, set) = gone
  BY DEF DeadvertiseInterface
<1>2. primary \in Addresses \cup {None}
  BY HeadListed
<1> HIDE DEF primary
<1>3. ASSUME NEW a \in Addresses PROVE shared[a] \in NetworkInterfaceInfo
  <2>1. at[a] \in NetworkInterfaceInfo
    BY DEF Infos
  <2> QED
    BY <1>2, <2>1 DEF NetworkInterfaceInfo
<1>4. \A a \in Addresses : new[a] = IF a = set THEN Fresh ELSE shared[a]
  OBVIOUS
<1>5. new = [a \in Addresses |-> new[a]]
  OBVIOUS
<1>6. ASSUME NEW a \in Listed(list), NEW fqdn \in Names, HasRecords(at[a], set, fqdn)
      PROVE HasRecords(new[a], list[1], fqdn)
  <2>1. a \in Addresses /\ a # set /\ list # <<>>
    BY <1>6, ListedAre DEF Listed
  <2>2. at[a] \in NetworkInterfaceInfo
    BY <2>1 DEF Infos
  <2>3. primary = list[1]
    BY <2>1 DEF primary
  <2>4. new[a] = [at[a] EXCEPT !.RRSet = primary]
    BY <1>4, <1>6, <2>1 DEF HasRecords
  <2> HIDE DEF new
  <2> QED
    BY <1>6, <2>2, <2>3, <2>4 DEF HasRecords, NetworkInterfaceInfo
<1>7. ASSUME NEW a \in Addresses, a \notin Listed(list), a # set PROVE new[a] = at[a]
  BY <1>4, <1>7
<1> HIDE DEF new, gone, shared
<1>8. new \in Infos
  BY <1>3, <1>4, <1>5, FreshIsInfo DEF Infos
<1> QED
  BY <1>1, <1>4, <1>6, <1>7, <1>8 DEF new

LEMMA DeregisterFields ==
  ASSUME NEW list \in Seq(Addresses), NEW at \in Infos, list # <<>>, NoDuplicates(list)
  PROVE LET left == mDNS_DeregisterInterface(list, at, list[1])
        IN  /\ left.list = Unlinked(list, list[1])
            /\ left.intf \in Infos
            /\ left.intf[list[1]] = Fresh
            /\ \A a \in Addresses : a \notin Listed(list) => left.intf[a] = at[a]
            /\ \A a \in Listed(left.list), fqdn \in Names :
                 HasRecords(at[a], list[1], fqdn) => HasRecords(left.intf[a], left.list[1], fqdn)
<1> DEFINE set == list[1]
           id == at[set].InterfaceID
           rest == Unlinked(list, set)
           next == FirstInterfaceForID(rest, at, id)
           spoken == Succeeded(at, set, next)
           active == {a \in OnInterface(rest, spoken, id) : spoken[a].InterfaceActive}
           known == IF active = {} THEN spoken
                    ELSE UpdateInterfaceProtocols(rest, spoken, CHOOSE a \in active : TRUE)
           new == [DeadvertiseInterface(rest, known, set) EXCEPT ![set] = Fresh]
           left == mDNS_DeregisterInterface(list, at, set)
<1>1. left.list = rest /\ left.intf = new
  BY DEF mDNS_DeregisterInterface
<1>2. set \in Addresses /\ rest \in Seq(Addresses) /\ set \notin Listed(rest) /\ Listed(list) = Listed(rest) \cup {set}
  BY HeadListed, UnlinkedFields
<1> HIDE DEF rest, left, set
<1>3. Kept(rest, at, spoken)
  <2>1. next \in Listed(rest) \cup {None}
    BY <1>2, FoundIsListed
  <2> HIDE DEF next
  <2> QED
    BY <1>2, <2>1, SucceededFields
<1>4. spoken \in Infos
  BY <1>3 DEF Kept
<1>5. active \subseteq Listed(rest)
  BY DEF OnInterface
<1> HIDE DEF spoken, active
<1>6. Kept(rest, spoken, known)
  <2>1. CASE active = {}
    BY <1>4, <2>1, KeptAll
  <2>2. CASE active # {}
    <3> DEFINE one == CHOOSE a \in active : TRUE
    <3>1. one \in Listed(rest)
      BY <1>5, <2>2
    <3>2. known = UpdateInterfaceProtocols(rest, spoken, one)
      BY <2>2
    <3> HIDE DEF one, known
    <3> QED
      BY <1>2, <1>4, <3>1, <3>2, ProtocolFields
  <2> QED
    BY <2>1, <2>2
<1> HIDE DEF known
<1>7. Kept(rest, at, known)
  BY <1>3, <1>6, KeptTwice
<1>8. known \in Infos
  BY <1>7 DEF Kept
<1>9. /\ new \in Infos /\ new[set] = Fresh
      /\ \A a \in Addresses : a \notin Listed(rest) /\ a # set => new[a] = known[a]
      /\ \A a \in Listed(rest), fqdn \in Names :
           HasRecords(known[a], set, fqdn) => HasRecords(new[a], rest[1], fqdn)
  BY <1>2, <1>8, DeadvertiseFields
<1> HIDE DEF new
<1>10. ASSUME NEW a \in Addresses, a \notin Listed(list) PROVE new[a] = at[a]
  BY <1>2, <1>7, <1>9, <1>10 DEF Kept
<1>11. ASSUME NEW a \in Listed(rest), NEW fqdn \in Names, HasRecords(at[a], set, fqdn)
       PROVE HasRecords(new[a], rest[1], fqdn)
  <2>1. a \in Addresses
    BY <1>2, ListedAre
  <2>2. SameRecords(at[a], known[a])
    BY <1>7, <2>1 DEF Kept
  <2>3. HasRecords(known[a], set, fqdn)
    BY <1>11, <2>2, SameKeeps
  <2> QED
    BY <1>9, <2>3
<1> QED
  BY <1>1, <1>9, <1>10, <1>11 DEF left, rest, set

---------------------------------------------------------------------------
(* The invariant: besides the types and the records, an address still to be *)
(* set up is not in the list, so that none comes into it twice, and the     *)
(* list is empty before mDNSPlatformInit.                                   *)
ListOK(list, at) ==
  /\ list \in Seq(Addresses) /\ NoDuplicates(list)
  /\ at \in Infos
  /\ \A a \in Addresses : a \notin Listed(list) => at[a] = Fresh
Owned(list, at, fqdn) == \A a \in Listed(list) : HasRecords(at[a], list[1], fqdn)
Records == ListOK(HostInterfaces, intf) /\ Owned(HostInterfaces, intf, MulticastHostname)
Naming ==
  /\ hostlabel \in Labels /\ MulticastHostname \in Names
  /\ target \in [Services -> Names]
  /\ \A s \in Services : target[s] \in {NoLabel, MulticastHostname}
Refresh ==
  /\ stage \in {"init", "setup", "clear", "idle"}
  /\ todo \subseteq Addresses
  /\ cache \in [Ids -> {"nothing", "records", "doubtful"}]
  /\ failures \in Nat
  /\ stage = "init" => HostInterfaces = <<>>
  /\ stage = "setup" => todo \cap Listed(HostInterfaces) = {}
HostInv == Records /\ Naming /\ Refresh

LEMMA HostInvShows == HostInv => InterfaceTypeOK /\ HostRecordsAreOneSet
<1> SUFFICES ASSUME HostInv PROVE InterfaceTypeOK /\ HostRecordsAreOneSet
  OBVIOUS
<1>1. InterfaceTypeOK
  BY DEF HostInv, Records, ListOK, Naming, Refresh, InterfaceTypeOK, NoDuplicates, Infos, Names
<1>2. HostRecordsAreOneSet
  BY DEF HostInv, Records, Owned, HasRecords, Naming, HostRecordsAreOneSet
<1> QED
  BY <1>1, <1>2

LEMMA RecordsStart == InterfaceInit => HostInv
<1> SUFFICES ASSUME InterfaceInit PROVE HostInv
  OBVIOUS
<1>1. HostInterfaces = <<>> /\ Listed(HostInterfaces) = {}
  BY DEF InterfaceInit, Listed
<1>2. ListOK(HostInterfaces, intf)
  BY <1>1, FreshIsInfo DEF InterfaceInit, ListOK, NoDuplicates, Infos
<1>3. Records
  BY <1>1, <1>2 DEF Records, Owned
<1>4. Naming
  BY Assumed DEF InterfaceInit, Naming, Names
<1>5. Refresh
  BY <1>1 DEF InterfaceInit, Refresh, Ids
<1> QED
  BY <1>3, <1>4, <1>5 DEF HostInv

(* A name for the host: all its records and all that point to it have it.   *)
LEMMA NamingStep ==
  ASSUME Records, Naming, NEW label \in Labels, mDNS_SetFQDN(label), UNCHANGED HostInterfaces
  PROVE Records' /\ Naming'
<1>1. /\ hostlabel' = label /\ MulticastHostname' = label /\ label \in Names
      /\ target' = [s \in Services |-> IF target[s] = NoLabel THEN NoLabel ELSE label]
      /\ intf' = Renamed(HostInterfaces, intf, label)
  BY DEF mDNS_SetFQDN, Names
<1>2. Naming'
  BY <1>1 DEF Naming, Names
<1>3. /\ intf' \in Infos
      /\ \A a \in Listed(HostInterfaces) : HasRecords(intf'[a], HostInterfaces[1], label)
      /\ \A a \in Addresses : a \notin Listed(HostInterfaces) => intf'[a] = intf[a]
  BY <1>1, RenamedFields DEF Records, ListOK
<1>4. ListOK(HostInterfaces, intf')
  BY <1>3 DEF Records, ListOK
<1>5. Owned(HostInterfaces, intf', label)
  BY <1>3 DEF Owned
<1> QED
  BY <1>1, <1>2, <1>4, <1>5 DEF Records

LEMMA AppendDistinct ==
  ASSUME NEW list \in Seq(Addresses), NoDuplicates(list), NEW a \in Addresses, a \notin Listed(list)
  PROVE NoDuplicates(Append(list, a))
<1> DEFINE new == Append(list, a)
<1>1. new[Len(list) + 1] = a /\ \A i \in 1 .. Len(list) : new[i] = list[i]
  OBVIOUS
<1>2. DOMAIN list = 1 .. Len(list) /\ DOMAIN new = 1 .. Len(list) + 1 /\ Len(list) \in Nat
  OBVIOUS
<1> HIDE DEF new
<1>3. \A i \in 1 .. Len(list) : new[i] # a
  BY <1>1, <1>2 DEF Listed
<1>4. ASSUME NEW i \in DOMAIN new, NEW j \in DOMAIN new, new[i] = new[j] PROVE i = j
  <2>1. CASE i \in 1 .. Len(list) /\ j \in 1 .. Len(list)
    BY <1>1, <1>2, <1>4, <2>1 DEF NoDuplicates
  <2>2. CASE i = Len(list) + 1 \/ j = Len(list) + 1
    BY <1>1, <1>2, <1>3, <1>4, <2>2
  <2> QED
    BY <1>2, <2>1, <2>2
<1> QED
  BY <1>4 DEF NoDuplicates, new

LEMMA AliasIsListed ==
  ASSUME HostInterfaces \in Seq(Addresses), NEW name
  PROVE SearchForInterfaceByName(name) \in Listed(HostInterfaces) \cup {None}
<1> DEFINE found == {i \in DOMAIN HostInterfaces : Attributes[HostInterfaces[i]].name = name}
<1>1. CASE found = {}
  BY <1>1 DEF SearchForInterfaceByName
<1>2. CASE ~(found = {})
  <2> DEFINE k == CHOOSE i \in found : \A j \in found : i <= j
  <2>1. SearchForInterfaceByName(name) = HostInterfaces[k]
    BY <1>2 DEF SearchForInterfaceByName
  <2>2. found \subseteq Nat /\ found \subseteq DOMAIN HostInterfaces
    OBVIOUS
  <2>3. k \in found
    BY <1>2, <2>2, LeastExists
  <2> HIDE DEF k, found
  <2> QED
    BY <2>1, <2>2, <2>3 DEF Listed
<1> QED
  BY <1>1, <1>2

(* An address that is not in the list set up, or left out.                  *)
LEMMA SetupStep ==
  ASSUME Records, MulticastHostname \in Names, NEW a \in Addresses, a \notin Listed(HostInterfaces),
         NEW works, SetupOneInterface(a, works)
  PROVE /\ ListOK(HostInterfaces', intf') /\ Owned(HostInterfaces', intf', MulticastHostname)
        /\ Listed(HostInterfaces') \subseteq Listed(HostInterfaces) \cup {a}
<1> DEFINE alias == IF SearchForInterfaceByName(Attributes[a].name) = None THEN a
                    ELSE SearchForInterfaceByName(Attributes[a].name)
           sockets == intf[alias].sockets \cup {Type(a)}
           one == [intf[alias] EXCEPT !.sockets = sockets]
           with == [intf EXCEPT ![alias] = one]
<1>1. /\ HostInterfaces \in Seq(Addresses) /\ NoDuplicates(HostInterfaces) /\ intf \in Infos
      /\ \A x \in Addresses : x \notin Listed(HostInterfaces) => intf[x] = Fresh
      /\ Owned(HostInterfaces, intf, MulticastHostname)
  BY DEF Records, ListOK
<1>2. alias \in Listed(HostInterfaces) \cup {a} /\ alias \in Addresses
  <2>1. SearchForInterfaceByName(Attributes[a].name) \in Listed(HostInterfaces) \cup {None}
    BY <1>1, AliasIsListed
  <2> QED
    BY <1>1, <2>1, ListedAre
<1> HIDE DEF alias
<1>3. [intf EXCEPT ![alias].sockets = @ \cup {Type(a)}] = with
  BY <1>1, <1>2 DEF Infos
<1>4. intf[alias] \in NetworkInterfaceInfo
  BY <1>1, <1>2 DEF Infos
<1>5. sockets \in SUBSET {"v4", "v6"}
  BY <1>4, InfoFields, Assumed
<1> HIDE DEF sockets
<1>6. SameRecords(intf[alias], one)
  BY <1>4, <1>5 DEF NetworkInterfaceInfo, SameRecords
<1>7. one \in NetworkInterfaceInfo
  BY <1>6 DEF SameRecords
<1> HIDE DEF one
<1>8. \/ HostInterfaces' = Append(HostInterfaces, a)
         /\ intf' = mDNS_RegisterInterface(HostInterfaces, with, a, alias, MulticastHostname)
      \/ intf' = with /\ alias # a /\ UNCHANGED HostInterfaces
      \/ UNCHANGED <<HostInterfaces, intf>>
  BY <1>3 DEF SetupOneInterface, alias
<1>9. with \in Infos
  BY <1>1, <1>2, <1>7 DEF Infos
<1>10. ASSUME NEW x \in Addresses
       PROVE SameRecords(intf[x], with[x]) /\ (x # alias => with[x] = intf[x])
  <2>1. CASE x = alias
    BY <1>1, <1>2, <1>6, <2>1 DEF Infos
  <2>2. CASE x # alias
    <3>1. with[x] = intf[x] /\ intf[x] \in NetworkInterfaceInfo
      BY <1>1, <2>2 DEF Infos
    <3> QED
      BY <2>2, <3>1 DEF SameRecords
  <2> QED
    BY <2>1, <2>2
<1> HIDE DEF with
<1>11. CASE HostInterfaces' = Append(HostInterfaces, a)
            /\ intf' = mDNS_RegisterInterface(HostInterfaces, with, a, alias, MulticastHostname)
  <2> DEFINE new == mDNS_RegisterInterface(HostInterfaces, with, a, alias, MulticastHostname)
             list == Append(HostInterfaces, a)
  <2>1. /\ new \in Infos
        /\ HasRecords(new[a], Primary(HostInterfaces, a), MulticastHostname)
        /\ \A x \in Addresses : x # a => SameRecords(with[x], new[x])
        /\ \A x \in Addresses : x # a /\ x \notin Listed(HostInterfaces) /\ with[x] = Fresh => new[x] = Fresh
    BY <1>1, <1>2, <1>9, RegisterFields
  <2>2. /\ list \in Seq(Addresses) /\ Listed(list) = Listed(HostInterfaces) \cup {a}
        /\ list[1] = Primary(HostInterfaces, a)
        /\ HostInterfaces # <<>> => list[1] = HostInterfaces[1]
        /\ HostInterfaces = <<>> => Listed(HostInterfaces) = {}
    BY <1>1, AppendListed
  <2>3. NoDuplicates(list)
    BY <1>1, AppendDistinct
  <2> HIDE DEF new, list
  <2>4. ASSUME NEW x \in Addresses, x \notin Listed(list) PROVE new[x] = Fresh
    <3>1. x # a /\ x # alias /\ x \notin Listed(HostInterfaces)
      BY <1>2, <2>2, <2>4
    <3> QED
      BY <1>1, <1>10, <2>1, <3>1
  <2>5. ASSUME NEW x \in Listed(list) PROVE HasRecords(new[x], list[1], MulticastHostname)
    <3>1. CASE x = a
      BY <2>1, <2>2, <3>1
    <3>2. CASE x # a
      <4>1. x \in Listed(HostInterfaces) /\ x \in Addresses /\ list[1] = HostInterfaces[1]
        BY <1>1, <2>2, <3>2, ListedAre
      <4>2. HasRecords(intf[x], list[1], MulticastHostname)
        BY <1>1, <4>1 DEF Owned
      <4>3. HasRecords(with[x], list[1], MulticastHostname)
        BY <1>10, <4>1, <4>2, SameKeeps
      <4>4. SameRecords(with[x], new[x])
        BY <2>1, <3>2, <4>1
      <4> QED
        BY <4>3, <4>4, SameKeeps
    <3> QED
      BY <3>1, <3>2
  <2>6. ListOK(list, new) /\ Owned(list, new, MulticastHostname)
    BY <2>1, <2>2, <2>3, <2>4, <2>5 DEF ListOK, Owned
  <2> QED
    BY <1>11, <2>2, <2>6 DEF new, list
<1>12. CASE intf' = with /\ alias # a /\ UNCHANGED HostInterfaces
  <2>1. alias \in Listed(HostInterfaces)
    BY <1>2, <1>12
  <2>2. ListOK(HostInterfaces, with)
    BY <1>1, <1>9, <1>10, <2>1 DEF ListOK
  <2>3. ASSUME NEW x \in Listed(HostInterfaces)
        PROVE HasRecords(with[x], HostInterfaces[1], MulticastHostname)
    <3>1. x \in Addresses
      BY <1>1, ListedAre
    <3>2. HasRecords(intf[x], HostInterfaces[1], MulticastHostname)
      BY <1>1 DEF Owned
    <3> QED
      BY <1>10, <3>1, <3>2, SameKeeps
  <2> QED
    BY <1>12, <2>2, <2>3 DEF Owned
<1>13. CASE UNCHANGED <<HostInterfaces, intf>>
  BY <1>13 DEF Records
<1> QED
  BY <1>8, <1>11, <1>12, <1>13

LEMMA HostKept == HostInv /\ [InterfaceNext]_interfaceVars => HostInv'
<1> SUFFICES ASSUME HostInv, [InterfaceNext]_interfaceVars PROVE HostInv'
  OBVIOUS
<1>a. Records /\ Naming /\ Refresh
  BY DEF HostInv
<1>1. CASE mDNSPlatformInit
  <2>1. Records' /\ Naming'
    BY <1>a, <1>1, NamingStep DEF mDNSPlatformInit, Naming
  <2>2. HostInterfaces' = <<>> /\ Listed(HostInterfaces') = {}
    BY <1>a, <1>1 DEF mDNSPlatformInit, Refresh, Listed
  <2>3. Refresh'
    BY <1>a, <1>1, <2>2 DEF mDNSPlatformInit, SetupInterfaceList, Refresh
  <2> QED
    BY <2>1, <2>3 DEF HostInv
<1>2. ASSUME NEW failing \in Failings, Setup(failing) PROVE HostInv'
  <2>1. PICK a \in FirstOf(Normal) :
          SetupOneInterface(a, SetupSocket(Type(a), failing)) /\ todo' = todo \ {a}
    BY <1>2 DEF Setup
  <2>2. a \in todo /\ a \in Addresses /\ a \notin Listed(HostInterfaces)
    BY <1>a, <1>2, <2>1 DEF FirstOf, Normal, Refresh, Setup
  <2>3. /\ ListOK(HostInterfaces', intf') /\ Owned(HostInterfaces', intf', MulticastHostname)
        /\ Listed(HostInterfaces') \subseteq Listed(HostInterfaces) \cup {a}
    BY <1>a, <2>1, <2>2, SetupStep DEF Naming
  <2>4. Records' /\ Naming'
    BY <1>a, <1>2, <2>3 DEF Setup, Records, Naming
  <2>5. todo' \cap Listed(HostInterfaces') = {}
    BY <1>a, <1>2, <2>1, <2>3 DEF Setup, Refresh
  <2>6. failures' \in Nat
    BY <1>a, <1>2 DEF Setup, Failing, Refresh
  <2>7. Refresh'
    BY <1>a, <1>2, <2>1, <2>5, <2>6 DEF Setup, Refresh
  <2> QED
    BY <2>4, <2>7 DEF HostInv
<1>3. ASSUME NEW failing \in Failings, SetupLoopback(failing) PROVE HostInv'
  <2>1. PICK a \in FirstOf(todo) : SetupOneInterface(a, SetupSocket(Type(a), failing))
    BY <1>3 DEF SetupLoopback
  <2>2. a \in todo /\ a \in Addresses /\ a \notin Listed(HostInterfaces)
    BY <1>a, <1>3, <2>1 DEF FirstOf, Refresh, SetupLoopback
  <2>3. ListOK(HostInterfaces', intf') /\ Owned(HostInterfaces', intf', MulticastHostname)
    BY <1>a, <2>1, <2>2, SetupStep DEF Naming
  <2>4. Records' /\ Naming'
    BY <1>a, <1>3, <2>3 DEF SetupLoopback, Records, Naming
  <2>5. failures' \in Nat
    BY <1>a, <1>3 DEF SetupLoopback, Failing, Refresh
  <2>6. Refresh'
    BY <1>a, <1>3, <2>5 DEF SetupLoopback, Refresh
  <2> QED
    BY <2>4, <2>6 DEF HostInv
<1>4. CASE SetupDone
  <2>1. failures' \in Nat
    BY <1>a, <1>4 DEF SetupDone, Refresh
  <2>2. Refresh'
    BY <1>a, <1>4, <2>1 DEF SetupDone, Refresh
  <2>3. Records' /\ Naming'
    BY <1>a, <1>4 DEF SetupDone, Records, Naming
  <2> QED
    BY <2>2, <2>3 DEF HostInv
<1>5. CASE InterfaceChangeCallback
  <2>1. Refresh'
    BY <1>a, <1>5 DEF InterfaceChangeCallback, Refresh
  <2>2. Records' /\ Naming'
    BY <1>a, <1>5 DEF InterfaceChangeCallback, Records, Naming
  <2> QED
    BY <2>1, <2>2 DEF HostInv
<1>6. CASE ClearInterfaceList
  <2>1. CASE HostInterfaces = <<>>
    <3>1. Listed(HostInterfaces) = {}
      BY <2>1 DEF Listed
    <3>2. Refresh'
      BY <1>a, <1>6, <2>1, <3>1 DEF ClearInterfaceList, SetupInterfaceList, Refresh
    <3>3. Records' /\ Naming'
      BY <1>a, <1>6, <2>1 DEF ClearInterfaceList, Records, Naming
    <3> QED
      BY <3>2, <3>3 DEF HostInv
  <2>2. CASE HostInterfaces # <<>>
    <3> DEFINE set == HostInterfaces[1]
               left == mDNS_DeregisterInterface(HostInterfaces, intf, set)
    <3>1. Head(HostInterfaces) = set
      BY <1>a DEF Records, ListOK
    <3>2. /\ stage = "clear" /\ HostInterfaces' = left.list /\ intf' = left.intf
          /\ cache' = [cache EXCEPT ![intf[set].InterfaceID] = left.cache]
          /\ UNCHANGED <<stage, todo, foundav4, unseen, hostlabel, MulticastHostname, target, failures>>
      BY <1>6, <2>2, <3>1 DEF ClearInterfaceList
    <3>3. /\ HostInterfaces \in Seq(Addresses) /\ NoDuplicates(HostInterfaces) /\ intf \in Infos
          /\ \A x \in Addresses : x \notin Listed(HostInterfaces) => intf[x] = Fresh
          /\ Owned(HostInterfaces, intf, MulticastHostname) /\ MulticastHostname \in Names
      BY <1>a DEF Records, ListOK, Naming
    <3>4. /\ left.list = Unlinked(HostInterfaces, set)
          /\ left.intf \in Infos
          /\ left.intf[set] = Fresh
          /\ \A a \in Addresses : a \notin Listed(HostInterfaces) => left.intf[a] = intf[a]
          /\ \A a \in Listed(left.list), fqdn \in Names :
               HasRecords(intf[a], set, fqdn) => HasRecords(left.intf[a], left.list[1], fqdn)
      BY <2>2, <3>3, DeregisterFields
    <3>5. /\ left.list \in Seq(Addresses) /\ NoDuplicates(left.list)
          /\ Listed(HostInterfaces) = Listed(left.list) \cup {set}
      BY <2>2, <3>3, <3>4, UnlinkedFields
    <3>6. \A id \in Ids : intf[set].InterfaceID = id => left.cache \in {"nothing", "records", "doubtful"}
      BY <1>a DEF mDNS_DeregisterInterface, Refresh
    <3> HIDE DEF left
    <3>7. ListOK(left.list, left.intf)
      BY <3>3, <3>4, <3>5 DEF ListOK
    <3>8. Owned(left.list, left.intf, MulticastHostname)
      BY <3>3, <3>4, <3>5 DEF Owned
    <3>9. cache' \in [Ids -> {"nothing", "records", "doubtful"}]
      BY <1>a, <3>2, <3>6 DEF Refresh
    <3>10. Records' /\ Naming'
      BY <1>a, <3>2, <3>7, <3>8 DEF Records, Naming
    <3>11. Refresh'
      BY <1>a, <3>2, <3>9 DEF Refresh
    <3> QED
      BY <3>10, <3>11 DEF HostInv
  <2> QED
    BY <2>1, <2>2
<1>7. ASSUME NEW a \in Addresses, Change(a) PROVE HostInv'
  <2>1. Refresh'
    BY <1>a, <1>7 DEF Change, Refresh
  <2>2. Records' /\ Naming'
    BY <1>a, <1>7 DEF Change, Records, Naming
  <2> QED
    BY <2>1, <2>2 DEF HostInv
<1>8. ASSUME NEW label \in Labels, handle_sethost_request(label) PROVE HostInv'
  <2>1. Records' /\ Naming'
    BY <1>a, <1>8, NamingStep DEF handle_sethost_request
  <2>2. Refresh'
    BY <1>a, <1>8 DEF handle_sethost_request, Refresh
  <2> QED
    BY <2>1, <2>2 DEF HostInv
<1>9. ASSUME NEW s \in Services, SetTargetToHostName(s) PROVE HostInv'
  <2>1. Naming'
    BY <1>a, <1>9 DEF SetTargetToHostName, Naming
  <2>2. Records' /\ Refresh'
    BY <1>a, <1>9 DEF SetTargetToHostName, Records, Refresh
  <2> QED
    BY <2>1, <2>2 DEF HostInv
<1>10. CASE Conflict
  <2>1. PICK a \in Listed(HostInterfaces) : mDNS_HostNameCallback(a)
    BY <1>10 DEF Conflict
  <2>2. UNCHANGED HostInterfaces
    BY <1>10 DEF Conflict
  <2>3. Records' /\ Naming'
    BY <1>a, <2>1, <2>2, NamingStep DEF mDNS_HostNameCallback
  <2>4. Refresh'
    BY <1>a, <1>10 DEF Conflict, Refresh
  <2> QED
    BY <2>3, <2>4 DEF HostInv
<1>11. ASSUME NEW a \in Addresses, Probed(a) PROVE HostInv'
  <2> DEFINE one == [intf[a] EXCEPT !.RR_A = "Verified"]
  <2>1. HostInterfaces \in Seq(Addresses) /\ intf \in Infos /\ a \in Listed(HostInterfaces)
    BY <1>a, <1>11 DEF Probed, Records, ListOK
  <2>2. intf[a] \in NetworkInterfaceInfo /\ intf[a].RR_A = "Unique"
    BY <1>11, <2>1 DEF Probed, Infos
  <2>3. SameRecords(intf[a], one)
    BY <2>2 DEF NetworkInterfaceInfo, SameRecords
  <2>4. intf' = [intf EXCEPT ![a] = one] /\ UNCHANGED <<HostInterfaces, MulticastHostname>>
    BY <1>11, <2>1 DEF Probed, Infos
  <2> HIDE DEF one
  <2>5. Kept(HostInterfaces, intf, intf')
    BY <2>1, <2>3, <2>4, KeptOne
  <2>6. ListOK(HostInterfaces, intf')
    BY <1>a, <2>5 DEF Kept, Records, ListOK
  <2>7. ASSUME NEW x \in Listed(HostInterfaces)
        PROVE HasRecords(intf'[x], HostInterfaces[1], MulticastHostname)
    <3>1. x \in Addresses /\ SameRecords(intf[x], intf'[x])
      BY <2>1, <2>5, ListedAre DEF Kept
    <3>2. HasRecords(intf[x], HostInterfaces[1], MulticastHostname)
      BY <1>a DEF Records, Owned
    <3> QED
      BY <3>1, <3>2, SameKeeps
  <2>8. Records'
    BY <2>4, <2>6, <2>7 DEF Records, Owned
  <2>9. Naming' /\ Refresh'
    BY <1>a, <1>11 DEF Probed, Naming, Refresh
  <2> QED
    BY <2>8, <2>9 DEF HostInv
<1>12. ASSUME NEW id \in Ids, Learn(id) PROVE HostInv'
  <2>1. Refresh'
    BY <1>a, <1>12 DEF Learn, Refresh
  <2>2. Records' /\ Naming'
    BY <1>a, <1>12 DEF Learn, Records, Naming
  <2> QED
    BY <2>1, <2>2 DEF HostInv
<1>13. CASE UNCHANGED interfaceVars
  BY <1>a, <1>13 DEF interfaceVars, HostInv, Records, Naming, Refresh
<1> QED
  BY <1>1, <1>2, <1>3, <1>4, <1>5, <1>6, <1>7, <1>8, <1>9, <1>10, <1>11, <1>12, <1>13 DEF InterfaceNext

(* The list, its addresses and what is known on them keep their types for   *)
(* any addresses of the machine, which get_ifi_info may list in any order.  *)
THEOREM InterfaceTypes == InterfaceSpec => []InterfaceTypeOK
<1>1. InterfaceInit => HostInv
  BY RecordsStart
<1>2. HostInv /\ [InterfaceNext]_interfaceVars => HostInv'
  BY HostKept
<1>3. HostInv => InterfaceTypeOK
  BY HostInvShows
<1> QED
  BY <1>1, <1>2, <1>3, PTL DEF InterfaceSpec

(* However often the addresses change, whatever socket cannot be set up and *)
(* whichever name the host is given, all the host records are one set,      *)
(* known by one that is there, and have the name that services point to.    *)
THEOREM HostRecords == InterfaceSpec => []HostRecordsAreOneSet
<1>1. InterfaceInit => HostInv
  BY RecordsStart
<1>2. HostInv /\ [InterfaceNext]_interfaceVars => HostInv'
  BY HostKept
<1>3. HostInv => HostRecordsAreOneSet
  BY HostInvShows
<1> QED
  BY <1>1, <1>2, <1>3, PTL DEF InterfaceSpec

---------------------------------------------------------------------------
(* MainLoop and the signals.                                                *)

(* The signals are blocked just between the two calls of sigprocmask, and   *)
(* held back by the kernel only then.                                       *)
HeldWhileBlocked ==
  /\ blocked = IF pc \in {"copy", "empty", "unblock"} THEN TRUE ELSE FALSE
  /\ blocked = FALSE => pending = {}

(* The handler cannot run between the copy and the clearing, so everything  *)
(* that is cleared has been copied.                                         *)
CopiedBeforeCleared == pc = "empty" => gEventSignals \subseteq pSignalsReceived

(* What the loop was told of the last time has been acted upon before it is *)
(* told again, so the copy overwrites nothing.                              *)
ToldBeforeAct == pc \notin {"empty", "unblock", "act"} => pSignalsReceived = {}

SignalInv == HeldWhileBlocked /\ CopiedBeforeCleared /\ ToldBeforeAct /\ SignalsAreKept

LEMMA SignalInit == LoopInit => SignalInv
  BY DEF LoopInit, SignalInv, HeldWhileBlocked, CopiedBeforeCleared, ToldBeforeAct, SignalsAreKept

(* Signals come at any step: one that is not blocked is added to the set,   *)
(* which matters where the set is about to be copied or cleared.            *)
LEMMA SignalNoted ==
  ASSUME SignalInv, NEW sig \in Signals, NoteSignal(sig)
  PROVE  SignalInv'
<1> USE DEF SignalInv, HeldWhileBlocked, CopiedBeforeCleared, ToldBeforeAct, SignalsAreKept
<1>1. CASE blocked
  BY <1>1 DEF NoteSignal
<1>2. CASE ~blocked
  BY <1>2 DEF NoteSignal
<1> QED
  BY <1>1, <1>2

LEMMA SignalStep == SignalInv /\ [LoopNext]_loopVars => SignalInv'
<1> SUFFICES ASSUME SignalInv, [LoopNext]_loopVars
             PROVE  SignalInv'
  OBVIOUS
<1> USE DEF SignalInv, HeldWhileBlocked, CopiedBeforeCleared, ToldBeforeAct, SignalsAreKept
<1>1. CASE Select
  BY <1>1 DEF Select, signalVars
<1>2. CASE mDNSPosixProcessFDSet
  BY <1>2 DEF mDNSPosixProcessFDSet, signalVars
<1>3. CASE DispatchNone
  BY <1>3 DEF DispatchNone, signalVars
<1>4. ASSUME NEW fd \in Fds, Dispatch(fd) PROVE SignalInv'
  BY <1>4 DEF Dispatch, signalVars
<1>5. CASE Block
  BY <1>5 DEF Block
<1>6. CASE Copy
  BY <1>6 DEF Copy
<1>7. CASE Empty
  BY <1>7 DEF Empty
<1>8. CASE Unblock
  BY <1>8 DEF Unblock
<1>9. CASE Act
  BY <1>9 DEF Act
<1>10. ASSUME NEW sig \in Signals, NoteSignal(sig) PROVE SignalInv'
  BY <1>10, SignalNoted
<1>11. ASSUME NEW fd \in Fds, Data(fd) PROVE SignalInv'
  BY <1>11 DEF Data, signalVars
<1>12. ASSUME NEW i \in Interfaces, Packet(i) PROVE SignalInv'
  BY <1>12 DEF Packet, signalVars
<1>13. CASE UNCHANGED loopVars
  BY <1>13 DEF loopVars
<1> QED
  BY <1>1, <1>2, <1>3, <1>4, <1>5, <1>6, <1>7, <1>8, <1>9, <1>10, <1>11, <1>12, <1>13
  DEF LoopNext, Main

(* However the signals come between the steps of mDNSPosixRunEventLoopOnce, *)
(* and whatever descriptors and packets do meanwhile: one that has been     *)
(* raised is held back by the kernel, noted by the handler or handed to     *)
(* MainLoop until MainLoop has acted upon it.                               *)
THEOREM SignalsKept == LoopSpec => []SignalsAreKept
<1>1. SignalInv => SignalsAreKept
  BY DEF SignalInv
<1> QED
  BY <1>1, SignalInit, SignalStep, PTL DEF LoopSpec

---------------------------------------------------------------------------
(* The records of a service.                                                *)

ServiceSet ==
  [type : [Set \cup Extra -> Types], listed : SUBSET (Set \cup Extra), goodbye : SUBSET Shared,
   Extras : SUBSET Extra, Conflict : BOOLEAN, zeroPort : BOOLEAN,
   owner : [Extra -> {"nobody", "service", "lost"}], instance : {"none", "live", "freed"},
   request : BOOLEAN, renameonmemfree : BOOLEAN, autorename : BOOLEAN, clientnotified : BOOLEAN,
   awaited : BOOLEAN, astray : BOOLEAN]

(* All records are there.                                                   *)
Whole(s) ==
  /\ ~s.zeroPort /\ s.listed = Set \cup s.Extras /\ s.goodbye \in {{}, Shared}
  /\ \A r \in Shared : s.type[r] = "Shared"
  /\ \A r \in s.listed \ Shared : s.type[r] \in {"Unique", "Verified", "Advisory"}

(* A service without a port is its service record.                          *)
Alone(s) ==
  /\ s.zeroPort /\ s.listed = {"srv"} /\ s.goodbye = {} /\ s.Extras = {}
  /\ s.type["srv"] = "Unique"

(* What is left says goodbye, and the pointer is among it.                  *)
Going(s) ==
  /\ ~s.zeroPort /\ "ptr" \in s.listed /\ s.listed \subseteq Shared /\ s.goodbye = s.listed
  /\ \A r \in Set \cup s.Extras :
       s.type[r] = IF r \in s.listed THEN "Deregistering" ELSE "Unregistered"

(* The client has been told.  It may have failed to register the service    *)
(* again, which it does not notice, and add records to it.                  *)
Over(s) ==
  /\ s.goodbye = {} /\ s.listed \subseteq s.Extras
  /\ s.zeroPort => s.Extras = {}
  /\ ~s.request => s.listed = {}
  /\ s.request /\ ~s.zeroPort => s.type["ptr"] = "Shared"
  /\ \A e \in s.listed : s.type[e] = "Verified"

Sound(s) ==
  /\ s \in ServiceSet /\ ~s.astray
  /\ s.instance = "none" => s.goodbye = {} /\ s.Extras = {}
  /\ s.instance # "live" => s.listed = {}
  /\ s.instance = "live" => IF s.awaited THEN Whole(s) \/ Alone(s) \/ Going(s) ELSE Over(s)

ServiceInv == Sound(service)

---------------------------------------------------------------------------
(* Which records there are.                                                 *)

LEMMA Shareds ==
  /\ Set = {"srv", "txt", "adv"} \cup Shared /\ "ptr" \in Shared /\ Shared \cap {"srv", "txt", "adv"} = {}
  /\ Extra \cap Set = {} /\ Extra \cap Shared = {} /\ Shared \subseteq Set
  BY ServiceAssumption DEF Set, Shared

Preceding(failure) ==
  {Order[i] : i \in {k \in DOMAIN Order : \E n \in DOMAIN Order : n > k /\ Order[n] = failure}}

LEMMA SubsInOrder == SetToSeq(Subs) \in Seq(Subs)
<1> DEFINE n == Cardinality(Subs)
<1>1. n \in Nat /\ ExistsBijection(1 .. n, Subs)
  BY ServiceAssumption, FS_CardinalityType
<1>2. PICK f \in [1 .. n -> Subs] : IsInjective(f)
  BY <1>1 DEF ExistsBijection, Bijection, Injection, IsInjective
<1>3. SetToSeq(Subs) \in [1 .. n -> Subs]
  BY <1>2 DEF SetToSeq
<1> QED BY <1>1, <1>3

(* The pointer is registered last.                                          *)
LEMMA PointerLast == ASSUME NEW failure PROVE Preceding(failure) \subseteq Set \ {"ptr"}
<1> DEFINE subs == SetToSeq(Subs)
           first == <<"srv", "txt", "adv">>
           most == first \o subs
<1>1. subs \in Seq(Set) /\ "ptr" \notin Subs /\ Subs \subseteq Set
  BY SubsInOrder, ServiceAssumption DEF Set
<1>2. first \in Seq(Set)
  BY DEF Set
<1>3. most \in Seq(Set) /\ Len(most) = 3 + Len(subs)
  BY <1>1, <1>2
<1>4. \A i \in 1 .. Len(most) : most[i] \in Set \ {"ptr"}
  <2> TAKE i \in 1 .. Len(most)
  <2>1. CASE i \in 1 .. 3
    BY <2>1, <1>1, <1>2 DEF Set
  <2>2. CASE i \notin 1 .. 3
    <3>1. most[i] = subs[i - 3] /\ i - 3 \in 1 .. Len(subs)
      BY <2>2, <1>1, <1>2, <1>3
    <3> QED BY <3>1, <1>1, SubsInOrder
  <2> QED BY <2>1, <2>2
<1> HIDE DEF most
<1>5. Order = most \o <<"ptr">>
  BY DEF Order, most
<1>6. Len(Order) = Len(most) + 1 /\ DOMAIN Order = 1 .. Len(most) + 1
  BY <1>3, <1>5
<1>7. \A i \in 1 .. Len(most) : Order[i] = most[i]
  BY <1>3, <1>5
<1>8. \A k, n \in DOMAIN Order : n > k => k \in 1 .. Len(most)
  BY <1>3, <1>6
<1> QED BY <1>4, <1>7, <1>8 DEF Preceding

---------------------------------------------------------------------------
(* What the calls do, without the callback.                                 *)

(* Of some records, those that say goodbye, and those that go.              *)
Parting(s, records) == {r \in records \cap s.goodbye : s.type[r] = "Shared"}
Gone(s, records) == (records \cap s.listed) \ Parting(s, records)

Withdrawn(s, records) ==
  [s EXCEPT !.type = Parted(@, Parting(s, records), Gone(s, records)),
            !.listed = @ \ Gone(s, records), !.goodbye = @ \ Gone(s, records)]

(* Whether the client hears of it.                                          *)
Tells(s, records) == Gone(s, records) # {} /\ (s.zeroPort \/ AllGone(Withdrawn(s, records)))

Result(s) == IF ~s.zeroPort /\ s.Conflict THEN "NameConflict" ELSE "MemFree"

LEMMA DeregisterIs == ASSUME NEW s \in ServiceSet, NEW records, NEW failure
  PROVE EndRecords(s, records, failure) =
          IF Tells(s, records) THEN regservice_callback(Withdrawn(s, records), Result(s), failure)
          ELSE Withdrawn(s, records)
<1> DEFINE t == Withdrawn(s, records)
<1>1. t.zeroPort = s.zeroPort /\ t.Conflict = s.Conflict
  BY DEF Withdrawn, ServiceSet
<1> QED BY <1>1 DEF EndRecords, Deregister, ServiceCallback, Tells, Withdrawn, Gone, Parting, Result

LEMMA UnexpectedIs == ASSUME NEW s \in ServiceSet, NEW records, ~Tells(s, records)
  PROVE Deregister(s, records, Unexpected) = Withdrawn(s, records)
<1> DEFINE t == Withdrawn(s, records)
<1>1. t.zeroPort = s.zeroPort /\ t.Conflict = s.Conflict
  BY DEF Withdrawn, ServiceSet
<1> QED BY <1>1 DEF Deregister, ServiceCallback, Tells, Withdrawn, Gone, Parting

(* What a call of the core leaves alone.                                   *)
Untouched(s, t) ==
  /\ t.zeroPort = s.zeroPort /\ t.owner = s.owner /\ t.instance = s.instance /\ t.request = s.request
  /\ t.renameonmemfree = s.renameonmemfree /\ t.autorename = s.autorename
  /\ t.clientnotified = s.clientnotified /\ t.awaited = s.awaited /\ t.astray = s.astray

(* The state of things after records have gone.                             *)
WithoutThem(s, records, t) ==
  /\ t \in ServiceSet /\ Untouched(s, t) /\ t.Extras = s.Extras /\ t.Conflict = s.Conflict
  /\ t.listed = s.listed \ Gone(s, records) /\ t.goodbye = s.goodbye \ Gone(s, records)
  /\ \A r \in Set \cup Extra : t.type[r] =
       IF r \in Parting(s, records) THEN "Deregistering"
       ELSE IF r \in Gone(s, records) THEN "Unregistered" ELSE s.type[r]

LEMMA WithdrawnFields == ASSUME NEW s \in ServiceSet, NEW records
  PROVE WithoutThem(s, records, Withdrawn(s, records))
<1> DEFINE going == Parting(s, records)
           gone == Gone(s, records)
           type == Parted(s.type, going, gone)
           t == Withdrawn(s, records)
<1>1. t = [s EXCEPT !.type = type, !.listed = @ \ gone, !.goodbye = @ \ gone]
  BY DEF Withdrawn, ServiceSet
<1>2. type \in [Set \cup Extra -> Types]
  BY DEF Parted, ServiceSet, Types
<1>3. \A r \in Set \cup Extra : type[r] =
        IF r \in going THEN "Deregistering" ELSE IF r \in gone THEN "Unregistered" ELSE s.type[r]
  BY DEF Parted, ServiceSet
<1>4. s.listed \ gone \in SUBSET (Set \cup Extra) /\ s.goodbye \ gone \in SUBSET Shared
  BY DEF ServiceSet
<1> HIDE DEF type, t
<1>5. t \in ServiceSet /\ t.type = type /\ t.listed = s.listed \ gone /\ t.goodbye = s.goodbye \ gone
  BY <1>1, <1>2, <1>4 DEF ServiceSet
<1>6. Untouched(s, t) /\ t.Extras = s.Extras /\ t.Conflict = s.Conflict
  BY <1>1 DEF ServiceSet, Untouched
<1>7. WithoutThem(s, records, t)
  BY <1>3, <1>5, <1>6 DEF WithoutThem
<1> QED BY <1>7 DEF t

---------------------------------------------------------------------------
(* What a registration leaves.                                              *)

Out(s) == s \in ServiceSet /\ s.listed = {} /\ s.goodbye = {}

LEMMA SetUpFields == ASSUME NEW type \in [Set \cup Extra -> Types]
  PROVE /\ SetUp(type) \in [Set \cup Extra -> Types]
        /\ \A r \in Set \cup Extra : SetUp(type)[r] = IF r \in Set THEN RegisteredAs(r) ELSE type[r]
  BY DEF SetUp, RegisteredAs, Types

Registered(s, failure, t) ==
  /\ t \in ServiceSet /\ Untouched(s, t) /\ t.Extras = {} /\ t.goodbye = {}
  /\ IF Failed(s, failure) THEN t.listed = {} /\ (~s.zeroPort => t.type["ptr"] = "Shared")
     ELSE IF s.zeroPort THEN t.listed = {"srv"} /\ t.type["srv"] = "Unique"
     ELSE t.listed = Set /\ \A r \in Set : t.type[r] = IF r = "txt" THEN "Verified" ELSE RegisteredAs(r)

LEMMA RegisteringFields ==
  ASSUME NEW s, Out(s), NEW failure \in Failures
  PROVE  Registered(s, failure, mDNS_RegisterService(s, failure))
<1> DEFINE u == [s EXCEPT !.type = SetUp(s.type), !.Extras = {}, !.Conflict = FALSE]
           t == mDNS_RegisterService(s, failure)
<1> SUFFICES Registered(s, failure, t)
  OBVIOUS
<1>1. SetUp(s.type) \in [Set \cup Extra -> Types]
      /\ \A r \in Set \cup Extra : SetUp(s.type)[r] = IF r \in Set THEN RegisteredAs(r) ELSE s.type[r]
  BY SetUpFields DEF Out, ServiceSet
<1>2. u \in ServiceSet /\ Untouched(s, u) /\ u.Extras = {} /\ u.goodbye = {} /\ u.listed = {}
      /\ u.type = SetUp(s.type) /\ ~u.Conflict
  BY <1>1 DEF Out, ServiceSet, Untouched
<1>3. /\ u.type["srv"] = "Unique" /\ u.type["ptr"] = "Shared"
      /\ \A r \in Set : u.type[r] = RegisteredAs(r)
  BY <1>1, <1>2, Shareds DEF RegisteredAs
<1>4. t = IF u.zeroPort THEN [u EXCEPT !.listed = @ \cup (IF failure \in {"srv", "name"} THEN {} ELSE {"srv"})]
          ELSE IF failure = NoFailure THEN [u EXCEPT !.type["txt"] = "Verified", !.listed = @ \cup Set]
          ELSE IF failure = "name" THEN u
          ELSE mDNS_DeregisterService([u EXCEPT !.listed = @ \cup Preceding(failure)], Unexpected)
  BY DEF mDNS_RegisterService, Preceding
<1> HIDE DEF u, t
<1>5. CASE u.zeroPort
  <2>1. CASE failure \in {"srv", "name"}
    <3>1. t = [u EXCEPT !.listed = {}] /\ Failed(s, failure) /\ s.zeroPort
      BY <1>2, <1>4, <1>5, <2>1 DEF Untouched, Failed
    <3> QED BY <1>2, <3>1 DEF Registered, Untouched, ServiceSet
  <2>2. CASE failure \notin {"srv", "name"}
    <3>1. t = [u EXCEPT !.listed = {"srv"}] /\ ~Failed(s, failure) /\ s.zeroPort
      BY <1>2, <1>4, <1>5, <2>2 DEF Untouched, Failed
    <3> QED BY <1>2, <1>3, <3>1, Shareds DEF Registered, Untouched, ServiceSet
  <2> QED BY <2>1, <2>2
<1>6. CASE ~u.zeroPort /\ failure = NoFailure
  <2>1. t = [u EXCEPT !.type["txt"] = "Verified", !.listed = Set] /\ ~Failed(s, failure) /\ ~s.zeroPort
    BY <1>2, <1>4, <1>6 DEF Untouched, Failed
  <2> QED BY <1>2, <1>3, <2>1, Shareds DEF Registered, Untouched, ServiceSet, Types
<1>7. CASE ~u.zeroPort /\ failure = "name"
  <2>1. t = u /\ Failed(s, failure) /\ ~s.zeroPort
    BY <1>2, <1>4, <1>7, ServiceAssumption DEF Untouched, Failed
  <2> QED BY <1>2, <1>3, <2>1 DEF Registered
<1>8. CASE ~u.zeroPort /\ failure \in Set
  <2> DEFINE v == [u EXCEPT !.listed = @ \cup Preceding(failure)]
             w == Withdrawn(v, Set)
  <2>1. v \in ServiceSet /\ Untouched(s, v) /\ v.Extras = {} /\ v.goodbye = {} /\ ~v.zeroPort
        /\ v.listed = Preceding(failure) /\ v.type["ptr"] = "Shared" /\ Preceding(failure) \subseteq Set \ {"ptr"}
    BY <1>2, <1>3, <1>8, PointerLast DEF Untouched, ServiceSet
  <2> HIDE DEF v
  <2>2. Parting(v, Set) = {} /\ Gone(v, Set) = v.listed /\ "ptr" \in Set \cup Extra
    BY <2>1, Shareds DEF Parting, Gone
  <2>21. WithoutThem(v, Set, w)
    BY <2>1, WithdrawnFields
  <2>22. w \in ServiceSet /\ Untouched(v, w) /\ w.Extras = {} /\ w.listed = {} /\ w.goodbye = {} /\ w.type["ptr"] = "Shared"
    BY <2>1, <2>2, <2>21 DEF WithoutThem
  <2>3. ~Tells(v, Set)
    BY <2>1, <2>22, Shareds DEF Tells, AllGone
  <2>4. mDNS_DeregisterService(v, Unexpected) = Deregister(v, Set, Unexpected)
    BY <2>1 DEF mDNS_DeregisterService
  <2>5. t = w
    BY <1>4, <1>8, <2>1, <2>3, <2>4, UnexpectedIs, ServiceAssumption DEF v
  <2>6. Untouched(s, w) /\ w.Extras = {}
    BY <2>1, <2>22 DEF Untouched
  <2>7. Failed(s, failure) /\ ~s.zeroPort
    BY <1>2, <1>8, ServiceAssumption DEF Failed, Untouched
  <2> QED BY <2>22, <2>5, <2>6, <2>7 DEF Registered
<1>9. failure = NoFailure \/ failure = "name" \/ failure \in Set
  BY DEF Failures
<1> QED BY <1>5, <1>6, <1>7, <1>8, <1>9

---------------------------------------------------------------------------
(* The client's callback, with nothing left in the core.                    *)

(* Its instance is there, and waits for what it is told now.                *)
Waiting(s) == Out(s) /\ s.instance = "live" /\ ~s.astray /\ (s.zeroPort => s.Extras = {})

LEMMA FreeKeeps ==
  ASSUME NEW s, Out(s), ~s.astray, s.instance # "freed"
  PROVE  Sound(unlink_and_free_service_instance(s))
<1> DEFINE owner == [e \in Extra |-> IF e \in s.Extras THEN "nobody" ELSE s.owner[e]]
           t == unlink_and_free_service_instance(s)
<1>1. owner \in [Extra -> {"nobody", "service", "lost"}]
  BY DEF Out, ServiceSet
<1>2. t = [s EXCEPT !.instance = "freed", !.Extras = {}, !.astray = FALSE, !.owner = owner]
  BY DEF unlink_and_free_service_instance, Out, ServiceSet
<1> HIDE DEF owner, t
<1>3. t \in ServiceSet /\ ~t.astray /\ t.listed = {} /\ t.goodbye = {} /\ t.instance = "freed"
  BY <1>1, <1>2 DEF Out, ServiceSet
<1> QED BY <1>3 DEF Sound, t

LEMMA RenameKeeps ==
  ASSUME NEW s, Waiting(s), ~s.awaited, s.request, NEW failure \in Failures
  PROVE  Sound(mDNS_RenameAndReregisterService(s, failure))
<1> DEFINE t == mDNS_RegisterService(s, failure)
           u == mDNS_RenameAndReregisterService(s, failure)
<1>1. Registered(s, failure, t)
  BY RegisteringFields DEF Waiting
<1>2. t \in ServiceSet /\ ~t.awaited /\ ~t.astray /\ t.instance = "live" /\ t.request
      /\ t.zeroPort = s.zeroPort /\ t.Extras = {} /\ t.goodbye = {}
  BY <1>1 DEF Registered, Untouched, Waiting, Out, ServiceSet
<1>3. s.Extras \subseteq Extra /\ s.zeroPort \in BOOLEAN
  BY DEF Waiting, Out, ServiceSet
<1> HIDE DEF t
<1>4. CASE Failed(s, failure)
  <2> DEFINE owner == [e \in Extra |-> IF e \in s.Extras THEN "lost" ELSE t.owner[e]]
  <2>1. owner \in [Extra -> {"nobody", "service", "lost"}]
    BY <1>2 DEF ServiceSet
  <2>2. u = [t EXCEPT !.owner = owner]
    BY <1>4 DEF mDNS_RenameAndReregisterService, t
  <2>3. t.listed = {} /\ (~s.zeroPort => t.type["ptr"] = "Shared")
    BY <1>1, <1>4 DEF Registered
  <2> HIDE DEF owner, u
  <2>4. u \in ServiceSet /\ ~u.awaited /\ ~u.astray /\ u.instance = "live" /\ u.request
        /\ u.zeroPort = s.zeroPort /\ u.Extras = {} /\ u.goodbye = {} /\ u.listed = {} /\ u.type = t.type
    BY <1>2, <2>1, <2>2, <2>3 DEF ServiceSet
  <2>5. Sound(u)
    BY <2>3, <2>4 DEF Sound, Over
  <2> QED BY <2>5 DEF u
<1>5. CASE ~Failed(s, failure)
  <2> DEFINE type == With(t.type, s.Extras, "Verified")
             owner == With(t.owner, s.Extras, "service")
  <2>1. owner \in [Extra -> {"nobody", "service", "lost"}] /\ type \in [Set \cup Extra -> Types]
    BY <1>2 DEF ServiceSet, With, Types
  <2>2. \A r \in Set \cup Extra : type[r] = IF r \in s.Extras THEN "Verified" ELSE t.type[r]
    BY <1>2 DEF ServiceSet, With
  <2>3. u = [t EXCEPT !.awaited = TRUE, !.Extras = s.Extras, !.listed = @ \cup s.Extras,
                      !.type = type, !.owner = owner]
    BY <1>2, <1>5 DEF mDNS_RenameAndReregisterService, mDNS_AddRecordToService, t, ServiceSet
  <2> HIDE DEF owner, type, u
  <2>4. u \in ServiceSet /\ u.awaited /\ ~u.astray /\ u.instance = "live" /\ u.zeroPort = s.zeroPort
        /\ u.Extras = s.Extras /\ u.goodbye = {} /\ u.listed = t.listed \cup s.Extras /\ u.type = type
    BY <1>2, <1>3, <2>1, <2>3 DEF ServiceSet
  <2>5. CASE s.zeroPort
    <3>1. s.Extras = {} /\ t.listed = {"srv"} /\ t.type["srv"] = "Unique"
      BY <1>1, <1>5, <2>5 DEF Registered, Waiting
    <3>2. Alone(u)
      BY <2>2, <2>4, <2>5, <3>1, Shareds DEF Alone
    <3>3. Sound(u)
      BY <2>4, <3>2 DEF Sound
    <3> QED BY <3>3 DEF u
  <2>6. CASE ~s.zeroPort
    <3>1. t.listed = Set /\ \A r \in Set : t.type[r] = IF r = "txt" THEN "Verified" ELSE RegisteredAs(r)
      BY <1>1, <1>5, <2>6 DEF Registered
    <3>2. Whole(u)
      <4>1. ~u.zeroPort /\ u.listed = Set \cup u.Extras /\ u.goodbye \in {{}, Shared}
        BY <2>4, <2>6, <3>1
      <4>2. \A r \in Shared : u.type[r] = "Shared"
        BY <1>3, <2>2, <2>4, <3>1, Shareds DEF RegisteredAs
      <4>3. \A r \in s.Extras : u.type[r] = "Verified"
        BY <1>3, <2>2, <2>4
      <4>4. \A r \in {"srv", "txt", "adv"} : u.type[r] \in {"Unique", "Verified", "Advisory"}
        BY <1>3, <2>2, <2>4, <3>1, Shareds DEF RegisteredAs
      <4>5. u.listed \ Shared \subseteq s.Extras \cup {"srv", "txt", "adv"}
        BY <2>4, <3>1, Shareds
      <4> QED BY <4>1, <4>2, <4>3, <4>4, <4>5 DEF Whole
    <3>3. Sound(u)
      BY <2>4, <3>2 DEF Sound
    <3> QED BY <3>3 DEF u
  <2> QED BY <1>3, <2>5, <2>6
<1> QED BY <1>4, <1>5

LEMMA CallbackKeeps ==
  ASSUME NEW s, Waiting(s), s.awaited, NEW result \in {"MemFree", "NameConflict"}, NEW failure \in Failures
  PROVE  Sound(regservice_callback(s, result, failure))
<1> DEFINE t == [s EXCEPT !.awaited = FALSE, !.astray = @ \/ ~s.awaited, !.clientnotified = FALSE]
           u == [t EXCEPT !.renameonmemfree = FALSE]
<1> HIDE DEF u
<1>1. Waiting(t) /\ ~t.awaited /\ t.request = s.request
  BY DEF Waiting, Out, ServiceSet
<1> HIDE DEF t
<1>2. Waiting(u) /\ ~u.awaited /\ u.request = s.request
  BY <1>1 DEF u, Waiting, Out, ServiceSet
<1>3. CASE ~s.request /\ result # "MemFree"
  <2>1. regservice_callback(s, result, failure) = t
    BY <1>3 DEF regservice_callback, t
  <2>2. Sound(t)
    BY <1>1, <1>3 DEF Sound, Over, Waiting, Out
  <2> QED BY <2>1, <2>2
<1>4. CASE result = "MemFree" /\ s.request /\ s.renameonmemfree
  <2>1. regservice_callback(s, result, failure) = mDNS_RenameAndReregisterService(u, failure)
    BY <1>4 DEF regservice_callback, t, u
  <2> QED BY <1>2, <1>4, <2>1, RenameKeeps
<1>5. CASE s.request /\ result = "NameConflict" /\ s.autorename
  <2>1. regservice_callback(s, result, failure) = mDNS_RenameAndReregisterService(t, failure)
    BY <1>5 DEF regservice_callback, t
  <2> QED BY <1>1, <1>5, <2>1, RenameKeeps
<1>6. CASE /\ s.request \/ result = "MemFree"
           /\ ~(result = "MemFree" /\ s.request /\ s.renameonmemfree)
           /\ ~(result = "NameConflict" /\ s.autorename)
  <2>1. regservice_callback(s, result, failure) = unlink_and_free_service_instance(t)
    BY <1>6 DEF regservice_callback, t
  <2> QED BY <1>1, <2>1, FreeKeeps DEF Waiting
<1> QED BY <1>3, <1>4, <1>5, <1>6

---------------------------------------------------------------------------
(* What becomes of the set when it is withdrawn.                            *)

Living(s) == s \in ServiceSet /\ s.instance = "live" /\ ~s.astray

(* All or, in a conflict, all but one are there.                            *)
Nearly(s) ==
  /\ ~s.zeroPort /\ s.listed \subseteq Set \cup s.Extras /\ s.listed \ Shared # {}
  /\ s.goodbye \in {{}, Shared} /\ Shared \subseteq s.listed
  /\ \A r \in Shared : s.type[r] = "Shared"
  /\ \A r \in (Set \cup s.Extras) \ s.listed : s.type[r] = "Unregistered"

LEMMA NearlyGoes ==
  ASSUME NEW s, Living(s), s.awaited, Nearly(s), NEW failure \in Failures
  PROVE  Sound(EndService(s, failure))
<1> DEFINE all == Set \cup s.Extras
           w == Withdrawn(s, all)
<1>1. s \in ServiceSet /\ all \subseteq Set \cup Extra /\ "ptr" \in Shared /\ Shared \subseteq all
  BY Shareds DEF Living, ServiceSet
<1>2. EndService(s, failure)
        = EndRecords(s, all, failure)
  BY <1>1 DEF EndService, EndRecords, mDNS_DeregisterService, Nearly
<1>3. Parting(s, all) = s.goodbye /\ Gone(s, all) = s.listed \ s.goodbye
  BY <1>1 DEF Parting, Gone, Nearly
<1>4. WithoutThem(s, all, w)
  BY <1>1, WithdrawnFields
<1> HIDE DEF w
<1>5. /\ w \in ServiceSet /\ Untouched(s, w) /\ w.Extras = s.Extras
      /\ w.listed = s.goodbye /\ w.goodbye = s.goodbye
      /\ \A r \in all : w.type[r] = IF r \in w.listed THEN "Deregistering" ELSE "Unregistered"
  BY <1>1, <1>3, <1>4 DEF WithoutThem, Nearly
<1>6. Gone(s, all) # {}
  BY <1>1, <1>3 DEF Nearly
<1>7. Result(s) \in {"MemFree", "NameConflict"}
  BY DEF Result
<1>8. CASE s.goodbye = {}
  <2>1. Tells(s, all)
    BY <1>5, <1>6, <1>8 DEF Tells, AllGone, w
  <2>2. Waiting(w) /\ w.awaited
    BY <1>5, <1>8 DEF Waiting, Out, Living, Untouched, Nearly
  <2>3. Sound(regservice_callback(w, Result(s), failure))
    BY <1>7, <2>2, CallbackKeeps
  <2> QED BY <1>1, <1>2, <2>1, <2>3, DeregisterIs DEF w
<1>9. CASE s.goodbye = Shared
  <2>1. ~Tells(s, all)
    <3>1. w.type["ptr"] = "Deregistering"
      BY <1>1, <1>5, <1>9
    <3>2. ~AllGone(w)
      BY <1>1, <1>5, <3>1 DEF AllGone
    <3> QED BY <3>2 DEF Tells, Nearly, w
  <2>2. Going(w)
    BY <1>1, <1>5, <1>9 DEF Going, Nearly, Untouched
  <2>3. Sound(w)
    BY <1>5, <2>2 DEF Sound, Living, Untouched
  <2> QED BY <1>1, <1>2, <2>1, <2>3, DeregisterIs DEF w
<1> QED BY <1>8, <1>9 DEF Nearly

LEMMA AloneGoes ==
  ASSUME NEW s, Living(s), s.awaited, Alone(s), NEW failure \in Failures
  PROVE  Sound(EndService(s, failure))
<1> DEFINE w == Withdrawn(s, {"srv"})
<1>1. EndService(s, failure)
        = EndRecords(s, {"srv"}, failure)
  BY DEF EndService, EndRecords, mDNS_DeregisterService, Alone
<1>2. Parting(s, {"srv"}) = {} /\ Gone(s, {"srv"}) = {"srv"}
  BY DEF Parting, Gone, Alone
<1>3. WithoutThem(s, {"srv"}, w)
  BY WithdrawnFields DEF Living
<1> HIDE DEF w
<1>4. Waiting(w) /\ w.awaited
  BY <1>2, <1>3 DEF WithoutThem, Waiting, Out, Living, Untouched, Alone
<1>5. Tells(s, {"srv"})
  BY <1>2 DEF Tells, Alone
<1>6. Sound(regservice_callback(w, Result(s), failure))
  BY <1>4, CallbackKeeps DEF Result
<1> QED BY <1>1, <1>5, <1>6, DeregisterIs DEF w, Living

LEMMA GoingGoes ==
  ASSUME NEW s, Living(s), s.awaited, Going(s), NEW failure \in Failures
  PROVE  Sound(EndService(s, failure))
<1>1. s.type["ptr"] = "Deregistering"
  BY Shareds DEF Going
<1>2. EndService(s, failure) = AlreadyGoing(s)
  BY <1>1 DEF EndService, EndRecords, mDNS_DeregisterService, Going
<1>3. AlreadyGoing(s) \in ServiceSet /\ Going(AlreadyGoing(s)) /\ Living(AlreadyGoing(s)) /\ AlreadyGoing(s).awaited
  BY DEF AlreadyGoing, Living, Going, ServiceSet
<1> QED BY <1>2, <1>3 DEF Sound, Living

(* What could not be registered has no last record.                         *)
Unfinished(s) ==
  /\ s.goodbye = {} /\ s.listed \subseteq s.Extras
  /\ IF s.zeroPort THEN s.Extras = {} ELSE s.type["ptr"] = "Shared"

LEMMA UnfinishedGoes ==
  ASSUME NEW s, Living(s), Unfinished(s), NEW failure
  PROVE  LET t == EndService(s, failure)
         IN Out(t) /\ Untouched(s, t) /\ Unfinished(t) /\ DeregisterFails(s)
<1> DEFINE all == IF s.zeroPort THEN {"srv"} ELSE Set \cup s.Extras
           w == Withdrawn(s, all)
           t == EndService(s, failure)
<1>1. s \in ServiceSet /\ "ptr" \in Set /\ "srv" \in Set /\ s.Extras \cap Set = {}
  BY Shareds DEF Living, ServiceSet
<1>2. t = EndRecords(s, all, failure)
  <2>1. CASE s.zeroPort
    BY <2>1 DEF EndService, EndRecords, mDNS_DeregisterService
  <2>2. CASE ~s.zeroPort
    BY <2>2 DEF EndService, EndRecords, mDNS_DeregisterService, Unfinished
  <2> QED BY <2>1, <2>2
<1>3. Parting(s, all) = {} /\ Gone(s, all) = s.listed
  BY <1>1 DEF Parting, Gone, Unfinished
<1>4. WithoutThem(s, all, w)
  BY <1>1, WithdrawnFields
<1> HIDE DEF t, w, all
<1>5. Out(w) /\ Untouched(s, w) /\ Unfinished(w)
  <2>1. w \in ServiceSet /\ Untouched(s, w) /\ w.Extras = s.Extras /\ w.listed = {} /\ w.goodbye = {}
    BY <1>3, <1>4 DEF WithoutThem, Unfinished
  <2>2. ~s.zeroPort => w.type["ptr"] = "Shared"
    BY <1>1, <1>3, <1>4 DEF WithoutThem, Unfinished
  <2> QED BY <2>1, <2>2 DEF Out, Unfinished, Untouched
<1>6. ~Tells(s, all)
  <2>1. CASE s.zeroPort
    BY <1>1, <1>3, <2>1 DEF Tells, Unfinished
  <2>2. CASE ~s.zeroPort
    BY <1>1, <1>5, <2>2 DEF Tells, AllGone, Unfinished, Untouched, w
  <2> QED BY <2>1, <2>2
<1>7. t = w
  BY <1>1, <1>2, <1>6, DeregisterIs DEF w
<1>8. DeregisterFails(s)
  BY <1>1 DEF DeregisterFails, Unfinished
<1> QED BY <1>5, <1>7, <1>8 DEF t

(* What is registered goes, and the call says so.                           *)
LEMMA ThereGoes ==
  ASSUME NEW s, Living(s), s.awaited, Whole(s) \/ Alone(s) \/ Going(s), NEW failure \in Failures
  PROVE  Sound(EndService(s, failure)) /\ ~DeregisterFails(s)
<1>1. CASE Whole(s)
  <2>1. "srv" \in s.listed \ Shared /\ "ptr" \in s.listed /\ Shared \subseteq s.listed
    BY <1>1, Shareds DEF Whole
  <2>2. Nearly(s) /\ ~DeregisterFails(s)
    BY <1>1, <2>1 DEF Whole, Nearly, DeregisterFails
  <2> QED BY <2>2, NearlyGoes
<1>2. CASE Alone(s)
  BY <1>2, AloneGoes DEF Alone, DeregisterFails
<1>3. CASE Going(s)
  BY <1>3, GoingGoes DEF Going, DeregisterFails
<1> QED BY <1>1, <1>2, <1>3

---------------------------------------------------------------------------
(* Every step of the client, the core and the network.                      *)

LEMMA ServiceInitially == ServiceInit => ServiceInv
  BY Shareds DEF ServiceInit, ServiceInv, Sound, ServiceSet, Types

(* An instance that has something registered is alive.                      *)
LEMMA ListedIsLive ==
  ASSUME ServiceInv, service.listed # {}
  PROVE  /\ Living(service)
         /\ IF service.awaited THEN Whole(service) \/ Alone(service) \/ Going(service) ELSE Over(service)
  BY DEF ServiceInv, Sound, Living, ServiceSet

LEMMA RegisterStep == ASSUME ServiceInv, register_service_instance PROVE ServiceInv'
<1>1. PICK zero \in BOOLEAN, rename \in BOOLEAN, failure \in Failures :
        LET s == [service EXCEPT !.zeroPort = zero, !.autorename = rename]
            t == mDNS_RegisterService(s, failure)
        IN  service' = IF Failed(s, failure) THEN unlink_and_free_service_instance(t)
                       ELSE [t EXCEPT !.instance = "live", !.awaited = TRUE]
  BY DEF register_service_instance
<1> DEFINE s == [service EXCEPT !.zeroPort = zero, !.autorename = rename]
           t == mDNS_RegisterService(s, failure)
<1>2. service' = IF Failed(s, failure) THEN unlink_and_free_service_instance(t)
                 ELSE [t EXCEPT !.instance = "live", !.awaited = TRUE]
  BY <1>1
<1>3. Out(s) /\ ~s.astray /\ s.instance = "none"
  BY DEF register_service_instance, ServiceInv, Sound, ServiceSet, Out
<1> HIDE DEF s
<1>4. Registered(s, failure, t)
  BY <1>3, RegisteringFields
<1> HIDE DEF t
<1>5. t \in ServiceSet /\ ~t.astray /\ t.instance = "none" /\ t.Extras = {} /\ t.goodbye = {}
      /\ t.zeroPort = s.zeroPort /\ s.zeroPort \in BOOLEAN
  BY <1>3, <1>4 DEF Registered, Untouched, Out, ServiceSet
<1>6. CASE Failed(s, failure)
  <2>1. Out(t)
    BY <1>4, <1>5, <1>6 DEF Registered, Out
  <2>2. service' = unlink_and_free_service_instance(t)
    BY <1>2, <1>6
  <2>3. Sound(unlink_and_free_service_instance(t))
    BY <1>5, <2>1, FreeKeeps
  <2> QED BY <2>2, <2>3 DEF ServiceInv
<1>7. CASE ~Failed(s, failure)
  <2> DEFINE u == [t EXCEPT !.instance = "live", !.awaited = TRUE]
  <2>1. service' = u
    BY <1>2, <1>7
  <2>2. /\ u \in ServiceSet /\ ~u.astray /\ u.instance = "live" /\ u.awaited
        /\ u.Extras = {} /\ u.goodbye = {} /\ u.zeroPort = s.zeroPort /\ u.listed = t.listed /\ u.type = t.type
    BY <1>5 DEF ServiceSet
  <2> HIDE DEF u
  <2>3. s.zeroPort => Alone(u)
    BY <1>4, <1>7, <2>2 DEF Registered, Alone
  <2>4. ~s.zeroPort => Whole(u)
    <3> HAVE ~s.zeroPort
    <3>1. u.listed = Set /\ \A r \in Set : u.type[r] = IF r = "txt" THEN "Verified" ELSE RegisteredAs(r)
      BY <1>4, <1>7, <2>2 DEF Registered
    <3> QED BY <2>2, <3>1, Shareds DEF Whole, RegisteredAs
  <2>5. Sound(u)
    BY <1>5, <2>2, <2>3, <2>4 DEF Sound
  <2> QED BY <2>1, <2>5 DEF ServiceInv
<1> QED BY <1>6, <1>7

(* What is asked to go although it was never registered again.              *)
LEMMA OverGoes ==
  ASSUME NEW s, Living(s), Unfinished(s), NEW failure
  PROVE  LET t == EndService(s, failure)
         IN  /\ DeregisterFails(s) /\ Out(t) /\ ~t.astray /\ t.instance = "live"
             /\ t.awaited = s.awaited /\ Unfinished(t) /\ t.request = s.request /\ t.zeroPort = s.zeroPort
<1> DEFINE t == EndService(s, failure)
<1>1. Out(t) /\ Untouched(s, t) /\ Unfinished(t) /\ DeregisterFails(s)
  BY UnfinishedGoes
<1> HIDE DEF t
<1>2. ~t.astray /\ t.instance = "live" /\ t.awaited = s.awaited /\ t.request = s.request /\ t.zeroPort = s.zeroPort
  BY <1>1 DEF Living, Untouched
<1> QED BY <1>1, <1>2 DEF t

LEMMA TerminationStep == ASSUME ServiceInv, regservice_termination_callback PROVE ServiceInv'
<1>1. PICK failure \in Failures :
        LET s == [service EXCEPT !.request = FALSE]
            t == EndService(s, failure)
        IN  service' = IF DeregisterFails(s) THEN unlink_and_free_service_instance(t) ELSE t
  BY DEF regservice_termination_callback
<1> DEFINE s == [service EXCEPT !.request = FALSE]
           t == EndService(s, failure)
<1>2. service' = IF DeregisterFails(s) THEN unlink_and_free_service_instance(t) ELSE t
  BY <1>1
<1>3. /\ Living(s) /\ service.request /\ s.awaited = service.awaited /\ s.listed = service.listed
      /\ s.Extras = service.Extras /\ s.goodbye = service.goodbye /\ s.type = service.type
      /\ s.zeroPort = service.zeroPort
  BY DEF regservice_termination_callback, Live, ServiceInv, Sound, ServiceSet, Living
<1>4. IF s.awaited THEN Whole(service) \/ Alone(service) \/ Going(service) ELSE Over(service)
  BY <1>3 DEF regservice_termination_callback, Live, ServiceInv, Sound
<1> HIDE DEF s, t
<1>5. CASE s.awaited
  <2>1. Whole(s) \/ Alone(s) \/ Going(s)
    BY <1>3, <1>4, <1>5 DEF Whole, Alone, Going
  <2>2. Sound(t) /\ ~DeregisterFails(s)
    BY <1>3, <1>5, <2>1, ThereGoes DEF t
  <2> QED BY <1>2, <2>2 DEF ServiceInv
<1>6. CASE ~s.awaited
  <2>1. Unfinished(s)
    BY <1>3, <1>4, <1>6 DEF Over, Unfinished
  <2>2. DeregisterFails(s) /\ Out(t) /\ ~t.astray /\ t.instance = "live"
    BY <1>3, <2>1, OverGoes DEF t
  <2>3. Sound(unlink_and_free_service_instance(t))
    BY <2>2, FreeKeeps
  <2> QED BY <1>2, <2>2, <2>3 DEF ServiceInv
<1> QED BY <1>3, <1>5, <1>6 DEF Living, ServiceSet

LEMMA ConfigurationStep == ASSUME ServiceInv, udsserver_handle_configchange PROVE ServiceInv'
<1>1. PICK failure \in Failures :
        LET s == [service EXCEPT !.renameonmemfree = TRUE]
            t == EndService(s, failure)
        IN  service' = IF DeregisterFails(s) THEN regservice_callback([t EXCEPT !.awaited = TRUE], "MemFree", failure)
                       ELSE t
  BY DEF udsserver_handle_configchange
<1> DEFINE s == [service EXCEPT !.renameonmemfree = TRUE]
           t == EndService(s, failure)
           u == [t EXCEPT !.awaited = TRUE]
<1>2. service' = IF DeregisterFails(s) THEN regservice_callback(u, "MemFree", failure) ELSE t
  BY <1>1
<1>3. /\ Living(s) /\ service.request /\ s.awaited = service.awaited /\ s.listed = service.listed
      /\ s.Extras = service.Extras /\ s.goodbye = service.goodbye /\ s.type = service.type
      /\ s.zeroPort = service.zeroPort
  BY DEF udsserver_handle_configchange, Live, ServiceInv, Sound, ServiceSet, Living
<1>4. IF s.awaited THEN Whole(service) \/ Alone(service) \/ Going(service) ELSE Over(service)
  BY <1>3 DEF udsserver_handle_configchange, Live, ServiceInv, Sound
<1> HIDE DEF s, t
<1>5. CASE s.awaited
  <2>1. Whole(s) \/ Alone(s) \/ Going(s)
    BY <1>3, <1>4, <1>5 DEF Whole, Alone, Going
  <2>2. Sound(t) /\ ~DeregisterFails(s)
    BY <1>3, <1>5, <2>1, ThereGoes DEF t
  <2> QED BY <1>2, <2>2 DEF ServiceInv
<1>6. CASE ~s.awaited
  <2>1. Unfinished(s)
    BY <1>3, <1>4, <1>6 DEF Over, Unfinished
  <2>2. DeregisterFails(s) /\ Out(t) /\ ~t.astray /\ t.instance = "live" /\ Unfinished(t)
    BY <1>3, <2>1, OverGoes DEF t
  <2>3. Waiting(u) /\ u.awaited
    BY <2>2 DEF Waiting, Out, ServiceSet, Unfinished
  <2>4. Sound(regservice_callback(u, "MemFree", failure))
    BY <2>3, CallbackKeeps
  <2> QED BY <1>2, <2>2, <2>4 DEF ServiceInv
<1> QED BY <1>3, <1>5, <1>6 DEF Living, ServiceSet

LEMMA AddStep == ASSUME ServiceInv, NEW e \in Extra, add_record_to_service(e) PROVE ServiceInv'
<1> DEFINE type == With(service.type, {e}, "Verified")
           owner == With(service.owner, {e}, "service")
<1>1. /\ Living(service) /\ service.request /\ ~service.zeroPort /\ ~Refused(service)
      /\ IF service.awaited THEN Whole(service) \/ Alone(service) \/ Going(service) ELSE Over(service)
  BY DEF add_record_to_service, Live, ServiceInv, Sound, Living
<1>2. owner \in [Extra -> {"nobody", "service", "lost"}] /\ type \in [Set \cup Extra -> Types]
  BY <1>1 DEF Living, ServiceSet, With, Types
<1>3. /\ \A r \in Set \cup Extra : type[r] = IF r = e THEN "Verified" ELSE service.type[r]
      /\ e \notin Set /\ e \notin Shared /\ "ptr" \in Set /\ "srv" \in Set
  BY <1>1, Shareds DEF Living, ServiceSet, With
<1>4. service' = [service EXCEPT !.Extras = @ \cup {e}, !.listed = @ \cup {e}, !.type = type, !.owner = owner]
  BY <1>1 DEF add_record_to_service, mDNS_AddRecordToService, Living, ServiceSet
<1> HIDE DEF type, owner
<1>5. /\ service' \in ServiceSet /\ ~service'.astray /\ service'.instance = "live"
      /\ service'.Extras = service.Extras \cup {e} /\ service'.listed = service.listed \cup {e}
      /\ service'.type = type /\ service'.goodbye = service.goodbye /\ ~service'.zeroPort
      /\ service'.request /\ service'.awaited = service.awaited
  BY <1>1, <1>2, <1>4 DEF Living, ServiceSet
<1>6. ASSUME service.awaited PROVE Whole(service')
  <2>1. ~Going(service)
    BY <1>1, <1>3, Shareds DEF Going, Refused
  <2>2. Whole(service)
    BY <1>1, <1>6, <2>1 DEF Alone
  <2>3. service.Extras \subseteq Extra
    BY <1>1 DEF Living, ServiceSet
  <2>4. \A r \in Shared : service'.type[r] = "Shared"
    BY <1>3, <1>5, <2>2, Shareds DEF Whole
  <2>5. \A r \in service'.listed \ Shared : service'.type[r] \in {"Unique", "Verified", "Advisory"}
    BY <1>3, <1>5, <2>2, <2>3 DEF Whole
  <2> QED BY <1>5, <2>2, <2>4, <2>5 DEF Whole
<1>7. ASSUME ~service.awaited PROVE Over(service')
  <2>1. Over(service) /\ service.Extras \subseteq Extra
    BY <1>1, <1>7 DEF Living, ServiceSet
  <2> QED BY <1>1, <1>3, <1>5, <2>1 DEF Over
<1> QED BY <1>5, <1>6, <1>7 DEF ServiceInv, Sound

LEMMA RemoveStep == ASSUME ServiceInv, NEW e \in Extra, remove_extra(e) PROVE ServiceInv'
<1> DEFINE type == [service.type EXCEPT ![e] = "Unregistered"]
           owner == [service.owner EXCEPT ![e] = IF e \in service.listed THEN "nobody" ELSE "lost"]
<1>1. /\ Living(service) /\ e \in service.Extras
      /\ IF service.awaited THEN Whole(service) \/ Alone(service) \/ Going(service) ELSE Over(service)
  BY DEF remove_extra, Live, ServiceInv, Sound, Living
<1>2. owner \in [Extra -> {"nobody", "service", "lost"}] /\ type \in [Set \cup Extra -> Types]
  BY <1>1 DEF Living, ServiceSet, Types
<1>3. /\ \A r \in Set \cup Extra : type[r] = IF r = e THEN "Unregistered" ELSE service.type[r]
      /\ e \notin Set /\ e \notin Shared /\ "ptr" \in Set /\ "srv" \in Set
  BY <1>1, Shareds DEF Living, ServiceSet
<1>4. service' = [service EXCEPT !.Extras = @ \ {e}, !.listed = @ \ {e}, !.type = type, !.owner = owner]
  BY <1>1 DEF remove_extra, Living, ServiceSet
<1> HIDE DEF type, owner
<1>5. /\ service' \in ServiceSet /\ ~service'.astray /\ service'.instance = "live"
      /\ service'.Extras = service.Extras \ {e} /\ service'.listed = service.listed \ {e}
      /\ service'.type = type /\ service'.goodbye = service.goodbye /\ service'.zeroPort = service.zeroPort
      /\ service'.request = service.request /\ service'.awaited = service.awaited
  BY <1>1, <1>2, <1>4 DEF Living, ServiceSet
<1>6. service.Extras \subseteq Extra /\ ~Alone(service) /\ service.listed \subseteq Set \cup Extra
  BY <1>1 DEF Living, ServiceSet, Alone
<1>7. Whole(service) => Whole(service')
  <2> HAVE Whole(service)
  <2>1. service'.listed = Set \cup service'.Extras
    BY <1>3, <1>5 DEF Whole
  <2>2. \A r \in Shared : service'.type[r] = "Shared"
    BY <1>3, <1>5, Shareds DEF Whole
  <2>3. \A r \in service'.listed \ Shared : service'.type[r] \in {"Unique", "Verified", "Advisory"}
    BY <1>3, <1>5, <1>6 DEF Whole
  <2> QED BY <1>5, <2>1, <2>2, <2>3 DEF Whole
<1>8. Going(service) => Going(service')
  BY <1>3, <1>5, <1>6, Shareds DEF Going
<1>9. Over(service) => Over(service')
  BY <1>3, <1>5, <1>6 DEF Over
<1> QED BY <1>1, <1>5, <1>6, <1>7, <1>8, <1>9 DEF ServiceInv, Sound

LEMMA AcknowledgeStep == ASSUME ServiceInv, Acknowledge PROVE ServiceInv'
<1>1. service' = [service EXCEPT !.clientnotified = TRUE] /\ service \in ServiceSet
  BY DEF Acknowledge, ServiceInv, Sound
<1>2. service' \in ServiceSet /\ \A s \in {service'} :
        /\ s.type = service.type /\ s.listed = service.listed /\ s.goodbye = service.goodbye
        /\ s.Extras = service.Extras /\ s.zeroPort = service.zeroPort /\ s.instance = service.instance
        /\ s.request = service.request /\ s.awaited = service.awaited /\ s.astray = service.astray
  BY <1>1 DEF ServiceSet
<1> QED BY <1>2 DEF ServiceInv, Sound, Whole, Alone, Going, Over

LEMMA AnnounceStep == ASSUME Together, ServiceInv, Announce PROVE ServiceInv'
<1>1. PICK some \in SUBSET {r \in Shared : r \in service.listed /\ service.type[r] = "Shared"} :
        some = Shared /\ service' = [service EXCEPT !.goodbye = @ \cup some]
  BY DEF Announce
<1>2. "ptr" \in service.listed /\ service.type["ptr"] = "Shared" /\ "ptr" # "srv" /\ "ptr" \notin Extra
  BY <1>1, Shareds
<1>3. Whole(service) /\ Living(service) /\ service.awaited
  BY <1>2, ListedIsLive DEF Alone, Going, Over, Living, ServiceSet
<1>4. /\ service' \in ServiceSet /\ service'.goodbye = Shared
      /\ service'.type = service.type /\ service'.listed = service.listed
      /\ service'.Extras = service.Extras /\ service'.zeroPort = service.zeroPort
      /\ service'.instance = "live" /\ service'.awaited /\ ~service'.astray
  BY <1>1, <1>3 DEF Living, ServiceSet, Whole
<1>5. Whole(service')
  BY <1>3, <1>4 DEF Whole
<1> QED BY <1>4, <1>5 DEF ServiceInv, Sound

LEMMA ContestedStep == ASSUME ServiceInv, NEW r, Contested(r) PROVE ServiceInv'
<1>1. PICK failure \in Failures : service' = Conflicts(service, r, failure)
  BY DEF Contested
<1> DEFINE t == Without(service, r)
           s == [t EXCEPT !.Conflict = TRUE]
<1>2. r \in service.listed /\ service.type[r] \in {"Unique", "Verified"}
  BY DEF Contested
<1>3. /\ Living(service) /\ r \in Set \cup Extra
      /\ IF service.awaited THEN Whole(service) \/ Alone(service) \/ Going(service) ELSE Over(service)
  BY <1>2, ListedIsLive DEF Living, ServiceSet
<1>4. ~Going(service)
  BY <1>2, Shareds DEF Going
<1>5. /\ t \in ServiceSet /\ t.listed = service.listed \ {r} /\ t.goodbye = service.goodbye
      /\ t.Extras = service.Extras /\ t.zeroPort = service.zeroPort /\ t.awaited = service.awaited
      /\ t.request = service.request /\ t.instance = "live" /\ ~t.astray
      /\ \A q \in Set \cup Extra : t.type[q] = IF q = r THEN "Unregistered" ELSE service.type[q]
  BY <1>3 DEF Without, Living, ServiceSet, Types
<1>6. service' = IF service.zeroPort THEN regservice_callback(t, "NameConflict", failure)
                 ELSE EndService(s, failure)
  BY <1>1 DEF Conflicts
<1> HIDE DEF t
<1>7. /\ Living(s) /\ s.listed = service.listed \ {r} /\ s.goodbye = service.goodbye
      /\ s.Extras = service.Extras /\ s.zeroPort = service.zeroPort /\ s.awaited = service.awaited
      /\ s.request = service.request /\ s.type = t.type
  BY <1>5 DEF Living, ServiceSet
<1> HIDE DEF s
<1>8. service.zeroPort \in BOOLEAN /\ service.awaited \in BOOLEAN /\ service.Extras \subseteq Extra
  BY <1>3 DEF Living, ServiceSet
<1>9. CASE service.zeroPort
  <2>1. Alone(service) /\ service.awaited
    BY <1>2, <1>3, <1>4, <1>9 DEF Whole, Over
  <2>2. Waiting(t) /\ t.awaited
    BY <1>2, <1>5, <2>1 DEF Alone, Waiting, Out
  <2>3. Sound(regservice_callback(t, "NameConflict", failure))
    BY <2>2, CallbackKeeps
  <2> QED BY <1>6, <1>9, <2>3 DEF ServiceInv
<1>10. CASE ~service.zeroPort /\ service.awaited
  <2>1. Whole(service)
    BY <1>3, <1>4, <1>10 DEF Alone
  <2>2. r \notin Shared
    BY <1>2, <2>1 DEF Whole
  <2>3. /\ Shared \subseteq s.listed /\ s.listed \subseteq Set \cup s.Extras
        /\ (Set \cup s.Extras) \ s.listed = {r}
    BY <1>2, <1>7, <2>1, <2>2, Shareds DEF Whole
  <2>4. s.listed \ Shared # {}
    <3>1. {"srv", "txt", "adv"} \ {r} \subseteq s.listed \ Shared
      BY <1>7, <2>1, Shareds DEF Whole
    <3>2. "srv" # "txt"
      OBVIOUS
    <3> QED BY <3>1, <3>2
  <2>5. \A q \in Shared : s.type[q] = "Shared"
    BY <1>5, <1>7, <2>1, <2>2, Shareds DEF Whole
  <2>6. Nearly(s)
    BY <1>3, <1>5, <1>7, <1>10, <2>1, <2>3, <2>4, <2>5 DEF Nearly, Whole
  <2>7. Sound(EndService(s, failure))
    BY <1>7, <1>10, <2>6, NearlyGoes
  <2> QED BY <1>6, <1>10, <2>7 DEF ServiceInv
<1>11. CASE ~service.zeroPort /\ ~service.awaited
  <2>1. Over(service) /\ service.request
    BY <1>2, <1>3, <1>11 DEF Over, Living, ServiceSet
  <2>2. r \notin Set /\ "ptr" \in Set
    BY <1>2, <1>8, <2>1, Shareds DEF Over
  <2>3. Unfinished(s)
    BY <1>5, <1>7, <1>11, <2>1, <2>2 DEF Over, Unfinished
  <2> DEFINE u == EndService(s, failure)
  <2>4. /\ Out(u) /\ ~u.astray /\ u.instance = "live" /\ u.awaited = s.awaited /\ Unfinished(u)
        /\ u.zeroPort = s.zeroPort
    BY <1>7, <2>3, OverGoes
  <2> HIDE DEF u
  <2>5. Sound(u)
    BY <1>7, <1>11, <2>4 DEF Sound, Over, Out, Unfinished
  <2> QED BY <1>6, <1>11, <2>5 DEF ServiceInv, u
<1> QED BY <1>8, <1>9, <1>10, <1>11

LEMMA CompleteStep == ASSUME Together, ServiceInv, NEW r, Complete(r) PROVE ServiceInv'
<1>1. PICK failure \in Failures : service' =
        EndRecords([service EXCEPT !.type[r] = "Shared", !.goodbye = @ \ {r}], {r}, failure)
  BY DEF Complete
<1> DEFINE s == [service EXCEPT !.type[r] = "Shared", !.goodbye = @ \ {r}]
           w == Withdrawn(s, {r})
<1>2. /\ r \in service.listed /\ service.type[r] = "Deregistering"
      /\ r = "ptr" => \A q \in Subs : service.type[q] # "Deregistering"
  BY DEF Complete
<1>3. /\ Living(service) /\ r \in Set \cup Extra
      /\ IF service.awaited THEN Whole(service) \/ Alone(service) \/ Going(service) ELSE Over(service)
  BY <1>2, ListedIsLive DEF Living, ServiceSet
<1>4. Going(service) /\ service.awaited
  <2>1. ~Whole(service)
    BY <1>2 DEF Whole
  <2>2. ~Alone(service)
    BY <1>2 DEF Alone
  <2>3. ~Over(service)
    BY <1>2 DEF Over
  <2> QED BY <1>3, <2>1, <2>2, <2>3 DEF Living, ServiceSet
<1>5. r \in Shared /\ service.listed \subseteq Shared
  BY <1>2, <1>4 DEF Going
<1>6. /\ s \in ServiceSet /\ Living(s) /\ s.awaited /\ ~s.zeroPort /\ s.Extras = service.Extras
      /\ s.listed = service.listed /\ s.goodbye = service.listed \ {r}
      /\ \A q \in Set \cup Extra : s.type[q] = IF q = r THEN "Shared" ELSE service.type[q]
  BY <1>3, <1>4 DEF Living, ServiceSet, Types, Going
<1> HIDE DEF s
<1>7. Parting(s, {r}) = {} /\ Gone(s, {r}) = {r}
  BY <1>2, <1>6 DEF Parting, Gone
<1>8. WithoutThem(s, {r}, w)
  BY <1>6, WithdrawnFields
<1> HIDE DEF w
<1>9. /\ w \in ServiceSet /\ Living(w) /\ w.awaited /\ ~w.zeroPort /\ w.Extras = service.Extras
      /\ w.listed = service.listed \ {r} /\ w.goodbye = service.listed \ {r}
      /\ \A q \in Set \cup Extra : w.type[q] = IF q = r THEN "Unregistered" ELSE service.type[q]
  BY <1>6, <1>7, <1>8 DEF WithoutThem, Untouched, Living
<1>10. \A q \in Set \cup w.Extras : w.type[q] = IF q \in w.listed THEN "Deregistering" ELSE "Unregistered"
  <2>1. w.Extras \subseteq Extra
    BY <1>9 DEF Living, ServiceSet
  <2> QED BY <1>4, <1>9, <2>1 DEF Going
<1>11. service' = IF Tells(s, {r}) THEN regservice_callback(w, Result(s), failure) ELSE w
  BY <1>1, <1>6, DeregisterIs DEF s, w
<1>12. CASE r = "ptr"
  <2>1. service.listed = {"ptr"}
    <3>1. \A q \in Subs : q \notin service.listed
      BY <1>2, <1>4, <1>12 DEF Going, Set
    <3> QED BY <1>2, <1>5, <1>12, <3>1 DEF Shared
  <2>2. w.listed = {} /\ w.goodbye = {}
    BY <1>9, <1>12, <2>1
  <2>3. AllGone(w)
    BY <1>10, <2>2 DEF AllGone
  <2>4. Tells(s, {r})
    BY <1>7, <2>3 DEF Tells, w
  <2>5. Waiting(w)
    BY <1>9, <2>2 DEF Waiting, Out, Living
  <2>6. Sound(regservice_callback(w, Result(s), failure))
    BY <1>9, <2>5, CallbackKeeps DEF Result
  <2> QED BY <1>11, <2>4, <2>6 DEF ServiceInv
<1>13. CASE r # "ptr"
  <2>1. "ptr" \in w.listed /\ "ptr" \in Set
    BY <1>4, <1>9, <1>13, Shareds DEF Going
  <2>2. w.type["ptr"] = "Deregistering"
    BY <1>10, <2>1
  <2>3. ~Tells(s, {r})
    BY <1>6, <2>1, <2>2 DEF Tells, AllGone, w
  <2>4. Going(w)
    BY <1>5, <1>9, <1>10, <2>1 DEF Going
  <2>5. Sound(w)
    BY <1>9, <2>4 DEF Sound, Living
  <2> QED BY <1>11, <2>3, <2>5 DEF ServiceInv
<1> QED BY <1>12, <1>13

LEMMA ServiceInductive == ASSUME Together, ServiceInv, [ServiceNext]_serviceVars PROVE ServiceInv'
<1>1. CASE register_service_instance
  BY <1>1, RegisterStep
<1>2. CASE regservice_termination_callback
  BY <1>2, TerminationStep
<1>3. CASE udsserver_handle_configchange
  BY <1>3, ConfigurationStep
<1>4. CASE \E e \in Extra : add_record_to_service(e) \/ remove_extra(e)
  BY <1>4, AddStep, RemoveStep
<1>5. CASE Acknowledge
  BY <1>5, AcknowledgeStep
<1>6. CASE Announce
  BY <1>6, AnnounceStep
<1>7. CASE \E r \in Set \cup Extra : Contested(r) \/ Complete(r)
  BY <1>7, ContestedStep, CompleteStep
<1>8. CASE UNCHANGED serviceVars
  BY <1>8 DEF serviceVars, ServiceInv
<1> QED BY <1>1, <1>2, <1>3, <1>4, <1>5, <1>6, <1>7, <1>8 DEF ServiceNext

(* The client is told once of the end of each registration: every record    *)
(* set that mDNS_RegisterService has accepted ends with one call of         *)
(* regservice_callback, whatever fails, conflicts or is renamed, and the    *)
(* instance is freed once.                                                  *)
THEOREM ToldOfEachEnd == ASSUME Together PROVE ServiceSpec => []ToldOnce
<1>1. ServiceInv => ToldOnce
  BY DEF ServiceInv, Sound, ToldOnce
<1>2. ServiceInv /\ [ServiceNext]_serviceVars => ServiceInv'
  BY ServiceInductive
<1> QED BY <1>1, <1>2, ServiceInitially, PTL DEF ServiceSpec

(* When unlink_and_free_service_instance frees an instance the core has no  *)
(* record of it in its list.  Without Together this is false: the callers   *)
(* of mDNS_DeregisterService take a set to be gone when its PTR record is.  *)
THEOREM MemoryIsLetGo == ASSUME Together PROVE ServiceSpec => []FreedIsGone
<1>1. ServiceInv => FreedIsGone
  BY DEF ServiceInv, Sound, FreedIsGone
<1>2. ServiceInv /\ [ServiceNext]_serviceVars => ServiceInv'
  BY ServiceInductive
<1> QED BY <1>1, <1>2, ServiceInitially, PTL DEF ServiceSpec

(* A service is there with all of its records or is on its way out: what    *)
(* mDNS_RegisterService could not finish, or a conflict has taken a record  *)
(* of, is withdrawn.                                                        *)
THEOREM SetsAreWhole == ASSUME Together PROVE ServiceSpec => []SetIsWhole
<1>1. ServiceInv => SetIsWhole
  <2> HAVE ServiceInv
  <2>1. CASE service.listed = {}
    BY <2>1 DEF SetIsWhole
  <2>2. CASE service.listed # {}
    <3>1. /\ Living(service)
          /\ IF service.awaited THEN Whole(service) \/ Alone(service) \/ Going(service) ELSE Over(service)
      BY <2>2, ListedIsLive
    <3>2. Whole(service) => SetIsWhole
      BY Shareds DEF Whole, SetIsWhole
    <3>3. Alone(service) => SetIsWhole
      BY DEF Alone, SetIsWhole
    <3>4. Going(service) => SetIsWhole
      BY Shareds DEF Going, SetIsWhole
    <3>5. ~service.awaited /\ Over(service) => SetIsWhole
      BY <3>1, Shareds DEF Over, SetIsWhole, Living, ServiceSet
    <3> QED BY <3>1, <3>2, <3>3, <3>4, <3>5
  <2> QED BY <2>1, <2>2
<1>2. ServiceInv /\ [ServiceNext]_serviceVars => ServiceInv'
  BY ServiceInductive
<1> QED BY <1>1, <1>2, ServiceInitially, PTL DEF ServiceSpec

-----------------------------------------------------------------------------
(* CtUuidClock.                                                              *)

(* A state file that is descriptor 0 is read and never written, so that a  *)
(* process that has crashed may begin where it had begun before.           *)
FileIsWritten == "zero" \notin StateFds

NumbersOf(c, n) == c \in Second + 1 .. MaxClock /\ n \in 0 .. MaxSets

LEMMA Numbers ==
  /\ Ticks \in Nat /\ Ticks > 0 /\ SeqSize \in Nat /\ SeqSize > 0 /\ Second \in Nat /\ Second > 0
  /\ MaxClock \in Nat /\ MaxClock > Second /\ MaxSets \in Nat /\ MaxSets < SeqSize
  BY ClockAssumption

LEMMA Fields == ASSUME NEW s \in State
  PROVE s.last \in Nat /\ s.adjustment \in 0 .. Ticks /\ s.clock_seq \in 0 .. SeqSize - 1
  BY DEF State, MAX_ADJUSTMENT

LEMMA UnsetIsState == Unset \in State
  BY Numbers DEF Unset, State, MAX_ADJUSTMENT

-----------------------------------------------------------------------------
(* The order in which UUIDs are made.                                      *)

(* c is the time of day, and n how often it has been set back.  Each time  *)
(* a sequence ends the clock has been set back; b's will end next if its   *)
(* time is ahead of the clock.                                             *)
Ahead(c, b) == IF c < b.last THEN 1 ELSE 0
Timely(c, n, b) == Ahead(c, b) <= n

Turned(seq, d) == IF seq + d < SeqSize THEN seq + d ELSE seq + d - SeqSize
Sooner(a, b) == a.last < b.last \/ (a.last = b.last /\ a.adjustment < b.adjustment)

(* b is d sequences after a, or later in the same one.                     *)
PrecedesBy(d, c, n, a, b) ==
  /\ b.clock_seq = Turned(a.clock_seq, d)
  /\ d + Ahead(c, b) <= n
  /\ d = 0 => Sooner(a, b)
Precedes(c, n, a, b) == \E d \in 0 .. MaxSets : PrecedesBy(d, c, n, a, b)

(* NextState at the time c.                                                *)
Next_seq(seq) == IF seq + 1 = SeqSize THEN 0 ELSE seq + 1

LEMMA Wraps == ASSUME NEW seq \in 0 .. SeqSize - 1
  PROVE (seq + 1) % SeqSize = Next_seq(seq)
<1> SeqSize \in Nat /\ SeqSize > 0
  BY Numbers
<1>1. CASE seq + 1 = SeqSize
  BY <1>1 DEF Next_seq
<1>2. CASE seq + 1 < SeqSize
  BY <1>2 DEF Next_seq
<1> QED
  BY <1>1, <1>2

LEMMA NextFields ==
  ASSUME NumbersOf(clock, sets), NEW s \in State, clock = s.last => s.adjustment < MAX_ADJUSTMENT
  PROVE /\ NextState(s) \in State
        /\ NextState(s).last = clock
        /\ clock < s.last => NextState(s).clock_seq = Next_seq(s.clock_seq)
        /\ clock >= s.last => NextState(s).clock_seq = s.clock_seq
        /\ clock = s.last => NextState(s).adjustment = s.adjustment + 1
<1> /\ clock \in Nat /\ SeqSize \in Nat /\ SeqSize > 0 /\ Ticks \in Nat
  BY Numbers DEF NumbersOf
<1> s.last \in Nat /\ s.adjustment \in 0 .. Ticks /\ s.clock_seq \in 0 .. SeqSize - 1
  BY Fields
<1>1. CASE clock < s.last
  <2>1. NextState(s) = [last |-> clock, adjustment |-> 0, clock_seq |-> Next_seq(s.clock_seq)]
    BY <1>1, Wraps DEF NextState
  <2>2. Next_seq(s.clock_seq) \in 0 .. SeqSize - 1
    BY DEF Next_seq
  <2> QED
    BY <1>1, <2>1, <2>2 DEF State, MAX_ADJUSTMENT
<1>2. CASE clock = s.last
  <2>1. NextState(s) = [s EXCEPT !.adjustment = @ + 1]
    BY <1>2 DEF NextState
  <2> QED
    BY <1>2, <2>1 DEF State, MAX_ADJUSTMENT
<1>3. CASE clock > s.last
  <2>1. NextState(s) = [last |-> clock, adjustment |-> 0, clock_seq |-> s.clock_seq]
    <3>1. NextState(s) = [s EXCEPT !.last = clock, !.adjustment = 0]
      BY <1>3 DEF NextState
    <3> QED
      BY <3>1 DEF State
  <2> QED
    BY <1>3, <2>1 DEF State, MAX_ADJUSTMENT
<1> QED
  BY <1>1, <1>2, <1>3

(* The next UUID comes after all that the last one comes after, and after  *)
(* the last one.                                                           *)
LEMMA NextComesAfter ==
  ASSUME NumbersOf(clock, sets), NEW a \in State, NEW s \in State,
         clock = s.last => s.adjustment < MAX_ADJUSTMENT,
         a = s \/ Precedes(clock, sets, a, s), Timely(clock, sets, s)
  PROVE Precedes(clock, sets, a, NextState(s))
<1> DEFINE t == NextState(s)
<1> /\ clock \in Nat /\ sets \in Nat /\ sets <= MaxSets /\ MaxSets \in Nat
    /\ SeqSize \in Nat /\ SeqSize > 0 /\ MaxSets < SeqSize
  BY Numbers DEF NumbersOf
<1> /\ s.last \in Nat /\ s.adjustment \in Nat /\ s.clock_seq \in 0 .. SeqSize - 1
    /\ a.last \in Nat /\ a.adjustment \in Nat /\ a.clock_seq \in 0 .. SeqSize - 1
  BY Fields, Numbers
<1>1. /\ t.last = clock /\ t.adjustment \in Nat
      /\ clock < s.last => t.clock_seq = Next_seq(s.clock_seq)
      /\ clock >= s.last => t.clock_seq = s.clock_seq
      /\ clock = s.last => t.adjustment = s.adjustment + 1
  BY NextFields, Fields, Numbers
<1> HIDE DEF t
<1>2. PICK d \in 0 .. MaxSets :
        /\ s.clock_seq = Turned(a.clock_seq, d)
        /\ d + Ahead(clock, s) <= sets
        /\ d = 0 => (a.last = s.last /\ a.adjustment = s.adjustment) \/ Sooner(a, s)
  <2>1. CASE a = s
    <3>1. a.clock_seq = Turned(a.clock_seq, 0)
      BY DEF Turned
    <3>2. 0 + Ahead(clock, s) <= sets
      BY DEF Timely, Ahead
    <3> QED
      BY <2>1, <3>1, <3>2
  <2>2. CASE Precedes(clock, sets, a, s)
    BY <2>2 DEF Precedes, PrecedesBy
  <2> QED
    BY <2>1, <2>2
<1>3. Ahead(clock, t) = 0
  BY <1>1 DEF Ahead
<1>4. CASE clock < s.last
  <2>1. Ahead(clock, s) = 1
    BY <1>4 DEF Ahead
  <2>2. d + 1 \in 0 .. MaxSets /\ d + 1 <= sets
    BY <1>2, <2>1
  <2>3. t.clock_seq = Turned(a.clock_seq, d + 1)
    BY <1>1, <1>2, <1>4, <2>2 DEF Turned, Next_seq
  <2>4. PrecedesBy(d + 1, clock, sets, a, t)
    BY <1>3, <2>2, <2>3 DEF PrecedesBy
  <2> QED
    BY <2>2, <2>4 DEF Precedes, t
<1>5. CASE clock >= s.last
  <2>1. t.clock_seq = Turned(a.clock_seq, d)
    BY <1>1, <1>2, <1>5
  <2>2. d + Ahead(clock, t) <= sets
    BY <1>2, <1>3 DEF Ahead
  <2>3. d = 0 => Sooner(a, t)
    BY <1>1, <1>2, <1>5 DEF Sooner
  <2>4. PrecedesBy(d, clock, sets, a, t)
    BY <2>1, <2>2, <2>3 DEF PrecedesBy
  <2> QED
    BY <2>4 DEF Precedes, t
<1> QED
  BY <1>4, <1>5

(* Two of one sequence are the same only at the edge of a microsecond.     *)
Apart(s, t) == SameUuid(s, t) => {s.adjustment, t.adjustment} = {0, MAX_ADJUSTMENT}

LEMMA Product == ASSUME NEW i \in Nat, NEW j \in Nat, NEW k \in Nat, i < j
  PROVE i * k + k <= j * k /\ (i + 1 < j /\ k > 0 => i * k + k < j * k)
<1>1. PICK e \in Nat : j = i + 1 + e
  <2> j - i - 1 \in Nat /\ j = i + 1 + (j - i - 1)
    OBVIOUS
  <2> QED
    OBVIOUS
<1>2. j * k = i * k + k + e * k
  BY <1>1
<1>3. e * k \in Nat
  OBVIOUS
<1>4. e > 0 /\ k > 0 => e * k > 0
  OBVIOUS
<1>5. i * k \in Nat /\ j * k \in Nat
  OBVIOUS
<1> QED
  BY <1>1, <1>2, <1>3, <1>4, <1>5

LEMMA PrecedingAreApart ==
  ASSUME NEW c \in Nat, NEW n \in 0 .. MaxSets, NEW s \in State, NEW t \in State, Precedes(c, n, s, t)
  PROVE Apart(s, t)
<1> SUFFICES ASSUME SameUuid(s, t) PROVE {s.adjustment, t.adjustment} = {0, MAX_ADJUSTMENT}
  BY DEF Apart
<1> /\ MaxSets \in Nat /\ SeqSize \in Nat /\ SeqSize > 0 /\ MaxSets < SeqSize /\ Ticks \in Nat /\ Ticks > 0
  BY Numbers
<1> /\ s.last \in Nat /\ s.adjustment \in 0 .. Ticks /\ s.clock_seq \in 0 .. SeqSize - 1
    /\ t.last \in Nat /\ t.adjustment \in 0 .. Ticks /\ t.clock_seq \in 0 .. SeqSize - 1
  BY Fields
<1>1. PICK d \in 0 .. MaxSets : PrecedesBy(d, c, n, s, t)
  BY DEF Precedes
<1>2. s.clock_seq = Turned(s.clock_seq, d)
  BY <1>1 DEF SameUuid, PrecedesBy
<1>3. d = 0
  BY <1>2 DEF Turned
<1>4. Sooner(s, t)
  BY <1>1, <1>3 DEF PrecedesBy
<1>5. s.last * Ticks + s.adjustment = t.last * Ticks + t.adjustment
  BY DEF SameUuid, Time
<1>6. s.last * Ticks \in Nat /\ t.last * Ticks \in Nat
  OBVIOUS
<1>7. s.last < t.last
  <2>1. CASE s.last = t.last /\ s.adjustment < t.adjustment
    BY <1>5, <1>6, <2>1
  <2> QED
    BY <1>4, <2>1 DEF Sooner
<1>8. s.last * Ticks + Ticks <= t.last * Ticks
  BY <1>7, Product
<1>9. s.adjustment = Ticks /\ t.adjustment = 0
  BY <1>5, <1>6, <1>8
<1> QED
  BY <1>9 DEF MAX_ADJUSTMENT

LEMMA ApartBothWays == ASSUME NEW s, NEW t, Apart(s, t) PROVE Apart(t, s)
  BY DEF Apart, SameUuid

(* Time goes on, or is set back once more.                                 *)
Elapses(c, n, c2, n2) == (c2 >= c /\ n2 = n) \/ n2 = n + 1

LEMMA TimeElapses ==
  ASSUME NEW c \in Nat, NEW n \in Nat, NEW c2 \in Nat, NEW n2 \in Nat, Elapses(c, n, c2, n2),
         NEW a \in State, NEW b \in State
  PROVE /\ Precedes(c, n, a, b) => Precedes(c2, n2, a, b)
        /\ Timely(c, n, b) => Timely(c2, n2, b)
<1> b.last \in Nat /\ MaxSets \in Nat
  BY Fields, Numbers
<1>1. ASSUME NEW d \in 0 .. MaxSets, PrecedesBy(d, c, n, a, b) PROVE PrecedesBy(d, c2, n2, a, b)
  BY <1>1 DEF PrecedesBy, Elapses, Ahead
<1>2. Timely(c, n, b) => Timely(c2, n2, b)
  BY DEF Timely, Elapses, Ahead
<1> QED
  BY <1>1, <1>2 DEF Precedes

-----------------------------------------------------------------------------
(* The invariant.                                                          *)

(* It has what it will return, and nobody else writes any more before it   *)
(* does.                                                                   *)
Issued(p) == step[p] \in {"unlock", "return"}
Preceded(a, b) == a = b \/ Precedes(clock, sets, a, b)

(* Who is between Lock and Unlock holds the lock, and works on what the    *)
(* file says.                                                              *)
Exclusion ==
  \A p \in Procs :
    /\ step[p] \in {"read", "clock", "write", "unlock"} => lock = p
    /\ step[p] = "clock" /\ file # Unset => memory[p] = file
    /\ step[p] = "write" => memory[p].last # 0
FileIsSet == file # Unset => file.last # 0

(* What has been issued comes before what is to be written, and not after  *)
(* what the file says.                                                     *)
OrderOf(a) ==
  /\ file # Unset /\ Preceded(a, file)
  /\ \A p \in Procs : step[p] = "write" => Precedes(clock, sets, a, memory[p])
Ordered ==
  /\ \A p \in Procs : Issued(p) => OrderOf(memory[p])
  /\ earlier # NoUuid => OrderOf(earlier.stamp)

AllApart ==
  \A p \in Procs : Issued(p) =>
    /\ \A q \in Procs : p # q /\ Issued(q) => Apart(memory[q], memory[p])
    /\ earlier # NoUuid => Apart(earlier.stamp, memory[p])

FileInv == state_fd = "positive" => Exclusion /\ FileIsSet /\ Ordered /\ AllApart

(* Without the file each process has its own memory.                       *)
AloneInMemory(p) ==
  /\ step[p] \notin {"lock", "write", "unlock"}
  /\ step[p] = "return" => memory[p].last # 0
  /\ earlier.proc = p =>
       /\ memory[p].last # 0
       /\ Preceded(earlier.stamp, memory[p])
       /\ step[p] = "return" => Precedes(clock, sets, earlier.stamp, memory[p])
MemoryInv == state_fd = "none" => \A p \in Procs : AloneInMemory(p)

AllTimely ==
  /\ Timely(clock, sets, file)
  /\ \A p \in Procs : Timely(clock, sets, memory[p])

IInv ==
  /\ TypeOK
  /\ earlier.proc = NoProc => earlier = NoUuid
  /\ AllTimely /\ FileInv /\ MemoryInv

LEMMA InvInit == Init => IInv
<1> SUFFICES ASSUME Init PROVE IInv
  OBVIOUS
<1> USE DEF Init
<1>1. TypeOK
  <2>1. state_fd \in StateFds /\ clock \in Second + 1 .. MaxClock /\ sets \in 0 .. MaxSets
    BY Numbers
  <2>2. /\ step \in [Procs -> {"idle", "lock", "read", "clock", "write", "unlock", "return"}]
        /\ memory \in [Procs -> State] /\ file \in State
    BY UnsetIsState
  <2>3. earlier \in [proc : Procs \cup {NoProc}, stamp : State]
    BY UnsetIsState DEF NoUuid
  <2> QED
    BY <2>1, <2>2, <2>3 DEF TypeOK
<1>2. AllTimely
  BY Numbers DEF AllTimely, Timely, Ahead, Unset
<1>3. FileInv
  BY DEF FileInv, Exclusion, FileIsSet, Ordered, AllApart, Issued
<1>4. MemoryInv
  BY ProcsAssumption DEF MemoryInv, AloneInMemory, NoUuid
<1> QED
  BY <1>1, <1>2, <1>3, <1>4 DEF IInv

LEMMA TypesAre ==
  ASSUME TypeOK
  PROVE /\ NumbersOf(clock, sets) /\ clock \in Nat /\ sets \in Nat /\ sets \in 0 .. MaxSets
        /\ file \in State /\ earlier.stamp \in State /\ \A p \in Procs : memory[p] \in State
  BY Numbers DEF TypeOK, NumbersOf

LEMMA UuidOfProc == ASSUME NEW e, e # NoUuid, e.proc = NoProc => e = NoUuid,
                           e \in [proc : Procs \cup {NoProc}, stamp : State]
  PROVE e.proc \in Procs
  OBVIOUS

-----------------------------------------------------------------------------
(* Time.                                                                   *)
LEMMA ClockKeeps == ASSUME IInv, ClockTicks \/ ClockIsSetBack PROVE IInv'
<1>1. TypeOK'
  BY Numbers DEF IInv, TypeOK, ClockTicks, ClockIsSetBack
<1>2. Elapses(clock, sets, clock', sets') /\ clock' \in Nat /\ sets' \in Nat
      /\ clock \in Nat /\ sets \in Nat
  BY <1>1, Numbers DEF IInv, TypeOK, ClockTicks, ClockIsSetBack, Elapses
<1>3. UNCHANGED <<state_fd, file, lock, step, memory, earlier>>
  BY DEF ClockTicks, ClockIsSetBack
<1>4. ASSUME NEW a \in State, NEW b \in State
      PROVE /\ Precedes(clock, sets, a, b) => Precedes(clock', sets', a, b)
            /\ Timely(clock, sets, b) => Timely(clock', sets', b)
            /\ Preceded(a, b) => (a = b \/ Precedes(clock', sets', a, b))
  BY <1>2, TimeElapses DEF Preceded
<1>5. /\ file \in State /\ earlier.stamp \in State /\ \A p \in Procs : memory[p] \in State
  BY TypesAre DEF IInv
<1>6. AllTimely'
  BY <1>3, <1>4, <1>5 DEF IInv, AllTimely
<1>7. ASSUME NEW a \in State, OrderOf(a)
      PROVE /\ file # Unset /\ (a = file \/ Precedes(clock', sets', a, file))
            /\ \A p \in Procs : step[p] = "write" => Precedes(clock', sets', a, memory[p])
  BY <1>4, <1>5, <1>7 DEF OrderOf
<1>8. FileInv'
  <2> SUFFICES ASSUME state_fd = "positive" PROVE (Exclusion /\ FileIsSet /\ Ordered /\ AllApart)'
    BY <1>3 DEF FileInv
  <2> Exclusion /\ FileIsSet /\ Ordered /\ AllApart
    BY DEF IInv, FileInv
  <2>1. Exclusion' /\ FileIsSet'
    BY <1>3 DEF Exclusion, FileIsSet
  <2>2. Ordered'
    BY <1>3, <1>5, <1>7 DEF Ordered, Issued, OrderOf, Preceded
  <2>3. AllApart'
    BY <1>3 DEF AllApart, Issued
  <2> QED
    BY <2>1, <2>2, <2>3
<1>9. MemoryInv'
  BY <1>3, <1>4, <1>5 DEF IInv, MemoryInv, AloneInMemory, Preceded
<1> QED
  BY <1>1, <1>3, <1>6, <1>8, <1>9 DEF IInv

-----------------------------------------------------------------------------
(* A process.                                                              *)

LEMMA GenerateKeeps == ASSUME IInv, NEW p \in Procs, Generate(p) PROVE IInv'
<1> USE DEF Generate, Goto, clockVars
<1>1. TypeOK'
  BY DEF IInv, TypeOK
<1>2. AllTimely'
  BY DEF IInv, AllTimely
<1>3. FileInv'
  BY DEF IInv, TypeOK, FileInv, Exclusion, FileIsSet, Ordered, AllApart, Issued, OrderOf, Preceded
<1>4. MemoryInv'
  BY DEF IInv, TypeOK, MemoryInv, AloneInMemory, Preceded
<1> QED
  BY <1>1, <1>2, <1>3, <1>4 DEF IInv

LEMMA LockKeeps == ASSUME IInv, NEW p \in Procs, Lock(p) PROVE IInv'
<1> USE DEF Lock, Goto, clockVars
<1>1. TypeOK'
  BY DEF IInv, TypeOK
<1>2. AllTimely'
  BY DEF IInv, AllTimely
<1>3. FileInv'
  <2> SUFFICES ASSUME state_fd = "positive" PROVE (Exclusion /\ FileIsSet /\ Ordered /\ AllApart)'
    BY DEF FileInv
  <2> Exclusion /\ FileIsSet /\ Ordered /\ AllApart
    BY DEF IInv, FileInv
  <2>1. step'[p] = "read" /\ \A q \in Procs : q # p => step'[q] = step[q]
    BY DEF IInv, TypeOK
  <2>2. Exclusion' /\ FileIsSet'
    BY <2>1, ProcsAssumption DEF Exclusion, FileIsSet
  <2>3. \A a : OrderOf(a) => OrderOf(a)'
    BY <2>1 DEF OrderOf, Preceded
  <2>4. \A q \in Procs : Issued(q)' => Issued(q)
    BY <2>1 DEF Issued
  <2>5. Ordered'
    BY <2>3, <2>4 DEF Ordered
  <2>6. AllApart'
    BY <2>4 DEF AllApart
  <2> QED
    BY <2>2, <2>5, <2>6
<1>4. MemoryInv'
  <2> state_fd # "none"
    BY DEF IInv, MemoryInv, AloneInMemory
  <2> QED
    BY DEF MemoryInv
<1> QED
  BY <1>1, <1>2, <1>3, <1>4 DEF IInv

LEMMA ReadKeeps == ASSUME IInv, NEW p \in Procs, Read(p) PROVE IInv'
<1> DEFINE known == IF state_fd # "none" /\ file # Unset THEN file ELSE memory[p]
<1>1. /\ step[p] = "read" /\ step' = [step EXCEPT ![p] = "clock"]
      /\ UNCHANGED <<state_fd, clock, sets, file, lock, earlier>>
      /\ memory' = [memory EXCEPT ![p] = memory'[p]]
      /\ known.last # 0 => memory'[p] = known
      /\ known.last = 0 => \E seq \in 0 .. SeqSize - 1 : memory'[p] =
           [last |-> clock - Second, adjustment |-> known.adjustment, clock_seq |-> seq]
  BY DEF IInv, TypeOK, Read, Goto, clockVars
<1>2. TypeOK /\ step \in [Procs -> {"idle", "lock", "read", "clock", "write", "unlock", "return"}]
      /\ memory \in [Procs -> State]
  BY DEF IInv, TypeOK
<1>3. NumbersOf(clock, sets) /\ clock \in Nat /\ sets \in Nat /\ file \in State /\ \A q \in Procs : memory[q] \in State
  BY <1>2, TypesAre
<1>4. known \in State
  BY <1>3
<1>5. memory'[p] \in State /\ Timely(clock, sets, memory'[p])
  <2>1. CASE known.last # 0
    BY <1>1, <1>4, <2>1 DEF IInv, AllTimely
  <2>2. CASE known.last = 0
    <3>1. known.adjustment \in 0 .. MAX_ADJUSTMENT /\ clock - Second \in Nat /\ clock >= clock - Second
      BY <1>3, <1>4, Fields, Numbers DEF MAX_ADJUSTMENT, NumbersOf
    <3> HIDE DEF known
    <3>2. PICK seq \in 0 .. SeqSize - 1 : memory'[p] =
            [last |-> clock - Second, adjustment |-> known.adjustment, clock_seq |-> seq]
      BY <1>1, <2>2 DEF known
    <3>3. memory'[p] \in State /\ memory'[p].last = clock - Second
      BY <3>1, <3>2 DEF State
    <3>4. Ahead(clock, memory'[p]) = 0
      BY <3>1, <3>3, <1>3 DEF Ahead
    <3> QED
      BY <3>3, <3>4, <1>3 DEF Timely
  <2> QED
    BY <2>1, <2>2
<1>6. TypeOK'
  BY <1>1, <1>2, <1>5 DEF TypeOK
<1>7. AllTimely'
  BY <1>1, <1>2, <1>5 DEF IInv, AllTimely
<1>8. FileInv'
  <2> SUFFICES ASSUME state_fd = "positive" PROVE (Exclusion /\ FileIsSet /\ Ordered /\ AllApart)'
    BY <1>1 DEF FileInv
  <2> Exclusion /\ FileIsSet /\ Ordered /\ AllApart
    BY DEF IInv, FileInv
  <2>1. file # Unset => memory'[p] = file
    BY <1>1 DEF FileIsSet
  <2>2. \A q \in Procs : q # p => step'[q] = step[q] /\ memory'[q] = memory[q]
    BY <1>1, <1>2
  <2>3. step'[p] = "clock"
    BY <1>1, <1>2
  <2>4. Exclusion' /\ FileIsSet'
    BY <1>1, <2>1, <2>2, <2>3 DEF Exclusion, FileIsSet
  <2>5. Ordered'
    BY <1>1, <2>2, <2>3 DEF Ordered, Issued, OrderOf, Preceded
  <2>6. AllApart'
    BY <1>1, <2>2, <2>3 DEF AllApart, Issued
  <2> QED
    BY <2>4, <2>5, <2>6
<1>9. MemoryInv'
  <2> SUFFICES ASSUME state_fd = "none", NEW q \in Procs PROVE AloneInMemory(q)'
    BY <1>1 DEF MemoryInv
  <2>1. AloneInMemory(q)
    BY DEF IInv, MemoryInv
  <2>2. CASE q = p
    <3>1. memory[p].last # 0 => memory'[p] = memory[p]
      BY <1>1
    <3> QED
      BY <1>1, <1>2, <2>1, <2>2, <3>1 DEF AloneInMemory, Preceded
  <2>3. CASE q # p
    BY <1>1, <1>2, <2>1, <2>3 DEF AloneInMemory, Preceded
  <2> QED
    BY <2>2, <2>3
<1> QED
  BY <1>1, <1>6, <1>7, <1>8, <1>9 DEF IInv

(* The choice of a UUID.                                                   *)
LEMMA ClockChooses == ASSUME IInv, NEW p \in Procs, Clock(p) PROVE IInv'
<1>1. /\ step[p] = "clock" /\ step' = [step EXCEPT ![p] = IF state_fd = "positive" THEN "write" ELSE "return"]
      /\ UNCHANGED <<state_fd, clock, sets, file, lock, earlier>>
      /\ memory' = [memory EXCEPT ![p] = NextState(memory[p])]
      /\ clock = memory[p].last => memory[p].adjustment < MAX_ADJUSTMENT
  BY DEF Clock, Goto, clockVars
<1>2. TypeOK /\ step \in [Procs -> {"idle", "lock", "read", "clock", "write", "unlock", "return"}]
      /\ memory \in [Procs -> State]
  BY DEF IInv, TypeOK
<1>3. NumbersOf(clock, sets) /\ clock \in Nat /\ sets \in Nat /\ file \in State
      /\ earlier.stamp \in State /\ \A q \in Procs : memory[q] \in State
  BY <1>2, TypesAre
<1>4. /\ memory'[p] = NextState(memory[p]) /\ memory'[p] \in State /\ memory'[p].last = clock
      /\ clock # 0
  BY <1>1, <1>2, <1>3, NextFields, Numbers DEF NumbersOf
<1>5. Timely(clock, sets, memory'[p])
  BY <1>3, <1>4 DEF Timely, Ahead
<1>6. ASSUME NEW a \in State, Preceded(a, memory[p]) PROVE Precedes(clock, sets, a, memory'[p])
  <2>1. Timely(clock, sets, memory[p])
    BY DEF IInv, AllTimely
  <2> QED
    BY <1>1, <1>3, <1>4, <1>6, <2>1, NextComesAfter DEF Preceded
<1>7. TypeOK'
  BY <1>1, <1>2, <1>4 DEF TypeOK
<1>8. AllTimely'
  BY <1>1, <1>2, <1>5 DEF IInv, AllTimely
<1>9. \A q \in Procs : q # p => step'[q] = step[q] /\ memory'[q] = memory[q]
  BY <1>1, <1>2
<1>10. FileInv'
  <2> SUFFICES ASSUME state_fd = "positive" PROVE (Exclusion /\ FileIsSet /\ Ordered /\ AllApart)'
    BY <1>1 DEF FileInv
  <2> Exclusion /\ FileIsSet /\ Ordered /\ AllApart
    BY DEF IInv, FileInv
  <2>1. step'[p] = "write"
    BY <1>1, <1>2
  <2>2. Exclusion' /\ FileIsSet'
    BY <1>1, <1>4, <1>9, <2>1 DEF Exclusion, FileIsSet
  <2>3. \A q \in Procs : step[q] # "write"
    BY <1>1 DEF Exclusion
  <2>4. ASSUME NEW a \in State, OrderOf(a) PROVE OrderOf(a)'
    <3>1. file # Unset /\ Preceded(a, file) /\ memory[p] = file
      BY <1>1, <2>4 DEF OrderOf, Exclusion
    <3>2. Precedes(clock, sets, a, memory'[p])
      BY <1>6, <3>1
    <3> QED
      BY <1>1, <1>9, <2>3, <3>1, <3>2 DEF OrderOf, Preceded
  <2>5. Ordered'
    BY <1>1, <1>3, <1>9, <2>1, <2>4 DEF Ordered, Issued
  <2>6. AllApart'
    BY <1>1, <1>9, <2>1 DEF AllApart, Issued
  <2> QED
    BY <2>2, <2>5, <2>6
<1>11. MemoryInv'
  <2> SUFFICES ASSUME state_fd = "none", NEW q \in Procs PROVE AloneInMemory(q)'
    BY <1>1 DEF MemoryInv
  <2>1. AloneInMemory(q)
    BY DEF IInv, MemoryInv
  <2>2. CASE q = p
    <3>1. step'[p] = "return"
      BY <1>1, <1>2
    <3>2. earlier.proc = p => Precedes(clock, sets, earlier.stamp, memory'[p])
      BY <1>3, <1>6, <2>1, <2>2 DEF AloneInMemory
    <3> QED
      BY <1>1, <1>4, <2>2, <3>1, <3>2 DEF AloneInMemory, Preceded
  <2>3. CASE q # p
    BY <1>1, <1>9, <2>1, <2>3 DEF AloneInMemory, Preceded
  <2> QED
    BY <2>2, <2>3
<1> QED
  BY <1>1, <1>7, <1>8, <1>10, <1>11 DEF IInv

LEMMA WriteKeeps == ASSUME IInv, NEW p \in Procs, Write(p) PROVE IInv'
<1>1. /\ step[p] = "write" /\ step' = [step EXCEPT ![p] = "unlock"]
      /\ UNCHANGED <<state_fd, clock, sets, memory, lock, earlier>>
      /\ file' = memory[p]
  BY DEF Write, Goto, clockVars
<1>2. TypeOK /\ step \in [Procs -> {"idle", "lock", "read", "clock", "write", "unlock", "return"}]
      /\ earlier \in [proc : Procs \cup {NoProc}, stamp : State]
  BY DEF IInv, TypeOK
<1>3. NumbersOf(clock, sets) /\ clock \in Nat /\ sets \in 0 .. MaxSets /\ file \in State
      /\ earlier.stamp \in State /\ \A q \in Procs : memory[q] \in State
  BY <1>2, TypesAre
<1>4. TypeOK'
  BY <1>1, <1>2, <1>3 DEF TypeOK
<1>5. AllTimely'
  BY <1>1 DEF IInv, AllTimely
<1>6. step'[p] = "unlock" /\ \A q \in Procs : q # p => step'[q] = step[q]
  BY <1>1, <1>2
<1>7. FileInv'
  <2> SUFFICES ASSUME state_fd = "positive" PROVE (Exclusion /\ FileIsSet /\ Ordered /\ AllApart)'
    BY <1>1 DEF FileInv
  <2> Exclusion /\ FileIsSet /\ Ordered /\ AllApart
    BY DEF IInv, FileInv
  <2>1. memory[p].last # 0
    BY <1>1 DEF Exclusion
  <2>2. file' # Unset
    BY <1>1, <2>1 DEF Unset
  <2>3. \A q \in Procs : q # p => step[q] \notin {"read", "clock", "write", "unlock"}
    BY <1>1 DEF Exclusion
  <2>4. Exclusion' /\ FileIsSet'
    BY <1>1, <1>6, <2>1, <2>2, <2>3 DEF Exclusion, FileIsSet
  <2>5. ASSUME NEW a \in State, OrderOf(a) PROVE OrderOf(a)' /\ Apart(a, memory[p])
    <3>1. Precedes(clock, sets, a, memory[p])
      BY <1>1, <2>5 DEF OrderOf
    <3>2. Apart(a, memory[p])
      BY <1>3, <3>1, PrecedingAreApart
    <3> QED
      BY <1>1, <1>6, <2>2, <2>3, <3>1, <3>2 DEF OrderOf, Preceded
  <2>6. OrderOf(memory[p])'
    BY <1>1, <1>6, <2>2, <2>3 DEF OrderOf, Preceded
  <2>7. Ordered'
    <3>1. ASSUME NEW q \in Procs, Issued(q)' PROVE OrderOf(memory[q])'
      <4>1. CASE q = p
        BY <2>6, <4>1
      <4>2. CASE q # p
        BY <1>1, <1>3, <1>6, <2>5, <3>1, <4>2 DEF Ordered, Issued
      <4> QED
        BY <4>1, <4>2
    <3>2. ASSUME earlier # NoUuid PROVE OrderOf(earlier.stamp)'
      BY <1>1, <1>3, <2>5, <3>2 DEF Ordered, OrderOf
    <3> QED
      BY <3>1, <3>2, <1>1 DEF Ordered
  <2>8. \A q \in Procs : q # p /\ Issued(q) => Apart(memory[q], memory[p]) /\ Apart(memory[p], memory[q])
    BY <1>3, <2>5, ApartBothWays DEF Ordered
  <2>9. earlier # NoUuid => Apart(earlier.stamp, memory[p])
    BY <1>3, <2>5 DEF Ordered
  <2>10. AllApart'
    BY <1>1, <1>6, <2>8, <2>9 DEF AllApart, Issued
  <2> QED
    BY <2>4, <2>7, <2>10
<1>8. MemoryInv'
  BY <1>1 DEF IInv, MemoryInv, AloneInMemory
<1> QED
  BY <1>1, <1>4, <1>5, <1>7, <1>8 DEF IInv

LEMMA UnlockKeeps == ASSUME IInv, NEW p \in Procs, Unlock(p) PROVE IInv'
<1> USE DEF Unlock, Goto, clockVars
<1>1. TypeOK'
  BY DEF IInv, TypeOK
<1>2. AllTimely'
  BY DEF IInv, AllTimely
<1>3. FileInv'
  <2> SUFFICES ASSUME state_fd = "positive" PROVE (Exclusion /\ FileIsSet /\ Ordered /\ AllApart)'
    BY DEF FileInv
  <2> Exclusion /\ FileIsSet /\ Ordered /\ AllApart
    BY DEF IInv, FileInv
  <2>1. step'[p] = "return" /\ \A q \in Procs : q # p => step'[q] = step[q]
    BY DEF IInv, TypeOK
  <2>2. Exclusion' /\ FileIsSet'
    BY <2>1, ProcsAssumption DEF Exclusion, FileIsSet
  <2>3. \A a : OrderOf(a) => OrderOf(a)'
    BY <2>1 DEF OrderOf, Preceded
  <2>4. \A q \in Procs : Issued(q)' => Issued(q)
    BY <2>1 DEF Issued
  <2>5. Ordered'
    BY <2>3, <2>4 DEF Ordered
  <2>6. AllApart'
    BY <2>4 DEF AllApart
  <2> QED
    BY <2>2, <2>5, <2>6
<1>4. MemoryInv'
  <2> state_fd # "none"
    BY DEF IInv, MemoryInv, AloneInMemory
  <2> QED
    BY DEF MemoryInv
<1> QED
  BY <1>1, <1>2, <1>3, <1>4 DEF IInv

LEMMA ReturnKeeps == ASSUME IInv, NEW p \in Procs, Return(p) PROVE IInv'
<1>1. /\ step[p] = "return" /\ step' = [step EXCEPT ![p] = "idle"]
      /\ UNCHANGED <<state_fd, clock, sets, file, lock, memory>>
      /\ earlier' = earlier \/ (earlier = NoUuid /\ earlier' = [proc |-> p, stamp |-> memory[p]])
  BY DEF Return, Goto, clockVars
<1>2. TypeOK /\ step \in [Procs -> {"idle", "lock", "read", "clock", "write", "unlock", "return"}]
      /\ earlier \in [proc : Procs \cup {NoProc}, stamp : State]
  BY DEF IInv, TypeOK
<1>3. \A q \in Procs : memory[q] \in State
  BY <1>2, TypesAre
<1>4. TypeOK'
  BY <1>1, <1>2, <1>3 DEF TypeOK
<1>5. AllTimely'
  BY <1>1 DEF IInv, AllTimely
<1>6. step'[p] = "idle" /\ \A q \in Procs : q # p => step'[q] = step[q]
  BY <1>1, <1>2
<1>7. earlier'.proc = NoProc => earlier' = NoUuid
  BY <1>1, ProcsAssumption DEF IInv
<1>8. FileInv'
  <2> SUFFICES ASSUME state_fd = "positive" PROVE (Exclusion /\ FileIsSet /\ Ordered /\ AllApart)'
    BY <1>1 DEF FileInv
  <2> Exclusion /\ FileIsSet /\ Ordered /\ AllApart
    BY DEF IInv, FileInv
  <2>1. Exclusion' /\ FileIsSet'
    BY <1>1, <1>6 DEF Exclusion, FileIsSet
  <2>2. \A a : OrderOf(a) => OrderOf(a)'
    BY <1>1, <1>6 DEF OrderOf, Preceded
  <2>3. Issued(p)
    BY <1>1 DEF Issued
  <2>4. \A q \in Procs : Issued(q)' => q # p /\ Issued(q)
    BY <1>6 DEF Issued
  <2>5. Ordered'
    <3>1. \A q \in Procs : Issued(q)' => OrderOf(memory[q])'
      BY <1>1, <2>2, <2>4 DEF Ordered, OrderOf
    <3>2. earlier' # NoUuid => earlier'.stamp = memory[p] \/ (earlier # NoUuid /\ earlier'.stamp = earlier.stamp)
      BY <1>1
    <3> QED
      BY <1>1, <2>2, <2>3, <3>1, <3>2 DEF Ordered
  <2>6. AllApart'
    BY <1>1, <2>3, <2>4 DEF AllApart
  <2> QED
    BY <2>1, <2>5, <2>6
<1>9. MemoryInv'
  <2> SUFFICES ASSUME state_fd = "none", NEW q \in Procs PROVE AloneInMemory(q)'
    BY <1>1 DEF MemoryInv
  <2>1. AloneInMemory(q) /\ AloneInMemory(p)
    BY DEF IInv, MemoryInv
  <2>2. CASE q = p
    BY <1>1, <1>6, <2>1, <2>2 DEF AloneInMemory, Preceded
  <2>3. CASE q # p
    BY <1>1, <1>6, <2>1, <2>3 DEF AloneInMemory, Preceded
  <2> QED
    BY <2>2, <2>3
<1> QED
  BY <1>4, <1>5, <1>7, <1>8, <1>9 DEF IInv
(* What was issued and not returned yet is as if it never had been.        *)
LEMMA CrashKeeps == ASSUME IInv, NEW p \in Procs, Crash(p) PROVE IInv'
<1>1. /\ step' = [step EXCEPT ![p] = "idle"] /\ memory' = [memory EXCEPT ![p] = Unset]
      /\ UNCHANGED <<state_fd, clock, sets, file>>
      /\ lock' = IF lock = p THEN NoProc ELSE lock
      /\ earlier' = IF state_fd = "none" /\ earlier.proc = p THEN NoUuid ELSE earlier
  BY DEF Crash, clockVars
<1>2. TypeOK /\ step \in [Procs -> {"idle", "lock", "read", "clock", "write", "unlock", "return"}]
      /\ memory \in [Procs -> State] /\ clock \in Nat /\ sets \in Nat
  BY TypesAre DEF IInv, TypeOK
<1>3. TypeOK'
  BY <1>1, <1>2, UnsetIsState DEF TypeOK, NoUuid
<1>4. /\ step'[p] = "idle" /\ memory'[p] = Unset
      /\ \A q \in Procs : q # p => step'[q] = step[q] /\ memory'[q] = memory[q]
  BY <1>1, <1>2
<1>5. AllTimely'
  <2>1. Timely(clock, sets, Unset)
    BY <1>2 DEF Timely, Ahead, Unset
  <2> QED
    BY <1>1, <1>4, <2>1 DEF IInv, AllTimely
<1>6. earlier'.proc = NoProc => earlier' = NoUuid
  BY <1>1 DEF IInv
<1>7. FileInv'
  <2> SUFFICES ASSUME state_fd = "positive" PROVE (Exclusion /\ FileIsSet /\ Ordered /\ AllApart)'
    BY <1>1 DEF FileInv
  <2> Exclusion /\ FileIsSet /\ Ordered /\ AllApart
    BY DEF IInv, FileInv
  <2>1. Exclusion' /\ FileIsSet'
    BY <1>1, <1>4 DEF Exclusion, FileIsSet
  <2>2. \A a : OrderOf(a) => OrderOf(a)'
    BY <1>1, <1>4 DEF OrderOf, Preceded
  <2>3. \A q \in Procs : Issued(q)' => q # p /\ Issued(q)
    BY <1>4 DEF Issued
  <2>4. earlier' = earlier
    BY <1>1
  <2>5. Ordered'
    <3>1. \A q \in Procs : Issued(q)' => OrderOf(memory[q])'
      BY <1>4, <2>2, <2>3 DEF Ordered, OrderOf
    <3>2. earlier # NoUuid => OrderOf(earlier.stamp)'
      BY <2>2, <2>4 DEF Ordered, OrderOf
    <3> QED
      BY <2>4, <3>1, <3>2 DEF Ordered
  <2>6. AllApart'
    BY <1>4, <2>3, <2>4 DEF AllApart
  <2> QED
    BY <2>1, <2>5, <2>6
<1>8. MemoryInv'
  <2> SUFFICES ASSUME state_fd = "none", NEW q \in Procs PROVE AloneInMemory(q)'
    BY <1>1 DEF MemoryInv
  <2>1. AloneInMemory(q)
    BY DEF IInv, MemoryInv
  <2>2. CASE q = p
    <3>1. earlier'.proc # p
      BY <1>1, ProcsAssumption DEF NoUuid
    <3> QED
      BY <1>4, <2>2, <3>1 DEF AloneInMemory
  <2>3. CASE q # p
    <3>1. earlier'.proc = q => earlier' = earlier
      BY <1>1, ProcsAssumption DEF NoUuid
    <3> QED
      BY <1>1, <1>4, <2>1, <2>3, <3>1 DEF AloneInMemory, Preceded
  <2> QED
    BY <2>2, <2>3
<1> QED
  BY <1>3, <1>5, <1>6, <1>7, <1>8 DEF IInv

LEMMA IInvKept == IInv /\ [Next]_vars => IInv'
<1> SUFFICES ASSUME IInv, [Next]_vars PROVE IInv'
  OBVIOUS
<1>1. CASE ClockTicks \/ ClockIsSetBack
  BY <1>1, ClockKeeps
<1>2. CASE \E p \in Procs : Process(p)
  BY <1>2, GenerateKeeps, LockKeeps, ReadKeeps, ClockChooses, WriteKeeps, UnlockKeeps, ReturnKeeps DEF Process
<1>3. CASE \E p \in Procs : Crash(p)
  BY <1>3, CrashKeeps
<1>4. CASE UNCHANGED vars
  BY <1>4 DEF vars, IInv, TypeOK, AllTimely, FileInv, Exclusion, FileIsSet, Ordered, AllApart, Issued, OrderOf,
              MemoryInv, AloneInMemory, Preceded
<1> QED
  BY <1>1, <1>2, <1>3, <1>4 DEF Next

LEMMA IInvSuffices == ASSUME FileIsWritten, IInv PROVE UniqueButAtEdge
<1> SUFFICES ASSUME NEW p \in Procs, step[p] = "return", earlier # NoUuid, SameUuid(earlier.stamp, memory[p]),
                    ~(state_fd = "none" /\ earlier.proc # p)
             PROVE {earlier.stamp.adjustment, memory[p].adjustment} = {0, MAX_ADJUSTMENT}
  BY DEF UniqueButAtEdge
<1>1. state_fd \in {"none", "positive"}
  BY ClockAssumption DEF IInv, TypeOK, FileIsWritten
<1>2. CASE state_fd = "positive"
  <2>1. Apart(earlier.stamp, memory[p])
    BY <1>2 DEF IInv, FileInv, AllApart, Issued
  <2> QED
    BY <2>1 DEF Apart
<1>3. CASE state_fd = "none"
  <2>1. Precedes(clock, sets, earlier.stamp, memory[p])
    BY <1>3 DEF IInv, MemoryInv, AloneInMemory
  <2>2. Apart(earlier.stamp, memory[p])
    BY <2>1, PrecedingAreApart, TypesAre DEF IInv
  <2> QED
    BY <2>2 DEF Apart
<1> QED
  BY <1>1, <1>2, <1>3

(* The variables keep their types.                                         *)
THEOREM UuidTypesHold == Spec => []TypeOK
<1>1. IInv /\ [Next]_vars => IInv'
  BY IInvKept
<1>2. IInv => TypeOK
  BY DEF IInv
<1> QED
  BY <1>1, <1>2, InvInit, PTL DEF Spec

(* No UUID is made twice, but for the one that a microsecond has too many, *)
(* however the clock is set back (less often than there are sequences),    *)
(* whichever processes share the state file and wherever they crash.       *)
THEOREM UuidsDiffer == ASSUME FileIsWritten PROVE Spec => []UniqueButAtEdge
<1>1. IInv /\ [Next]_vars => IInv'
  BY IInvKept
<1>2. IInv => UniqueButAtEdge
  BY IInvSuffices
<1> QED
  BY <1>1, <1>2, InvInit, PTL DEF Spec
=============================================================================

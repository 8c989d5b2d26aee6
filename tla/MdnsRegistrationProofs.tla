----------------------- MODULE MdnsRegistrationProofs -----------------------
(* Proofs about MdnsRegistration.                                           *)
EXTENDS MdnsRegistration, TLAPS

-----------------------------------------------------------------------------
(* Types.                                                                   *)

(* A record, and what the list it is on says of it.                         *)
Proper(a) ==
  /\ a \in AuthRecord
  /\ (a.list = "none") <=> (a.RecordType = "Unregistered")
  /\ a.list = "duplicate" => a.RecordType # "Deregistering"
  /\ a.list # "none" => a.rdata \in RData

AllProper == rr \in [Records -> AuthRecord] /\ \A r \in Records : Proper(rr[r])

LEMMA TypeIs ==
  RegistrationTypeOK <=> /\ AllProper /\ net \subseteq Packet /\ ShutdownTime \in [Hosts -> BOOLEAN]
             /\ callsMade \in 0 .. MaxCallsMade /\ updated \subseteq Hosts
<1>1. (\A r \in Records : Proper(rr[r])) /\ rr \in [Records -> AuthRecord]
        <=> /\ rr \in [Records -> AuthRecord]
            /\ \A r \in Records :
                 /\ (rr[r].list = "none") <=> (rr[r].RecordType = "Unregistered")
                 /\ rr[r].list = "duplicate" => rr[r].RecordType # "Deregistering"
                 /\ rr[r].list # "none" => rr[r].rdata \in RData
  BY DEF Proper
<1> QED
  BY <1>1 DEF RegistrationTypeOK, AllProper

LEMMA UnregisteredProper == Proper(Unregistered)
  BY RegistrationAssumption
  DEF Proper, Unregistered, AuthRecord, RecordTypes, UniqueMask, ActiveMask, ImmedAnswers

LEMMA NewRecordFields ==
  ASSUME NEW type, NEW data
  PROVE  LET a == NewRecord(type, data) IN
         /\ a.RecordType = type /\ a.list = "main" /\ a.rdata = data /\ a.NewRData = NoRData
         /\ a.ProbeCount = IF type = "Unique" THEN Probes ELSE 0
         /\ a.wait = IF type = "Unique" THEN 1 ELSE 0
         /\ a.recent = Deferral /\ a.AnnounceCount = Announcements /\ a.ImmedAnswer = "no"
  BY DEF NewRecord

LEMMA NewRecordProper ==
  ASSUME NEW type \in {"Unique", "Shared", "KnownUnique"}, NEW data \in RData
  PROVE  Proper(NewRecord(type, data))
<1>1. type \in RecordTypes /\ "no" \in ImmedAnswers
  BY DEF RecordTypes, UniqueMask, ActiveMask, ImmedAnswers
<1>2. /\ Probes \in 0 .. Probes + 1 /\ 0 \in 0 .. Probes + 1
      /\ 0 \in 0 .. Deferral /\ 1 \in 0 .. Deferral /\ Deferral \in 0 .. Deferral
      /\ Announcements \in 0 .. Announcements + Goodbyes
  BY RegistrationAssumption
<1>3. (type # "Unique") \in BOOLEAN
  OBVIOUS
<1>4. NewRecord(type, data) \in AuthRecord
  BY <1>1, <1>2, <1>3 DEF AuthRecord, NewRecord
<1> QED
  BY <1>4, NewRecordFields DEF Proper

(* The changes that the actions make to a record.                           *)
Announcing(a, n) == [a EXCEPT !.AnnounceCount = n]
Answering(a, x) == [a EXCEPT !.ImmedAnswer = x]
Replied(a) == [a EXCEPT !.RequireGoodbye = TRUE, !.ImmedAnswer = "no"]
Updated(a, data) ==
  [a EXCEPT !.NewRData = data, !.AnnounceCount = Announcements, !.recent = Deferral,
            !.wait = IF a.ProbeCount > 0 THEN @ ELSE 0]
NotUpdated(a) == [a EXCEPT !.NewRData = NoRData]
Completed(a) ==
  [a EXCEPT !.NewRData = NoRData, !.rdata = IF a.NewRData = NoRData THEN @ ELSE a.NewRData]
Queued(a, n) == [a EXCEPT !.list = "duplicate", !.ProbeCount = n]
Cleared(a) == [a EXCEPT !.ProbeCount = 0, !.Acknowledged = TRUE]
Promoted(a) == [a EXCEPT !.list = "main", !.AnnounceCount = 0, !.RequireGoodbye = FALSE]
Elapsed(a) == [a EXCEPT !.wait = Less(@), !.recent = Less(@)]

(* The fields that say where a record stands; the others are for the        *)
(* clients and the goodbyes.                                                *)
Alike(a, b) ==
  /\ a.list = b.list /\ a.RecordType = b.RecordType
  /\ a.rdata = b.rdata /\ a.NewRData = b.NewRData

LEMMA AnnouncingFields ==
  ASSUME NEW a, Proper(a), NEW n \in 0 .. Announcements + Goodbyes
  PROVE  /\ Proper(Announcing(a, n)) /\ Alike(Announcing(a, n), a)
         /\ Announcing(a, n).AnnounceCount = n
  BY DEF Proper, AuthRecord, Announcing, Alike

LEMMA AnsweringFields ==
  ASSUME NEW a, Proper(a), NEW x \in ImmedAnswers
  PROVE  LET b == Answering(a, x) IN
         /\ Proper(b) /\ Alike(b, a) /\ b.ImmedAnswer = x
         /\ b.ProbeCount = a.ProbeCount /\ b.wait = a.wait /\ b.recent = a.recent
         /\ b.AnnounceCount = a.AnnounceCount
  BY DEF Proper, AuthRecord, Answering, Alike

LEMMA RepliedFields ==
  ASSUME NEW a, Proper(a)
  PROVE  LET b == Replied(a) IN
         /\ Proper(b) /\ Alike(b, a) /\ b.ImmedAnswer = "no"
         /\ b.ProbeCount = a.ProbeCount /\ b.wait = a.wait /\ b.recent = a.recent
         /\ b.AnnounceCount = a.AnnounceCount
<1>1. "no" \in ImmedAnswers
  BY DEF ImmedAnswers
<1> QED
  BY <1>1 DEF Proper, AuthRecord, Replied, Alike

LEMMA UpdatedFields ==
  ASSUME NEW a, Proper(a), NEW data \in RData
  PROVE  LET b == Updated(a, data)
             c == NotUpdated(a)
         IN
         /\ Proper(b) /\ b.list = a.list /\ b.RecordType = a.RecordType /\ b.rdata = a.rdata
         /\ b.NewRData = data /\ b.ProbeCount = a.ProbeCount
         /\ b.wait = IF a.ProbeCount > 0 THEN a.wait ELSE 0
         /\ b.AnnounceCount = Announcements /\ b.ImmedAnswer = a.ImmedAnswer
         /\ Proper(c) /\ c.list = a.list /\ c.RecordType = a.RecordType /\ c.rdata = a.rdata
         /\ c.NewRData = NoRData /\ c.ProbeCount = a.ProbeCount /\ c.wait = a.wait
         /\ c.recent = a.recent /\ c.AnnounceCount = a.AnnounceCount
         /\ c.ImmedAnswer = a.ImmedAnswer
<1>1. /\ Deferral \in 0 .. Deferral /\ 0 \in 0 .. Deferral
      /\ Announcements \in 0 .. Announcements + Goodbyes
  BY RegistrationAssumption
<1> QED
  BY <1>1 DEF Proper, AuthRecord, Updated, NotUpdated

LEMMA CompletedFields ==
  ASSUME NEW a, Proper(a)
  PROVE  LET b == Completed(a) IN
         /\ Proper(b) /\ b.list = a.list /\ b.RecordType = a.RecordType /\ b.NewRData = NoRData
         /\ b.rdata = IF a.NewRData = NoRData THEN a.rdata ELSE a.NewRData
  BY DEF Proper, AuthRecord, Completed

LEMMA QueuedFields ==
  ASSUME NEW a, Proper(a), a.list = "main", a.RecordType # "Deregistering", NEW n \in 0 .. Probes
  PROVE  LET b == Queued(a, n) IN
         /\ Proper(b) /\ b.list = "duplicate" /\ b.RecordType = a.RecordType
         /\ b.rdata = a.rdata /\ b.NewRData = a.NewRData
<1>1. n \in 0 .. Probes + 1
  BY RegistrationAssumption
<1> QED
  BY <1>1 DEF Proper, AuthRecord, Queued

LEMMA ClearedFields ==
  ASSUME NEW a, Proper(a)
  PROVE  Proper(Cleared(a)) /\ Alike(Cleared(a), a)
<1>1. 0 \in 0 .. Probes + 1
  BY RegistrationAssumption
<1> QED
  BY <1>1 DEF Proper, AuthRecord, Cleared, Alike

LEMMA PromotedFields ==
  ASSUME NEW a, Proper(a), a.list = "duplicate"
  PROVE  LET b == Promoted(a) IN
         /\ Proper(b) /\ b.list = "main" /\ b.RecordType = a.RecordType
         /\ b.rdata = a.rdata /\ b.NewRData = a.NewRData
<1>1. 0 \in 0 .. Announcements + Goodbyes
  BY RegistrationAssumption
<1> QED
  BY <1>1 DEF Proper, AuthRecord, Promoted

LEMMA ElapsedFields ==
  ASSUME NEW a, Proper(a)
  PROVE  LET b == Elapsed(a) IN
         /\ Proper(b) /\ Alike(b, a) /\ b.ProbeCount = a.ProbeCount
         /\ b.wait = Less(a.wait) /\ b.recent = Less(a.recent)
         /\ b.AnnounceCount = a.AnnounceCount /\ b.ImmedAnswer = a.ImmedAnswer
<1>1. a.wait \in 0 .. Deferral /\ a.recent \in 0 .. Deferral /\ Deferral \in Nat
  BY RegistrationAssumption DEF Proper, AuthRecord
<1>2. Less(a.wait) \in 0 .. Deferral /\ Less(a.recent) \in 0 .. Deferral
  BY <1>1 DEF Less
<1> QED
  BY <1>2 DEF Proper, AuthRecord, Elapsed, Alike

LEMMA DepartedFields ==
  ASSUME NEW a, Proper(a), NEW n \in 0 .. Announcements + Goodbyes
  PROVE  /\ \/ Departed(a, n) = Unregistered
            \/ /\ a.RecordType = "Shared"
               /\ Departed(a, n).RecordType = "Deregistering"
               /\ Departed(a, n).list = a.list /\ Departed(a, n).rdata = a.rdata
               /\ Departed(a, n).NewRData = a.NewRData
         /\ a.list = "main" => Proper(Departed(a, n))
<1>1. Proper(Unregistered)
  BY UnregisteredProper
<1>2. "Deregistering" \in RecordTypes
  BY DEF RecordTypes
<1> QED
  BY <1>1, <1>2 DEF Departed, Proper, AuthRecord

LEMMA SuccessorFields ==
  ASSUME NEW a, Proper(a), NEW d, Proper(d)
  PROVE  /\ Proper(Successor(a, d))
         /\ LET b == Successor(a, d) IN
            /\ b.list = a.list /\ b.RecordType = a.RecordType /\ b.rdata = a.rdata
            /\ b.NewRData = d.NewRData
            /\ b.ProbeCount = a.ProbeCount /\ b.wait = a.wait /\ b.recent = a.recent
            /\ b.AnnounceCount = a.AnnounceCount /\ b.ImmedAnswer = a.ImmedAnswer
<1>1. d.NewRData \in RData \cup {NoRData} /\ d.Acknowledged \in BOOLEAN
  BY DEF Proper, AuthRecord
<1> QED
  BY <1>1 DEF Successor, Proper, AuthRecord

(* How many probes have been sent counts from Probes down.                  *)
Left(a) == (IF a.ProbeCount > Probes THEN Probes ELSE a.ProbeCount) - 1

LEMMA AfterProbeFields ==
  ASSUME NEW a, Proper(a), a.ProbeCount > 0
  PROVE  /\ Proper(AfterProbe(a)) /\ Alike(AfterProbe(a), a)
         /\ LET b == AfterProbe(a) IN
            /\ b.ProbeCount = Left(a) /\ b.ProbeCount \in 0 .. Probes - 1 /\ b.wait = 1
            /\ b.recent = a.recent /\ b.AnnounceCount = a.AnnounceCount
            /\ b.ImmedAnswer = a.ImmedAnswer
<1>1. a.ProbeCount \in 0 .. Probes + 1 /\ Probes \in Nat \ {0} /\ Deferral \in Nat \ {0}
  BY RegistrationAssumption DEF Proper, AuthRecord
<1>2. Left(a) \in 0 .. Probes - 1 /\ Left(a) \in 0 .. Probes + 1 /\ 1 \in 0 .. Deferral
  BY <1>1 DEF Left
<1>3. (a.Acknowledged \/ Left(a) = 0) \in BOOLEAN
  OBVIOUS
<1>4. AfterProbe(a) = [a EXCEPT !.ProbeCount = Left(a), !.wait = 1,
                                !.Acknowledged = @ \/ Left(a) = 0]
  BY DEF AfterProbe, Left
<1> QED
  BY <1>2, <1>3, <1>4 DEF Proper, AuthRecord, Alike

LEMMA VerifiedFields ==
  ASSUME NEW a, Proper(a), a.list # "none"
  PROVE  /\ Proper(Verified(a))
         /\ LET b == Verified(a) IN
            /\ b.RecordType = "Verified" /\ b.list = a.list /\ b.rdata = a.rdata
            /\ b.NewRData = a.NewRData
            /\ b.recent = a.recent /\ b.AnnounceCount = a.AnnounceCount
            /\ b.ImmedAnswer = a.ImmedAnswer
<1>1. "Verified" \in RecordTypes
  BY DEF RecordTypes, UniqueMask
<1> QED
  BY <1>1 DEF Proper, AuthRecord, Verified

LEMMA AfterMulticastFields ==
  ASSUME NEW a, Proper(a), NEW isDue \in BOOLEAN, isDue => a.AnnounceCount > 0
  PROVE  /\ Proper(AfterMulticast(a, isDue))
         /\ LET b == AfterMulticast(a, isDue) IN
            /\ b.RecordType = a.RecordType /\ b.list = a.list
            /\ b.ProbeCount = a.ProbeCount /\ b.wait = a.wait
            /\ b.recent = Deferral /\ b.ImmedAnswer = "no" /\ b.NewRData = NoRData
            /\ b.rdata = IF a.NewRData = NoRData THEN a.rdata ELSE a.NewRData
<1>1. a.AnnounceCount \in 0 .. Announcements + Goodbyes
  BY DEF Proper, AuthRecord
<1>2. isDue => a.AnnounceCount - 1 \in 0 .. Announcements + Goodbyes
  BY <1>1, RegistrationAssumption
<1>3. /\ a.NewRData \in RData \cup {NoRData} /\ "no" \in ImmedAnswers /\ Deferral \in 0 .. Deferral
      /\ (a.RecordType # "Deregistering") \in BOOLEAN
  BY RegistrationAssumption DEF Proper, AuthRecord, ImmedAnswers
<1> QED
  BY <1>1, <1>2, <1>3 DEF Proper, AuthRecord, AfterMulticast

LEMMA ProbeAgainFields ==
  ASSUME NEW a, Proper(a), a.list = "main", NEW n \in 0 .. Probes + 1, NEW k \in 0 .. Deferral
  PROVE  /\ Proper(ProbeAgain(a, n, k))
         /\ LET b == ProbeAgain(a, n, k) IN
            /\ b.RecordType = "Unique" /\ b.list = a.list /\ b.rdata = a.rdata
            /\ b.NewRData = a.NewRData /\ b.ProbeCount = n /\ b.wait = k
            /\ b.recent = Deferral /\ b.AnnounceCount = Announcements
            /\ b.ImmedAnswer = a.ImmedAnswer
<1>1. /\ "Unique" \in RecordTypes /\ Deferral \in 0 .. Deferral
      /\ Announcements \in 0 .. Announcements + Goodbyes
  BY RegistrationAssumption DEF RecordTypes, UniqueMask
<1> QED
  BY <1>1 DEF Proper, AuthRecord, ProbeAgain

LEMMA SeenIdenticalIs ==
  ASSUME NEW a, Proper(a), NEW p
  PROVE  \E x \in {a.ImmedAnswer, "no", "all"} :
           /\ SeenIdentical(a, p) = Answering(a, x) /\ x \in ImmedAnswers
           /\ a.RecordType # "Deregistering" /\ p.goodbye =>
                x = IF a.ImmedAnswer = "no" THEN "all" ELSE a.ImmedAnswer
           /\ ~p.goodbye => x = IF a.ImmedAnswer = "mark" THEN "mark" ELSE "no"
<1>1. a.ImmedAnswer \in ImmedAnswers /\ "no" \in ImmedAnswers /\ "all" \in ImmedAnswers
  BY DEF Proper, AuthRecord, ImmedAnswers
<1>2. CASE ~p.goodbye \/ a.RecordType = "Deregistering"
  BY <1>1, <1>2 DEF SeenIdentical, Answering
<1>3. CASE p.goodbye /\ a.RecordType # "Deregistering"
  BY <1>1, <1>3 DEF SeenIdentical, Answering
<1> QED
  BY <1>2, <1>3

LEMMA InitTypes == RegistrationInit => RegistrationTypeOK
<1> SUFFICES ASSUME RegistrationInit PROVE RegistrationTypeOK
  OBVIOUS
<1>1. AllProper
  BY UnregisteredProper DEF RegistrationInit, AllProper, Proper
<1> QED
  BY <1>1, TypeIs, RegistrationAssumption DEF RegistrationInit

-----------------------------------------------------------------------------
(* SendResponses, for each of the host's records.                           *)

(* r is sent to every host, with its new contents.                          *)
Multicast(r) ==
  \A t \in Hosts : \E p \in net' :
    /\ p.kind = "answer" /\ p.to = t
    /\ p.rdata = IF rr[r].NewRData = NoRData \/ rr[r].RecordType = "Deregistering"
                 THEN rr[r].rdata ELSE rr[r].NewRData
    /\ p.goodbye <=> rr[r].RecordType = "Deregistering"

ReplySent(r) ==
  \E p \in net' :
    /\ p.kind = "answer" /\ p.to = rr[r].ImmedAnswer /\ p.rdata = rr[r].rdata
    /\ p.goodbye <=> rr[r].RecordType = "Deregistering"

(* What becomes of it.                                                      *)
TakesOver(r) ==
  /\ rr[r].list = "duplicate" /\ rr[r].RecordType = "Shared"
  /\ rr'[r] = Promoted(rr[r])

Responded(r) ==
  \/ rr'[r] = Unregistered /\ rr[r].RecordType = "Deregistering"
  \/ \E isDue \in BOOLEAN :
       /\ rr'[r] = AfterMulticast(rr[r], isDue) /\ Multicast(r)
       /\ isDue => Sendable(rr[r])
       /\ rr[r].RecordType = "Unique" => rr[r].ImmedAnswer \in {"all", "mark"}
  \/ /\ rr'[r] = Replied(rr[r])
     /\ rr[r].ImmedAnswer \in Hosts /\ ReplySent(r)
  \/ /\ rr[r].ImmedAnswer \notin {"all", "mark"} \cup Hosts
     /\ \/ rr'[r] = rr[r]
        \/ rr[r].RecordType = "Deregistering" /\ rr'[r] = Completed(rr[r])

LEMMA AnswerFields ==
  ASSUME NEW h, NEW a, NEW data, NEW bye, NEW t
  PROVE  /\ LET p == Answer(h, a, data, bye) IN
            p.kind = "answer" /\ p.from = h /\ p.to = h /\ p.rdata = data /\ p.goodbye = bye
         /\ LET p == [Answer(h, a, data, bye) EXCEPT !.to = t] IN
            p.kind = "answer" /\ p.from = h /\ p.to = t /\ p.rdata = data /\ p.goodbye = bye
  BY DEF Answer

LEMMA AnswerType ==
  ASSUME NEW h \in Hosts, NEW a, NEW data \in RData, NEW bye \in BOOLEAN, NEW t \in Hosts
  PROVE  [Answer(h, a, data, bye) EXCEPT !.to = t] \in Packet
<1>1. (a.RecordType \in UniqueMask) \in BOOLEAN
  OBVIOUS
<1> QED
  BY <1>1 DEF Answer, Packet

(* The parts of SendResponses, by name.                                     *)
Unicast(h) == {r \in ResourceRecords(h) : rr[r].ImmedAnswer \in Hosts}
Asked(h, due) == {r \in ResourceRecords(h) : rr[r].ImmedAnswer \in {"all", "mark"}} \cup due
Marked(h, due) ==
  Asked(h, due) \cup
    (IF \E r \in Asked(h, due) : rr[r].RecordType \in UniqueMask
     THEN {r \in ResourceRecords(h) : rr[r].RecordType \in ActiveMask} ELSE {})
After(h, due) ==
  [r \in ResourceRecords(h) |->
     IF r \in Marked(h, due) THEN AfterMulticast(rr[r], r \in due)
     ELSE IF r \in Unicast(h) THEN Replied(rr[r])
     ELSE IF rr[r].RecordType = "Deregistering" THEN Completed(rr[r])
     ELSE rr[r]]
Complete(h, due) ==
  {r \in ResourceRecords(h) : After(h, due)[r].RecordType = "Deregistering"
                                 /\ After(h, due)[r].AnnounceCount = 0}
Heir(h, due, r) ==
  {d \in DuplicateRecords(h) :
     rr[d].RecordType = "Shared" /\ rr[d].rdata = After(h, due)[r].rdata}
Bye(h, r) == Answer(h, rr[r], rr[r].rdata, TRUE)
Sent(h, r) ==
  Answer(h, rr[r],
         IF rr[r].NewRData = NoRData \/ rr[r].RecordType = "Deregistering"
         THEN rr[r].rdata ELSE rr[r].NewRData,
         rr[r].RecordType = "Deregistering")
Reply(h, r) ==
  [Answer(h, rr[r], rr[r].rdata, rr[r].RecordType = "Deregistering")
     EXCEPT !.to = rr[r].ImmedAnswer]


ResponseRecords(h, due) ==
  \E heirs \in SUBSET UNION {Heir(h, due, r) : r \in Complete(h, due)} :
    rr' = [r \in Records |->
             IF r \in Complete(h, due) THEN Unregistered
             ELSE IF r \in ResourceRecords(h) THEN After(h, due)[r]
             ELSE IF r \in heirs
             THEN Promoted(rr[r])
             ELSE rr[r]]
ResponseNet(h, due) ==
  net' = net \cup ToAll(h, {Bye(h, r) : r \in {q \in Marked(h, due) : Outdated(rr[q])}}
                             \cup {Sent(h, r) : r \in Marked(h, due)})
             \cup {Reply(h, r) : r \in Unicast(h)}

LEMMA ResponseIs ==
  ASSUME NEW h, NEW due, SendResponses(h, due)
  PROVE  /\ due \subseteq {r \in ResourceRecords(h) : Sendable(rr[r])}
         /\ ResponseRecords(h, due)
         /\ ResponseNet(h, due)
         /\ UNCHANGED <<ShutdownTime, callsMade, updated>>
  BY DEF SendResponses, Unicast, Asked, Marked, After, Complete, Heir, Bye, Sent, Reply,
         ResponseRecords, ResponseNet, Replied, Completed, Promoted

LEMMA MarkedIs ==
  ASSUME NEW h, NEW due, due \subseteq {r \in ResourceRecords(h) : Sendable(rr[r])}
  PROVE  /\ Marked(h, due) \subseteq ResourceRecords(h) /\ due \subseteq Marked(h, due)
         /\ \A r \in ResourceRecords(h) :
              rr[r].ImmedAnswer \in {"all", "mark"} => r \in Marked(h, due)
         /\ \A r \in Marked(h, due) :
              /\ r \in due => Sendable(rr[r])
              /\ rr[r].RecordType = "Unique" => rr[r].ImmedAnswer \in {"all", "mark"}
<1>1. Marked(h, due) \subseteq ResourceRecords(h) /\ due \subseteq Marked(h, due)
  BY DEF Marked, Asked
<1>2. \A r \in ResourceRecords(h) : rr[r].ImmedAnswer \in {"all", "mark"} => r \in Marked(h, due)
  BY DEF Marked, Asked
<1>3. ASSUME NEW r \in Marked(h, due)
      PROVE  rr[r].RecordType = "Unique" => rr[r].ImmedAnswer \in {"all", "mark"}
  <2>1. rr[r].RecordType = "Unique" =>
          /\ rr[r].RecordType \notin ActiveMask
          /\ r \in due => rr[r].ImmedAnswer \in {"all", "mark"}
    BY DEF ActiveMask, Sendable
  <2> QED
    BY <2>1, <1>3 DEF Marked, Asked
<1> QED
  BY <1>1, <1>2, <1>3

LEMMA AfterType ==
  ASSUME NEW a, Proper(a), NEW isDue \in BOOLEAN
  PROVE  /\ AfterMulticast(a, isDue).RecordType = a.RecordType
         /\ Replied(a).RecordType = a.RecordType
  BY DEF AfterMulticast, Replied, Proper, AuthRecord

LEMMA ResponseStep ==
  ASSUME RegistrationTypeOK, NEW h \in Hosts, NEW due, SendResponses(h, due)
  PROVE  /\ rr' = [r \in Records |-> rr'[r]]
         /\ \A r \in Records :
              IF r \in ResourceRecords(h) THEN Responded(r)
              ELSE rr'[r] = rr[r] \/ (HostOf[r] = h /\ TakesOver(r))
<1>0. ResponseRecords(h, due)
  BY ResponseIs
<1>1. PICK heirs \in SUBSET UNION {Heir(h, due, r) : r \in Complete(h, due)} :
        rr' = [r \in Records |->
                 IF r \in Complete(h, due) THEN Unregistered
                 ELSE IF r \in ResourceRecords(h) THEN After(h, due)[r]
                 ELSE IF r \in heirs
                 THEN Promoted(rr[r])
                 ELSE rr[r]]
  BY <1>0 DEF ResponseRecords
<1>2. due \subseteq {r \in ResourceRecords(h) : Sendable(rr[r])}
  BY ResponseIs
<1>3. Complete(h, due) \subseteq ResourceRecords(h)
  BY DEF Complete
<1>4. net' = net \cup ToAll(h, {Bye(h, r) : r \in {q \in Marked(h, due) : Outdated(rr[q])}}
                                  \cup {Sent(h, r) : r \in Marked(h, due)})
               \cup {Reply(h, r) : r \in Unicast(h)}
  BY ResponseIs DEF ResponseNet
<1>5. ASSUME NEW r \in Marked(h, due), NEW t \in Hosts
      PROVE  [Sent(h, r) EXCEPT !.to = t] \in net'
  BY <1>4 DEF ToAll
<1>6. \A r \in Unicast(h) : Reply(h, r) \in net'
  BY <1>4
<1>7. \A r \in heirs : HostOf[r] = h /\ rr[r].list = "duplicate" /\ rr[r].RecordType = "Shared"
  BY DEF Heir, DuplicateRecords
<1>8. ASSUME NEW r \in Records, r \notin ResourceRecords(h)
      PROVE  rr'[r] = rr[r] \/ (HostOf[r] = h /\ TakesOver(r))
  <2>1. rr'[r] = IF r \in heirs
                 THEN Promoted(rr[r])
                 ELSE rr[r]
    BY <1>1, <1>3, <1>8
  <2> QED
    BY <1>7, <2>1 DEF TakesOver
<1>9. ASSUME NEW r \in ResourceRecords(h) PROVE Responded(r)
  <2>1. r \in Records /\ Proper(rr[r])
    BY TypeIs DEF AllProper, ResourceRecords
  <2>2. r \in Complete(h, due) =>
          rr'[r] = Unregistered /\ After(h, due)[r].RecordType = "Deregistering"
    BY <1>1, <2>1 DEF Complete
  <2>3. r \notin Complete(h, due) => rr'[r] = After(h, due)[r]
    BY <1>1, <2>1
  <2>4. CASE r \in Marked(h, due)
    <3>1. (r \in due) \in BOOLEAN
      OBVIOUS
    <3>2. After(h, due)[r] = AfterMulticast(rr[r], r \in due)
      BY <2>4 DEF After
    <3>3. /\ r \in due => Sendable(rr[r])
          /\ rr[r].RecordType = "Unique" => rr[r].ImmedAnswer \in {"all", "mark"}
      BY <1>2, <2>4, MarkedIs
    <3>4. Multicast(r)
      <4> SUFFICES ASSUME NEW t \in Hosts
                   PROVE  LET p == [Sent(h, r) EXCEPT !.to = t] IN
                          /\ p.kind = "answer" /\ p.to = t
                          /\ p.rdata = IF rr[r].NewRData = NoRData \/ rr[r].RecordType = "Deregistering"
                                       THEN rr[r].rdata ELSE rr[r].NewRData
                          /\ p.goodbye <=> rr[r].RecordType = "Deregistering"
        BY <1>5, <2>4 DEF Multicast
      <4> QED
        BY DEF Answer, Sent
    <3>5. AfterMulticast(rr[r], r \in due).RecordType = rr[r].RecordType
      BY <2>1, <3>1, AfterType
    <3>6. CASE r \in Complete(h, due)
      BY <2>2, <3>2, <3>5, <3>6 DEF Responded
    <3>7. CASE r \notin Complete(h, due)
      BY <2>3, <3>1, <3>2, <3>3, <3>4, <3>7 DEF Responded
    <3> QED
      BY <3>6, <3>7
  <2>5. CASE r \notin Marked(h, due) /\ r \in Unicast(h)
    <3>1. After(h, due)[r] = Replied(rr[r])
      BY <2>5 DEF After
    <3>2. ReplySent(r)
      <4>1. Reply(h, r) \in net'
        BY <1>6, <2>5
      <4>2. LET p == Reply(h, r) IN
            /\ p.kind = "answer" /\ p.to = rr[r].ImmedAnswer /\ p.rdata = rr[r].rdata
            /\ p.goodbye <=> rr[r].RecordType = "Deregistering"
        BY DEF Answer, Reply
      <4> QED
        BY <4>1, <4>2 DEF ReplySent
    <3>3. Replied(rr[r]).RecordType = rr[r].RecordType
      BY <2>1, AfterType
    <3>4. rr[r].ImmedAnswer \in Hosts
      BY <2>5 DEF Unicast
    <3> QED
      BY <2>2, <2>3, <3>1, <3>2, <3>3, <3>4 DEF Responded
  <2>6. CASE r \notin Marked(h, due) \cup Unicast(h)
    <3>1. rr[r].ImmedAnswer \notin {"all", "mark"} \cup Hosts
      BY <1>2, <2>6, MarkedIs DEF Unicast
    <3>2. \/ After(h, due)[r] = rr[r]
          \/ rr[r].RecordType = "Deregistering" /\ After(h, due)[r] = Completed(rr[r])
      BY <2>6 DEF After
    <3>3. CASE r \in Complete(h, due)
      <4>1. rr[r].RecordType = "Deregistering"
        BY <2>2, <3>2, <3>3
      <4> QED
        BY <2>2, <3>3, <4>1 DEF Responded
    <3>4. CASE r \notin Complete(h, due)
      BY <2>3, <3>1, <3>2, <3>4 DEF Responded
    <3> QED
      BY <3>3, <3>4
  <2> QED
    BY <2>4, <2>5, <2>6
<1> QED
  BY <1>1, <1>8, <1>9

(* The packets that are sent.                                               *)
LEMMA ResponsePackets ==
  ASSUME RegistrationTypeOK, NEW h \in Hosts, NEW due, SendResponses(h, due)
  PROVE  /\ net \subseteq net' /\ net' \subseteq Packet
         /\ \A p \in net' \ net :
              /\ p.kind = "answer" /\ p.from = h /\ (p.goodbye => ~p.flush)
              /\ \E r \in ResourceRecords(h) :
                   /\ p.rdata = rr[r].rdata \/ (p.rdata = rr[r].NewRData /\ p.rdata # NoRData)
                   /\ p.goodbye => rr[r].RecordType \in {"Shared", "Deregistering"}
                   /\ rr[r].RecordType = "Unique" => rr[r].ImmedAnswer # "no"
<1>1. net' = net \cup ToAll(h, {Bye(h, r) : r \in {q \in Marked(h, due) : Outdated(rr[q])}}
                                  \cup {Sent(h, r) : r \in Marked(h, due)})
               \cup {Reply(h, r) : r \in Unicast(h)}
  BY ResponseIs DEF ResponseNet
<1>2. Marked(h, due) \subseteq ResourceRecords(h) /\ Unicast(h) \subseteq ResourceRecords(h)
  BY ResponseIs, MarkedIs DEF Unicast
<1>3. /\ \A r \in Marked(h, due) : rr[r].RecordType = "Unique" => rr[r].ImmedAnswer # "no"
      /\ \A r \in Unicast(h) : rr[r].ImmedAnswer # "no"
  BY ResponseIs, MarkedIs, RegistrationAssumption DEF Unicast
<1>4. ASSUME NEW p \in net', p \notin net
      PROVE  \E r \in ResourceRecords(h) :
               /\ rr[r].RecordType = "Unique" => rr[r].ImmedAnswer # "no"
               /\ \/ \E t \in Hosts :
                       p = [Bye(h, r) EXCEPT !.to = t] /\ rr[r].RecordType = "Shared"
                  \/ \E t \in Hosts : p = [Sent(h, r) EXCEPT !.to = t]
                  \/ p = Reply(h, r) /\ rr[r].ImmedAnswer \in Hosts
  <2>1. CASE p \in {Reply(h, r) : r \in Unicast(h)}
    BY <1>2, <1>3, <2>1 DEF Unicast
  <2>2. CASE p \in ToAll(h, {Bye(h, r) : r \in {q \in Marked(h, due) : Outdated(rr[q])}}
                              \cup {Sent(h, r) : r \in Marked(h, due)})
    <3>1. PICK b \in {Bye(h, r) : r \in {q \in Marked(h, due) : Outdated(rr[q])}}
                       \cup {Sent(h, r) : r \in Marked(h, due)}, t \in Hosts :
            p = [b EXCEPT !.to = t]
      BY <2>2 DEF ToAll
    <3>2. CASE b \in {Bye(h, r) : r \in {q \in Marked(h, due) : Outdated(rr[q])}}
      <4>1. PICK r \in Marked(h, due) : b = Bye(h, r) /\ Outdated(rr[r])
        BY <3>2
      <4> QED
        BY <1>2, <1>3, <3>1, <4>1 DEF Outdated
    <3>3. CASE b \in {Sent(h, r) : r \in Marked(h, due)}
      BY <1>2, <1>3, <3>1, <3>3
    <3> QED
      BY <3>1, <3>2, <3>3
  <2> QED
    BY <1>1, <1>4, <2>1, <2>2
<1>5. ASSUME NEW p \in net' \ net
      PROVE  /\ p \in Packet /\ p.kind = "answer" /\ p.from = h /\ (p.goodbye => ~p.flush)
             /\ \E r \in ResourceRecords(h) :
                  /\ p.rdata = rr[r].rdata \/ (p.rdata = rr[r].NewRData /\ p.rdata # NoRData)
                  /\ p.goodbye => rr[r].RecordType \in {"Shared", "Deregistering"}
                  /\ rr[r].RecordType = "Unique" => rr[r].ImmedAnswer # "no"
  <2>1. PICK r \in ResourceRecords(h) :
               /\ rr[r].RecordType = "Unique" => rr[r].ImmedAnswer # "no"
               /\ \/ \E t \in Hosts :
                       p = [Bye(h, r) EXCEPT !.to = t] /\ rr[r].RecordType = "Shared"
                  \/ \E t \in Hosts : p = [Sent(h, r) EXCEPT !.to = t]
                  \/ p = Reply(h, r) /\ rr[r].ImmedAnswer \in Hosts
    BY <1>4
  <2> DEFINE bye == (rr[r].RecordType = "Deregistering")
             data == IF rr[r].NewRData = NoRData \/ rr[r].RecordType = "Deregistering"
                     THEN rr[r].rdata ELSE rr[r].NewRData
  <2>2. Proper(rr[r]) /\ rr[r].list = "main"
    BY TypeIs DEF AllProper, ResourceRecords
  <2>3. /\ rr[r].rdata \in RData /\ data \in RData /\ bye \in BOOLEAN
        /\ data = rr[r].rdata \/ (data = rr[r].NewRData /\ data # NoRData)
    BY <2>2 DEF Proper, AuthRecord
  <2>4. CASE \E t \in Hosts : p = [Bye(h, r) EXCEPT !.to = t] /\ rr[r].RecordType = "Shared"
    <3>1. PICK t \in Hosts : p = [Answer(h, rr[r], rr[r].rdata, TRUE) EXCEPT !.to = t]
      BY <2>4 DEF Bye
    <3>2. p \in Packet
      BY <2>3, <3>1, AnswerType
    <3>3. p.kind = "answer" /\ p.from = h /\ p.rdata = rr[r].rdata
      BY <3>1 DEF Answer
    <3>4. ~p.flush
      BY <2>4, <3>1 DEF Answer, UniqueMask
    <3> QED
      BY <2>1, <2>4, <3>2, <3>3, <3>4
  <2>5. CASE \E t \in Hosts : p = [Sent(h, r) EXCEPT !.to = t]
    <3>1. PICK t \in Hosts : p = [Answer(h, rr[r], data, bye) EXCEPT !.to = t]
      BY <2>5 DEF Sent
    <3> HIDE DEF data
    <3>2. p \in Packet
      BY <2>3, <3>1, AnswerType
    <3>3. p.kind = "answer" /\ p.from = h /\ p.rdata = data /\ p.goodbye = bye
      BY <3>1, AnswerFields
    <3>4. bye => ~p.flush
      BY <3>1 DEF Answer, UniqueMask
    <3> QED
      BY <2>1, <2>3, <3>2, <3>3, <3>4
  <2>6. CASE p = Reply(h, r) /\ rr[r].ImmedAnswer \in Hosts
    <3>1. p = [Answer(h, rr[r], rr[r].rdata, bye) EXCEPT !.to = rr[r].ImmedAnswer]
      BY <2>6 DEF Reply
    <3>2. p \in Packet
      <4>1. PICK t \in Hosts : t = rr[r].ImmedAnswer
        BY <2>6
      <4>2. p = [Answer(h, rr[r], rr[r].rdata, bye) EXCEPT !.to = t]
        BY <3>1, <4>1
      <4> QED
        BY <2>3, <4>2, AnswerType
    <3>3. p.kind = "answer" /\ p.from = h /\ p.rdata = rr[r].rdata /\ p.goodbye = bye
      BY <3>1, AnswerFields
    <3>4. bye => ~p.flush
      BY <3>1 DEF Answer, UniqueMask
    <3> QED
      BY <2>1, <3>2, <3>3, <3>4
  <2> QED
    BY <2>1, <2>4, <2>5, <2>6
<1> QED
  BY <1>1, <1>5 DEF RegistrationTypeOK

-----------------------------------------------------------------------------
(* The other actions, record by record.                                     *)

LEMMA TypeIsNext ==
  RegistrationTypeOK' <=> /\ AllProper' /\ net' \subseteq Packet /\ ShutdownTime' \in [Hosts -> BOOLEAN]
              /\ callsMade' \in 0 .. MaxCallsMade /\ updated' \subseteq Hosts
<1>1. ((\A r \in Records : Proper(rr[r])) /\ rr \in [Records -> AuthRecord])'
        <=> /\ rr' \in [Records -> AuthRecord]
            /\ \A r \in Records :
                 /\ (rr'[r].list = "none") <=> (rr'[r].RecordType = "Unregistered")
                 /\ rr'[r].list = "duplicate" => rr'[r].RecordType # "Deregistering"
                 /\ rr'[r].list # "none" => rr'[r].rdata \in RData
  BY DEF Proper
<1> QED
  BY <1>1 DEF RegistrationTypeOK, AllProper

(* A call that is made is within the bound.                                 *)
LEMMA CallsBounded == ASSUME RegistrationTypeOK, Called PROVE callsMade' \in 0 .. MaxCallsMade
<1>1. callsMade \in 0 .. MaxCallsMade /\ callsMade < MaxCallsMade /\ callsMade' = callsMade + 1 /\ MaxCallsMade \in Nat
  BY RegistrationAssumption DEF Called, RegistrationTypeOK
<1> QED
  BY <1>1

(* Enough to say of each record that it is proper after the step.           *)
LEMMA ProperNext ==
  ASSUME rr' = [r \in Records |-> rr'[r]], \A r \in Records : Proper(rr'[r])
  PROVE  AllProper'
<1>1. \A r \in Records : rr'[r] \in AuthRecord
  BY DEF Proper
<1>2. rr' \in [Records -> AuthRecord]
  BY <1>1
<1> QED
  BY <1>2 DEF AllProper

(* What a call of mDNS_Register does to the other records.                  *)
LEMMA RegisterStep ==
  ASSUME RegistrationTypeOK, NEW r \in Records, NEW type \in TypesOf[r], NEW data \in DataOf[r],
         mDNS_Register(r, type, data)
  PROVE  /\ rr' = [q \in Records |-> rr'[q]] /\ rr[r].list = "none"
         /\ \A q \in Records \ {r} :
              \/ rr'[q] = rr[q]
              \/ rr[q].RecordType = "Deregistering" /\ rr[q].list = "main"
                   /\ rr'[q] = Announcing(rr[q], 0)
         /\ \/ rr'[r] = NewRecord(type, data)
            \/ /\ \E n \in 0 .. Probes :
                    rr'[r] = Queued(NewRecord(type, data), n)
               /\ \E q \in ResourceRecords(HostOf[r]) \ {r} :
                    /\ rr[q].RecordType # "Deregistering"
                    /\ RecordIsLocalDuplicate(rr[q], NewRecord(type, data))
         /\ callsMade' \in 0 .. MaxCallsMade
         /\ UNCHANGED <<net, ShutdownTime, updated>>
<1> DEFINE same == {q \in ResourceRecords(HostOf[r]) :
                      RecordIsLocalDuplicate(rr[q], NewRecord(type, data))}
           leaving == {q \in same : rr[q].RecordType = "Deregistering"}
           n == IF type = "Unique" /\ \E s \in same : rr[s].RecordType = "Verified"
                THEN 0 ELSE NewRecord(type, data).ProbeCount
<1>1. PICK cancelled \in SUBSET leaving :
        rr' = [q \in Records |->
            IF q # r THEN
              IF q \in cancelled THEN Announcing(rr[q], 0) ELSE rr[q]
            ELSE IF same = leaving THEN NewRecord(type, data)
            ELSE Queued(NewRecord(type, data), n)]
  BY DEF mDNS_Register, Announcing, Queued
<1>2. rr[r].list = "none" /\ UNCHANGED <<net, ShutdownTime, updated>>
  BY DEF mDNS_Register
<1>3. callsMade' \in 0 .. MaxCallsMade
  BY CallsBounded DEF mDNS_Register
<1>4. \A q \in leaving : rr[q].RecordType = "Deregistering" /\ rr[q].list = "main"
  BY DEF ResourceRecords
<1>5. n \in 0 .. Probes
  BY NewRecordFields, RegistrationAssumption
<1>6. \A q \in same : q # r
  BY <1>2 DEF ResourceRecords
<1>7. same # leaving => \E q \in ResourceRecords(HostOf[r]) \ {r} :
                          /\ rr[q].RecordType # "Deregistering"
                          /\ RecordIsLocalDuplicate(rr[q], NewRecord(type, data))
  <2> SUFFICES ASSUME same # leaving PROVE \E q \in same : rr[q].RecordType # "Deregistering"
    BY <1>6
  <2> QED
    OBVIOUS
<1>8. \/ rr'[r] = NewRecord(type, data)
      \/ /\ same # leaving
         /\ rr'[r] = Queued(NewRecord(type, data), n)
  BY <1>1
<1>9. \A q \in Records \ {r} :
        \/ rr'[q] = rr[q]
        \/ rr[q].RecordType = "Deregistering" /\ rr[q].list = "main"
             /\ rr'[q] = Announcing(rr[q], 0)
  <2> TAKE q \in Records \ {r}
  <2>1. rr'[q] = IF q \in cancelled THEN Announcing(rr[q], 0) ELSE rr[q]
    BY <1>1
  <2> QED
    BY <1>4, <2>1
<1>10. rr' = [q \in Records |-> rr'[q]]
  BY <1>1
<1> HIDE DEF same, leaving, n
<1> QED
  BY <1>2, <1>3, <1>5, <1>7, <1>8, <1>9, <1>10

(* mDNS_Deregister: a duplicate just goes; a record with heirs is taken     *)
(* over by one of them.                                                     *)
TakenOver(r, d) ==
  /\ d \in DuplicateRecords(HostOf[r]) /\ RecordIsLocalDuplicate(rr[d], rr[r])
  /\ rr'[r] = Unregistered /\ rr'[d] = Successor(rr[r], rr[d])
  /\ \A q \in Records \ {r, d} : rr'[q] = rr[q]

LEMMA DeregisterStep ==
  ASSUME RegistrationTypeOK, NEW r \in Records, mDNS_Deregister(r)
  PROVE  /\ rr' = [q \in Records |-> rr'[q]]
         /\ rr[r].list # "none" /\ rr[r].RecordType # "Deregistering"
         /\ \/ /\ \A q \in Records \ {r} : rr'[q] = rr[q]
               /\ \/ rr[r].list = "duplicate" /\ rr'[r] = Unregistered
                  \/ /\ rr[r].list = "main" /\ rr'[r] = Departed(rr[r], Goodbyes)
                     /\ \A d \in DuplicateRecords(HostOf[r]) : ~RecordIsLocalDuplicate(rr[d], rr[r])
            \/ rr[r].list = "main" /\ \E d \in Records \ {r} : TakenOver(r, d)
         /\ UNCHANGED <<net, ShutdownTime, callsMade, updated>>
<1>1. /\ rr[r].list # "none" /\ rr[r].RecordType # "Deregistering"
      /\ UNCHANGED <<net, ShutdownTime, callsMade, updated>>
      /\ rr \in [Records -> AuthRecord]
  BY DEF mDNS_Deregister, RegistrationTypeOK
<1> DEFINE heirs == {d \in DuplicateRecords(HostOf[r]) : RecordIsLocalDuplicate(rr[d], rr[r])}
<1>2. CASE rr[r].list = "duplicate" /\ rr' = [rr EXCEPT ![r] = Unregistered]
  BY <1>1, <1>2
<1>3. CASE rr[r].list = "main" /\ heirs = {} /\ rr' = [rr EXCEPT ![r] = Departed(@, Goodbyes)]
  <2>1. \A d \in DuplicateRecords(HostOf[r]) : ~RecordIsLocalDuplicate(rr[d], rr[r])
    BY <1>3
  <2> QED
    BY <1>1, <1>3, <2>1
<1>4. CASE /\ rr[r].list = "main"
           /\ \E d \in heirs : rr' = [rr EXCEPT ![d] = Successor(rr[r], rr[d]), ![r] = Unregistered]
  <2>1. PICK d \in heirs : rr' = [rr EXCEPT ![d] = Successor(rr[r], rr[d]), ![r] = Unregistered]
    BY <1>4
  <2>2. d \in Records /\ d # r /\ d \in DuplicateRecords(HostOf[r])
          /\ RecordIsLocalDuplicate(rr[d], rr[r])
    BY <1>4 DEF DuplicateRecords
  <2>3. TakenOver(r, d)
    BY <1>1, <2>1, <2>2 DEF TakenOver
  <2>4. rr' = [q \in Records |-> rr'[q]]
    BY <1>1, <2>1
  <2> QED
    BY <1>1, <1>4, <2>2, <2>3, <2>4
<1> QED
  BY <1>2, <1>3, <1>4 DEF mDNS_Deregister

LEMMA UpdateStep ==
  ASSUME RegistrationTypeOK, NEW r \in Records, NEW data \in DataOf[r], mDNS_Update(r, data)
  PROVE  /\ rr' = [q \in Records |-> rr'[q]]
         /\ \A q \in Records \ {r} : rr'[q] = rr[q]
         /\ rr[r].list # "none" /\ rr[r].RecordType # "Deregistering"
         /\ rr'[r] = NotUpdated(rr[r]) \/ rr'[r] = Updated(rr[r], data)
         /\ callsMade' \in 0 .. MaxCallsMade /\ updated' = updated \cup {HostOf[r]}
         /\ UNCHANGED <<net, ShutdownTime>>
<1>1. /\ rr \in [Records -> AuthRecord] /\ updated' = updated \cup {HostOf[r]}
      /\ rr[r].list # "none" /\ rr[r].RecordType # "Deregistering"
      /\ UNCHANGED <<net, ShutdownTime>> /\ callsMade' \in 0 .. MaxCallsMade
  BY CallsBounded DEF mDNS_Update, RegistrationTypeOK
<1>2. CASE rr' = [rr EXCEPT ![r].NewRData = NoRData]
  BY <1>1, <1>2 DEF NotUpdated
<1>3. CASE rr' = [rr EXCEPT ![r].NewRData = data, ![r].AnnounceCount = Announcements,
                            ![r].recent = Deferral,
                            ![r].wait = IF rr[r].ProbeCount > 0 THEN @ ELSE 0]
  <2>1. rr'[r] = Updated(rr[r], data)
    BY <1>1, <1>3 DEF Updated
  <2>2. rr' = [q \in Records |-> rr'[q]] /\ \A q \in Records \ {r} : rr'[q] = rr[q]
    BY <1>1, <1>3
  <2> QED
    BY <1>1, <2>1, <2>2
<1> QED
  BY <1>2, <1>3 DEF mDNS_Update

(* A record of a host that exits is gone, or will be after its goodbye.     *)
LEMMA ExitStep ==
  ASSUME RegistrationTypeOK, NEW h \in Hosts, mDNS_StartExit(h)
  PROVE  /\ rr' = [q \in Records |-> rr'[q]]
         /\ \A q \in Records :
              \/ rr'[q] = rr[q] /\ (HostOf[q] # h \/ rr[q].list = "none")
              \/ /\ HostOf[q] = h
                 /\ \/ rr[q].list = "duplicate" /\ rr'[q] = Unregistered
                    \/ rr[q].list = "main" /\ rr'[q] = Departed(rr[q], 1)
                    \/ /\ rr[q].list = "main" /\ rr[q].RecordType = "Deregistering"
                       /\ \E n \in {rr[q].AnnounceCount, 1} :
                            rr'[q] = Announcing(rr[q], n)
         /\ ShutdownTime' \in [Hosts -> BOOLEAN] /\ ShutdownTime'[h] = TRUE
         /\ UNCHANGED <<net, callsMade, updated>>
<1> DEFINE Exit(a) ==
        IF a.list = "duplicate" THEN Unregistered
        ELSE IF a.list = "main" /\ a.RecordType = "Deregistering"
        THEN [a EXCEPT !.AnnounceCount = IF @ > 1 THEN 1 ELSE @]
        ELSE IF a.list = "main" THEN Departed(a, 1) ELSE a
<1>1. /\ rr' = [r \in Records |-> IF HostOf[r] = h THEN Exit(rr[r]) ELSE rr[r]]
      /\ ShutdownTime' \in [Hosts -> BOOLEAN] /\ ShutdownTime'[h] = TRUE
      /\ UNCHANGED <<net, callsMade, updated>>
  BY DEF mDNS_StartExit, RegistrationTypeOK
<1>2. ASSUME NEW q \in Records, HostOf[q] = h
      PROVE  \/ rr'[q] = rr[q] /\ rr[q].list = "none"
             \/ rr[q].list = "duplicate" /\ rr'[q] = Unregistered
             \/ rr[q].list = "main" /\ rr'[q] = Departed(rr[q], 1)
             \/ /\ rr[q].list = "main" /\ rr[q].RecordType = "Deregistering"
                /\ \E n \in {rr[q].AnnounceCount, 1} :
                     rr'[q] = Announcing(rr[q], n)
  <2>1. rr'[q] = Exit(rr[q]) /\ rr[q].list \in {"none", "main", "duplicate"}
    BY <1>1, <1>2 DEF RegistrationTypeOK, AuthRecord
  <2>2. CASE rr[q].list = "main" /\ rr[q].RecordType = "Deregistering"
    <3>1. PICK n \in {rr[q].AnnounceCount, 1} :
            n = IF rr[q].AnnounceCount > 1 THEN 1 ELSE rr[q].AnnounceCount
      OBVIOUS
    <3>2. rr'[q] = [rr[q] EXCEPT !.AnnounceCount = IF @ > 1 THEN 1 ELSE @]
      BY <2>1, <2>2
    <3>3. rr'[q] = Announcing(rr[q], n)
      BY <3>1, <3>2 DEF Announcing
    <3> QED
      BY <2>2, <3>3
  <2>3. CASE ~(rr[q].list = "main" /\ rr[q].RecordType = "Deregistering")
    BY <2>1, <2>3
  <2> QED
    BY <2>2, <2>3
<1>3. \A q \in Records : HostOf[q] # h => rr'[q] = rr[q]
  BY <1>1
<1>4. rr' = [q \in Records |-> rr'[q]]
  BY <1>1
<1> HIDE DEF Exit
<1> QED
  BY <1>1, <1>2, <1>3, <1>4

(* SendProbes: r's probe goes to every host.                                *)
ProbeSent(r) ==
  \A t \in Hosts : \E p \in net' :
    /\ p.kind = "probe" /\ p.from = HostOf[r] /\ p.to = t /\ p.rdata = rr[r].rdata
    /\ p.unicast <=> Left(rr[r]) >= Probes - 1

ProbePacket(h, r) ==
  [kind |-> "probe", from |-> h, to |-> h, rdata |-> rr[r].rdata,
   unicast |-> Left(rr[r]) >= Probes - 1]

LEMMA ProbeStep ==
  ASSUME RegistrationTypeOK, NEW h \in Hosts, NEW due, SendProbes(h, due)
  PROVE  /\ rr' = [r \in Records |-> rr'[r]]
         /\ \A r \in Records :
              IF r \in due
              THEN /\ HostOf[r] = h /\ rr[r].list = "main" /\ rr[r].RecordType = "Unique"
                   /\ rr[r].wait = 0
                   /\ \/ rr[r].ProbeCount > 0 /\ rr'[r] = AfterProbe(rr[r]) /\ ProbeSent(r)
                      \/ ~(rr[r].ProbeCount > 0) /\ rr'[r] = Verified(rr[r])
              ELSE \/ rr'[r] = rr[r]
                   \/ /\ HostOf[r] = h /\ rr[r].list = "duplicate" /\ rr[r].RecordType = "Unique"
                      /\ rr'[r] = Cleared(rr[r])
         /\ net \subseteq net'
         /\ \A p \in net' \ net : \E r \in due, t \in Hosts :
              r \in Records /\ p = [ProbePacket(h, r) EXCEPT !.to = t]
         /\ UNCHANGED <<ShutdownTime, callsMade, updated>>
<1> DEFINE probing == {r \in due : rr[r].ProbeCount > 0}
           Stepped(r) == IF r \in probing THEN AfterProbe(rr[r]) ELSE Verified(rr[r])
           probed == {r \in probing : Stepped(r).ProbeCount = 0}
           Done(d) == \/ rr[d].ProbeCount = 0
                      \/ \E r \in probed : RecordIsLocalDuplicate(rr[d], rr[r])
           ready == {d \in DuplicateRecords(h) : rr[d].RecordType = "Unique" /\ Done(d)}
           probes == {[kind |-> "probe", from |-> h, to |-> h, rdata |-> rr[r].rdata,
                       unicast |-> Stepped(r).ProbeCount >= Probes - 1] : r \in probing}
<1>1. due \subseteq {r \in ResourceRecords(h) : rr[r].RecordType = "Unique" /\ rr[r].wait = 0}
  BY DEF SendProbes
<1>2. rr' = [r \in Records |->
              IF r \in due THEN Stepped(r)
              ELSE IF r \in ready
              THEN Cleared(rr[r])
              ELSE rr[r]]
  BY DEF SendProbes, Cleared
<1>3. net' = net \cup ToAll(h, probes) /\ UNCHANGED <<ShutdownTime, callsMade, updated>>
  BY DEF SendProbes
<1>4. \A r \in ready : HostOf[r] = h /\ rr[r].list = "duplicate" /\ rr[r].RecordType = "Unique"
  BY DEF DuplicateRecords
<1>5. ASSUME NEW r \in due
      PROVE  /\ r \in Records /\ HostOf[r] = h /\ rr[r].list = "main"
             /\ rr[r].RecordType = "Unique" /\ rr[r].wait = 0 /\ Proper(rr[r])
  BY <1>1, TypeIs DEF ResourceRecords, AllProper
<1>6. ASSUME NEW r \in probing
      PROVE  Stepped(r) = AfterProbe(rr[r]) /\ Stepped(r).ProbeCount = Left(rr[r])
  BY <1>5, AfterProbeFields
<1>7. ASSUME NEW r \in due PROVE r \notin probing => Stepped(r) = Verified(rr[r])
  OBVIOUS
<1> HIDE DEF Stepped, ready
<1>8. probes = {ProbePacket(h, r) : r \in probing}
  BY <1>6 DEF ProbePacket
<1> HIDE DEF probes
<1>9. \A p : p \in ToAll(h, probes) <=>
        \E r \in probing, t \in Hosts : p = [ProbePacket(h, r) EXCEPT !.to = t]
  <2>1. \A p : p \in ToAll(h, probes) <=>
          \E b \in probes, t \in Hosts : p = [b EXCEPT !.to = t]
    BY DEF ToAll
  <2> QED
    BY <1>8, <2>1
<1>10. ASSUME NEW r \in probing PROVE ProbeSent(r)
  <2> SUFFICES ASSUME NEW t \in Hosts
               PROVE  \E p \in net' :
                        /\ p.kind = "probe" /\ p.from = HostOf[r] /\ p.to = t
                        /\ p.rdata = rr[r].rdata
                        /\ p.unicast <=> Left(rr[r]) >= Probes - 1
    BY DEF ProbeSent
  <2>1. [ProbePacket(h, r) EXCEPT !.to = t] \in net'
    BY <1>3, <1>9
  <2> QED
    BY <1>5, <2>1 DEF ProbePacket
<1>11. ASSUME NEW r \in Records, r \in due
       PROVE  \/ rr[r].ProbeCount > 0 /\ rr'[r] = AfterProbe(rr[r]) /\ ProbeSent(r)
              \/ ~(rr[r].ProbeCount > 0) /\ rr'[r] = Verified(rr[r])
  <2>1. rr'[r] = Stepped(r)
    BY <1>2, <1>11
  <2> QED
    BY <1>6, <1>7, <1>10, <1>11, <2>1
<1>12. ASSUME NEW r \in Records, r \notin due
       PROVE  rr'[r] = IF r \in ready THEN Cleared(rr[r])
                       ELSE rr[r]
  BY <1>2, <1>12
<1>13. \A p \in net' \ net : \E r \in due, t \in Hosts :
          r \in Records /\ p = [ProbePacket(h, r) EXCEPT !.to = t]
  BY <1>3, <1>5, <1>9
<1>14. rr' = [r \in Records |-> rr'[r]]
  BY <1>2
<1> QED
  BY <1>3, <1>4, <1>5, <1>11, <1>12, <1>13, <1>14

LEMMA ReceiveProbeStep ==
  ASSUME RegistrationTypeOK, NEW p \in net, ReceiveProbe(p)
  PROVE  /\ rr' = [r \in Records |-> rr'[r]] /\ p.kind = "probe" /\ Arrives(p)
         /\ \A r \in Records :
              IF HostOf[r] # p.to \/ rr[r].list # "main" THEN rr'[r] = rr[r]
              ELSE IF rr[r].RecordType \in ActiveMask
              THEN IF p.unicast \/ rr[r].recent = 0
                   THEN \E x \in {"all", "mark", p.from} :
                          /\ rr'[r] = Answering(rr[r], x)
                          /\ x \in {"all", "mark"} \/ rr[r].ImmedAnswer \in {"no", p.from}
                   ELSE rr'[r] = rr[r]
              ELSE IF rr[r].RecordType = "Unique" /\ LosesTo(rr[r], p)
              THEN rr'[r] = ProbeAgain(rr[r], Probes, Deferral)
              ELSE rr'[r] = rr[r]
         /\ net' = net \ {p}
         /\ UNCHANGED <<ShutdownTime, callsMade, updated>>
<1> DEFINE h == p.to
           Wanted(a) == IF p.unicast /\ a.ImmedAnswer \in {"no", p.from} THEN p.from
                        ELSE IF a.ImmedAnswer = "mark" THEN "mark" ELSE "all"
           answering == {r \in ResourceRecords(h) :
                           rr[r].RecordType \in ActiveMask /\ (p.unicast \/ rr[r].recent = 0)}
<1>1. /\ rr' = [r \in Records |->
           IF r \in answering THEN Answering(rr[r], Wanted(rr[r]))
           ELSE IF r \in ResourceRecords(h) /\ rr[r].RecordType = "Unique" /\ LosesTo(rr[r], p)
           THEN ProbeAgain(rr[r], Probes, Deferral)
           ELSE rr[r]]
      /\ p.kind = "probe" /\ Arrives(p) /\ net' = net \ {p} /\ UNCHANGED <<ShutdownTime, callsMade, updated>>
  BY DEF ReceiveProbe, Answering
<1>2. ASSUME NEW r \in Records
      PROVE  IF HostOf[r] # p.to \/ rr[r].list # "main" THEN rr'[r] = rr[r]
              ELSE IF rr[r].RecordType \in ActiveMask
              THEN IF p.unicast \/ rr[r].recent = 0
                   THEN \E x \in {"all", "mark", p.from} :
                          /\ rr'[r] = Answering(rr[r], x)
                          /\ x \in {"all", "mark"} \/ rr[r].ImmedAnswer \in {"no", p.from}
                   ELSE rr'[r] = rr[r]
              ELSE IF rr[r].RecordType = "Unique" /\ LosesTo(rr[r], p)
              THEN rr'[r] = ProbeAgain(rr[r], Probes, Deferral)
              ELSE rr'[r] = rr[r]
  <2>1. /\ Wanted(rr[r]) \in {"all", "mark", p.from}
        /\ Wanted(rr[r]) \in {"all", "mark"} \/ rr[r].ImmedAnswer \in {"no", p.from}
    OBVIOUS
  <2>2. r \in ResourceRecords(h) <=> HostOf[r] = p.to /\ rr[r].list = "main"
    BY DEF ResourceRecords
  <2>3. r \in answering <=> /\ r \in ResourceRecords(h) /\ rr[r].RecordType \in ActiveMask
                            /\ p.unicast \/ rr[r].recent = 0
    OBVIOUS
  <2>4. rr'[r] = IF r \in answering THEN Answering(rr[r], Wanted(rr[r]))
                 ELSE IF r \in ResourceRecords(h) /\ rr[r].RecordType = "Unique" /\ LosesTo(rr[r], p)
                 THEN ProbeAgain(rr[r], Probes, Deferral)
                 ELSE rr[r]
    BY <1>1
  <2>5. "Unique" \notin ActiveMask
    BY DEF ActiveMask
  <2> HIDE DEF Wanted, answering, h
  <2> QED
    BY <2>1, <2>2, <2>3, <2>4, <2>5
<1>3. rr' = [r \in Records |-> rr'[r]]
  BY <1>1
<1> HIDE DEF Wanted, answering, h
<1> QED
  BY <1>1, <1>2, <1>3

Loser(r, p) == r \in ResourceRecords(p.to) /\ LosesName(rr[r], p)

LEMMA ReceiveAnswerStep ==
  ASSUME RegistrationTypeOK, NEW p \in net, ReceiveAnswer(p)
  PROVE  /\ rr' = [r \in Records |-> rr'[r]] /\ p.kind = "answer" /\ Arrives(p)
         /\ \A r \in Records :
              IF HostOf[r] # p.to \/ rr[r].list = "none" THEN rr'[r] = rr[r]
              ELSE IF rr[r].list = "duplicate"
              THEN IF \E s \in Records : Loser(s, p) /\ RecordIsLocalDuplicate(rr[r], rr[s])
                   THEN rr'[r] = Unregistered ELSE rr'[r] = rr[r]
              ELSE IF LosesName(rr[r], p) THEN rr'[r] = Unregistered
              ELSE IF rr[r].rdata = p.rdata THEN rr'[r] = SeenIdentical(rr[r], p)
              ELSE IF MustDefend(rr[r], p) THEN rr'[r] = ProbeAgain(rr[r], Probes + 1, 1)
              ELSE \/ rr'[r] = rr[r]
                   \/ /\ p.goodbye \/ rr[r].RecordType \notin UniqueMask
                      /\ p.flush /\ rr'[r] = Answering(rr[r], "mark")
         /\ net' = net \ {p}
         /\ UNCHANGED <<ShutdownTime, callsMade, updated>>
<1> DEFINE h == p.to
           losers == {r \in ResourceRecords(h) : LosesName(rr[r], p)}
           gone == losers \cup {d \in DuplicateRecords(h) :
                                  \E r \in losers : RecordIsLocalDuplicate(rr[d], rr[r])}
           others == {r \in ResourceRecords(h) : /\ rr[r].rdata # p.rdata
                                                 /\ p.goodbye \/ rr[r].RecordType \notin UniqueMask}
<1>1. PICK reassert \in SUBSET {r \in others : p.flush} :
       rr' = [r \in Records |->
               IF r \in gone THEN Unregistered
               ELSE IF r \notin ResourceRecords(h) THEN rr[r]
               ELSE IF rr[r].rdata = p.rdata THEN SeenIdentical(rr[r], p)
               ELSE IF MustDefend(rr[r], p) THEN ProbeAgain(rr[r], Probes + 1, 1)
               ELSE IF r \in reassert THEN Answering(rr[r], "mark")
               ELSE rr[r]]
  BY DEF ReceiveAnswer, Answering
<1>2. p.kind = "answer" /\ Arrives(p) /\ net' = net \ {p} /\ UNCHANGED <<ShutdownTime, callsMade, updated>>
  BY DEF ReceiveAnswer
<1>3. \A r \in losers : r \in Records
  BY DEF ResourceRecords
<1>4. \A s \in Records : s \in losers <=> Loser(s, p)
  BY DEF Loser
<1>5. ASSUME NEW r \in Records
      PROVE  IF HostOf[r] # p.to \/ rr[r].list = "none" THEN rr'[r] = rr[r]
              ELSE IF rr[r].list = "duplicate"
              THEN IF \E s \in Records : Loser(s, p) /\ RecordIsLocalDuplicate(rr[r], rr[s])
                   THEN rr'[r] = Unregistered ELSE rr'[r] = rr[r]
              ELSE IF LosesName(rr[r], p) THEN rr'[r] = Unregistered
              ELSE IF rr[r].rdata = p.rdata THEN rr'[r] = SeenIdentical(rr[r], p)
              ELSE IF MustDefend(rr[r], p) THEN rr'[r] = ProbeAgain(rr[r], Probes + 1, 1)
              ELSE \/ rr'[r] = rr[r]
                   \/ /\ p.goodbye \/ rr[r].RecordType \notin UniqueMask
                      /\ p.flush /\ rr'[r] = Answering(rr[r], "mark")
  <2>1. r \in ResourceRecords(h) <=> HostOf[r] = p.to /\ rr[r].list = "main"
    BY DEF ResourceRecords
  <2>2. r \in DuplicateRecords(h) <=> HostOf[r] = p.to /\ rr[r].list = "duplicate"
    BY DEF DuplicateRecords
  <2>3. r \in losers <=> r \in ResourceRecords(h) /\ LosesName(rr[r], p)
    OBVIOUS
  <2>4. r \in gone <=> \/ r \in losers
                       \/ /\ r \in DuplicateRecords(h)
                          /\ \E s \in Records : Loser(s, p) /\ RecordIsLocalDuplicate(rr[r], rr[s])
    BY <1>3, <1>4
  <2>5. r \in reassert => /\ p.goodbye \/ rr[r].RecordType \notin UniqueMask
                          /\ p.flush
    OBVIOUS
  <2>6. rr'[r] = IF r \in gone THEN Unregistered
               ELSE IF r \notin ResourceRecords(h) THEN rr[r]
               ELSE IF rr[r].rdata = p.rdata THEN SeenIdentical(rr[r], p)
               ELSE IF MustDefend(rr[r], p) THEN ProbeAgain(rr[r], Probes + 1, 1)
               ELSE IF r \in reassert THEN Answering(rr[r], "mark")
               ELSE rr[r]
    BY <1>1
  <2>7. rr[r].list \in {"none", "main", "duplicate"}
    BY DEF RegistrationTypeOK, AuthRecord
  <2> HIDE DEF losers, gone, others, h
  <2> QED
    BY <2>1, <2>2, <2>3, <2>4, <2>5, <2>6, <2>7
<1>6. rr' = [r \in Records |-> rr'[r]]
  BY <1>1
<1> HIDE DEF losers, gone, others, h
<1> QED
  BY <1>2, <1>5, <1>6

LEMMA TickStep ==
  ASSUME Tick
  PROVE  /\ rr' = [r \in Records |-> rr'[r]] /\ Quiet
         /\ \A r \in Records :
              /\ rr[r].list = "main" =>
                   rr'[r] = Elapsed(rr[r])
              /\ rr[r].list # "main" => rr'[r] = rr[r]
              /\ rr[r].list = "main" /\ rr[r].RecordType = "Unique" => rr[r].wait > 0
         /\ UNCHANGED <<net, ShutdownTime, callsMade, updated>>
<1>1. rr' = [r \in Records |->
              IF rr[r].list = "main"
              THEN Elapsed(rr[r]) ELSE rr[r]]
  BY DEF Tick, Elapsed
<1> QED
  BY <1>1 DEF Tick

-----------------------------------------------------------------------------
(* Every step keeps the types.                                              *)

LEMMA RecordsStay ==
  ASSUME AllProper', RegistrationTypeOK, UNCHANGED <<callsMade, updated>>,
         net' \subseteq Packet, ShutdownTime' \in [Hosts -> BOOLEAN]
  PROVE  RegistrationTypeOK'
<1>1. callsMade' \in 0 .. MaxCallsMade /\ updated' \subseteq Hosts
  BY DEF RegistrationTypeOK
<1> QED
  BY <1>1, TypeIsNext

LEMMA RegisterTypes ==
  ASSUME RegistrationTypeOK, NEW r \in Records, NEW type \in TypesOf[r], NEW data \in DataOf[r],
         mDNS_Register(r, type, data)
  PROVE  RegistrationTypeOK'
<1>1. \A q \in Records : Proper(rr[q])
  BY TypeIs DEF AllProper
<1>2. type \in {"Unique", "Shared", "KnownUnique"} /\ data \in RData
  BY RegistrationAssumption
<1>3. Proper(NewRecord(type, data)) /\ NewRecord(type, data).list = "main"
        /\ NewRecord(type, data).RecordType # "Deregistering"
  BY <1>2, NewRecordProper, NewRecordFields
<1>4. \A n \in 0 .. Probes : Proper(Queued(NewRecord(type, data), n))
  BY <1>3, QueuedFields
<1>5. \A q \in Records : Proper(rr'[q])
  <2>1. 0 \in 0 .. Announcements + Goodbyes
    BY RegistrationAssumption
  <2>2. \A q \in Records : Proper(Announcing(rr[q], 0))
    BY <1>1, <2>1, AnnouncingFields
  <2> QED
    BY <1>1, <1>3, <1>4, <2>2, RegisterStep
<1>6. AllProper'
  BY <1>5, ProperNext, RegisterStep
<1>7. /\ callsMade' \in 0 .. MaxCallsMade /\ net' \subseteq Packet
      /\ ShutdownTime' \in [Hosts -> BOOLEAN] /\ updated' \subseteq Hosts
  BY RegisterStep DEF RegistrationTypeOK
<1> QED
  BY <1>6, <1>7, TypeIsNext

LEMMA DeregisterTypes ==
  ASSUME RegistrationTypeOK, NEW r \in Records, mDNS_Deregister(r)
  PROVE  RegistrationTypeOK'
<1>1. \A q \in Records : Proper(rr[q])
  BY TypeIs DEF AllProper
<1>2. Goodbyes \in 0 .. Announcements + Goodbyes
  BY RegistrationAssumption
<1>3. rr[r].list = "main" => Proper(Departed(rr[r], Goodbyes))
  BY <1>1, <1>2, DepartedFields
<1>4. \A d \in Records : Proper(Successor(rr[r], rr[d]))
  BY <1>1, SuccessorFields
<1>5. \A q \in Records : Proper(rr'[q])
  <2>1. CASE \A q \in Records \ {r} : rr'[q] = rr[q]
    BY <1>1, <1>3, <2>1, UnregisteredProper, DeregisterStep DEF TakenOver
  <2>2. CASE \E d \in Records \ {r} : TakenOver(r, d)
    BY <1>1, <1>4, <2>2, UnregisteredProper DEF TakenOver
  <2> QED
    BY <2>1, <2>2, DeregisterStep
<1> QED
  BY <1>5, ProperNext, DeregisterStep, RecordsStay DEF RegistrationTypeOK

LEMMA UpdateTypes ==
  ASSUME RegistrationTypeOK, NEW r \in Records, NEW data \in DataOf[r], mDNS_Update(r, data)
  PROVE  RegistrationTypeOK'
<1>1. \A q \in Records : Proper(rr[q])
  BY TypeIs DEF AllProper
<1>2. data \in RData /\ HostOf[r] \in Hosts
  BY RegistrationAssumption
<1>3. Proper(Updated(rr[r], data)) /\ Proper(NotUpdated(rr[r]))
  BY <1>1, <1>2, UpdatedFields
<1>4. \A q \in Records : Proper(rr'[q])
  BY <1>1, <1>3, UpdateStep
<1>5. AllProper'
  BY <1>4, ProperNext, UpdateStep
<1>6. /\ callsMade' \in 0 .. MaxCallsMade /\ net' \subseteq Packet
      /\ ShutdownTime' \in [Hosts -> BOOLEAN] /\ updated' \subseteq Hosts
  BY <1>2, UpdateStep DEF RegistrationTypeOK
<1> QED
  BY <1>5, <1>6, TypeIsNext

LEMMA ExitTypes ==
  ASSUME RegistrationTypeOK, NEW h \in Hosts, mDNS_StartExit(h)
  PROVE  RegistrationTypeOK'
<1>1. \A q \in Records : Proper(rr[q]) /\ rr[q].AnnounceCount \in 0 .. Announcements + Goodbyes
  BY TypeIs DEF AllProper, AuthRecord
<1>2. 1 \in 0 .. Announcements + Goodbyes
  BY RegistrationAssumption
<1>3. \A q \in Records : rr[q].list = "main" => Proper(Departed(rr[q], 1))
  BY <1>1, <1>2, DepartedFields
<1>4. \A q \in Records, n \in 0 .. Announcements + Goodbyes : Proper(Announcing(rr[q], n))
  BY <1>1, AnnouncingFields
<1>5. \A q \in Records : Proper(rr'[q])
  <2> TAKE q \in Records
  <2>1. \A n \in {rr[q].AnnounceCount, 1} : Proper(Announcing(rr[q], n))
    BY <1>1, <1>2, <1>4
  <2>2. \/ rr'[q] = rr[q] \/ rr'[q] = Unregistered
        \/ rr[q].list = "main" /\ rr'[q] = Departed(rr[q], 1)
        \/ \E n \in {rr[q].AnnounceCount, 1} : rr'[q] = Announcing(rr[q], n)
    BY ExitStep
  <2>3. Proper(rr[q]) /\ Proper(Unregistered)
    BY <1>1, UnregisteredProper
  <2> QED
    BY <1>3, <2>1, <2>2, <2>3
<1>6. AllProper'
  BY <1>5, ProperNext, ExitStep
<1> QED
  BY <1>6, RecordsStay, ExitStep DEF RegistrationTypeOK

LEMMA ProbeTypes ==
  ASSUME RegistrationTypeOK, NEW h \in Hosts, NEW due, SendProbes(h, due)
  PROVE  RegistrationTypeOK'
<1>1. \A q \in Records : Proper(rr[q])
  BY TypeIs DEF AllProper
<1>2. \A q \in Records : rr[q].ProbeCount > 0 => Proper(AfterProbe(rr[q]))
  BY <1>1, AfterProbeFields
<1>3. \A q \in Records : rr[q].list # "none" => Proper(Verified(rr[q]))
  BY <1>1, VerifiedFields
<1>4. \A q \in Records : Proper(Cleared(rr[q]))
  BY <1>1, ClearedFields
<1>5. \A q \in Records : Proper(rr'[q])
  <2> TAKE q \in Records
  <2>1. CASE q \in due
    BY <1>2, <1>3, <2>1, ProbeStep
  <2>2. CASE q \notin due
    BY <1>1, <1>4, <2>2, ProbeStep
  <2> QED
    BY <2>1, <2>2
<1>6. AllProper'
  BY <1>5, ProperNext, ProbeStep
<1>7. ASSUME NEW p \in net' \ net PROVE p \in Packet
  <2>1. PICK r \in due, t \in Hosts : r \in Records /\ p = [ProbePacket(h, r) EXCEPT !.to = t]
    BY ProbeStep
  <2>2. rr[r].list = "main"
    BY <2>1, ProbeStep
  <2>3. rr[r].rdata \in RData /\ (Left(rr[r]) >= Probes - 1) \in BOOLEAN
    BY <1>1, <2>1, <2>2 DEF Proper
  <2> QED
    BY <2>1, <2>3 DEF ProbePacket, Packet
<1>8. net' \subseteq Packet
  BY <1>7 DEF RegistrationTypeOK
<1> QED
  BY <1>6, <1>8, RecordsStay, ProbeStep DEF RegistrationTypeOK

LEMMA ResponseTypes ==
  ASSUME RegistrationTypeOK, NEW h \in Hosts, NEW due, SendResponses(h, due)
  PROVE  RegistrationTypeOK'
<1>1. \A q \in Records : Proper(rr[q])
  BY TypeIs DEF AllProper
<1>2. ASSUME NEW q \in Records, NEW isDue \in BOOLEAN, isDue => Sendable(rr[q])
      PROVE  Proper(AfterMulticast(rr[q], isDue))
  BY <1>1, <1>2, AfterMulticastFields DEF Sendable
<1>3. ASSUME NEW q \in Records, Responded(q) PROVE Proper(rr'[q])
  BY <1>1, <1>2, <1>3, RepliedFields, CompletedFields, UnregisteredProper DEF Responded
<1>4. ASSUME NEW q \in Records, TakesOver(q) PROVE Proper(rr'[q])
  BY <1>1, <1>4, PromotedFields DEF TakesOver
<1>5. \A q \in Records : Proper(rr'[q])
  BY <1>1, <1>3, <1>4, ResponseStep
<1>6. AllProper'
  BY <1>5, ProperNext, ResponseStep
<1> QED
  BY <1>6, RecordsStay, ResponseIs, ResponsePackets DEF RegistrationTypeOK

LEMMA ReceiveTypes ==
  ASSUME RegistrationTypeOK, NEW p \in net, Receive(p)
  PROVE  RegistrationTypeOK'
<1>1. \A q \in Records : Proper(rr[q])
  BY TypeIs DEF AllProper
<1>2. p \in Packet /\ p.from \in Hosts
  BY DEF RegistrationTypeOK, Packet
<1>3. \A x \in {"all", "mark", p.from}, q \in Records : Proper(Answering(rr[q], x))
  <2>1. \A x \in {"all", "mark", p.from} : x \in ImmedAnswers
    BY <1>2 DEF ImmedAnswers
  <2> QED
    BY <1>1, <2>1, AnsweringFields
<1>4. /\ Probes \in 0 .. Probes + 1 /\ Probes + 1 \in 0 .. Probes + 1
      /\ 1 \in 0 .. Deferral /\ Deferral \in 0 .. Deferral
  BY RegistrationAssumption
<1>5. \A q \in Records : rr[q].list = "main" =>
        Proper(ProbeAgain(rr[q], Probes, Deferral)) /\ Proper(ProbeAgain(rr[q], Probes + 1, 1))
  BY <1>1, <1>4, ProbeAgainFields
<1>6. \A q \in Records : Proper(SeenIdentical(rr[q], p))
  BY <1>1, SeenIdenticalIs, AnsweringFields
<1>7. \A q \in Records : rr[q].list \in {"none", "main", "duplicate"}
  BY <1>1 DEF Proper, AuthRecord
<1>8. CASE ReceiveProbe(p)
  <2>1. \A q \in Records : Proper(rr'[q])
    BY <1>1, <1>3, <1>5, <1>7, <1>8, ReceiveProbeStep
  <2>2. AllProper'
    BY <1>8, <2>1, ProperNext, ReceiveProbeStep
  <2> QED
    BY <1>8, <2>2, RecordsStay, ReceiveProbeStep DEF RegistrationTypeOK
<1>9. CASE ReceiveAnswer(p)
  <2>1. \A q \in Records : Proper(rr'[q])
    BY <1>1, <1>3, <1>5, <1>6, <1>7, <1>9, ReceiveAnswerStep, UnregisteredProper
  <2>2. AllProper'
    BY <1>9, <2>1, ProperNext, ReceiveAnswerStep
  <2> QED
    BY <1>9, <2>2, RecordsStay, ReceiveAnswerStep DEF RegistrationTypeOK
<1> QED
  BY <1>8, <1>9 DEF Receive

LEMMA TickTypes ==
  ASSUME RegistrationTypeOK, Tick
  PROVE  RegistrationTypeOK'
<1>1. \A q \in Records : Proper(rr[q])
  BY TypeIs DEF AllProper
<1>2. \A q \in Records : Proper(Elapsed(rr[q]))
  BY <1>1, ElapsedFields
<1>3. \A q \in Records : Proper(rr'[q])
  BY <1>1, <1>2, TickStep
<1>4. AllProper'
  BY <1>3, ProperNext, TickStep
<1> QED
  BY <1>4, RecordsStay, TickStep DEF RegistrationTypeOK

LEMMA StutterTypes == ASSUME RegistrationTypeOK, UNCHANGED registrationVars PROVE RegistrationTypeOK'
  BY DEF RegistrationTypeOK, registrationVars

(* The types hold in every reachable state: the lists, the counters and the *)
(* packets stay what the code takes them to be.                             *)
THEOREM TypeCorrect == RegistrationSpec => []RegistrationTypeOK
<1>1. RegistrationInit => RegistrationTypeOK
  BY InitTypes
<1>2. RegistrationTypeOK /\ [RegistrationNext]_registrationVars => RegistrationTypeOK'
  <2> SUFFICES ASSUME RegistrationTypeOK, [RegistrationNext]_registrationVars PROVE RegistrationTypeOK'
    OBVIOUS
  <2>1. ASSUME NEW r \in Records, Client(r) PROVE RegistrationTypeOK'
    BY <2>1, RegisterTypes, DeregisterTypes, UpdateTypes DEF Client
  <2>2. ASSUME NEW h \in Hosts, mDNS_StartExit(h) PROVE RegistrationTypeOK'
    BY <2>2, ExitTypes
  <2>3. ASSUME NEW h \in Hosts, Probe(h) PROVE RegistrationTypeOK'
    BY <2>3, ProbeTypes DEF Probe
  <2>4. ASSUME NEW h \in Hosts, Respond(h) PROVE RegistrationTypeOK'
    BY <2>4, ResponseTypes DEF Respond
  <2>5. ASSUME NEW p \in net, Receive(p) PROVE RegistrationTypeOK'
    BY <2>5, ReceiveTypes
  <2>6. CASE Tick
    BY <2>6, TickTypes
  <2>7. CASE UNCHANGED registrationVars
    BY <2>7, StutterTypes
  <2> QED
    BY <2>1, <2>2, <2>3, <2>4, <2>5, <2>6, <2>7 DEF RegistrationNext
<1> QED
  BY <1>1, <1>2, PTL DEF RegistrationSpec

-----------------------------------------------------------------------------
(* Duplicates are covered.                                                  *)

(* What RecordIsLocalDuplicate compares of two live records.                *)
Class(a) == IF a.RecordType = "Verified" THEN "Unique" ELSE a.RecordType

Covers(c, d) ==
  /\ HostOf[c] = HostOf[d]
  /\ rr[c].list = "main" /\ rr[c].RecordType # "Deregistering"
  /\ rr[c].rdata = rr[d].rdata /\ Class(rr[c]) = Class(rr[d])

(* A duplicate has not been verified by itself, so that one that takes over *)
(* does not pass for a verified one; and contents that wait to be announced *)
(* come from mDNS_Update only.                                              *)
DuplicatesUnverified ==
  \A d \in Records : rr[d].list = "duplicate" => rr[d].RecordType # "Verified"
NothingNew ==
  \A r \in Records : rr[r].list # "none" /\ HostOf[r] \notin updated => rr[r].NewRData = NoRData
AllCovered ==
  \A d \in Records : rr[d].list = "duplicate" /\ HostOf[d] \notin updated =>
    \E c \in Records : Covers(c, d)

CoverInv == RegistrationTypeOK /\ DuplicatesUnverified /\ NothingNew /\ AllCovered

LEMMA DuplicateIs ==
  ASSUME NEW a, NEW b, a.RecordType # "Deregistering", b.RecordType # "Deregistering"
  PROVE  RecordIsLocalDuplicate(a, b) <=> a.rdata = b.rdata /\ Class(a) = Class(b)
<1>1. CASE a.RecordType = b.RecordType
  BY <1>1 DEF RecordIsLocalDuplicate, Class
<1>2. CASE a.RecordType # b.RecordType
  <2>1. {a.RecordType, b.RecordType} = {"Unique", "Verified"}
          <=> \/ a.RecordType = "Unique" /\ b.RecordType = "Verified"
              \/ a.RecordType = "Verified" /\ b.RecordType = "Unique"
    BY <1>2
  <2>2. "Deregistering" \notin {a.RecordType, b.RecordType}
    OBVIOUS
  <2>3. Class(a) = Class(b) <=> \/ a.RecordType = "Unique" /\ b.RecordType = "Verified"
                                \/ a.RecordType = "Verified" /\ b.RecordType = "Unique"
    BY <1>2 DEF Class
  <2> QED
    BY <1>2, <2>1, <2>2, <2>3 DEF RecordIsLocalDuplicate
<1> QED
  BY <1>1, <1>2

LEMMA CoverInvIs == CoverInv => DuplicatesCovered
<1> SUFFICES ASSUME CoverInv, NEW d \in Records, rr[d].list = "duplicate", HostOf[d] \notin updated
             PROVE  \E r \in ResourceRecords(HostOf[d]) :
                      /\ rr[r].RecordType # "Deregistering"
                      /\ RecordIsLocalDuplicate(rr[r], rr[d])
  BY DEF DuplicatesCovered
<1>1. PICK c \in Records : Covers(c, d)
  BY DEF CoverInv, AllCovered
<1>2. rr[d].RecordType # "Deregistering"
  BY DEF CoverInv, RegistrationTypeOK
<1>3. RecordIsLocalDuplicate(rr[c], rr[d])
  BY <1>1, <1>2, DuplicateIs DEF Covers
<1> QED
  BY <1>1, <1>3 DEF Covers, ResourceRecords

(* Nothing that matters to the cover changes.                               *)
Kept(a, b) ==
  /\ a.list = b.list /\ Class(a) = Class(b) /\ a.rdata = b.rdata /\ a.NewRData = b.NewRData
  /\ b.list = "duplicate" => a.RecordType = b.RecordType

LEMMA AlikeKept == ASSUME NEW a, NEW b, Alike(a, b) PROVE Kept(a, b)
  BY DEF Alike, Kept, Class

LEMMA CoverKept ==
  ASSUME NEW c, NEW d, Covers(c, d), Kept(rr'[c], rr[c]), Kept(rr'[d], rr[d])
  PROVE  Covers(c, d)'
  BY DEF Covers, Kept, Class

(* What a step has to show.                                                 *)
LEMMA CoverStep ==
  ASSUME CoverInv, RegistrationTypeOK', updated \subseteq updated',
         \A r \in Records : rr'[r].list = "duplicate" =>
           rr[r].list = "duplicate" /\ Kept(rr'[r], rr[r]),
         \A r \in Records : rr'[r].list # "none" /\ HostOf[r] \notin updated' =>
           rr'[r].NewRData = NoRData,
         \A c, d \in Records : Covers(c, d) /\ rr'[d].list = "duplicate" /\ HostOf[d] \notin updated' =>
           Kept(rr'[c], rr[c]) \/ \E q \in Records : Covers(q, d)'
  PROVE  CoverInv'
<1>1. DuplicatesUnverified'
  BY DEF CoverInv, DuplicatesUnverified, Kept
<1>2. NothingNew'
  BY DEF NothingNew
<1>3. ASSUME NEW d \in Records, rr'[d].list = "duplicate", HostOf[d] \notin updated'
      PROVE  \E q \in Records : Covers(q, d)'
  <2>1. rr[d].list = "duplicate" /\ Kept(rr'[d], rr[d]) /\ HostOf[d] \notin updated
    BY <1>3
  <2>2. PICK c \in Records : Covers(c, d)
    BY <2>1 DEF CoverInv, AllCovered
  <2>3. CASE Kept(rr'[c], rr[c])
    BY <2>1, <2>2, <2>3, CoverKept
  <2> QED
    BY <1>3, <2>2, <2>3
<1> QED
  BY <1>1, <1>2, <1>3 DEF CoverInv, AllCovered

LEMMA CoverRegister ==
  ASSUME CoverInv, NEW r \in Records, NEW type \in TypesOf[r], NEW data \in DataOf[r],
         mDNS_Register(r, type, data)
  PROVE  CoverInv'
<1> DEFINE new == NewRecord(type, data)
<1>1. RegistrationTypeOK /\ RegistrationTypeOK' /\ \A q \in Records : Proper(rr[q])
  BY RegisterTypes, TypeIs DEF CoverInv, AllProper
<1>2. type \in {"Unique", "Shared", "KnownUnique"} /\ data \in RData
  BY RegistrationAssumption
<1>3. /\ Proper(new) /\ new.list = "main" /\ new.RecordType = type /\ new.rdata = data
      /\ new.NewRData = NoRData
  BY <1>2, NewRecordProper, NewRecordFields
<1> HIDE DEF new
<1>4. \A n \in 0 .. Probes : LET b == Queued(new, n) IN
         /\ b.list = "duplicate" /\ b.RecordType = type
         /\ b.rdata = data /\ b.NewRData = NoRData
  BY <1>2, <1>3, QueuedFields
<1>5. \A q \in Records \ {r} : Kept(rr'[q], rr[q])
  <2>1. 0 \in 0 .. Announcements + Goodbyes
    BY RegistrationAssumption
  <2> TAKE q \in Records \ {r}
  <2>2. CASE rr'[q] = rr[q]
    BY <2>2 DEF Kept
  <2>3. CASE rr'[q] = Announcing(rr[q], 0)
    BY <1>1, <2>1, <2>3, AnnouncingFields, AlikeKept
  <2> QED
    BY <1>1, <2>2, <2>3, RegisterStep
<1>6. /\ rr'[r].RecordType = type /\ rr'[r].rdata = data /\ rr'[r].NewRData = NoRData
      /\ \/ rr'[r].list = "main"
         \/ /\ rr'[r].list = "duplicate"
            /\ \E q \in ResourceRecords(HostOf[r]) \ {r} :
                    /\ rr[q].RecordType # "Deregistering"
                    /\ RecordIsLocalDuplicate(rr[q], new)
  BY <1>1, <1>3, <1>4, RegisterStep DEF new
<1>7. rr[r].list = "none" /\ updated' = updated
  BY <1>1, RegisterStep
<1>8. DuplicatesUnverified'
  BY <1>2, <1>5, <1>6 DEF CoverInv, DuplicatesUnverified, Kept
<1>9. NothingNew'
  BY <1>5, <1>6, <1>7 DEF CoverInv, NothingNew, Kept
<1>10. ASSUME NEW d \in Records, rr'[d].list = "duplicate", HostOf[d] \notin updated'
       PROVE  \E q \in Records : Covers(q, d)'
  <2>1. CASE d = r
    <3>1. PICK q \in ResourceRecords(HostOf[r]) \ {r} :
                    /\ rr[q].RecordType # "Deregistering"
                    /\ RecordIsLocalDuplicate(rr[q], new)
      BY <1>6, <1>10, <2>1
    <3>2. q \in Records /\ HostOf[q] = HostOf[r] /\ rr[q].list = "main"
      BY DEF ResourceRecords
    <3>3. rr[q].rdata = data /\ Class(rr[q]) = Class(new) /\ Class(new) = Class(rr'[r])
      BY <1>2, <1>3, <1>6, <3>1, DuplicateIs DEF Class
    <3> QED
      BY <1>5, <1>6, <2>1, <3>1, <3>2, <3>3 DEF Covers, Kept, Class
  <2>2. CASE d # r
    <3>1. rr[d].list = "duplicate" /\ Kept(rr'[d], rr[d])
      BY <1>5, <1>10, <2>2 DEF Kept
    <3>2. PICK c \in Records : Covers(c, d)
      BY <1>7, <1>10, <3>1 DEF CoverInv, AllCovered
    <3>3. c # r
      BY <1>7, <3>2 DEF Covers
    <3> QED
      BY <1>5, <3>1, <3>2, <3>3, CoverKept
  <2> QED
    BY <2>1, <2>2
<1> QED
  BY <1>1, <1>8, <1>9, <1>10 DEF CoverInv, AllCovered

LEMMA SameKept == ASSUME NEW a PROVE Kept(a, a)
  BY DEF Kept

LEMMA CoverDeregister ==
  ASSUME CoverInv, NEW r \in Records, mDNS_Deregister(r)
  PROVE  CoverInv'
<1>1. RegistrationTypeOK /\ RegistrationTypeOK' /\ \A q \in Records : Proper(rr[q])
  BY DeregisterTypes, TypeIs DEF CoverInv, AllProper
<1>2. Unregistered.list = "none"
  BY DEF Unregistered
<1>3. updated' = updated /\ rr[r].list # "none" /\ rr[r].RecordType # "Deregistering"
  BY <1>1, DeregisterStep
<1>4. CASE /\ \A q \in Records \ {r} : rr'[q] = rr[q]
           /\ rr[r].list = "duplicate" /\ rr'[r] = Unregistered
  <2>1. \A q \in Records \ {r} : Kept(rr'[q], rr[q])
    BY <1>4, SameKept
  <2>2. \A q \in Records : rr'[q].list = "duplicate" => rr[q].list = "duplicate" /\ Kept(rr'[q], rr[q])
    BY <1>2, <1>4, <2>1
  <2>3. \A q \in Records : rr'[q].list # "none" /\ HostOf[q] \notin updated' => rr'[q].NewRData = NoRData
    BY <1>2, <1>3, <1>4 DEF CoverInv, NothingNew
  <2>4. \A c, d \in Records : Covers(c, d) => Kept(rr'[c], rr[c])
    BY <1>4, <2>1 DEF Covers
  <2> QED
    BY <1>1, <1>3, <2>2, <2>3, <2>4, CoverStep
<1>5. CASE /\ \A q \in Records \ {r} : rr'[q] = rr[q]
           /\ rr[r].list = "main" /\ rr'[r] = Departed(rr[r], Goodbyes)
           /\ \A d \in DuplicateRecords(HostOf[r]) : ~RecordIsLocalDuplicate(rr[d], rr[r])
  <2>1. Goodbyes \in 0 .. Announcements + Goodbyes
    BY RegistrationAssumption
  <2>2. \/ rr'[r].list = "none"
        \/ rr'[r].list = "main" /\ rr'[r].NewRData = rr[r].NewRData
    BY <1>1, <1>2, <1>5, <2>1, DepartedFields
  <2>3. \A q \in Records \ {r} : Kept(rr'[q], rr[q])
    BY <1>5, SameKept
  <2>4. \A q \in Records : rr'[q].list = "duplicate" => rr[q].list = "duplicate" /\ Kept(rr'[q], rr[q])
    BY <2>2, <2>3 DEF Kept
  <2>5. \A q \in Records : rr'[q].list # "none" /\ HostOf[q] \notin updated' => rr'[q].NewRData = NoRData
    BY <1>3, <1>5, <2>2 DEF CoverInv, NothingNew
  <2>6. ASSUME NEW c \in Records, NEW d \in Records, Covers(c, d), rr'[d].list = "duplicate"
        PROVE  Kept(rr'[c], rr[c])
    <3>1. rr[d].list = "duplicate" /\ rr[d].RecordType # "Deregistering"
      BY <2>4, <2>6, <1>1 DEF RegistrationTypeOK
    <3>2. c # r
      <4>1. SUFFICES ASSUME c = r PROVE FALSE
        OBVIOUS
      <4>2. RecordIsLocalDuplicate(rr[d], rr[r]) /\ d \in DuplicateRecords(HostOf[r])
        BY <1>3, <2>6, <3>1, <4>1, DuplicateIs DEF Covers, DuplicateRecords
      <4> QED
        BY <1>5, <4>2
    <3> QED
      BY <2>3, <3>2
  <2> QED
    BY <1>1, <1>3, <2>4, <2>5, <2>6, CoverStep
<1>6. CASE rr[r].list = "main" /\ \E d \in Records \ {r} : TakenOver(r, d)
  <2>1. PICK h \in Records \ {r} : TakenOver(r, h)
    BY <1>6
  <2>2. /\ HostOf[h] = HostOf[r] /\ rr'[r] = Unregistered
        /\ \A q \in Records \ {r, h} : rr'[q] = rr[q]
        /\ rr'[h].list = "main" /\ rr'[h].RecordType = rr[r].RecordType
        /\ rr'[h].rdata = rr[r].rdata /\ rr'[h].NewRData = rr[h].NewRData /\ rr[h].list = "duplicate"
    BY <1>1, <1>6, <2>1, SuccessorFields DEF TakenOver, DuplicateRecords
  <2>3. \A q \in Records \ {r, h} : Kept(rr'[q], rr[q])
    BY <2>2, SameKept
  <2>4. \A q \in Records : rr'[q].list = "duplicate" =>
          q # r /\ q # h /\ rr[q].list = "duplicate" /\ Kept(rr'[q], rr[q])
    BY <1>2, <2>2, <2>3
  <2>5. \A q \in Records : rr'[q].list # "none" /\ HostOf[q] \notin updated' => rr'[q].NewRData = NoRData
    BY <1>2, <1>3, <2>2 DEF CoverInv, NothingNew
  <2>6. ASSUME NEW c \in Records, NEW d \in Records, Covers(c, d), rr'[d].list = "duplicate"
        PROVE  Kept(rr'[c], rr[c]) \/ \E q \in Records : Covers(q, d)'
    <3>1. CASE c = r
      <4>1. Covers(h, d)'
        BY <1>3, <2>2, <2>4, <2>6, <3>1 DEF Covers, Kept, Class
      <4> QED
        BY <4>1
    <3>2. CASE c # r
      BY <2>2, <2>3, <2>6, <3>2 DEF Covers
    <3> QED
      BY <3>1, <3>2
  <2> QED
    BY <1>1, <1>3, <2>4, <2>5, <2>6, CoverStep
<1> QED
  BY <1>1, <1>4, <1>5, <1>6, DeregisterStep

LEMMA CoverUpdate ==
  ASSUME CoverInv, NEW r \in Records, NEW data \in DataOf[r], mDNS_Update(r, data)
  PROVE  CoverInv'
<1>1. RegistrationTypeOK /\ RegistrationTypeOK' /\ Proper(rr[r])
  BY UpdateTypes, TypeIs DEF CoverInv, AllProper
<1>2. updated' = updated \cup {HostOf[r]} /\ \A q \in Records \ {r} : rr'[q] = rr[q]
  BY <1>1, UpdateStep
<1>3. rr'[r].list = rr[r].list /\ rr'[r].RecordType = rr[r].RecordType
  <2>1. data \in RData
    BY RegistrationAssumption
  <2>2. /\ Updated(rr[r], data).list = rr[r].list
        /\ Updated(rr[r], data).RecordType = rr[r].RecordType
        /\ NotUpdated(rr[r]).list = rr[r].list
        /\ NotUpdated(rr[r]).RecordType = rr[r].RecordType
    BY <1>1, <2>1, UpdatedFields
  <2> QED
    BY <1>1, <2>2, UpdateStep
<1>4. \A q \in Records : HostOf[q] \notin updated' => HostOf[q] \notin updated /\ rr'[q] = rr[q]
  BY <1>2
<1>5. DuplicatesUnverified'
  BY <1>2, <1>3 DEF CoverInv, DuplicatesUnverified
<1>6. NothingNew'
  BY <1>4 DEF CoverInv, NothingNew
<1>7. AllCovered'
  <2> SUFFICES ASSUME NEW d \in Records, rr'[d].list = "duplicate", HostOf[d] \notin updated'
               PROVE  \E q \in Records : Covers(q, d)'
    BY DEF AllCovered
  <2>1. PICK c \in Records : Covers(c, d)
    BY <1>4 DEF CoverInv, AllCovered
  <2> QED
    BY <1>4, <2>1 DEF Covers
<1> QED
  BY <1>1, <1>5, <1>6, <1>7 DEF CoverInv

LEMMA CoverExit ==
  ASSUME CoverInv, NEW h \in Hosts, mDNS_StartExit(h)
  PROVE  CoverInv'
<1>1. RegistrationTypeOK /\ RegistrationTypeOK' /\ \A q \in Records : Proper(rr[q])
  BY ExitTypes, TypeIs DEF CoverInv, AllProper
<1>2. updated' = updated /\ 1 \in 0 .. Announcements + Goodbyes
  <2>1. 1 \in 0 .. Announcements + Goodbyes
    BY RegistrationAssumption
  <2> QED
    BY <1>1, <2>1, ExitStep
<1>3. ASSUME NEW q \in Records
      PROVE  \/ rr'[q] = rr[q] /\ (HostOf[q] # h \/ rr[q].list = "none")
             \/ /\ HostOf[q] = h
                /\ \/ rr'[q].list = "none"
                   \/ rr'[q].list = "main" /\ rr'[q].NewRData = rr[q].NewRData /\ rr[q].list = "main"
  <2>1. Unregistered.list = "none"
    BY DEF Unregistered
  <2>2. rr[q].list = "main" =>
          \/ Departed(rr[q], 1).list = "none"
          \/ Departed(rr[q], 1).list = "main" /\ Departed(rr[q], 1).NewRData = rr[q].NewRData
    BY <1>1, <1>2, <2>1, DepartedFields
  <2>3. \A n \in {rr[q].AnnounceCount, 1} : Alike(Announcing(rr[q], n), rr[q])
    BY <1>1, <1>2, AnnouncingFields DEF Proper, AuthRecord
  <2>4. \/ rr'[q] = rr[q] /\ (HostOf[q] # h \/ rr[q].list = "none")
        \/ /\ HostOf[q] = h
           /\ \/ rr'[q] = Unregistered
              \/ rr[q].list = "main" /\ rr'[q] = Departed(rr[q], 1)
              \/ rr[q].list = "main"
                   /\ \E n \in {rr[q].AnnounceCount, 1} : rr'[q] = Announcing(rr[q], n)
    BY <1>1, ExitStep
  <2> QED
    BY <2>1, <2>2, <2>3, <2>4 DEF Alike
<1>4. \A q \in Records : rr'[q].list = "duplicate" =>
        HostOf[q] # h /\ rr[q].list = "duplicate" /\ Kept(rr'[q], rr[q])
  BY <1>3, SameKept
<1>5. \A q \in Records : rr'[q].list # "none" /\ HostOf[q] \notin updated' => rr'[q].NewRData = NoRData
  BY <1>2, <1>3 DEF CoverInv, NothingNew
<1>6. \A c, d \in Records : Covers(c, d) /\ rr'[d].list = "duplicate" => Kept(rr'[c], rr[c])
  BY <1>3, <1>4, SameKept DEF Covers
<1> QED
  BY <1>1, <1>2, <1>4, <1>5, <1>6, CoverStep

LEMMA CoverProbe ==
  ASSUME CoverInv, NEW h \in Hosts, NEW due, SendProbes(h, due)
  PROVE  CoverInv'
<1>1. RegistrationTypeOK /\ RegistrationTypeOK' /\ (\A q \in Records : Proper(rr[q])) /\ updated' = updated
  BY ProbeTypes, ProbeStep, TypeIs DEF CoverInv, AllProper
<1>2. ASSUME NEW q \in Records PROVE Kept(rr'[q], rr[q])
  <2>1. CASE q \in due
    <3>1. /\ rr[q].list = "main" /\ rr[q].RecordType = "Unique"
          /\ \/ rr[q].ProbeCount > 0 /\ rr'[q] = AfterProbe(rr[q])
             \/ rr'[q] = Verified(rr[q])
      BY <1>1, <2>1, ProbeStep
    <3>2. CASE rr[q].ProbeCount > 0 /\ rr'[q] = AfterProbe(rr[q])
      BY <1>1, <3>2, AfterProbeFields, AlikeKept
    <3>3. CASE rr'[q] = Verified(rr[q])
      BY <1>1, <3>1, <3>3, VerifiedFields DEF Kept, Class
    <3> QED
      BY <3>1, <3>2, <3>3
  <2>2. CASE q \notin due
    BY <1>1, <2>2, ProbeStep, ClearedFields, AlikeKept, SameKept
  <2> QED
    BY <2>1, <2>2
<1>3. \A q \in Records : rr'[q].list = "duplicate" => rr[q].list = "duplicate" /\ Kept(rr'[q], rr[q])
  BY <1>2 DEF Kept
<1>4. \A q \in Records : rr'[q].list # "none" /\ HostOf[q] \notin updated' => rr'[q].NewRData = NoRData
  BY <1>1, <1>2 DEF CoverInv, NothingNew, Kept
<1> QED
  BY <1>1, <1>2, <1>3, <1>4, CoverStep

LEMMA CoverTick == ASSUME CoverInv, Tick PROVE CoverInv'
<1>1. RegistrationTypeOK /\ RegistrationTypeOK' /\ (\A q \in Records : Proper(rr[q])) /\ updated' = updated
  BY TickTypes, TickStep, TypeIs DEF CoverInv, AllProper
<1>2. \A q \in Records : Kept(rr'[q], rr[q])
  BY <1>1, TickStep, ElapsedFields, AlikeKept, SameKept
<1>3. \A q \in Records : rr'[q].list = "duplicate" => rr[q].list = "duplicate" /\ Kept(rr'[q], rr[q])
  BY <1>2 DEF Kept
<1>4. \A q \in Records : rr'[q].list # "none" /\ HostOf[q] \notin updated' => rr'[q].NewRData = NoRData
  BY <1>1, <1>2 DEF CoverInv, NothingNew, Kept
<1> QED
  BY <1>1, <1>2, <1>3, <1>4, CoverStep

LEMMA CoverResponse ==
  ASSUME CoverInv, NEW h \in Hosts, NEW due, SendResponses(h, due)
  PROVE  CoverInv'
<1>1. RegistrationTypeOK /\ RegistrationTypeOK' /\ (\A q \in Records : Proper(rr[q])) /\ updated' = updated
  BY ResponseTypes, ResponseIs, TypeIs DEF CoverInv, AllProper
<1>2. Unregistered.list = "none"
  BY DEF Unregistered
<1>3. ASSUME NEW q \in Records, q \in ResourceRecords(h)
      PROVE  /\ rr'[q].list \in {"none", "main"}
             /\ HostOf[q] \notin updated => rr'[q].list = "none" \/ rr'[q].NewRData = NoRData
             /\ HostOf[q] \notin updated /\ rr[q].RecordType # "Deregistering" =>
                  Kept(rr'[q], rr[q])
  <2>1. Responded(q) /\ rr[q].list = "main" /\ Proper(rr[q])
    BY <1>1, <1>3, ResponseStep DEF ResourceRecords
  <2>2. HostOf[q] \notin updated => rr[q].NewRData = NoRData
    BY <2>1 DEF CoverInv, NothingNew
  <2>3. CASE rr'[q] = Unregistered /\ rr[q].RecordType = "Deregistering"
    BY <1>2, <2>3
  <2>4. CASE \E isDue \in BOOLEAN :
               rr'[q] = AfterMulticast(rr[q], isDue) /\ (isDue => Sendable(rr[q]))
    <3>1. PICK isDue \in BOOLEAN :
               rr'[q] = AfterMulticast(rr[q], isDue) /\ (isDue => rr[q].AnnounceCount > 0)
      BY <2>4 DEF Sendable
    <3>2. /\ rr'[q].list = "main" /\ rr'[q].RecordType = rr[q].RecordType /\ rr'[q].NewRData = NoRData
          /\ rr[q].NewRData = NoRData => rr'[q].rdata = rr[q].rdata
      BY <2>1, <3>1, AfterMulticastFields
    <3> QED
      BY <2>1, <2>2, <3>2 DEF Kept, Class
  <2>5. CASE rr'[q] = Replied(rr[q])
    <3>1. Alike(rr'[q], rr[q])
      BY <2>1, <2>5, RepliedFields
    <3>2. Kept(rr'[q], rr[q])
      BY <3>1, AlikeKept
    <3> QED
      BY <2>1, <2>2, <3>2 DEF Kept
  <2>6. CASE rr'[q] = rr[q]
    BY <2>1, <2>2, <2>6, SameKept
  <2>7. CASE rr[q].RecordType = "Deregistering" /\ rr'[q] = Completed(rr[q])
    BY <2>1, <2>2, <2>7, CompletedFields
  <2> QED
    BY <2>1, <2>3, <2>4, <2>5, <2>6, <2>7 DEF Responded
<1>4. ASSUME NEW q \in Records, q \notin ResourceRecords(h)
      PROVE  /\ rr'[q].NewRData = rr[q].NewRData
             /\ rr[q].list = "none" => rr'[q].list = "none"
             /\ rr'[q].list = "duplicate" => rr[q].list = "duplicate"
             /\ rr[q].list # "duplicate" \/ rr'[q].list = "duplicate" => Kept(rr'[q], rr[q])
  <2>1. CASE rr'[q] = rr[q]
    BY <2>1, SameKept
  <2>2. CASE TakesOver(q)
    BY <1>1, <2>2, PromotedFields DEF TakesOver
  <2> QED
    BY <1>1, <1>4, <2>1, <2>2, ResponseStep
<1>5. \A q \in Records : rr'[q].list = "duplicate" => rr[q].list = "duplicate" /\ Kept(rr'[q], rr[q])
  BY <1>3, <1>4
<1>6. \A q \in Records : rr'[q].list # "none" /\ HostOf[q] \notin updated' => rr'[q].NewRData = NoRData
  BY <1>1, <1>3, <1>4 DEF CoverInv, NothingNew
<1>7. \A c, d \in Records : Covers(c, d) /\ HostOf[d] \notin updated' => Kept(rr'[c], rr[c])
  BY <1>1, <1>3, <1>4 DEF Covers
<1> QED
  BY <1>1, <1>5, <1>6, <1>7, CoverStep

LEMMA CoverReceiveProbe ==
  ASSUME CoverInv, NEW p \in net, ReceiveProbe(p)
  PROVE  CoverInv'
<1>1. RegistrationTypeOK /\ RegistrationTypeOK' /\ (\A q \in Records : Proper(rr[q])) /\ updated' = updated
  BY ReceiveTypes, ReceiveProbeStep, TypeIs DEF CoverInv, AllProper, Receive
<1>2. \A x \in {"all", "mark", p.from} : x \in ImmedAnswers
  BY <1>1 DEF RegistrationTypeOK, Packet, ImmedAnswers
<1>3. Probes \in 0 .. Probes + 1 /\ Deferral \in 0 .. Deferral
  BY RegistrationAssumption
<1>4. ASSUME NEW q \in Records PROVE Kept(rr'[q], rr[q])
  <2>1. \/ rr'[q] = rr[q]
        \/ \E x \in {"all", "mark", p.from} : rr'[q] = Answering(rr[q], x)
        \/ /\ rr[q].list = "main" /\ rr[q].RecordType = "Unique"
           /\ rr'[q] = ProbeAgain(rr[q], Probes, Deferral)
    BY <1>1, ReceiveProbeStep
  <2>2. CASE rr'[q] = rr[q]
    BY <2>2, SameKept
  <2>3. CASE \E x \in {"all", "mark", p.from} : rr'[q] = Answering(rr[q], x)
    BY <1>1, <1>2, <2>3, AnsweringFields, AlikeKept
  <2>4. CASE /\ rr[q].list = "main" /\ rr[q].RecordType = "Unique"
             /\ rr'[q] = ProbeAgain(rr[q], Probes, Deferral)
    BY <1>1, <1>3, <2>4, ProbeAgainFields DEF Kept, Class
  <2> QED
    BY <2>1, <2>2, <2>3, <2>4
<1>5. \A q \in Records : rr'[q].list = "duplicate" => rr[q].list = "duplicate" /\ Kept(rr'[q], rr[q])
  BY <1>4 DEF Kept
<1>6. \A q \in Records : rr'[q].list # "none" /\ HostOf[q] \notin updated' => rr'[q].NewRData = NoRData
  BY <1>1, <1>4 DEF CoverInv, NothingNew, Kept
<1> QED
  BY <1>1, <1>4, <1>5, <1>6, CoverStep

LEMMA CoverReceiveAnswer ==
  ASSUME CoverInv, NEW p \in net, ReceiveAnswer(p)
  PROVE  CoverInv'
<1>1. RegistrationTypeOK /\ RegistrationTypeOK' /\ (\A q \in Records : Proper(rr[q])) /\ updated' = updated
  BY ReceiveTypes, ReceiveAnswerStep, TypeIs DEF CoverInv, AllProper, Receive
<1>2. "mark" \in ImmedAnswers /\ Unregistered.list = "none"
  BY DEF ImmedAnswers, Unregistered
<1>3. Probes + 1 \in 0 .. Probes + 1 /\ 1 \in 0 .. Deferral
  BY RegistrationAssumption
<1>4. ASSUME NEW q \in Records
      PROVE  /\ rr'[q] = Unregistered \/ Kept(rr'[q], rr[q])
             /\ rr[q].list = "main" /\ rr'[q] = Unregistered => Loser(q, p)
             /\ HostOf[q] = p.to /\ rr[q].list = "duplicate" /\ rr'[q].list # "none" =>
                  \A s \in Records : Loser(s, p) => ~RecordIsLocalDuplicate(rr[q], rr[s])
  <2>1. rr[q].list \in {"none", "main", "duplicate"}
    BY <1>1 DEF Proper, AuthRecord
  <2>2. CASE HostOf[q] # p.to \/ rr[q].list = "none"
    <3>1. rr'[q] = rr[q]
      BY <1>1, <2>2, ReceiveAnswerStep
    <3> QED
      BY <1>2, <2>2, <3>1, SameKept
  <2>3. CASE HostOf[q] = p.to /\ rr[q].list = "duplicate"
    <3>1. IF \E s \in Records : Loser(s, p) /\ RecordIsLocalDuplicate(rr[q], rr[s])
          THEN rr'[q] = Unregistered ELSE rr'[q] = rr[q]
      BY <1>1, <2>3, ReceiveAnswerStep
    <3> QED
      BY <1>2, <2>3, <3>1, SameKept
  <2>4. CASE HostOf[q] = p.to /\ rr[q].list = "main"
    <3>1. IF LosesName(rr[q], p) THEN rr'[q] = Unregistered
          ELSE \/ rr'[q] = SeenIdentical(rr[q], p)
               \/ MustDefend(rr[q], p) /\ rr'[q] = ProbeAgain(rr[q], Probes + 1, 1)
               \/ rr'[q] = rr[q]
               \/ rr'[q] = Answering(rr[q], "mark")
      BY <1>1, <2>4, ReceiveAnswerStep
    <3>2. LosesName(rr[q], p) => Loser(q, p)
      BY <2>4 DEF Loser, ResourceRecords
    <3>3. Kept(SeenIdentical(rr[q], p), rr[q])
      BY <1>1, SeenIdenticalIs, AnsweringFields, AlikeKept
    <3>4. MustDefend(rr[q], p) => Kept(ProbeAgain(rr[q], Probes + 1, 1), rr[q])
      BY <1>1, <1>3, <2>4, ProbeAgainFields DEF Kept, Class, MustDefend
    <3>5. Kept(Answering(rr[q], "mark"), rr[q])
      BY <1>1, <1>2, AnsweringFields, AlikeKept
    <3>6. Kept(rr'[q], rr[q]) => rr'[q] # Unregistered
      BY <1>2, <2>4 DEF Kept
    <3> QED
      BY <2>4, <3>1, <3>2, <3>3, <3>4, <3>5, <3>6, SameKept
  <2> QED
    BY <2>1, <2>2, <2>3, <2>4
<1>5. \A q \in Records : rr'[q].list = "duplicate" => rr[q].list = "duplicate" /\ Kept(rr'[q], rr[q])
  BY <1>2, <1>4 DEF Kept
<1>6. \A q \in Records : rr'[q].list # "none" /\ HostOf[q] \notin updated' => rr'[q].NewRData = NoRData
  BY <1>1, <1>2, <1>4 DEF CoverInv, NothingNew, Kept
<1>7. ASSUME NEW c \in Records, NEW d \in Records, Covers(c, d), rr'[d].list = "duplicate"
      PROVE  Kept(rr'[c], rr[c])
  <2>1. rr[d].list = "duplicate" /\ rr[d].RecordType # "Deregistering" /\ rr'[d].list # "none"
    BY <1>1, <1>5, <1>7 DEF Proper
  <2>2. RecordIsLocalDuplicate(rr[d], rr[c])
    BY <1>7, <2>1, DuplicateIs DEF Covers
  <2>3. ~Loser(c, p)
    BY <1>4, <1>7, <2>1, <2>2 DEF Loser, ResourceRecords, Covers
  <2> QED
    BY <1>4, <1>7, <2>3 DEF Covers
<1> QED
  BY <1>1, <1>5, <1>6, <1>7, CoverStep

LEMMA CoverInit == RegistrationInit => CoverInv
<1> SUFFICES ASSUME RegistrationInit PROVE CoverInv
  OBVIOUS
<1>1. \A r \in Records : rr[r].list = "none"
  BY DEF RegistrationInit, Unregistered
<1> QED
  BY <1>1, InitTypes DEF CoverInv, DuplicatesUnverified, NothingNew, AllCovered

LEMMA CoverNext == ASSUME CoverInv, [RegistrationNext]_registrationVars PROVE CoverInv'
<1>1. ASSUME NEW r \in Records, Client(r) PROVE CoverInv'
  BY <1>1, CoverRegister, CoverDeregister, CoverUpdate DEF Client
<1>2. ASSUME NEW h \in Hosts, mDNS_StartExit(h) PROVE CoverInv'
  BY <1>2, CoverExit
<1>3. ASSUME NEW h \in Hosts, Probe(h) PROVE CoverInv'
  BY <1>3, CoverProbe DEF Probe
<1>4. ASSUME NEW h \in Hosts, Respond(h) PROVE CoverInv'
  BY <1>4, CoverResponse DEF Respond
<1>5. ASSUME NEW p \in net, Receive(p) PROVE CoverInv'
  BY <1>5, CoverReceiveProbe, CoverReceiveAnswer DEF Receive
<1>6. CASE Tick
  BY <1>6, CoverTick
<1>7. CASE UNCHANGED registrationVars
  <2>1. RegistrationTypeOK'
    BY <1>7, StutterTypes DEF CoverInv
  <2> QED
    BY <1>7, <2>1 DEF registrationVars, CoverInv, DuplicatesUnverified, NothingNew, AllCovered, Covers
<1> QED
  BY <1>1, <1>2, <1>3, <1>4, <1>5, <1>6, <1>7 DEF RegistrationNext

(* A record waits on the duplicate list only while a live record identical  *)
(* to it is on the other list of its host: whichever of the two the clients *)
(* or the link take away, in whatever order, no record is left waiting for  *)
(* one that is gone.                                                        *)
THEOREM Covered == RegistrationSpec => []DuplicatesCovered
<1>1. CoverInv /\ [RegistrationNext]_registrationVars => CoverInv'
  BY CoverNext
<1> QED
  BY <1>1, CoverInit, CoverInvIs, PTL DEF RegistrationSpec

-----------------------------------------------------------------------------
(* What the uniqueness of names rests on.                                   *)

(* The hosts' rdata differ, as those of address records do, and a host does *)
(* not have one content in a shared and in a unique record.                 *)
DataOfOneHost ==
  \A q, r \in Records : HostOf[q] # HostOf[r] => DataOf[q] \cap DataOf[r] = {}
NotSharedAndUnique ==
  \A q, r \in Records :
    q # r /\ HostOf[q] = HostOf[r] /\ "Shared" \in TypesOf[q] /\ "Unique" \in TypesOf[r]
      => DataOf[q] \cap DataOf[r] = {}
(* A loser waits no longer than probing takes; a name is not owned after    *)
(* two probes.                                                              *)
ProbingTakesTime == Probes >= 3 /\ Deferral <= Probes + 1

LinkAssumption == DataOfOneHost /\ NotSharedAndUnique /\ ProbingTakesTime

(* Below, a and b are records on hosts g and h, and n is what is on the     *)
(* network.                                                                 *)
IsUnique(a) == a.list = "main" /\ a.RecordType = "Unique"
Owner(a) == a.list = "main" /\ a.RecordType = "Verified"

(* It has sent a probe since it began, or began again.                      *)
Probed(a) == IsUnique(a) /\ a.ProbeCount < Probes
(* Its first one in this interval.                                          *)
New(a) == a.wait > 0 /\ a.ProbeCount = Probes - 1
(* It may be probed in this interval, or has been.                          *)
Contender(a) == IsUnique(a) /\ (a.ProbeCount < Probes \/ a.wait = 0)

(* How many intervals pass until it is verified.                            *)
TimeLeft(a) == a.wait + (IF a.ProbeCount > Probes THEN Probes ELSE a.ProbeCount)

Own(p, h) == p.kind = "answer" /\ p.from = h /\ p.to = h

(* What the records and the packets say.                                    *)
ContentOf(r, a) ==
  a.list # "none" =>
    /\ a.rdata \in DataOf[r] /\ a.NewRData \in DataOf[r] \cup {NoRData}
    /\ a.RecordType \in {"Shared", "Deregistering"} => "Shared" \in TypesOf[r]
    /\ a.RecordType \in {"Unique", "Verified"} => "Unique" \in TypesOf[r]
    /\ a.RecordType = "KnownUnique" => "KnownUnique" \in TypesOf[r]

Goodbye(p) == p.kind = "answer" /\ p.goodbye

PacketOf(p) ==
  /\ Goodbye(p) => ~p.flush
  /\ \E r \in Records : /\ HostOf[r] = p.from /\ p.rdata \in DataOf[r]
                        /\ Goodbye(p) => "Shared" \in TypesOf[r]

Contents == (\A r \in Records : ContentOf(r, rr[r])) /\ \A p \in net : PacketOf(p)

(* A record that is being probed: it sends a probe in every interval, is    *)
(* not asked to answer, and what it has announced when it had the name      *)
(* before is past when it gets it again.                                    *)
TimingOf(n, a, h) ==
  IsUnique(a) =>
    /\ a.ProbeCount < Probes => a.wait <= 1
    /\ a.ImmedAnswer # "no" => ~Contender(a)
    /\ a.AnnounceCount < Announcements => a.recent <= TimeLeft(a)
    /\ \A p \in n : Own(p, h) /\ Goodbye(p) /\ p.rdata = a.rdata => ~Contender(a)

Timing == \A r \in Records : TimingOf(net, rr[r], HostOf[r])

(* Why a record b that is probed while a owns the name will give way: it    *)
(* will be answered.                                                        *)
AnswerComes(n, b, h) ==
  \E p \in n : p.kind = "answer" /\ p.to = h /\ ~Goodbye(p) /\ p.rdata # b.rdata
ProbeComes(n, a, g, h) ==
  \E p \in n : /\ p.kind = "probe" /\ p.from = h /\ p.to = g
               /\ p.unicast \/ a.recent = 0
AnswerDue(n, a, g, h) ==
  /\ a.ImmedAnswer \in {"all", "mark", h}
  /\ \A p \in n : ~Own(p, g)
AnnouncementDue(a) == a.AnnounceCount >= Announcements
WillAnswer(a, b) == a.recent = 0 /\ b.ProbeCount = Probes - 1

Doomed(n, a, g, b, h) ==
  /\ b.ProbeCount > 0 /\ (b.wait > 0 \/ b.ProbeCount > 1)
  /\ \/ AnswerComes(n, b, h) \/ ProbeComes(n, a, g, h) \/ AnswerDue(n, a, g, h)
     \/ AnnouncementDue(a) \/ WillAnswer(a, b)

(* Why of two records the one with the earlier rdata will give way.         *)
Beaten(n, g, b) ==
  \/ b.wait = 0
  \/ \E p \in n : p.kind = "probe" /\ p.to = g /\ p.rdata = b.rdata

RaceOf(n, a, g, b, h) ==
  /\ ~(Owner(a) /\ Owner(b))
  /\ Owner(a) /\ Probed(b) => Doomed(n, a, g, b, h)
  /\ Contender(a) /\ Probed(b) /\ a.rdata < b.rdata => Beaten(n, g, b)
  /\ Probed(a) /\ Probed(b) => New(a) \/ New(b)

Race ==
  \A q, r \in Records :
    HostOf[q] # HostOf[r] => RaceOf(net, rr[q], HostOf[q], rr[r], HostOf[r])

LinkInv == CoverInv /\ Contents /\ Timing /\ Race

-----------------------------------------------------------------------------
(* How the race of two records goes on when one of them takes a step.       *)

Out(a) == ~Owner(a) /\ ~Contender(a)

(* Nothing but what only the clients see of it changes.                     *)
Like(a, b) ==
  /\ a.list = b.list /\ a.RecordType = b.RecordType /\ a.rdata = b.rdata
  /\ a.ProbeCount = b.ProbeCount /\ a.wait = b.wait /\ a.recent = b.recent
  /\ a.AnnounceCount = b.AnnounceCount /\ a.ImmedAnswer = b.ImmedAnswer

LEMMA OutIs ==
  ASSUME NEW a
  PROVE  /\ a.list # "main" => Out(a)
         /\ a.RecordType \notin {"Unique", "Verified"} => Out(a)
         /\ IsUnique(a) /\ ~(a.ProbeCount < Probes) /\ a.wait > 0 => Out(a)
         /\ Probed(a) => Contender(a)
         /\ Contender(a) => IsUnique(a)
         /\ ~(Owner(a) /\ IsUnique(a))
<1>1. /\ a.list # "main" => Out(a)
      /\ a.RecordType \notin {"Unique", "Verified"} => Out(a)
      /\ ~(Owner(a) /\ IsUnique(a))
  BY DEF Out, Owner, Contender, IsUnique
<1>2. Probed(a) => Contender(a)
  BY DEF Probed, Contender
<1>3. Contender(a) => IsUnique(a)
  BY DEF Contender
<1>4. IsUnique(a) /\ ~(a.ProbeCount < Probes) /\ a.wait > 0 => Out(a)
  <2>1. a.wait > 0 => a.wait # 0
    OBVIOUS
  <2> QED
    BY <2>1 DEF Out, Contender, Owner, IsUnique
<1> QED
  BY <1>1, <1>2, <1>3, <1>4

LEMMA OutRace ==
  ASSUME NEW n, NEW a, NEW g, NEW b, NEW h, Out(a) \/ Out(b)
  PROVE  RaceOf(n, a, g, b, h)
  BY OutIs DEF RaceOf, Out

LEMMA LikeRace ==
  ASSUME NEW n, NEW a, NEW g, NEW b, NEW h, RaceOf(n, a, g, b, h),
         NEW c, NEW d, Like(c, a), Like(d, b)
  PROVE  RaceOf(n, c, g, d, h)
<1> USE DEF Like, Alike
<1>1. Owner(c) <=> Owner(a)
  BY DEF Owner
<1>2. Owner(d) <=> Owner(b)
  BY DEF Owner
<1>3. (Probed(d) <=> Probed(b)) /\ (Probed(c) <=> Probed(a))
  BY DEF Probed, IsUnique
<1>4. Contender(c) <=> Contender(a)
  BY DEF Contender, IsUnique
<1>5. (New(c) <=> New(a)) /\ (New(d) <=> New(b))
  BY DEF New
<1>6. Doomed(n, c, g, d, h) <=> Doomed(n, a, g, b, h)
  BY DEF Doomed, AnswerComes, ProbeComes, AnswerDue, AnnouncementDue, WillAnswer
<1>7. Beaten(n, g, d) <=> Beaten(n, g, b)
  BY DEF Beaten
<1> QED
  BY <1>1, <1>2, <1>3, <1>4, <1>5, <1>6, <1>7 DEF RaceOf

LEMMA OutTiming ==
  ASSUME NEW n, NEW a, NEW h, IsUnique(a) => Out(a) /\ a.AnnounceCount = Announcements
  PROVE  TimingOf(n, a, h)
<1>1. IsUnique(a) => ~(a.ProbeCount < Probes)
  BY DEF Out, Contender
<1>2. IsUnique(a) => ~(a.AnnounceCount < Announcements)
  BY RegistrationAssumption
<1> QED
  BY <1>1, <1>2 DEF TimingOf, Out

LEMMA LikeTiming ==
  ASSUME NEW n, NEW a, NEW h, TimingOf(n, a, h), NEW c, Like(c, a)
  PROVE  TimingOf(n, c, h)
  BY DEF TimingOf, IsUnique, Contender, TimeLeft, Like, Alike

LEMMA KeptContent ==
  ASSUME NEW r, NEW b, ContentOf(r, b), NEW a, Kept(a, b)
  PROVE  ContentOf(r, a)
  BY DEF ContentOf, Kept, Class

LEMMA SentContent ==
  ASSUME NEW r \in Records, NEW a, ContentOf(r, a), a.list # "none",
         NEW c, c.list = a.list, c.RecordType = a.RecordType,
         c.NewRData \in {NoRData, a.NewRData},
         c.rdata = a.rdata \/ (c.rdata = a.NewRData /\ c.rdata # NoRData)
  PROVE  ContentOf(r, c)
  BY DEF ContentOf

LEMMA GoneContent == ASSUME NEW r PROVE ContentOf(r, Unregistered) /\ Out(Unregistered)
  BY OutIs DEF ContentOf, Unregistered

LEMMA DifferentData ==
  ASSUME DataOfOneHost, NEW q \in Records, NEW r \in Records, HostOf[q] # HostOf[r],
         NEW a, NEW b, ContentOf(q, a), ContentOf(r, b), a.list # "none", b.list # "none"
  PROVE  a.rdata # b.rdata
  BY DEF DataOfOneHost, ContentOf

(* More packets that are not answers.                                       *)
LEMMA RaceProbesSent ==
  ASSUME NEW n, NEW a, NEW g, NEW b, NEW h, RaceOf(n, a, g, b, h),
         NEW m, n \subseteq m, \A p \in m \ n : p.kind = "probe"
  PROVE  RaceOf(m, a, g, b, h)
<1>1. Beaten(n, g, b) => Beaten(m, g, b)
  BY DEF Beaten
<1>2. AnswerDue(n, a, g, h) => AnswerDue(m, a, g, h)
  BY DEF AnswerDue, Own
<1>3. /\ AnswerComes(n, b, h) => AnswerComes(m, b, h)
      /\ ProbeComes(n, a, g, h) => ProbeComes(m, a, g, h)
  BY DEF AnswerComes, ProbeComes
<1>4. Doomed(n, a, g, b, h) => Doomed(m, a, g, b, h)
  BY <1>2, <1>3 DEF Doomed
<1> QED
  BY <1>1, <1>4 DEF RaceOf

LEMMA RaceProbing ==
  ASSUME ProbingTakesTime, NEW n, NEW a, NEW g, NEW b, NEW h, RaceOf(n, a, g, b, h), Proper(b),
         NEW m, n \subseteq m, \A p \in m \ n : p.kind = "probe",
         IsUnique(b), b.wait = 0, b.ProbeCount > 0,
         \E p \in m : /\ p.kind = "probe" /\ p.from = h /\ p.to = g /\ p.rdata = b.rdata
                      /\ p.unicast <=> Left(b) >= Probes - 1
  PROVE  RaceOf(m, a, g, AfterProbe(b), h)
<1> DEFINE c == AfterProbe(b)
<1>1. RaceOf(m, a, g, b, h)
  BY RaceProbesSent
<1>2. /\ c.list = b.list /\ c.RecordType = b.RecordType /\ c.rdata = b.rdata
      /\ c.ProbeCount = Left(b) /\ c.ProbeCount \in 0 .. Probes - 1 /\ c.wait = 1
  BY AfterProbeFields DEF Alike
<1>3. b.ProbeCount \in Nat /\ Probes \in Nat /\ Probes >= 3
  BY RegistrationAssumption DEF Proper, AuthRecord, ProbingTakesTime
<1> HIDE DEF c
<1>4. ~Probed(b) => Left(b) = Probes - 1
  BY <1>3 DEF Probed, Left
<1>5. ~Owner(c) /\ c.wait > 0
  BY <1>2 DEF Owner, IsUnique
<1>6. ASSUME Owner(a) PROVE Doomed(m, a, g, c, h)
  <2>1. a.recent = 0 \/ Left(b) = Probes - 1 => ProbeComes(m, a, g, h)
    BY <1>3 DEF ProbeComes, Left
  <2>2. CASE Probed(b)
    <3>1. Doomed(m, a, g, b, h)
      BY <1>1, <1>6, <2>2 DEF RaceOf
    <3>2. AnswerComes(m, b, h) => AnswerComes(m, c, h)
      BY <1>2 DEF AnswerComes
    <3>3. WillAnswer(a, b) => ProbeComes(m, a, g, h)
      BY <2>1 DEF WillAnswer
    <3>4. b.ProbeCount > 1
      BY <3>1 DEF Doomed
    <3>5. c.ProbeCount > 0
      BY <1>2, <1>3, <3>4 DEF Left
    <3> QED
      BY <1>5, <3>1, <3>2, <3>3, <3>5 DEF Doomed
  <2>3. CASE ~Probed(b)
    <3>1. ProbeComes(m, a, g, h)
      BY <1>4, <2>1, <2>3
    <3>2. c.ProbeCount > 0
      BY <1>2, <1>3, <1>4, <2>3
    <3> QED
      BY <1>5, <3>1, <3>2 DEF Doomed
  <2> QED
    BY <2>2, <2>3
<1>7. Beaten(m, g, c)
  BY <1>2 DEF Beaten
<1>8. Probed(a) => New(a) \/ New(c)
  <2>1. Probed(b) => ~New(b)
    BY DEF New
  <2> QED
    BY <1>1, <1>2, <1>4, <1>5, <2>1 DEF RaceOf, New
<1> QED
  BY <1>5, <1>6, <1>7, <1>8 DEF RaceOf, c

LEMMA RaceProbed ==
  ASSUME NEW n, NEW a, NEW g, NEW b, NEW h, RaceOf(n, a, g, b, h), Proper(a),
         NEW m, n \subseteq m, \A p \in m \ n : p.kind = "probe",
         IsUnique(a), a.wait = 0, a.ProbeCount > 0
  PROVE  RaceOf(m, AfterProbe(a), g, b, h)
<1> DEFINE c == AfterProbe(a)
<1>1. RaceOf(m, a, g, b, h)
  BY RaceProbesSent
<1>2. /\ c.list = a.list /\ c.RecordType = a.RecordType /\ c.rdata = a.rdata
      /\ c.ProbeCount = Left(a) /\ c.wait = 1
  BY AfterProbeFields DEF Alike
<1>3. a.ProbeCount \in Nat /\ Probes \in Nat
  BY RegistrationAssumption DEF Proper, AuthRecord
<1> HIDE DEF c
<1>4. ~Probed(a) => Left(a) = Probes - 1
  BY <1>3 DEF Probed, Left
<1>5. ~Owner(c) /\ c.wait > 0 /\ Contender(a)
  BY <1>2 DEF Owner, IsUnique, Contender
<1>6. Contender(a) /\ Probed(b) /\ a.rdata < b.rdata => Beaten(m, g, b)
  BY <1>1 DEF RaceOf
<1>7. Probed(b) => New(c) \/ New(b)
  <2>1. Probed(a) => ~New(a)
    BY DEF New
  <2> QED
    BY <1>1, <1>2, <1>4, <1>5, <2>1 DEF RaceOf, New
<1> QED
  BY <1>2, <1>5, <1>6, <1>7 DEF RaceOf, c

LEMMA VerifiedIs ==
  ASSUME NEW a, Proper(a), IsUnique(a)
  PROVE  LET c == Verified(a) IN
         /\ Owner(c) /\ ~Contender(c) /\ ~Probed(c)
         /\ c.recent = a.recent /\ c.AnnounceCount = a.AnnounceCount
<1>1. LET c == Verified(a) IN
      /\ c.list = "main" /\ c.RecordType = "Verified"
      /\ c.recent = a.recent /\ c.AnnounceCount = a.AnnounceCount
  BY VerifiedFields DEF IsUnique
<1> QED
  BY <1>1 DEF Owner, Contender, Probed, IsUnique

LEMMA RaceWins ==
  ASSUME ProbingTakesTime, NEW n, NEW a, NEW g, NEW b, NEW h, RaceOf(n, a, g, b, h), RaceOf(n, b, h, a, g),
         Proper(a), Proper(b), TimingOf(n, a, g),
         NEW m, n \subseteq m, \A p \in m \ n : p.kind = "probe",
         IsUnique(a), a.wait = 0, ~(a.ProbeCount > 0)
  PROVE  RaceOf(m, Verified(a), g, b, h) /\ RaceOf(m, b, h, Verified(a), g)
<1> DEFINE c == Verified(a)
<1>1. /\ Owner(c) /\ ~Contender(c) /\ ~Probed(c)
      /\ c.recent = a.recent /\ c.AnnounceCount = a.AnnounceCount
  BY VerifiedIs
<1>2. /\ a.ProbeCount \in Nat /\ Probes \in Nat \ {0} /\ a.recent \in Nat
      /\ a.AnnounceCount \in Nat /\ Announcements \in Nat /\ Probes >= 3
  BY RegistrationAssumption DEF Proper, AuthRecord, ProbingTakesTime
<1> HIDE DEF c
<1>3. a.ProbeCount = 0 /\ Probed(a) /\ ~New(a)
  BY <1>2 DEF Probed, New
<1>4. ~Owner(b)
  <2>1. ~Doomed(n, b, h, a, g)
    BY <1>3 DEF Doomed
  <2> QED
    BY <1>3, <2>1 DEF RaceOf
<1>5. ASSUME Probed(b) PROVE Doomed(m, c, g, b, h)
  <2>1. New(b)
    BY <1>3, <1>5 DEF RaceOf
  <2>2. a.AnnounceCount < Announcements => a.recent = 0
    BY <1>2, <1>3 DEF TimingOf, TimeLeft
  <2>3. AnnouncementDue(c) \/ WillAnswer(c, b)
    BY <1>1, <1>2, <2>1, <2>2 DEF AnnouncementDue, WillAnswer, New
  <2>4. b.ProbeCount > 0 /\ b.wait > 0
    BY <1>2, <2>1 DEF New
  <2> QED
    BY <2>3, <2>4 DEF Doomed
<1> QED
  BY <1>1, <1>4, <1>5 DEF RaceOf, c

LEMMA TimingProbing ==
  ASSUME NEW n, NEW a, NEW h, TimingOf(n, a, h), Proper(a),
         NEW m, n \subseteq m, \A p \in m \ n : p.kind = "probe"
  PROVE  /\ TimingOf(m, a, h)
         /\ IsUnique(a) /\ a.wait = 0 /\ a.ProbeCount > 0 => TimingOf(m, AfterProbe(a), h)
         /\ IsUnique(a) => TimingOf(m, Verified(a), h)
<1>1. TimingOf(m, a, h)
  BY DEF TimingOf, Own
<1>2. ASSUME IsUnique(a), a.wait = 0, a.ProbeCount > 0 PROVE TimingOf(m, AfterProbe(a), h)
  <2> DEFINE c == AfterProbe(a)
  <2>1. /\ c.list = a.list /\ c.RecordType = a.RecordType /\ c.rdata = a.rdata
        /\ c.ProbeCount = Left(a) /\ c.wait = 1 /\ c.recent = a.recent
        /\ c.AnnounceCount = a.AnnounceCount /\ c.ImmedAnswer = a.ImmedAnswer
    BY <1>2, AfterProbeFields DEF Alike
  <2>2. a.ProbeCount \in Nat /\ Probes \in Nat \ {0} /\ a.recent \in Nat
    BY RegistrationAssumption DEF Proper, AuthRecord
  <2> HIDE DEF c
  <2>3. Contender(a)
    BY <1>2 DEF Contender
  <2>4. TimeLeft(c) = TimeLeft(a)
    BY <1>2, <2>1, <2>2 DEF TimeLeft, Left
  <2>5. c.ImmedAnswer = "no" /\ \A p \in m : ~(Own(p, h) /\ Goodbye(p) /\ p.rdata = c.rdata)
    BY <1>1, <1>2, <2>1, <2>3 DEF TimingOf
  <2>6. c.AnnounceCount < Announcements => c.recent <= TimeLeft(c)
    BY <1>1, <1>2, <2>1, <2>4 DEF TimingOf
  <2>7. c.wait <= 1
    BY <2>1
  <2> QED
    BY <2>5, <2>6, <2>7 DEF TimingOf, c
<1>3. IsUnique(a) => TimingOf(m, Verified(a), h)
  BY VerifiedIs, OutIs DEF TimingOf
<1> QED
  BY <1>1, <1>2, <1>3

LEMMA ProbePacketOf ==
  ASSUME NEW r \in Records, ContentOf(r, rr[r]), rr[r].list # "none", NEW t
  PROVE  PacketOf([ProbePacket(HostOf[r], r) EXCEPT !.to = t])
<1> DEFINE p == [ProbePacket(HostOf[r], r) EXCEPT !.to = t]
<1>1. p.kind = "probe" /\ p.from = HostOf[r] /\ p.rdata = rr[r].rdata
  BY DEF ProbePacket
<1> HIDE DEF p
<1>2. PacketOf(p)
  BY <1>1 DEF PacketOf, Goodbye, ContentOf
<1> QED
  BY <1>2 DEF p

(* A record becomes a contender as time passes, and in no other step; and   *)
(* contenders do not answer.                                                *)
Contended ==
  net' = {} \/ \A r \in Records : Contender(rr'[r]) =>
    \E s \in Records :
      HostOf[s] = HostOf[r] /\ Contender(rr[s]) /\ rr'[r].rdata = rr[s].rdata
Answered ==
  \A p \in net' \ net : p.kind = "answer" =>
    \E s \in Records : /\ HostOf[s] = p.from /\ ~Contender(rr[s]) /\ p.rdata \in DataOf[s]
                       /\ Goodbye(p) => "Shared" \in TypesOf[s]

LinkNext == Contents' /\ Timing' /\ Race' /\ Contended /\ Answered

LEMMA LinkFacts ==
  ASSUME LinkInv
  PROVE  /\ RegistrationTypeOK /\ Contents /\ Timing /\ Race
         /\ \A r \in Records : /\ Proper(rr[r]) /\ HostOf[r] \in Hosts /\ ContentOf(r, rr[r])
                               /\ TimingOf(net, rr[r], HostOf[r])
         /\ \A q, r \in Records : HostOf[q] # HostOf[r] =>
              RaceOf(net, rr[q], HostOf[q], rr[r], HostOf[r])
         /\ \A p \in net : p \in Packet /\ PacketOf(p)
<1>1. RegistrationTypeOK /\ \A r \in Records : Proper(rr[r])
  BY TypeIs DEF LinkInv, CoverInv, AllProper
<1>2. \A r \in Records : HostOf[r] \in Hosts
  BY RegistrationAssumption
<1> QED
  BY <1>1, <1>2 DEF LinkInv, Contents, Timing, Race, RegistrationTypeOK

LEMMA LinkProbe ==
  ASSUME LinkAssumption, LinkInv, NEW h \in Hosts, NEW due, SendProbes(h, due)
  PROVE  LinkNext
<1>1. /\ RegistrationTypeOK
      /\ \A r \in Records : /\ Proper(rr[r]) /\ HostOf[r] \in Hosts /\ ContentOf(r, rr[r])
                            /\ TimingOf(net, rr[r], HostOf[r])
      /\ \A q, r \in Records : HostOf[q] # HostOf[r] =>
           RaceOf(net, rr[q], HostOf[q], rr[r], HostOf[r])
      /\ \A p \in net : p \in Packet /\ PacketOf(p)
  BY LinkFacts
<1>2. ASSUME NEW r \in Records, r \in due
      PROVE  /\ HostOf[r] = h /\ IsUnique(rr[r]) /\ rr[r].wait = 0
             /\ \/ rr[r].ProbeCount > 0 /\ rr'[r] = AfterProbe(rr[r]) /\ ProbeSent(r)
                \/ ~(rr[r].ProbeCount > 0) /\ rr'[r] = Verified(rr[r])
  BY <1>1, <1>2, ProbeStep DEF IsUnique
<1>3. ASSUME NEW r \in Records, r \notin due
      PROVE  Kept(rr'[r], rr[r]) /\ (rr'[r] = rr[r] \/ rr'[r].list # "main")
  <2>1. \/ rr'[r] = rr[r]
        \/ rr[r].list = "duplicate" /\ rr'[r] = Cleared(rr[r])
    BY <1>1, <1>3, ProbeStep
  <2>2. rr[r].list = "duplicate" => Alike(Cleared(rr[r]), rr[r])
    BY <1>1, ClearedFields
  <2> QED
    BY <2>1, <2>2, AlikeKept, SameKept DEF Alike
<1>4. net \subseteq net' /\ \A p \in net' \ net : \E r \in due, t \in Hosts :
        r \in Records /\ p = [ProbePacket(h, r) EXCEPT !.to = t]
  BY <1>1, ProbeStep
<1>5. \A p \in net' \ net : p.kind = "probe" /\ PacketOf(p)
  <2> SUFFICES ASSUME NEW p \in net' \ net PROVE p.kind = "probe" /\ PacketOf(p)
    OBVIOUS
  <2>1. PICK r \in due, t \in Hosts : r \in Records /\ p = [ProbePacket(h, r) EXCEPT !.to = t]
    BY <1>4
  <2>2. HostOf[r] = h /\ rr[r].list # "none"
    BY <1>2, <2>1 DEF IsUnique
  <2>3. p.kind = "probe"
    BY <2>1 DEF ProbePacket
  <2>4. p = [ProbePacket(HostOf[r], r) EXCEPT !.to = t]
    BY <2>1, <2>2
  <2>5. PacketOf(p)
    BY <1>1, <2>1, <2>2, <2>4, ProbePacketOf
  <2> QED
    BY <2>3, <2>5
<1>6. Contents'
  <2>1. ASSUME NEW r \in Records PROVE Kept(rr'[r], rr[r])
    <3>1. CASE r \in due
      <4>1. CASE rr[r].ProbeCount > 0 /\ rr'[r] = AfterProbe(rr[r])
        BY <1>1, <4>1, AfterProbeFields, AlikeKept
      <4>2. CASE rr'[r] = Verified(rr[r])
        BY <1>1, <1>2, <3>1, <4>2, VerifiedFields DEF Kept, Class, IsUnique
      <4> QED
        BY <1>2, <3>1, <4>1, <4>2
    <3> QED
      BY <1>3, <3>1
  <2>2. \A r \in Records : ContentOf(r, rr'[r])
    BY <1>1, <2>1, KeptContent
  <2>3. \A p \in net' : PacketOf(p)
    BY <1>1, <1>5
  <2> QED
    BY <2>2, <2>3 DEF Contents
<1>7. Timing'
  <2> SUFFICES ASSUME NEW r \in Records PROVE TimingOf(net', rr'[r], HostOf[r])
    BY DEF Timing
  <2>1. CASE r \in due
    BY <1>1, <1>2, <1>4, <1>5, <2>1, TimingProbing
  <2>2. CASE r \notin due
    <3>1. rr'[r] = rr[r] => TimingOf(net', rr'[r], HostOf[r])
      BY <1>1, <1>4, <1>5, TimingProbing
    <3> QED
      BY <1>3, <2>2, <3>1 DEF TimingOf, IsUnique
  <2> QED
    BY <2>1, <2>2
<1>8. Race'
  <2> SUFFICES ASSUME NEW q \in Records, NEW r \in Records, HostOf[q] # HostOf[r]
               PROVE  RaceOf(net', rr'[q], HostOf[q], rr'[r], HostOf[r])
    BY DEF Race
  <2>1. /\ RaceOf(net, rr[q], HostOf[q], rr[r], HostOf[r])
        /\ RaceOf(net, rr[r], HostOf[r], rr[q], HostOf[q])
        /\ Proper(rr[q]) /\ Proper(rr[r])
        /\ TimingOf(net, rr[q], HostOf[q]) /\ TimingOf(net, rr[r], HostOf[r])
    BY <1>1
  <2>2. CASE r \notin due /\ q \notin due
    <3>1. CASE rr'[q] = rr[q] /\ rr'[r] = rr[r]
      BY <1>4, <1>5, <2>1, <3>1, RaceProbesSent
    <3>2. CASE rr'[q].list # "main" \/ rr'[r].list # "main"
      BY <3>2, OutIs, OutRace
    <3> QED
      BY <1>3, <2>2, <3>1, <3>2
  <2>3. CASE r \in due /\ q \notin due
    <3>1. CASE rr'[q].list # "main"
      BY <3>1, OutIs, OutRace
    <3>2. CASE rr'[q] = rr[q] /\ rr[r].ProbeCount > 0 /\ rr'[r] = AfterProbe(rr[r]) /\ ProbeSent(r)
      <4>1. \E p \in net' : /\ p.kind = "probe" /\ p.from = HostOf[r] /\ p.to = HostOf[q]
                            /\ p.rdata = rr[r].rdata
                            /\ p.unicast <=> Left(rr[r]) >= Probes - 1
        BY <1>1, <3>2 DEF ProbeSent
      <4> QED
        BY <1>2, <1>4, <1>5, <2>1, <2>3, <3>2, <4>1, RaceProbing DEF LinkAssumption
    <3>3. CASE rr'[q] = rr[q] /\ ~(rr[r].ProbeCount > 0) /\ rr'[r] = Verified(rr[r])
      BY <1>2, <1>4, <1>5, <2>1, <2>3, <3>3, RaceWins DEF LinkAssumption
    <3> QED
      BY <1>2, <1>3, <2>3, <3>1, <3>2, <3>3
  <2>4. CASE q \in due /\ r \notin due
    <3>1. CASE rr'[r].list # "main"
      BY <3>1, OutIs, OutRace
    <3>2. CASE rr'[r] = rr[r] /\ rr[q].ProbeCount > 0 /\ rr'[q] = AfterProbe(rr[q])
      BY <1>2, <1>4, <1>5, <2>1, <2>4, <3>2, RaceProbed
    <3>3. CASE rr'[r] = rr[r] /\ ~(rr[q].ProbeCount > 0) /\ rr'[q] = Verified(rr[q])
      BY <1>2, <1>4, <1>5, <2>1, <2>4, <3>3, RaceWins DEF LinkAssumption
    <3> QED
      BY <1>2, <1>3, <2>4, <3>1, <3>2, <3>3
  <2> QED
    BY <1>2, <2>2, <2>3, <2>4
<1>9. Contended
  <2>1. ASSUME NEW r \in Records, Contender(rr'[r])
        PROVE  Contender(rr[r]) /\ rr'[r].rdata = rr[r].rdata
    <3>1. CASE r \in due
      <4>1. Contender(rr[r])
        BY <1>2, <3>1 DEF Contender
      <4>2. rr'[r] # Verified(rr[r])
        BY <1>1, <1>2, <2>1, <3>1, VerifiedIs
      <4>3. rr[r].ProbeCount > 0 /\ rr'[r] = AfterProbe(rr[r])
        BY <1>2, <3>1, <4>2
      <4> QED
        BY <1>1, <4>1, <4>3, AfterProbeFields DEF Alike
    <3>2. CASE r \notin due
      BY <1>3, <2>1, <3>2 DEF Contender, IsUnique
    <3> QED
      BY <3>1, <3>2
  <2> QED
    BY <2>1 DEF Contended
<1>10. Answered
  BY <1>5 DEF Answered
<1> QED
  BY <1>6, <1>7, <1>8, <1>9, <1>10 DEF LinkNext

(* An interval passes only when nothing is on its way or waits to be sent.  *)
Settled(a) ==
  /\ a.list = "main" /\ a.ImmedAnswer = "no"
  /\ a.RecordType \in ActiveMask => a.AnnounceCount < Announcements
  /\ a.RecordType = "Unique" => a.wait > 0

LEMMA RaceElapses ==
  ASSUME ProbingTakesTime, NEW a, NEW g, NEW b, NEW h \in Hosts, Proper(a), Proper(b),
         RaceOf({}, a, g, b, h), RaceOf({}, b, h, a, g), TimingOf({}, b, h),
         Settled(a), Settled(b), a.rdata # b.rdata
  PROVE  RaceOf({}, Elapsed(a), g, Elapsed(b), h)
<1> DEFINE c == Elapsed(a)
           d == Elapsed(b)
<1>1. /\ c.list = a.list /\ c.RecordType = a.RecordType /\ c.rdata = a.rdata
      /\ c.ProbeCount = a.ProbeCount /\ c.recent = Less(a.recent)
      /\ d.list = b.list /\ d.RecordType = b.RecordType /\ d.rdata = b.rdata
      /\ d.ProbeCount = b.ProbeCount /\ d.wait = Less(b.wait)
  BY ElapsedFields DEF Alike
<1> HIDE DEF c, d
<1>2. (Owner(c) <=> Owner(a)) /\ (Owner(d) <=> Owner(b))
  BY <1>1 DEF Owner
<1>3. (Probed(c) <=> Probed(a)) /\ (Probed(d) <=> Probed(b))
  BY <1>1 DEF Probed, IsUnique
<1>4. /\ Probes \in Nat /\ Probes >= 3 /\ b.wait \in Nat /\ b.ProbeCount \in Nat
      /\ a.rdata \in Int /\ b.rdata \in Int
  <2>1. a.rdata \in RData /\ b.rdata \in RData
    BY DEF Settled, Proper
  <2>2. b.wait \in 0 .. Deferral /\ b.ProbeCount \in 0 .. Probes + 1
    BY DEF Proper, AuthRecord
  <2>3. Probes \in Nat /\ Deferral \in Nat /\ RData \subseteq Int
    BY RegistrationAssumption
  <2>4. Probes >= 3
    BY DEF ProbingTakesTime
  <2>5. b.wait \in Nat /\ b.ProbeCount \in Nat
    BY <2>2, <2>3
  <2>6. a.rdata \in Int /\ b.rdata \in Int
    BY <2>1, <2>3
  <2> QED
    BY <2>3, <2>4, <2>5, <2>6
<1>5. ~(Owner(c) /\ Owner(d))
  BY <1>2 DEF RaceOf
<1>6. ASSUME Owner(c), Probed(d) PROVE Doomed({}, c, g, d, h)
  <2>1. Doomed({}, a, g, b, h)
    BY <1>2, <1>3, <1>6 DEF RaceOf
  <2>2. a.AnnounceCount < Announcements /\ a.AnnounceCount \in Nat
    BY <1>2, <1>6 DEF Settled, Owner, ActiveMask, Proper, AuthRecord
  <2>3. ~AnnouncementDue(a)
    BY <2>2, RegistrationAssumption DEF AnnouncementDue
  <2>4. ~AnswerComes({}, b, h) /\ ~ProbeComes({}, a, g, h)
    BY DEF AnswerComes, ProbeComes
  <2>5. ~AnswerDue({}, a, g, h)
    BY RegistrationAssumption DEF AnswerDue, Settled
  <2>6. WillAnswer(a, b)
    BY <2>1, <2>3, <2>4, <2>5 DEF Doomed
  <2>7. WillAnswer(c, d)
    BY <1>1, <2>6 DEF WillAnswer, Less
  <2>8. d.ProbeCount > 0 /\ d.ProbeCount > 1
    BY <1>1, <1>4, <2>6 DEF WillAnswer
  <2> QED
    BY <2>7, <2>8 DEF Doomed
<1>7. Probed(d) => d.wait = 0
  BY <1>1, <1>3, <1>4 DEF TimingOf, Probed, Less
<1>8. ~(Probed(a) /\ Probed(b))
  <2> SUFFICES ASSUME Probed(a), Probed(b) PROVE FALSE
    OBVIOUS
  <2>1. Contender(a) /\ Contender(b) /\ ~(a.wait = 0) /\ ~(b.wait = 0)
    BY OutIs DEF Settled, Probed, IsUnique
  <2>2. ~Beaten({}, g, b) /\ ~Beaten({}, h, a)
    BY <2>1 DEF Beaten
  <2>3. a.rdata < b.rdata \/ b.rdata < a.rdata
    BY <1>4
  <2> QED
    BY <2>1, <2>2, <2>3 DEF RaceOf
<1>9. Probed(d) => Beaten({}, g, d)
  BY <1>7 DEF Beaten
<1> QED
  BY <1>3, <1>5, <1>6, <1>8, <1>9 DEF RaceOf, c, d

LEMMA TimingElapses ==
  ASSUME NEW a, NEW h, Proper(a), TimingOf({}, a, h), Settled(a)
  PROVE  TimingOf({}, Elapsed(a), h)
<1> DEFINE c == Elapsed(a)
<1>1. /\ c.list = a.list /\ c.RecordType = a.RecordType /\ c.AnnounceCount = a.AnnounceCount
      /\ c.ProbeCount = a.ProbeCount /\ c.recent = Less(a.recent) /\ c.wait = Less(a.wait)
      /\ c.ImmedAnswer = "no"
  BY ElapsedFields DEF Alike, Settled
<1> HIDE DEF c
<1>2. /\ Probes \in Nat /\ a.wait \in Nat /\ a.ProbeCount \in Nat /\ a.recent \in Nat
  BY RegistrationAssumption DEF Proper, AuthRecord
<1>3. ASSUME IsUnique(c) PROVE IsUnique(a) /\ a.wait > 0
  BY <1>1, <1>3 DEF IsUnique, Settled
<1>4. ASSUME IsUnique(c) PROVE c.ProbeCount < Probes => c.wait <= 1
  BY <1>1, <1>2, <1>3, <1>4 DEF TimingOf, Less
<1>5. ASSUME IsUnique(c), c.AnnounceCount < Announcements PROVE c.recent <= TimeLeft(c)
  <2>1. a.recent <= TimeLeft(a)
    BY <1>1, <1>3, <1>5 DEF TimingOf
  <2> QED
    BY <1>1, <1>2, <1>3, <1>5, <2>1 DEF TimeLeft, Less
<1> QED
  BY <1>1, <1>4, <1>5 DEF TimingOf, c

LEMMA LinkTick == ASSUME LinkAssumption, LinkInv, Tick PROVE LinkNext
<1>1. /\ RegistrationTypeOK
      /\ \A r \in Records : /\ Proper(rr[r]) /\ HostOf[r] \in Hosts /\ ContentOf(r, rr[r])
                            /\ TimingOf(net, rr[r], HostOf[r])
      /\ \A q, r \in Records : HostOf[q] # HostOf[r] =>
           RaceOf(net, rr[q], HostOf[q], rr[r], HostOf[r])
      /\ \A p \in net : p \in Packet /\ PacketOf(p)
  BY LinkFacts
<1>2. net = {} /\ net' = net
  BY TickStep DEF Quiet
<1>3. ASSUME NEW r \in Records
      PROVE  /\ rr[r].list = "main" => Settled(rr[r]) /\ rr'[r] = Elapsed(rr[r])
             /\ rr[r].list # "main" => rr'[r] = rr[r]
             /\ Kept(rr'[r], rr[r])
  <2>1. rr[r].list = "main" => Settled(rr[r]) /\ rr'[r] = Elapsed(rr[r])
    BY TickStep DEF Quiet, Settled
  <2>2. Alike(Elapsed(rr[r]), rr[r])
    BY <1>1, ElapsedFields
  <2> QED
    BY <2>1, <2>2, TickStep, AlikeKept, SameKept
<1>4. Contents'
  BY <1>1, <1>2, <1>3, KeptContent DEF Contents
<1>5. Timing'
  <2> SUFFICES ASSUME NEW r \in Records PROVE TimingOf({}, rr'[r], HostOf[r])
    BY <1>2 DEF Timing
  <2>1. TimingOf({}, rr[r], HostOf[r])
    BY <1>1, <1>2
  <2> QED
    BY <1>1, <1>3, <2>1, TimingElapses
<1>6. Race'
  <2> SUFFICES ASSUME NEW q \in Records, NEW r \in Records, HostOf[q] # HostOf[r]
               PROVE  RaceOf({}, rr'[q], HostOf[q], rr'[r], HostOf[r])
    BY <1>2 DEF Race
  <2>1. CASE rr[q].list # "main" \/ rr[r].list # "main"
    <3>1. Out(rr'[q]) \/ Out(rr'[r])
      BY <1>3, <2>1, OutIs
    <3> QED
      BY <3>1, OutRace
  <2>2. CASE rr[q].list = "main" /\ rr[r].list = "main"
    <3>1. /\ RaceOf({}, rr[q], HostOf[q], rr[r], HostOf[r])
          /\ RaceOf({}, rr[r], HostOf[r], rr[q], HostOf[q])
          /\ TimingOf({}, rr[r], HostOf[r])
      BY <1>1, <1>2
    <3>2. rr[q].rdata # rr[r].rdata
      BY <1>1, <2>2, DifferentData DEF LinkAssumption
    <3> QED
      BY <1>1, <1>3, <2>2, <3>1, <3>2, RaceElapses DEF LinkAssumption
  <2> QED
    BY <2>1, <2>2
<1> QED
  BY <1>2, <1>4, <1>5, <1>6 DEF LinkNext, Contended, Answered

(* Answers are sent: an owner's goes to everybody that asked it.  What is   *)
(* updated then is not probed.                                              *)
SameStand(c, a) ==
  /\ c.list = a.list /\ c.RecordType = a.RecordType
  /\ c.ProbeCount = a.ProbeCount /\ c.wait = a.wait
  /\ Contender(a) => c.rdata = a.rdata

LEMMA SameIs ==
  ASSUME NEW c, NEW a, SameStand(c, a)
  PROVE  /\ (Owner(c) <=> Owner(a)) /\ (IsUnique(c) <=> IsUnique(a))
         /\ (Probed(c) <=> Probed(a)) /\ (Contender(c) <=> Contender(a))
         /\ (New(c) <=> New(a)) /\ TimeLeft(c) = TimeLeft(a)
<1>1. /\ c.list = a.list /\ c.RecordType = a.RecordType
      /\ c.ProbeCount = a.ProbeCount /\ c.wait = a.wait
  BY DEF SameStand
<1> QED
  BY <1>1 DEF Owner, IsUnique, Probed, Contender, New, TimeLeft

LEMMA RaceAnswered ==
  ASSUME NEW n, NEW a, NEW g, NEW b, NEW h, RaceOf(n, a, g, b, h),
         NEW m, n \subseteq m, NEW c, SameStand(c, a), NEW d, SameStand(d, b),
         Owner(a) /\ Probed(b) => \/ AnswerComes(m, b, h)
                                  \/ /\ c.recent = a.recent /\ c.AnnounceCount = a.AnnounceCount
                                     /\ AnswerDue(n, a, g, h) => AnswerDue(m, c, g, h)
  PROVE  RaceOf(m, c, g, d, h)
<1>1. (Owner(c) <=> Owner(a)) /\ (Owner(d) <=> Owner(b))
  BY SameIs
<1>2. (Probed(d) <=> Probed(b)) /\ (Probed(c) <=> Probed(a))
  BY SameIs
<1>3. (Contender(c) <=> Contender(a)) /\ (Contender(a) => c.rdata = a.rdata)
  BY SameIs DEF SameStand
<1>4. (New(c) <=> New(a)) /\ (New(d) <=> New(b))
  BY SameIs
<1>5. /\ Probed(b) => d.rdata = b.rdata
      /\ d.ProbeCount = b.ProbeCount /\ d.wait = b.wait
  BY OutIs DEF SameStand
<1>6. Probed(b) /\ Beaten(n, g, b) => Beaten(m, g, d)
  BY <1>5 DEF Beaten
<1>7. ASSUME Owner(a), Probed(b) PROVE Doomed(m, c, g, d, h)
  <2>1. Doomed(n, a, g, b, h)
    BY <1>7 DEF RaceOf
  <2>2. AnswerComes(n, b, h) \/ AnswerComes(m, b, h) => AnswerComes(m, d, h)
    BY <1>5, <1>7 DEF AnswerComes
  <2>3. ASSUME c.recent = a.recent, c.AnnounceCount = a.AnnounceCount
        PROVE  /\ ProbeComes(n, a, g, h) => ProbeComes(m, c, g, h)
               /\ AnnouncementDue(a) => AnnouncementDue(c)
               /\ WillAnswer(a, b) => WillAnswer(c, d)
    BY <1>5, <2>3 DEF ProbeComes, AnnouncementDue, WillAnswer
  <2> QED
    BY <1>5, <1>7, <2>1, <2>2, <2>3 DEF Doomed
<1> QED
  BY <1>1, <1>2, <1>3, <1>4, <1>5, <1>6, <1>7 DEF RaceOf

LEMMA TimingAnswered ==
  ASSUME ProbingTakesTime, NEW n, NEW a, NEW h, Proper(a), TimingOf(n, a, h), IsUnique(a),
         NEW m, n \subseteq m, NEW c, SameStand(c, a),
         \A p \in m \ n : ~(Own(p, h) /\ Goodbye(p) /\ p.rdata = a.rdata),
         c.ImmedAnswer \in {"no", a.ImmedAnswer},
         \/ c.recent = a.recent /\ c.AnnounceCount = a.AnnounceCount
         \/ a.ImmedAnswer # "no" /\ c.recent = Deferral
  PROVE  TimingOf(m, c, h)
<1>1. /\ Probes \in Nat /\ a.wait \in Nat /\ a.ProbeCount \in Nat /\ Deferral \in Nat
      /\ Deferral <= Probes + 1
  <2>1. a.wait \in 0 .. Deferral /\ a.ProbeCount \in 0 .. Probes + 1
    BY DEF Proper, AuthRecord
  <2>2. Probes \in Nat /\ Deferral \in Nat
    BY RegistrationAssumption
  <2> QED
    BY <2>1, <2>2 DEF ProbingTakesTime
<1>2. /\ IsUnique(c) /\ (Contender(c) <=> Contender(a)) /\ TimeLeft(c) = TimeLeft(a)
      /\ c.ProbeCount = a.ProbeCount /\ c.wait = a.wait
      /\ Contender(a) => c.rdata = a.rdata
  BY SameIs DEF SameStand
<1>3. c.ImmedAnswer # "no" => ~Contender(c)
  BY <1>2 DEF TimingOf
<1>4. ASSUME c.AnnounceCount < Announcements PROVE c.recent <= TimeLeft(c)
  <2>1. CASE c.recent = a.recent /\ c.AnnounceCount = a.AnnounceCount
    BY <1>2, <1>4, <2>1 DEF TimingOf
  <2>2. CASE a.ImmedAnswer # "no" /\ c.recent = Deferral
    <3>1. ~Contender(a)
      BY <2>2 DEF TimingOf
    <3>2. ~(a.ProbeCount < Probes) /\ a.wait # 0
      BY <3>1 DEF Contender
    <3>3. TimeLeft(a) \in Nat /\ TimeLeft(a) >= Probes + 1
      BY <1>1, <3>2 DEF TimeLeft
    <3> QED
      BY <1>1, <1>2, <2>2, <3>3
  <2> QED
    BY <2>1, <2>2
<1>5. \A p \in m : Own(p, h) /\ Goodbye(p) /\ p.rdata = c.rdata => ~Contender(c)
  BY <1>2 DEF TimingOf
<1>6. c.ProbeCount < Probes => c.wait <= 1
  BY <1>2 DEF TimingOf
<1> QED
  BY <1>3, <1>4, <1>5, <1>6 DEF TimingOf

LEMMA LinkResponse ==
  ASSUME LinkAssumption, LinkInv, NEW h \in Hosts, NEW due, SendResponses(h, due)
  PROVE  LinkNext
<1>1. /\ RegistrationTypeOK
      /\ \A r \in Records : /\ Proper(rr[r]) /\ HostOf[r] \in Hosts /\ ContentOf(r, rr[r])
                            /\ TimingOf(net, rr[r], HostOf[r])
      /\ \A q, r \in Records : HostOf[q] # HostOf[r] =>
           RaceOf(net, rr[q], HostOf[q], rr[r], HostOf[r])
      /\ \A p \in net : p \in Packet /\ PacketOf(p)
  BY LinkFacts
<1>2. /\ net \subseteq net'
      /\ \A p \in net' \ net :
           /\ p.kind = "answer" /\ p.from = h /\ (p.goodbye => ~p.flush)
           /\ \E r \in ResourceRecords(h) :
                /\ p.rdata = rr[r].rdata \/ (p.rdata = rr[r].NewRData /\ p.rdata # NoRData)
                /\ p.goodbye => rr[r].RecordType \in {"Shared", "Deregistering"}
                /\ rr[r].RecordType = "Unique" => rr[r].ImmedAnswer # "no"
  BY <1>1, ResponsePackets
<1>3. \A r \in ResourceRecords(h) : r \in Records /\ HostOf[r] = h /\ rr[r].list = "main"
  BY DEF ResourceRecords
<1>4. \A r \in Records : HostOf[r] # h => rr'[r] = rr[r]
  BY <1>1, <1>3, ResponseStep
\* What becomes of a record of the host.
<1>5. ASSUME NEW r \in Records, r \in ResourceRecords(h), rr[r].RecordType # "Deregistering"
      PROVE  /\ ContentOf(r, rr'[r]) /\ SameStand(rr'[r], rr[r])
             /\ rr'[r].ImmedAnswer \in {"no", rr[r].ImmedAnswer}
             /\ \/ /\ Multicast(r) /\ rr'[r].recent = Deferral
                   /\ rr[r].RecordType = "Unique" => rr[r].ImmedAnswer # "no"
                \/ /\ rr'[r].recent = rr[r].recent /\ rr'[r].AnnounceCount = rr[r].AnnounceCount
                   /\ \/ rr[r].ImmedAnswer \in Hosts /\ ReplySent(r)
                      \/ rr[r].ImmedAnswer \notin {"all", "mark"} \cup Hosts
  <2>1. /\ Responded(r) /\ Proper(rr[r]) /\ ContentOf(r, rr[r]) /\ rr[r].list # "none"
        /\ TimingOf(net, rr[r], HostOf[r])
    BY <1>1, <1>3, <1>5, ResponseStep
  <2>2. CASE \E isDue \in BOOLEAN :
               /\ rr'[r] = AfterMulticast(rr[r], isDue) /\ Multicast(r)
               /\ isDue => Sendable(rr[r])
               /\ rr[r].RecordType = "Unique" => rr[r].ImmedAnswer \in {"all", "mark"}
    <3>1. PICK isDue \in BOOLEAN :
               /\ rr'[r] = AfterMulticast(rr[r], isDue) /\ Multicast(r)
               /\ isDue => rr[r].AnnounceCount > 0
               /\ rr[r].RecordType = "Unique" => rr[r].ImmedAnswer # "no"
      BY <2>2 DEF Sendable
    <3>2. /\ rr'[r].RecordType = rr[r].RecordType /\ rr'[r].list = rr[r].list
          /\ rr'[r].ProbeCount = rr[r].ProbeCount /\ rr'[r].wait = rr[r].wait
          /\ rr'[r].recent = Deferral /\ rr'[r].ImmedAnswer = "no" /\ rr'[r].NewRData = NoRData
          /\ rr'[r].rdata = IF rr[r].NewRData = NoRData THEN rr[r].rdata ELSE rr[r].NewRData
      BY <2>1, <3>1, AfterMulticastFields
    <3>3. ContentOf(r, rr'[r])
      BY <2>1, <3>2, SentContent
    <3>4. ~Contender(rr[r])
      BY <2>1, <3>1 DEF TimingOf, Contender, IsUnique
    <3>5. SameStand(rr'[r], rr[r])
      BY <3>2, <3>4 DEF SameStand
    <3> QED
      BY <3>1, <3>2, <3>3, <3>5
  <2>3. CASE rr'[r] = Replied(rr[r]) /\ rr[r].ImmedAnswer \in Hosts /\ ReplySent(r)
    <3>1. /\ Alike(rr'[r], rr[r]) /\ rr'[r].ImmedAnswer = "no"
          /\ rr'[r].ProbeCount = rr[r].ProbeCount /\ rr'[r].wait = rr[r].wait
          /\ rr'[r].recent = rr[r].recent /\ rr'[r].AnnounceCount = rr[r].AnnounceCount
      BY <2>1, <2>3, RepliedFields
    <3> QED
      BY <2>1, <2>3, <3>1, AlikeKept, KeptContent DEF SameStand, Alike
  <2>4. CASE rr[r].ImmedAnswer \notin {"all", "mark"} \cup Hosts /\ rr'[r] = rr[r]
    BY <2>1, <2>4 DEF SameStand
  <2> QED
    BY <1>5, <2>1, <2>2, <2>3, <2>4 DEF Responded
<1>6. ASSUME NEW r \in Records, r \in ResourceRecords(h), rr[r].RecordType = "Deregistering"
      PROVE  Out(rr'[r]) /\ ContentOf(r, rr'[r]) /\ ~IsUnique(rr'[r])
  <2>1. Responded(r) /\ Proper(rr[r]) /\ ContentOf(r, rr[r]) /\ rr[r].list # "none"
    BY <1>1, <1>3, <1>6, ResponseStep
  <2>2. CASE rr'[r] = Unregistered
    <3>1. ~IsUnique(Unregistered)
      BY DEF Unregistered, IsUnique
    <3> QED
      BY <2>2, <3>1, GoneContent
  <2>3. ASSUME rr'[r].RecordType = "Deregistering", rr'[r].list = rr[r].list,
               rr'[r].NewRData \in {NoRData, rr[r].NewRData},
               \/ rr'[r].rdata = rr[r].rdata
               \/ rr'[r].rdata = rr[r].NewRData /\ rr'[r].rdata # NoRData
        PROVE  Out(rr'[r]) /\ ContentOf(r, rr'[r]) /\ ~IsUnique(rr'[r])
    <3>1. ~IsUnique(rr'[r]) /\ Out(rr'[r])
      BY <2>3, OutIs DEF IsUnique
    <3>2. ContentOf(r, rr'[r])
      BY <1>6, <2>1, <2>3, SentContent
    <3> QED
      BY <3>1, <3>2
  <2>4. CASE \E isDue \in BOOLEAN :
               rr'[r] = AfterMulticast(rr[r], isDue) /\ (isDue => Sendable(rr[r]))
    <3>1. PICK isDue \in BOOLEAN :
               rr'[r] = AfterMulticast(rr[r], isDue) /\ (isDue => rr[r].AnnounceCount > 0)
      BY <2>4 DEF Sendable
    <3>2. /\ rr'[r].RecordType = rr[r].RecordType /\ rr'[r].list = rr[r].list
          /\ rr'[r].NewRData = NoRData
          /\ rr'[r].rdata = IF rr[r].NewRData = NoRData THEN rr[r].rdata ELSE rr[r].NewRData
      BY <2>1, <3>1, AfterMulticastFields
    <3> QED
      BY <1>6, <2>3, <3>2
  <2>5. CASE rr'[r] = Replied(rr[r])
    <3>1. Alike(rr'[r], rr[r])
      BY <2>1, <2>5, RepliedFields
    <3> QED
      BY <1>6, <2>1, <2>3, <3>1 DEF Alike
  <2>6. CASE rr'[r] = rr[r]
    BY <1>6, <2>1, <2>3, <2>6
  <2>7. CASE rr'[r] = Completed(rr[r])
    <3>1. /\ rr'[r].RecordType = rr[r].RecordType /\ rr'[r].list = rr[r].list
          /\ rr'[r].NewRData = NoRData
          /\ rr'[r].rdata = IF rr[r].NewRData = NoRData THEN rr[r].rdata ELSE rr[r].NewRData
      BY <2>1, <2>7, CompletedFields
    <3> QED
      BY <1>6, <2>3, <3>1
  <2> QED
    BY <2>1, <2>2, <2>4, <2>5, <2>6, <2>7 DEF Responded
<1>7. ASSUME NEW r \in Records, r \notin ResourceRecords(h), rr'[r] # rr[r]
      PROVE  Out(rr'[r]) /\ ContentOf(r, rr'[r]) /\ ~IsUnique(rr'[r])
  <2>1. TakesOver(r)
    BY <1>1, <1>7, ResponseStep
  <2>2. /\ rr'[r].RecordType = "Shared" /\ rr[r].RecordType = "Shared"
        /\ rr'[r].rdata = rr[r].rdata /\ rr'[r].NewRData = rr[r].NewRData
        /\ rr[r].list = "duplicate"
    BY <1>1, <2>1, PromotedFields DEF TakesOver
  <2> QED
    BY <1>1, <2>2, OutIs DEF ContentOf, IsUnique
<1>8. Contents'
  <2>1. \A r \in Records : ContentOf(r, rr'[r])
    BY <1>1, <1>5, <1>6, <1>7
  <2>2. ASSUME NEW p \in net' \ net PROVE PacketOf(p)
    <3>1. PICK r \in ResourceRecords(h) :
                /\ p.rdata = rr[r].rdata \/ (p.rdata = rr[r].NewRData /\ p.rdata # NoRData)
                /\ p.goodbye => rr[r].RecordType \in {"Shared", "Deregistering"}
      BY <1>2
    <3>2. ContentOf(r, rr[r]) /\ r \in Records /\ HostOf[r] = h /\ rr[r].list # "none"
      BY <1>1, <1>3
    <3>3. p.from = h /\ (p.goodbye => ~p.flush)
      BY <1>2
    <3> QED
      BY <3>1, <3>2, <3>3 DEF PacketOf, Goodbye, ContentOf
  <2> QED
    BY <1>1, <2>1, <2>2 DEF Contents
<1>9. Timing'
  <2> SUFFICES ASSUME NEW r \in Records PROVE TimingOf(net', rr'[r], HostOf[r])
    BY DEF Timing
  <2>1. CASE ~IsUnique(rr'[r])
    BY <2>1 DEF TimingOf
  <2>2. CASE IsUnique(rr'[r]) /\ HostOf[r] # h
    <3>1. rr'[r] = rr[r]
      BY <1>4, <2>2
    <3>2. \A p \in net' \ net : ~Own(p, HostOf[r])
      BY <1>2, <2>2 DEF Own
    <3> QED
      BY <1>1, <3>1, <3>2 DEF TimingOf
  <2>3. CASE IsUnique(rr'[r]) /\ HostOf[r] = h
    <3>1. r \in ResourceRecords(h) /\ rr[r].RecordType # "Deregistering"
      <4>1. CASE r \notin ResourceRecords(h)
        <5>1. rr'[r] = rr[r]
          BY <1>7, <2>3, <4>1
        <5> QED
          BY <2>3, <4>1, <5>1 DEF IsUnique, ResourceRecords
      <4> QED
        BY <1>6, <2>3, <4>1
    <3>2. IsUnique(rr[r])
      BY <1>5, <2>3, <3>1 DEF IsUnique, SameStand
    <3>3. \A p \in net' \ net : ~(Own(p, HostOf[r]) /\ Goodbye(p) /\ p.rdata = rr[r].rdata)
      <4> SUFFICES ASSUME NEW p \in net' \ net, Goodbye(p), p.rdata = rr[r].rdata PROVE FALSE
        OBVIOUS
      <4>1. PICK s \in ResourceRecords(h) :
              /\ p.rdata = rr[s].rdata \/ (p.rdata = rr[s].NewRData /\ p.rdata # NoRData)
              /\ rr[s].RecordType \in {"Shared", "Deregistering"}
        BY <1>2 DEF Goodbye
      <4>2. s # r /\ HostOf[s] = HostOf[r] /\ s \in Records /\ rr[s].list # "none"
        BY <1>3, <2>3, <3>2, <4>1 DEF IsUnique
      <4>3. "Shared" \in TypesOf[s] /\ p.rdata \in DataOf[s]
        BY <1>1, <4>1, <4>2 DEF ContentOf
      <4>4. "Unique" \in TypesOf[r] /\ rr[r].rdata \in DataOf[r]
        BY <1>1, <3>2 DEF ContentOf, IsUnique
      <4> QED
        BY <4>2, <4>3, <4>4 DEF LinkAssumption, NotSharedAndUnique
    <3>4. \/ rr'[r].recent = rr[r].recent /\ rr'[r].AnnounceCount = rr[r].AnnounceCount
          \/ rr[r].ImmedAnswer # "no" /\ rr'[r].recent = Deferral
      BY <1>5, <3>1, <3>2 DEF IsUnique
    <3>5. SameStand(rr'[r], rr[r]) /\ rr'[r].ImmedAnswer \in {"no", rr[r].ImmedAnswer}
      BY <1>5, <3>1
    <3> QED
      BY <1>1, <1>2, <3>2, <3>3, <3>4, <3>5, TimingAnswered DEF LinkAssumption
  <2> QED
    BY <2>1, <2>2, <2>3
<1>10. ASSUME NEW r \in Records PROVE Out(rr'[r]) \/ SameStand(rr'[r], rr[r])
  <2>1. rr'[r] = rr[r] => SameStand(rr'[r], rr[r])
    BY DEF SameStand
  <2> QED
    BY <1>5, <1>6, <1>7, <2>1
<1>11. Race'
  <2> SUFFICES ASSUME NEW q \in Records, NEW r \in Records, HostOf[q] # HostOf[r],
                      SameStand(rr'[q], rr[q]), SameStand(rr'[r], rr[r])
               PROVE  RaceOf(net', rr'[q], HostOf[q], rr'[r], HostOf[r])
    BY <1>10, OutRace DEF Race
  <2>1. RaceOf(net, rr[q], HostOf[q], rr[r], HostOf[r])
    BY <1>1
  <2>2. ASSUME Owner(rr[q]), Probed(rr[r])
        PROVE  \/ AnswerComes(net', rr[r], HostOf[r])
               \/ /\ rr'[q].recent = rr[q].recent /\ rr'[q].AnnounceCount = rr[q].AnnounceCount
                  /\ AnswerDue(net, rr[q], HostOf[q], HostOf[r]) =>
                       AnswerDue(net', rr'[q], HostOf[q], HostOf[r])
    <3>1. CASE HostOf[q] # h
      <4>1. rr'[q] = rr[q]
        BY <1>4, <3>1
      <4>2. \A p \in net' \ net : ~Own(p, HostOf[q])
        BY <1>2, <3>1 DEF Own
      <4> QED
        BY <4>1, <4>2 DEF AnswerDue
    <3>2. CASE HostOf[q] = h
      <4>1. /\ q \in ResourceRecords(h) /\ rr[q].RecordType # "Deregistering"
            /\ rr[q].list # "none" /\ rr[r].list # "none"
        BY <2>2, <3>2 DEF Owner, ResourceRecords, Probed, IsUnique
      <4>2. /\ rr[q].rdata # rr[r].rdata
            /\ rr[q].NewRData # NoRData => rr[q].NewRData # rr[r].rdata
        BY <1>1, <4>1 DEF LinkAssumption, ContentOf, DataOfOneHost
      <4>3. Multicast(q) => AnswerComes(net', rr[r], HostOf[r])
        BY <1>1, <4>1, <4>2 DEF Multicast, AnswerComes, Goodbye
      <4>4. ReplySent(q) /\ rr[q].ImmedAnswer = HostOf[r] => AnswerComes(net', rr[r], HostOf[r])
        BY <4>1, <4>2 DEF ReplySent, AnswerComes, Goodbye
      <4>5. \A x \in Hosts : x \notin {"all", "mark"}
        BY RegistrationAssumption
      <4>6. AnswerDue(net, rr[q], HostOf[q], HostOf[r]) /\ rr[q].ImmedAnswer # HostOf[r] =>
              rr[q].ImmedAnswer \in {"all", "mark"}
        BY DEF AnswerDue
      <4> QED
        BY <1>1, <1>5, <4>1, <4>3, <4>4, <4>5, <4>6 DEF AnswerDue
    <3> QED
      BY <3>1, <3>2
  <2> QED
    BY <1>2, <2>1, <2>2, RaceAnswered
<1>12. Contended
  <2>1. ASSUME NEW r \in Records, Contender(rr'[r])
        PROVE  Contender(rr[r]) /\ rr'[r].rdata = rr[r].rdata
    <3>1. SameStand(rr'[r], rr[r])
      BY <1>10, <2>1 DEF Out
    <3>2. Contender(rr[r])
      BY <2>1, <3>1, SameIs
    <3> QED
      BY <3>1, <3>2 DEF SameStand
  <2> QED
    BY <2>1 DEF Contended
<1>13. Answered
  <2> SUFFICES ASSUME NEW p \in net' \ net
               PROVE  \E s \in Records :
                        /\ HostOf[s] = p.from /\ ~Contender(rr[s]) /\ p.rdata \in DataOf[s]
                        /\ Goodbye(p) => "Shared" \in TypesOf[s]
    BY DEF Answered
  <2>1. PICK r \in ResourceRecords(h) :
          /\ p.rdata = rr[r].rdata \/ (p.rdata = rr[r].NewRData /\ p.rdata # NoRData)
          /\ p.goodbye => rr[r].RecordType \in {"Shared", "Deregistering"}
          /\ rr[r].RecordType = "Unique" => rr[r].ImmedAnswer # "no"
    BY <1>2
  <2>2. /\ ContentOf(r, rr[r]) /\ TimingOf(net, rr[r], HostOf[r])
        /\ r \in Records /\ HostOf[r] = h /\ rr[r].list # "none"
    BY <1>1, <1>3
  <2>3. ~Contender(rr[r])
    BY <2>1, <2>2 DEF TimingOf, Contender, IsUnique
  <2>4. p.rdata \in DataOf[r] /\ (Goodbye(p) => "Shared" \in TypesOf[r])
    BY <2>1, <2>2 DEF ContentOf, Goodbye
  <2> QED
    BY <1>2, <2>2, <2>3, <2>4
<1> QED
  BY <1>8, <1>9, <1>11, <1>12, <1>13 DEF LinkNext

(* What is heard of a packet p leaves a record as it stands, or out of the  *)
(* race.                                                                    *)
Unmoved(c, a) ==
  /\ SameStand(c, a) /\ c.rdata = a.rdata
  /\ c.recent = a.recent /\ c.AnnounceCount = a.AnnounceCount

LEMMA TimingHeard ==
  ASSUME NEW n, NEW a, NEW h, TimingOf(n, a, h), NEW m, m \subseteq n, NEW c, Unmoved(c, a),
         IsUnique(a) => c.ImmedAnswer \in {"no", a.ImmedAnswer} \/ ~Contender(a)
  PROVE  TimingOf(m, c, h)
<1>1. /\ (IsUnique(c) <=> IsUnique(a)) /\ (Contender(c) <=> Contender(a))
      /\ TimeLeft(c) = TimeLeft(a)
      /\ c.ProbeCount = a.ProbeCount /\ c.wait = a.wait /\ c.rdata = a.rdata
      /\ c.recent = a.recent /\ c.AnnounceCount = a.AnnounceCount
  BY DEF Unmoved, SameStand, IsUnique, Contender, TimeLeft
<1> QED
  BY <1>1 DEF TimingOf

LEMMA RaceHeard ==
  ASSUME NEW n, NEW a, NEW g, NEW b, NEW h, RaceOf(n, a, g, b, h),
         NEW m, NEW c, Unmoved(c, a), NEW d, Unmoved(d, b),
         Owner(a) /\ Probed(b) =>
           /\ AnswerComes(n, b, h) => AnswerComes(m, b, h)
           /\ ProbeComes(n, a, g, h) => ProbeComes(m, a, g, h) \/ AnswerDue(m, c, g, h)
           /\ AnswerDue(n, a, g, h) => AnswerDue(m, c, g, h),
         Contender(a) /\ a.rdata < b.rdata /\ Beaten(n, g, b) => Beaten(m, g, b)
  PROVE  RaceOf(m, c, g, d, h)
<1> USE DEF SameStand, Unmoved
<1>1. (Owner(c) <=> Owner(a)) /\ (Owner(d) <=> Owner(b))
  BY DEF Owner
<1>2. (Probed(d) <=> Probed(b)) /\ (Probed(c) <=> Probed(a))
  BY DEF Probed, IsUnique
<1>3. Contender(c) <=> Contender(a)
  BY DEF Contender, IsUnique
<1>4. (New(c) <=> New(a)) /\ (New(d) <=> New(b))
  BY DEF New
<1>5. Beaten(m, g, b) => Beaten(m, g, d)
  BY DEF Beaten
<1>6. ASSUME Owner(a), Probed(b) PROVE Doomed(m, c, g, d, h)
  <2>1. Doomed(n, a, g, b, h)
    BY <1>6 DEF RaceOf
  <2>2. AnswerComes(m, b, h) => AnswerComes(m, d, h)
    BY DEF AnswerComes
  <2>3. /\ ProbeComes(m, a, g, h) => ProbeComes(m, c, g, h)
        /\ AnnouncementDue(a) => AnnouncementDue(c)
        /\ WillAnswer(a, b) => WillAnswer(c, d)
    BY DEF ProbeComes, AnnouncementDue, WillAnswer
  <2> QED
    BY <1>6, <2>1, <2>2, <2>3 DEF Doomed
<1> QED
  BY <1>1, <1>2, <1>3, <1>4, <1>5, <1>6 DEF RaceOf

(* A record that begins to be probed again.                                 *)
LEMMA Again ==
  ASSUME NEW a, Proper(a), a.list = "main", NEW n \in {Probes, Probes + 1},
         NEW k \in {1, Deferral}
  PROVE  LET c == ProbeAgain(a, n, k) IN Out(c) /\ c.AnnounceCount = Announcements
<1>1. /\ n \in 0 .. Probes + 1 /\ k \in 0 .. Deferral /\ k > 0 /\ ~(n < Probes)
  BY RegistrationAssumption
<1>2. LET c == ProbeAgain(a, n, k) IN
      /\ c.RecordType = "Unique" /\ c.list = "main" /\ c.ProbeCount = n /\ c.wait = k
      /\ c.AnnounceCount = Announcements
  BY <1>1, ProbeAgainFields
<1> QED
  BY <1>1, <1>2, OutIs DEF IsUnique

LEMMA LinkReceiveProbe ==
  ASSUME LinkInv, NEW p \in net, ReceiveProbe(p)
  PROVE  LinkNext
<1>1. /\ RegistrationTypeOK
      /\ \A r \in Records : /\ Proper(rr[r]) /\ HostOf[r] \in Hosts /\ ContentOf(r, rr[r])
                            /\ TimingOf(net, rr[r], HostOf[r])
      /\ \A q, r \in Records : HostOf[q] # HostOf[r] =>
           RaceOf(net, rr[q], HostOf[q], rr[r], HostOf[r])
      /\ \A s \in net : s \in Packet /\ PacketOf(s)
  BY LinkFacts
<1>2. p.kind = "probe" /\ Arrives(p) /\ net' = net \ {p} /\ p.from \in Hosts
  BY <1>1, ReceiveProbeStep DEF Packet
<1>3. /\ \A x \in {"all", "mark", p.from} : x \in ImmedAnswers
      /\ p.from \notin {"no", "all", "mark"} /\ \A x \in Hosts : x \notin {"no", "all", "mark"}
  BY <1>2, RegistrationAssumption DEF ImmedAnswers
<1>4. Probes \in 0 .. Probes + 1 /\ Deferral \in 0 .. Deferral
  BY RegistrationAssumption
\* It lost; or it answers if it may; or nothing.
<1>5. ASSUME NEW r \in Records
      PROVE  \/ /\ HostOf[r] = p.to /\ rr[r].list = "main" /\ rr[r].RecordType = "Unique"
                /\ rr'[r] = ProbeAgain(rr[r], Probes, Deferral)
             \/ /\ Unmoved(rr'[r], rr[r]) /\ Kept(rr'[r], rr[r]) 
                /\ \/ rr'[r].ImmedAnswer = rr[r].ImmedAnswer
                   \/ /\ rr[r].RecordType \in ActiveMask
                      /\ \/ rr'[r].ImmedAnswer \in {"all", "mark"}
                         \/ rr'[r].ImmedAnswer = p.from /\ rr[r].ImmedAnswer \in {"no", p.from}
                /\ HostOf[r] = p.to /\ Owner(rr[r]) /\ (p.unicast \/ rr[r].recent = 0) =>
                     rr'[r].ImmedAnswer \in {"all", "mark", p.from}
                /\ HostOf[r] = p.to /\ IsUnique(rr[r]) => ~LosesTo(rr[r], p)
  <2>1. "Unique" \notin ActiveMask /\ "Verified" \in ActiveMask
    BY DEF ActiveMask
  <2>2. CASE /\ HostOf[r] = p.to /\ rr[r].list = "main" /\ rr[r].RecordType = "Unique"
             /\ rr'[r] = ProbeAgain(rr[r], Probes, Deferral)
    BY <2>2
  <2>3. ASSUME HostOf[r] = p.to, rr[r].list = "main", rr[r].RecordType \in ActiveMask,
               NEW x \in {"all", "mark", p.from}, rr'[r] = Answering(rr[r], x),
               x \in {"all", "mark"} \/ rr[r].ImmedAnswer \in {"no", p.from}
        PROVE  /\ Unmoved(rr'[r], rr[r]) /\ Kept(rr'[r], rr[r])
               /\ rr'[r].ImmedAnswer = x
    <3>1. /\ Alike(rr'[r], rr[r]) /\ rr'[r].ImmedAnswer = x
          /\ rr'[r].ProbeCount = rr[r].ProbeCount /\ rr'[r].wait = rr[r].wait
          /\ rr'[r].recent = rr[r].recent /\ rr'[r].AnnounceCount = rr[r].AnnounceCount
      BY <1>1, <1>3, <2>3, AnsweringFields
    <3> QED
      BY <3>1, AlikeKept DEF Unmoved, SameStand, Alike
  <2>4. CASE rr'[r] = rr[r]
    <3>1. Unmoved(rr'[r], rr[r]) /\ Kept(rr'[r], rr[r])
      BY <2>4, SameKept DEF Unmoved, SameStand
    <3>2. ~ (/\ HostOf[r] = p.to /\ rr[r].list = "main" /\ rr[r].RecordType = "Unique"
             /\ LosesTo(rr[r], p))
            \/ rr'[r] = ProbeAgain(rr[r], Probes, Deferral)
      BY <1>1, <2>1, ReceiveProbeStep
    <3>3. HostOf[r] = p.to /\ Owner(rr[r]) /\ (p.unicast \/ rr[r].recent = 0) =>
            \E x \in {"all", "mark", p.from} : rr'[r] = Answering(rr[r], x)
      BY <1>1, <2>1, ReceiveProbeStep DEF Owner
    <3>4. HostOf[r] = p.to /\ Owner(rr[r]) /\ (p.unicast \/ rr[r].recent = 0) =>
            rr'[r].ImmedAnswer \in {"all", "mark", p.from}
      BY <1>1, <1>3, <3>3, AnsweringFields
    <3> QED
      BY <2>4, <3>1, <3>2, <3>4 DEF IsUnique
  <2>5. \/ rr'[r] = rr[r]
        \/ /\ HostOf[r] = p.to /\ rr[r].list = "main" /\ rr[r].RecordType = "Unique"
           /\ rr'[r] = ProbeAgain(rr[r], Probes, Deferral)
        \/ /\ HostOf[r] = p.to /\ rr[r].list = "main" /\ rr[r].RecordType \in ActiveMask
           /\ \E x \in {"all", "mark", p.from} :
                /\ rr'[r] = Answering(rr[r], x)
                /\ x \in {"all", "mark"} \/ rr[r].ImmedAnswer \in {"no", p.from}
    BY <1>1, ReceiveProbeStep
  <2> QED
    BY <2>1, <2>2, <2>3, <2>4, <2>5 DEF IsUnique
<1>6. ASSUME NEW r \in Records, ~Unmoved(rr'[r], rr[r])
      PROVE  Out(rr'[r]) /\ rr'[r].AnnounceCount = Announcements
  BY <1>1, <1>5, <1>6, Again
<1>7. Contents'
  <2>1. ASSUME NEW r \in Records PROVE ContentOf(r, rr'[r])
    <3>1. CASE /\ rr[r].list = "main" /\ rr[r].RecordType = "Unique"
               /\ rr'[r] = ProbeAgain(rr[r], Probes, Deferral)
      BY <1>1, <1>4, <3>1, ProbeAgainFields DEF ContentOf
    <3> QED
      BY <1>1, <1>5, <3>1, KeptContent
  <2> QED
    BY <1>1, <1>2, <2>1 DEF Contents
<1>8. Timing'
  <2> SUFFICES ASSUME NEW r \in Records PROVE TimingOf(net', rr'[r], HostOf[r])
    BY DEF Timing
  <2>1. CASE ~Unmoved(rr'[r], rr[r])
    BY <1>6, <2>1, OutTiming
  <2>2. CASE Unmoved(rr'[r], rr[r])
    <3>1. IsUnique(rr[r]) => rr'[r].ImmedAnswer = rr[r].ImmedAnswer \/ ~Contender(rr[r])
      <4>1. CASE rr'[r] = ProbeAgain(rr[r], Probes, Deferral) /\ rr[r].list = "main"
        BY <1>1, <1>4, <4>1, ProbeAgainFields
      <4> QED
        BY <1>5, <4>1 DEF IsUnique, ActiveMask
    <3> QED
      BY <1>1, <1>2, <2>2, <3>1, TimingHeard
  <2> QED
    BY <2>1, <2>2
<1>9. Race'
  <2> SUFFICES ASSUME NEW q \in Records, NEW r \in Records, HostOf[q] # HostOf[r],
                      ~Out(rr'[q]), ~Out(rr'[r])
               PROVE  RaceOf(net', rr'[q], HostOf[q], rr'[r], HostOf[r])
    BY OutRace DEF Race
  <2>1. Unmoved(rr'[q], rr[q]) /\ Unmoved(rr'[r], rr[r])
    BY <1>6
  <2>2. /\ RaceOf(net, rr[q], HostOf[q], rr[r], HostOf[r])
        /\ HostOf[q] \in Hosts /\ HostOf[r] \in Hosts
    BY <1>1
  <2>3. /\ \/ rr'[q].ImmedAnswer = rr[q].ImmedAnswer
           \/ rr'[q].ImmedAnswer \in {"all", "mark"}
           \/ rr'[q].ImmedAnswer = p.from /\ rr[q].ImmedAnswer \in {"no", p.from}
        /\ HostOf[q] = p.to /\ Owner(rr[q]) /\ (p.unicast \/ rr[q].recent = 0) =>
             rr'[q].ImmedAnswer \in {"all", "mark", p.from}
        /\ HostOf[q] = p.to /\ IsUnique(rr[q]) => ~LosesTo(rr[q], p)
    <3>1. ~(rr[q].list = "main" /\ rr'[q] = ProbeAgain(rr[q], Probes, Deferral))
      BY <1>1, Again
    <3> QED
      BY <1>5, <3>1
  <2>4. AnswerComes(net, rr[r], HostOf[r]) => AnswerComes(net', rr[r], HostOf[r])
    BY <1>2 DEF AnswerComes
  <2>5. AnswerDue(net, rr[q], HostOf[q], HostOf[r]) => AnswerDue(net', rr'[q], HostOf[q], HostOf[r])
    <3> SUFFICES ASSUME AnswerDue(net, rr[q], HostOf[q], HostOf[r])
                 PROVE  AnswerDue(net', rr'[q], HostOf[q], HostOf[r])
      OBVIOUS
    <3>1. rr[q].ImmedAnswer \in {"all", "mark", HostOf[r]}
      BY DEF AnswerDue
    <3>2. rr'[q].ImmedAnswer \in {"all", "mark", HostOf[r]}
      BY <1>3, <2>2, <2>3, <3>1
    <3> QED
      BY <1>2, <3>2 DEF AnswerDue
  <2>6. ASSUME Owner(rr[q]), ProbeComes(net, rr[q], HostOf[q], HostOf[r]),
               ~ProbeComes(net', rr[q], HostOf[q], HostOf[r])
        PROVE  AnswerDue(net', rr'[q], HostOf[q], HostOf[r])
    <3>1. p.from = HostOf[r] /\ p.to = HostOf[q] /\ (p.unicast \/ rr[q].recent = 0)
      BY <1>2, <2>6 DEF ProbeComes
    <3>2. \A s \in net : ~Own(s, HostOf[q])
      BY <1>2, <3>1 DEF Arrives, Own
    <3> QED
      BY <1>2, <2>3, <2>6, <3>1, <3>2 DEF AnswerDue
  <2>7. ASSUME Contender(rr[q]), rr[q].rdata < rr[r].rdata, Beaten(net, HostOf[q], rr[r])
        PROVE  Beaten(net', HostOf[q], rr[r])
    <3>1. p.to = HostOf[q] => ~(rr[q].rdata < p.rdata)
      <4>1. IsUnique(rr[q]) /\ rr[q].rdata \in Int
        BY <1>1, <2>7, RegistrationAssumption DEF Contender, IsUnique, Proper
      <4>2. p.rdata \in Int
        BY <1>1, RegistrationAssumption DEF Packet
      <4> QED
        BY <2>3, <4>1, <4>2 DEF LosesTo, Conflict, UniqueMask, IsUnique
    <3> QED
      BY <1>2, <2>7, <3>1 DEF Beaten
  <2> QED
    BY <2>1, <2>2, <2>4, <2>5, <2>6, <2>7, RaceHeard
<1>10. Contended
  <2>1. ASSUME NEW r \in Records, Contender(rr'[r])
        PROVE  Contender(rr[r]) /\ rr'[r].rdata = rr[r].rdata
    <3>1. Unmoved(rr'[r], rr[r])
      BY <1>6, <2>1 DEF Out
    <3> QED
      BY <2>1, <3>1, SameIs DEF Unmoved
  <2> QED
    BY <2>1 DEF Contended
<1>11. Answered
  BY <1>2 DEF Answered
<1> QED
  BY <1>7, <1>8, <1>9, <1>10, <1>11 DEF LinkNext

LEMMA LinkReceiveAnswer ==
  ASSUME LinkAssumption, LinkInv, NEW p \in net, ReceiveAnswer(p)
  PROVE  LinkNext
<1>1. /\ RegistrationTypeOK
      /\ \A r \in Records : /\ Proper(rr[r]) /\ HostOf[r] \in Hosts /\ ContentOf(r, rr[r])
                            /\ TimingOf(net, rr[r], HostOf[r])
      /\ \A q, r \in Records : HostOf[q] # HostOf[r] =>
           RaceOf(net, rr[q], HostOf[q], rr[r], HostOf[r])
      /\ \A s \in net : s \in Packet /\ PacketOf(s)
  BY LinkFacts
<1>2. p.kind = "answer" /\ Arrives(p) /\ net' = net \ {p}
  BY <1>1, ReceiveAnswerStep
<1>3. /\ Probes + 1 \in 0 .. Probes + 1 /\ 1 \in 0 .. Deferral
      /\ "mark" \in ImmedAnswers
  BY RegistrationAssumption DEF ImmedAnswers
\* What has the contents of a probed or verified record is its host's own.
<1>4. ASSUME NEW r \in Records, HostOf[r] = p.to, rr[r].list = "main", rr[r].rdata = p.rdata
      PROVE  Own(p, HostOf[r])
  <2>1. PICK s \in Records : HostOf[s] = p.from /\ p.rdata \in DataOf[s]
    BY <1>1 DEF PacketOf
  <2>2. rr[r].rdata \in DataOf[r]
    BY <1>1, <1>4 DEF ContentOf
  <2>3. HostOf[s] = HostOf[r]
    BY <1>4, <2>1, <2>2 DEF LinkAssumption, DataOfOneHost
  <2> QED
    BY <1>2, <1>4, <2>1, <2>3 DEF Own
<1>5. ASSUME NEW r \in Records
      PROVE  \/ rr'[r] = Unregistered
             \/ /\ HostOf[r] = p.to /\ rr[r].list = "main"
                /\ rr'[r] = ProbeAgain(rr[r], Probes + 1, 1) /\ rr[r].RecordType = "Verified"
             \/ /\ Unmoved(rr'[r], rr[r]) /\ Kept(rr'[r], rr[r])
                /\ HostOf[r] = p.to /\ Probed(rr[r]) => p.goodbye \/ p.rdata = rr[r].rdata
                /\ \/ rr'[r].ImmedAnswer = rr[r].ImmedAnswer
                   \/ ~IsUnique(rr[r]) /\ ~Owner(rr[r])
                   \/ /\ Own(p, HostOf[r])
                      /\ IsUnique(rr[r]) => \/ rr'[r].ImmedAnswer \in {"no", rr[r].ImmedAnswer}
                                            \/ ~Contender(rr[r])
  <2>1. ASSUME Probed(rr[r]), HostOf[r] = p.to, ~p.goodbye, p.rdata # rr[r].rdata
        PROVE  LosesName(rr[r], p) /\ rr[r].list = "main"
    BY <2>1 DEF LosesName, Conflict, UniqueMask, Probed, IsUnique
  <2>2. CASE HostOf[r] # p.to \/ rr[r].list = "none"
    BY <1>1, <2>2, ReceiveAnswerStep, SameKept DEF Unmoved, SameStand, Probed, IsUnique
  <2>3. CASE HostOf[r] = p.to /\ rr[r].list = "duplicate"
    <3>1. rr'[r] = Unregistered \/ rr'[r] = rr[r]
      BY <1>1, <2>3, ReceiveAnswerStep
    <3> QED
      BY <2>3, <3>1, SameKept DEF Unmoved, SameStand, Probed, IsUnique
  <2>4. CASE HostOf[r] = p.to /\ rr[r].list = "main"
    <3>1. IF LosesName(rr[r], p) THEN rr'[r] = Unregistered
          ELSE IF rr[r].rdata = p.rdata THEN rr'[r] = SeenIdentical(rr[r], p)
          ELSE IF MustDefend(rr[r], p) THEN rr'[r] = ProbeAgain(rr[r], Probes + 1, 1)
          ELSE \/ rr'[r] = rr[r]
               \/ /\ p.goodbye \/ rr[r].RecordType \notin UniqueMask
                  /\ p.flush /\ rr'[r] = Answering(rr[r], "mark")
      BY <1>1, <2>4, ReceiveAnswerStep
    <3>2. CASE LosesName(rr[r], p)
      BY <3>1, <3>2
    <3>3. CASE ~LosesName(rr[r], p) /\ rr[r].rdata = p.rdata
      <4>1. PICK x \in {rr[r].ImmedAnswer, "no", "all"} :
              /\ SeenIdentical(rr[r], p) = Answering(rr[r], x) /\ x \in ImmedAnswers
              /\ ~p.goodbye => x = IF rr[r].ImmedAnswer = "mark" THEN "mark" ELSE "no"
        BY <1>1, SeenIdenticalIs
      <4>2. rr'[r] = Answering(rr[r], x) /\ Proper(rr[r])
        BY <1>1, <3>1, <3>3, <4>1
      <4>3. /\ Alike(rr'[r], rr[r]) /\ rr'[r].ImmedAnswer = x
            /\ rr'[r].ProbeCount = rr[r].ProbeCount /\ rr'[r].wait = rr[r].wait
            /\ rr'[r].recent = rr[r].recent /\ rr'[r].AnnounceCount = rr[r].AnnounceCount
        BY <4>1, <4>2, AnsweringFields
      <4>4. Own(p, HostOf[r])
        BY <1>4, <2>4, <3>3
      <4>5. IsUnique(rr[r]) /\ p.goodbye => ~Contender(rr[r])
        BY <1>1, <1>2, <3>3, <4>4 DEF TimingOf, Goodbye
      <4>6. ~p.goodbye => rr'[r].ImmedAnswer \in {"no", rr[r].ImmedAnswer}
        BY <4>1, <4>3
      <4>7. Unmoved(rr'[r], rr[r]) /\ Kept(rr'[r], rr[r])
        BY <4>3, AlikeKept DEF Unmoved, SameStand, Alike
      <4> QED
        BY <3>3, <4>4, <4>5, <4>6, <4>7
    <3>4. CASE ~LosesName(rr[r], p) /\ rr[r].rdata # p.rdata /\ MustDefend(rr[r], p)
      BY <2>4, <3>1, <3>4 DEF MustDefend
    <3>5. CASE ~LosesName(rr[r], p) /\ rr[r].rdata # p.rdata /\ rr'[r] = rr[r]
      BY <2>1, <2>4, <3>5, SameKept DEF Unmoved, SameStand
    <3>6. CASE /\ ~LosesName(rr[r], p) /\ rr[r].rdata # p.rdata
               /\ p.goodbye \/ rr[r].RecordType \notin UniqueMask
               /\ p.flush /\ rr'[r] = Answering(rr[r], "mark")
      <4>1. ~Goodbye(p)
        BY <1>1, <3>6 DEF PacketOf
      <4>2. ~IsUnique(rr[r]) /\ ~Owner(rr[r])
        BY <1>2, <3>6, <4>1 DEF Goodbye, IsUnique, Owner, UniqueMask
      <4>3. /\ Alike(rr'[r], rr[r])
            /\ rr'[r].ProbeCount = rr[r].ProbeCount /\ rr'[r].wait = rr[r].wait
            /\ rr'[r].recent = rr[r].recent /\ rr'[r].AnnounceCount = rr[r].AnnounceCount
        BY <1>1, <1>3, <3>6, AnsweringFields
      <4>4. Unmoved(rr'[r], rr[r]) /\ Kept(rr'[r], rr[r])
        BY <4>3, AlikeKept DEF Unmoved, SameStand, Alike
      <4> QED
        BY <2>1, <3>6, <4>2, <4>4
    <3> QED
      BY <3>1, <3>2, <3>3, <3>4, <3>5, <3>6
  <2>5. rr[r].list \in {"none", "main", "duplicate"}
    BY <1>1 DEF Proper, AuthRecord
  <2> QED
    BY <2>2, <2>3, <2>4, <2>5
<1>6. ASSUME NEW r \in Records, rr'[r] = Unregistered \/ ~Unmoved(rr'[r], rr[r])
      PROVE  Out(rr'[r]) /\ (IsUnique(rr'[r]) => rr'[r].AnnounceCount = Announcements)
  <2>1. ~IsUnique(Unregistered)
    BY DEF IsUnique, Unregistered
  <2> QED
    BY <1>1, <1>5, <1>6, <2>1, Again, GoneContent
<1>7. Contents'
  <2>1. ASSUME NEW r \in Records PROVE ContentOf(r, rr'[r])
    <3>1. CASE /\ rr[r].list = "main" /\ rr[r].RecordType = "Verified"
               /\ rr'[r] = ProbeAgain(rr[r], Probes + 1, 1)
      BY <1>1, <1>3, <3>1, ProbeAgainFields DEF ContentOf
    <3> QED
      BY <1>1, <1>5, <3>1, KeptContent, GoneContent
  <2> QED
    BY <1>1, <1>2, <2>1 DEF Contents
<1>8. Timing'
  <2> SUFFICES ASSUME NEW r \in Records PROVE TimingOf(net', rr'[r], HostOf[r])
    BY DEF Timing
  <2>1. CASE Out(rr'[r]) /\ (IsUnique(rr'[r]) => rr'[r].AnnounceCount = Announcements)
    BY <2>1, OutTiming
  <2>2. CASE ~(Out(rr'[r]) /\ (IsUnique(rr'[r]) => rr'[r].AnnounceCount = Announcements))
    <3>1. Unmoved(rr'[r], rr[r]) /\ rr'[r] # Unregistered
      BY <1>6, <2>2
    <3>2. ~(rr[r].list = "main" /\ rr'[r] = ProbeAgain(rr[r], Probes + 1, 1))
      BY <1>1, <2>2, Again
    <3>3. IsUnique(rr[r]) => rr'[r].ImmedAnswer \in {"no", rr[r].ImmedAnswer} \/ ~Contender(rr[r])
      BY <1>5, <3>1, <3>2
    <3> QED
      BY <1>1, <1>2, <3>1, <3>3, TimingHeard
  <2> QED
    BY <2>1, <2>2
<1>9. Race'
  <2> SUFFICES ASSUME NEW q \in Records, NEW r \in Records, HostOf[q] # HostOf[r],
                      ~Out(rr'[q]), ~Out(rr'[r])
               PROVE  RaceOf(net', rr'[q], HostOf[q], rr'[r], HostOf[r])
    BY OutRace DEF Race
  <2>1. /\ Unmoved(rr'[q], rr[q]) /\ Unmoved(rr'[r], rr[r])
        /\ rr'[q] # Unregistered /\ rr'[r] # Unregistered
    BY <1>6
  <2>2. /\ ~(rr[q].list = "main" /\ rr'[q] = ProbeAgain(rr[q], Probes + 1, 1))
        /\ ~(rr[r].list = "main" /\ rr'[r] = ProbeAgain(rr[r], Probes + 1, 1))
    BY <1>1, Again
  <2>3. HostOf[r] = p.to /\ Probed(rr[r]) => p.goodbye \/ p.rdata = rr[r].rdata
    BY <1>5, <2>1, <2>2
  <2>4. Owner(rr[q]) => rr'[q].ImmedAnswer = rr[q].ImmedAnswer \/ Own(p, HostOf[q])
    BY <1>5, <2>1, <2>2
  <2>5. RaceOf(net, rr[q], HostOf[q], rr[r], HostOf[r])
    BY <1>1
  <2>6. Probed(rr[r]) /\ AnswerComes(net, rr[r], HostOf[r]) => AnswerComes(net', rr[r], HostOf[r])
    BY <1>2, <2>3 DEF AnswerComes, Goodbye
  <2>7. ProbeComes(net, rr[q], HostOf[q], HostOf[r]) => ProbeComes(net', rr[q], HostOf[q], HostOf[r])
    BY <1>2 DEF ProbeComes
  <2>8. Owner(rr[q]) /\ AnswerDue(net, rr[q], HostOf[q], HostOf[r]) =>
          AnswerDue(net', rr'[q], HostOf[q], HostOf[r])
    BY <1>2, <2>4 DEF AnswerDue
  <2>9. Beaten(net, HostOf[q], rr[r]) => Beaten(net', HostOf[q], rr[r])
    BY <1>2 DEF Beaten
  <2> QED
    BY <2>1, <2>5, <2>6, <2>7, <2>8, <2>9, RaceHeard
<1>10. Contended
  <2>1. ASSUME NEW r \in Records, Contender(rr'[r])
        PROVE  Contender(rr[r]) /\ rr'[r].rdata = rr[r].rdata
    <3>1. Unmoved(rr'[r], rr[r])
      BY <1>6, <2>1 DEF Out
    <3> QED
      BY <2>1, <3>1, SameIs DEF Unmoved
  <2> QED
    BY <2>1 DEF Contended
<1>11. Answered
  BY <1>2 DEF Answered
<1> QED
  BY <1>7, <1>8, <1>9, <1>10, <1>11 DEF LinkNext

(* It has contents to announce.                                             *)
Renewed(a, b) ==
  /\ a.list = b.list /\ a.RecordType = b.RecordType /\ a.rdata = b.rdata
  /\ a.ProbeCount = b.ProbeCount /\ b.ProbeCount \in Nat
  /\ a.ImmedAnswer = b.ImmedAnswer
  /\ a.wait = IF b.ProbeCount > 0 THEN b.wait ELSE 0
  /\ a.AnnounceCount = Announcements

LEMMA RenewedIs ==
  ASSUME ProbingTakesTime, NEW a, NEW c, Renewed(c, a)
  PROVE  /\ Owner(c) <=> Owner(a)
         /\ Probed(c) <=> Probed(a)
         /\ Contender(c) <=> Contender(a)
         /\ New(c) <=> New(a)
<1>1. Probes \in Nat /\ Probes >= 3
  BY RegistrationAssumption DEF ProbingTakesTime
<1>2. /\ c.list = a.list /\ c.RecordType = a.RecordType /\ c.ProbeCount = a.ProbeCount
      /\ a.ProbeCount > 0 => c.wait = a.wait
      /\ ~(a.ProbeCount > 0) => c.wait = 0
      /\ a.ProbeCount \in Nat
  BY DEF Renewed
<1>3. (Owner(c) <=> Owner(a)) /\ (IsUnique(c) <=> IsUnique(a))
  BY <1>2 DEF Owner, IsUnique
<1>4. Probed(c) <=> Probed(a)
  BY <1>2, <1>3 DEF Probed
<1>5. New(c) <=> New(a)
  BY <1>1, <1>2 DEF New
<1>6. Contender(c) <=> Contender(a)
  BY <1>1, <1>2, <1>3 DEF Contender
<1> QED
  BY <1>3, <1>4, <1>5, <1>6

LEMMA RenewedRace ==
  ASSUME ProbingTakesTime, NEW n, NEW a, NEW g, NEW b, NEW h, RaceOf(n, a, g, b, h), NEW c
  PROVE  /\ Renewed(c, a) => RaceOf(n, c, g, b, h)
         /\ Renewed(c, b) => RaceOf(n, a, g, c, h)
<1>1. ASSUME Renewed(c, a) PROVE RaceOf(n, c, g, b, h)
  <2>1. c.rdata = a.rdata /\ c.AnnounceCount = Announcements /\ Announcements \in Nat
    BY <1>1, RegistrationAssumption DEF Renewed
  <2>2. Owner(c) /\ Probed(b) => Doomed(n, c, g, b, h)
    BY <1>1, <2>1, RenewedIs DEF RaceOf, Doomed, AnnouncementDue
  <2> QED
    BY <1>1, <2>1, <2>2, RenewedIs DEF RaceOf
<1>2. ASSUME Renewed(c, b) PROVE RaceOf(n, a, g, c, h)
  <2>1. /\ c.rdata = b.rdata /\ c.ProbeCount = b.ProbeCount
        /\ b.ProbeCount > 0 => c.wait = b.wait
        /\ b.wait = 0 => c.wait = 0
    BY <1>2 DEF Renewed
  <2>2. Doomed(n, a, g, b, h) => Doomed(n, a, g, c, h)
    BY <2>1 DEF Doomed, AnswerComes, AnswerDue, WillAnswer
  <2>3. Beaten(n, g, b) => Beaten(n, g, c)
    BY <2>1 DEF Beaten
  <2> QED
    BY <1>2, <2>1, <2>2, <2>3, RenewedIs DEF RaceOf
<1> QED
  BY <1>1, <1>2

LEMMA RenewedTiming ==
  ASSUME ProbingTakesTime, NEW n, NEW a, NEW h, TimingOf(n, a, h), NEW c, Renewed(c, a)
  PROVE  TimingOf(n, c, h)
<1>1. Probes \in Nat /\ Announcements \in Nat
  BY RegistrationAssumption
<1>2. /\ c.ProbeCount = a.ProbeCount /\ c.rdata = a.rdata /\ c.ImmedAnswer = a.ImmedAnswer
      /\ c.wait = a.wait \/ c.wait = 0
      /\ c.AnnounceCount = Announcements /\ (IsUnique(c) <=> IsUnique(a))
  BY DEF Renewed, IsUnique
<1>3. ~(c.AnnounceCount < Announcements) /\ 0 <= 1
  BY <1>1, <1>2
<1> QED
  BY <1>2, <1>3, RenewedIs DEF TimingOf

(* The calls of the clients: every record is then out of the race, or       *)
(* stands as it or one it takes over from did.                              *)
Stays(r) ==
  \/ Out(rr'[r]) /\ (IsUnique(rr'[r]) => rr'[r].AnnounceCount = Announcements)
  \/ \E s \in Records :
       HostOf[s] = HostOf[r] /\ (Like(rr'[r], rr[s]) \/ Renewed(rr'[r], rr[s]))

LEMMA StaysRace ==
  ASSUME ProbingTakesTime, NEW n, NEW a, NEW g, NEW b, NEW h, RaceOf(n, a, g, b, h),
         NEW c, NEW d, Like(c, a) \/ Renewed(c, a), Like(d, b) \/ Renewed(d, b)
  PROVE  RaceOf(n, c, g, d, h)
<1>1. Like(a, a) /\ Like(b, b)
  BY DEF Like
<1>2. RaceOf(n, c, g, b, h)
  BY <1>1, LikeRace, RenewedRace
<1>3. Like(c, c)
  BY DEF Like
<1> QED
  BY <1>2, <1>3, LikeRace, RenewedRace

LEMMA LinkClient ==
  ASSUME ProbingTakesTime, LinkInv, net' = net, \A r \in Records : ContentOf(r, rr'[r]) /\ Stays(r)
  PROVE  LinkNext
<1>1. /\ \A r \in Records : TimingOf(net, rr[r], HostOf[r])
      /\ \A q, r \in Records : HostOf[q] # HostOf[r] =>
           RaceOf(net, rr[q], HostOf[q], rr[r], HostOf[r])
      /\ \A s \in net : PacketOf(s)
  BY LinkFacts
<1>2. Contents'
  BY <1>1 DEF Contents
<1>3. Timing'
  <2> SUFFICES ASSUME NEW r \in Records PROVE TimingOf(net, rr'[r], HostOf[r])
    BY DEF Timing
  <2>1. ASSUME NEW s \in Records, HostOf[s] = HostOf[r],
               Like(rr'[r], rr[s]) \/ Renewed(rr'[r], rr[s])
        PROVE  TimingOf(net, rr'[r], HostOf[r])
    BY <1>1, <2>1, LikeTiming, RenewedTiming
  <2> QED
    BY <2>1, OutTiming DEF Stays
<1>4. Race'
  <2> SUFFICES ASSUME NEW q \in Records, NEW r \in Records, HostOf[q] # HostOf[r],
                      ~Out(rr'[q]), ~Out(rr'[r])
               PROVE  RaceOf(net, rr'[q], HostOf[q], rr'[r], HostOf[r])
    BY OutRace DEF Race
  <2>1. PICK s \in Records :
          HostOf[s] = HostOf[q] /\ (Like(rr'[q], rr[s]) \/ Renewed(rr'[q], rr[s]))
    BY DEF Stays
  <2>2. PICK t \in Records :
          HostOf[t] = HostOf[r] /\ (Like(rr'[r], rr[t]) \/ Renewed(rr'[r], rr[t]))
    BY DEF Stays
  <2>3. RaceOf(net, rr[s], HostOf[q], rr[t], HostOf[r])
    BY <1>1, <2>1, <2>2
  <2> QED
    BY <2>1, <2>2, <2>3, StaysRace
<1>5. Contended
  <2>1. ASSUME NEW r \in Records, Contender(rr'[r])
        PROVE  \E s \in Records :
                 HostOf[s] = HostOf[r] /\ Contender(rr[s]) /\ rr'[r].rdata = rr[s].rdata
    <3>1. PICK s \in Records :
            HostOf[s] = HostOf[r] /\ (Like(rr'[r], rr[s]) \/ Renewed(rr'[r], rr[s]))
      BY <2>1 DEF Stays, Out
    <3>2. Like(rr'[r], rr[s]) => SameStand(rr'[r], rr[s])
      BY DEF Like, SameStand
    <3>3. Contender(rr[s])
      BY <2>1, <3>1, <3>2, SameIs, RenewedIs
    <3> QED
      BY <3>1, <3>3 DEF Like, Renewed
  <2> QED
    BY <2>1 DEF Contended
<1>6. Answered
  BY DEF Answered
<1> QED
  BY <1>2, <1>3, <1>4, <1>5, <1>6 DEF LinkNext

LEMMA LikeSame == ASSUME NEW a PROVE Like(a, a)
  BY DEF Like, Alike

LEMMA SameStays ==
  ASSUME NEW r \in Records, ContentOf(r, rr[r]), rr'[r] = rr[r]
  PROVE  ContentOf(r, rr'[r]) /\ Stays(r)
  BY LikeSame DEF Stays

LEMMA GoneStays ==
  ASSUME NEW r \in Records, rr'[r] = Unregistered
  PROVE  ContentOf(r, rr'[r]) /\ Stays(r)
<1>1. ~IsUnique(Unregistered)
  BY DEF IsUnique, Unregistered
<1> QED
  BY <1>1, GoneContent DEF Stays

LEMMA DepartedStays ==
  ASSUME NEW r \in Records, Proper(rr[r]), ContentOf(r, rr[r]), rr[r].list # "none",
         NEW n \in 0 .. Announcements + Goodbyes, rr'[r] = Departed(rr[r], n)
  PROVE  ContentOf(r, rr'[r]) /\ Stays(r)
<1>1. CASE rr'[r] = Unregistered
  BY <1>1, GoneStays
<1>2. CASE /\ rr[r].RecordType = "Shared" /\ rr'[r].RecordType = "Deregistering"
           /\ rr'[r].list = rr[r].list /\ rr'[r].rdata = rr[r].rdata
           /\ rr'[r].NewRData = rr[r].NewRData
  <2>1. Out(rr'[r]) /\ ~IsUnique(rr'[r])
    BY <1>2, OutIs DEF IsUnique
  <2> QED
    BY <1>2, <2>1 DEF Stays, ContentOf
<1> QED
  BY <1>1, <1>2, DepartedFields

LEMMA SilencedStays ==
  ASSUME NEW r \in Records, Proper(rr[r]), ContentOf(r, rr[r]),
         rr[r].RecordType = "Deregistering", NEW n \in 0 .. Announcements + Goodbyes,
         rr'[r] = Announcing(rr[r], n)
  PROVE  ContentOf(r, rr'[r]) /\ Stays(r)
<1>1. Alike(rr'[r], rr[r])
  BY AnnouncingFields
<1>2. Out(rr'[r]) /\ ~IsUnique(rr'[r])
  BY <1>1, OutIs DEF IsUnique, Alike
<1> QED
  BY <1>1, <1>2, AlikeKept, KeptContent DEF Stays

LEMMA LinkRegister ==
  ASSUME ProbingTakesTime, LinkInv, NEW r \in Records, NEW type \in TypesOf[r], NEW data \in DataOf[r],
         mDNS_Register(r, type, data)
  PROVE  LinkNext
<1>1. RegistrationTypeOK /\ \A q \in Records : Proper(rr[q]) /\ ContentOf(q, rr[q])
  BY LinkFacts
<1>2. net' = net
  BY <1>1, RegisterStep
<1>3. 0 \in 0 .. Announcements + Goodbyes /\ \A n \in 0 .. Probes : n \in 0 .. Probes + 1
  BY RegistrationAssumption
<1>4. ASSUME NEW q \in Records \ {r} PROVE ContentOf(q, rr'[q]) /\ Stays(q)
  <2>1. \/ rr'[q] = rr[q]
        \/ rr[q].RecordType = "Deregistering" /\ rr'[q] = Announcing(rr[q], 0)
    BY <1>1, RegisterStep
  <2> QED
    BY <1>1, <1>3, <2>1, SameStays, SilencedStays
<1>5. ContentOf(r, rr'[r]) /\ Stays(r)
  <2> DEFINE a == NewRecord(type, data)
  <2>1. /\ a.RecordType = type /\ a.list = "main" /\ a.rdata = data /\ a.NewRData = NoRData
        /\ type = "Unique" => a.ProbeCount = Probes /\ a.wait = 1
        /\ a.AnnounceCount = Announcements
    BY NewRecordFields
  <2>2. Proper(a) /\ type \in {"Unique", "Shared", "KnownUnique"}
    BY NewRecordProper, RegistrationAssumption
  <2> HIDE DEF a
  <2>3. Out(a)
    <3>1. ~(Probes < Probes) /\ 1 > 0
      BY RegistrationAssumption
    <3> QED
      BY <2>1, <2>2, <3>1, OutIs DEF IsUnique
  <2>4. CASE rr'[r] = a
    <3>1. ContentOf(r, rr'[r])
      BY <2>1, <2>2, <2>4 DEF ContentOf
    <3> QED
      BY <2>1, <2>3, <2>4, <3>1 DEF Stays
  <2>5. CASE \E n \in 0 .. Probes : rr'[r] = Queued(a, n)
    <3>1. /\ rr'[r].list = "duplicate" /\ rr'[r].RecordType = type /\ rr'[r].rdata = data
          /\ rr'[r].NewRData = NoRData
      BY <1>3, <2>1, <2>2, <2>5, QueuedFields
    <3>2. Out(rr'[r]) /\ ~IsUnique(rr'[r])
      BY <3>1, OutIs DEF IsUnique
    <3> QED
      BY <2>2, <3>1, <3>2 DEF Stays, ContentOf
  <2> QED
    BY <1>1, <2>4, <2>5, RegisterStep DEF a
<1> QED
  BY <1>2, <1>4, <1>5, LinkClient

LEMMA LinkDeregister ==
  ASSUME ProbingTakesTime, LinkInv, NEW r \in Records, mDNS_Deregister(r)
  PROVE  LinkNext
<1>1. RegistrationTypeOK /\ \A q \in Records : Proper(rr[q]) /\ ContentOf(q, rr[q])
  BY LinkFacts
<1>2. net' = net /\ rr[r].list # "none" /\ rr[r].RecordType # "Deregistering"
  BY <1>1, DeregisterStep
<1>3. Goodbyes \in 0 .. Announcements + Goodbyes
  BY RegistrationAssumption
<1>4. CASE /\ \A q \in Records \ {r} : rr'[q] = rr[q]
           /\ rr'[r] = Unregistered \/ rr'[r] = Departed(rr[r], Goodbyes)
  <2>1. ContentOf(r, rr'[r]) /\ Stays(r)
    BY <1>1, <1>2, <1>3, <1>4, GoneStays, DepartedStays
  <2>2. \A q \in Records \ {r} : ContentOf(q, rr'[q]) /\ Stays(q)
    BY <1>1, <1>4, SameStays
  <2> QED
    BY <1>2, <2>1, <2>2, LinkClient
<1>5. ASSUME NEW d \in Records \ {r}, TakenOver(r, d) PROVE LinkNext
  <2>1. /\ HostOf[d] = HostOf[r] /\ rr[d].list = "duplicate" /\ RecordIsLocalDuplicate(rr[d], rr[r])
        /\ rr'[r] = Unregistered /\ rr'[d] = Successor(rr[r], rr[d])
        /\ \A q \in Records \ {r, d} : rr'[q] = rr[q]
    BY <1>5 DEF TakenOver, DuplicateRecords
  <2>2. /\ rr'[d].list = rr[r].list /\ rr'[d].RecordType = rr[r].RecordType
        /\ rr'[d].rdata = rr[r].rdata /\ rr'[d].NewRData = rr[d].NewRData
        /\ rr'[d].ProbeCount = rr[r].ProbeCount /\ rr'[d].wait = rr[r].wait
        /\ rr'[d].recent = rr[r].recent /\ rr'[d].AnnounceCount = rr[r].AnnounceCount
        /\ rr'[d].ImmedAnswer = rr[r].ImmedAnswer
    BY <1>1, <2>1, SuccessorFields
  <2>4. Stays(d)
    BY <2>1, <2>2 DEF Stays, Like
  <2>5. ContentOf(d, rr'[d])
    <3>1. rr[d].RecordType # "Deregistering" /\ rr[d].list # "none"
      BY <1>1, <2>1 DEF RegistrationTypeOK
    <3> QED
      BY <1>1, <1>2, <2>1, <2>2, <3>1 DEF ContentOf, RecordIsLocalDuplicate
  <2>6. ContentOf(r, rr'[r]) /\ Stays(r)
    BY <2>1, GoneStays
  <2>7. \A q \in Records \ {r, d} : ContentOf(q, rr'[q]) /\ Stays(q)
    BY <1>1, <2>1, SameStays
  <2> QED
    BY <1>2, <2>4, <2>5, <2>6, <2>7, LinkClient
<1> QED
  BY <1>1, <1>4, <1>5, DeregisterStep

LEMMA LinkExit ==
  ASSUME ProbingTakesTime, LinkInv, NEW h \in Hosts, mDNS_StartExit(h)
  PROVE  LinkNext
<1>1. RegistrationTypeOK /\ \A q \in Records : Proper(rr[q]) /\ ContentOf(q, rr[q])
  BY LinkFacts
<1>2. 1 \in 0 .. Announcements + Goodbyes
      /\ \A q \in Records : rr[q].AnnounceCount \in 0 .. Announcements + Goodbyes
  BY <1>1, RegistrationAssumption DEF Proper, AuthRecord
<1>3. ASSUME NEW q \in Records PROVE ContentOf(q, rr'[q]) /\ Stays(q)
  <2>1. \/ rr'[q] = rr[q] \/ rr'[q] = Unregistered
        \/ rr[q].list = "main" /\ rr'[q] = Departed(rr[q], 1)
        \/ /\ rr[q].RecordType = "Deregistering"
           /\ \E n \in {rr[q].AnnounceCount, 1} : rr'[q] = Announcing(rr[q], n)
    BY <1>1, ExitStep
  <2> QED
    BY <1>1, <1>2, <2>1, SameStays, GoneStays, DepartedStays, SilencedStays
<1> QED
  BY <1>1, <1>3, ExitStep, LinkClient

LEMMA LinkUpdate ==
  ASSUME ProbingTakesTime, LinkInv, NEW r \in Records, NEW data \in DataOf[r],
         mDNS_Update(r, data)
  PROVE  LinkNext
<1>1. RegistrationTypeOK /\ \A q \in Records : Proper(rr[q]) /\ ContentOf(q, rr[q])
  BY LinkFacts
<1>2. net' = net /\ rr[r].list # "none" /\ \A q \in Records \ {r} : rr'[q] = rr[q]
  BY <1>1, UpdateStep
<1>3. data \in RData
  BY RegistrationAssumption
<1>4. ContentOf(r, rr'[r]) /\ Stays(r)
  <2>1. CASE rr'[r] = NotUpdated(rr[r])
    <3>1. Like(rr'[r], rr[r]) /\ rr'[r].NewRData = NoRData
      BY <1>1, <1>3, <2>1, UpdatedFields DEF Like
    <3> QED
      BY <1>1, <3>1 DEF Like, Stays, ContentOf
  <2>2. CASE rr'[r] = Updated(rr[r], data)
    <3>1. rr[r].ProbeCount \in Nat
      BY <1>1, RegistrationAssumption DEF Proper, AuthRecord
    <3>2. Renewed(rr'[r], rr[r]) /\ rr'[r].NewRData = data
      BY <1>1, <1>3, <2>2, <3>1, UpdatedFields DEF Renewed
    <3> QED
      BY <1>1, <3>2 DEF Renewed, Stays, ContentOf
  <2> QED
    BY <1>1, <2>1, <2>2, UpdateStep
<1>5. \A q \in Records \ {r} : ContentOf(q, rr'[q]) /\ Stays(q)
  BY <1>1, <1>2, SameStays
<1> QED
  BY <1>2, <1>4, <1>5, LinkClient

(* The invariant is there from the start, and every step keeps it.          *)
LEMMA LinkInit == RegistrationInit => LinkInv
<1> SUFFICES ASSUME RegistrationInit PROVE LinkInv
  OBVIOUS
<1>1. net = {} /\ \A r \in Records : rr[r] = Unregistered
  BY DEF RegistrationInit
<1>2. ~IsUnique(Unregistered)
  BY DEF IsUnique, Unregistered
<1>3. ASSUME NEW r \in Records PROVE ContentOf(r, rr[r]) /\ Out(rr[r]) /\ ~IsUnique(rr[r])
  BY <1>1, <1>2, GoneContent
<1>4. Contents
  BY <1>1, <1>3 DEF Contents
<1>5. Timing
  BY <1>1, <1>3 DEF Timing, TimingOf
<1>6. Race
  BY <1>1, <1>3, OutRace DEF Race
<1> QED
  BY <1>4, <1>5, <1>6, CoverInit DEF LinkInv

LEMMA LinkStutter == ASSUME ProbingTakesTime, LinkInv, UNCHANGED registrationVars PROVE LinkNext
<1>1. \A r \in Records : ContentOf(r, rr[r])
  BY LinkFacts
<1>2. net' = net /\ \A r \in Records : rr'[r] = rr[r]
  BY DEF registrationVars
<1> QED
  BY <1>1, <1>2, SameStays, LinkClient

LEMMA LinkMoves == ASSUME LinkAssumption, LinkInv, [RegistrationNext]_registrationVars PROVE LinkNext
<1>1. ProbingTakesTime
  BY DEF LinkAssumption
<1>2. ASSUME NEW r \in Records, Client(r) PROVE LinkNext
  BY <1>1, <1>2, LinkRegister, LinkDeregister, LinkUpdate DEF Client
<1>3. ASSUME NEW h \in Hosts, mDNS_StartExit(h) PROVE LinkNext
  BY <1>1, <1>3, LinkExit
<1>4. ASSUME NEW h \in Hosts, Probe(h) PROVE LinkNext
  BY <1>4, LinkProbe DEF Probe
<1>5. ASSUME NEW h \in Hosts, Respond(h) PROVE LinkNext
  BY <1>5, LinkResponse DEF Respond
<1>6. ASSUME NEW p \in net, Receive(p) PROVE LinkNext
  BY <1>6, LinkReceiveProbe, LinkReceiveAnswer DEF Receive
<1>7. ASSUME Tick PROVE LinkNext
  BY <1>7, LinkTick
<1>8. ASSUME UNCHANGED registrationVars PROVE LinkNext
  BY <1>1, <1>8, LinkStutter
<1> QED
  BY <1>2, <1>3, <1>4, <1>5, <1>6, <1>7, <1>8 DEF RegistrationNext

LEMMA LinkKept == ASSUME LinkAssumption, LinkInv, [RegistrationNext]_registrationVars PROVE LinkInv'
  BY LinkMoves, CoverNext DEF LinkInv, LinkNext

LEMMA LinkInvIs == LinkInv => UniqueOnLink
<1> SUFFICES ASSUME LinkInv, NEW q \in Records, NEW r \in Records, HostOf[q] # HostOf[r],
                    rr[q].list = "main", rr[r].list = "main"
             PROVE  ~Rivals(rr[q], rr[r])
  BY DEF UniqueOnLink
<1>1. RaceOf(net, rr[q], HostOf[q], rr[r], HostOf[r])
  BY LinkFacts
<1> QED
  BY <1>1 DEF RaceOf, Owner, Rivals

(* Two hosts never both own the name with different contents, whatever the  *)
(* number of hosts and records, the number of probes and announcements and  *)
(* the order in which packets are delivered and answered, when each host    *)
(* registers contents of its own.                                           *)
THEOREM UniqueNames == ASSUME LinkAssumption PROVE RegistrationSpec => []UniqueOnLink
<1>1. LinkInv /\ [RegistrationNext]_registrationVars => LinkInv'
  BY LinkKept
<1> QED
  BY <1>1, LinkInit, LinkInvIs, PTL DEF RegistrationSpec

-----------------------------------------------------------------------------
(* Conflicts are real.                                                      *)

(* What several records of a host register is the same, and none of them is *)
(* known to be unique without being probed.                                 *)
OneContent ==
  \A q, r \in Records : q # r /\ HostOf[q] = HostOf[r] =>
    \A x \in DataOf[q], y \in DataOf[r] : x = y
AllProbed == \A r \in Records : "KnownUnique" \notin TypesOf[r]

ConflictAssumption == LinkAssumption /\ OneContent /\ AllProbed

(* What a host hears of itself while its record contends says what the      *)
(* record says.                                                             *)
ClaimOf(n, a, h) ==
  Contender(a) => \A p \in n : Own(p, h) => ~Goodbye(p) /\ p.rdata = a.rdata

ClaimInv == LinkInv /\ \A r \in Records : ClaimOf(net, rr[r], HostOf[r])

LEMMA ClaimInit == RegistrationInit => ClaimInv
<1> SUFFICES ASSUME RegistrationInit PROVE ClaimInv
  OBVIOUS
<1>1. net = {}
  BY DEF RegistrationInit
<1> QED
  BY <1>1, LinkInit DEF ClaimInv, ClaimOf

LEMMA ClaimKept == ASSUME ConflictAssumption, ClaimInv, [RegistrationNext]_registrationVars PROVE ClaimInv'
<1>1. LinkInv /\ LinkAssumption /\ LinkNext /\ LinkInv'
  BY LinkKept, LinkMoves DEF ClaimInv, ConflictAssumption
<1>2. ASSUME NEW r \in Records, Contender(rr'[r]), NEW p \in net', Own(p, HostOf[r])
      PROVE  ~Goodbye(p) /\ p.rdata = rr'[r].rdata
  <2>1. PICK s \in Records :
          HostOf[s] = HostOf[r] /\ Contender(rr[s]) /\ rr'[r].rdata = rr[s].rdata
    BY <1>1, <1>2 DEF LinkNext, Contended
  <2>2. CASE p \in net
    BY <1>2, <2>1, <2>2 DEF ClaimInv, ClaimOf
  <2>3. CASE p \notin net
    <3>1. PICK q \in Records :
            /\ HostOf[q] = p.from /\ ~Contender(rr[q]) /\ p.rdata \in DataOf[q]
            /\ Goodbye(p) => "Shared" \in TypesOf[q]
      BY <1>1, <1>2, <2>3 DEF LinkNext, Answered, Own
    <3>2. q # s /\ HostOf[q] = HostOf[s]
      BY <1>2, <2>1, <3>1 DEF Own
    <3>3. ContentOf(s, rr[s])
      BY <1>1, LinkFacts
    <3>4. rr[s].rdata \in DataOf[s] /\ "Unique" \in TypesOf[s]
      BY <2>1, <3>3 DEF ContentOf, Contender, IsUnique
    <3>5. p.rdata = rr[s].rdata
      BY <3>1, <3>2, <3>4 DEF ConflictAssumption, OneContent
    <3>6. ~Goodbye(p)
      BY <1>1, <3>1, <3>2, <3>4, <3>5 DEF LinkAssumption, NotSharedAndUnique
    <3> QED
      BY <2>1, <3>5, <3>6
  <2> QED
    BY <2>2, <2>3
<1> QED
  BY <1>1, <1>2 DEF ClaimInv, ClaimOf

(* A record that loses its name to a packet contends for it.                *)
LEMMA LoserContends ==
  ASSUME AllProbed, NEW r \in Records, ContentOf(r, rr[r]), rr[r].list = "main",
         NEW p, LosesName(rr[r], p)
  PROVE  Contender(rr[r]) /\ p.rdata # rr[r].rdata /\ ~p.goodbye
<1>1. rr[r].RecordType # "KnownUnique"
  BY DEF ContentOf, AllProbed
<1> QED
  BY <1>1 DEF LosesName, Conflict, Contender, IsUnique

LEMMA AnsweredStays ==
  ASSUME RegistrationTypeOK, NEW p \in net, ReceiveAnswer(p), NEW r \in Records, HostOf[r] = p.to,
         rr[r].list = "main", ~LosesName(rr[r], p)
  PROVE  rr'[r].list = "main"
<1>1. Proper(rr[r])
  BY TypeIs DEF AllProper
<1>2. "mark" \in ImmedAnswers /\ Probes + 1 \in 0 .. Probes + 1 /\ 1 \in 0 .. Deferral
  BY RegistrationAssumption DEF ImmedAnswers
<1>3. \/ rr'[r] = SeenIdentical(rr[r], p) \/ rr'[r] = ProbeAgain(rr[r], Probes + 1, 1)
      \/ rr'[r] = rr[r] \/ rr'[r] = Answering(rr[r], "mark")
  BY ReceiveAnswerStep
<1>4. \A x \in ImmedAnswers : Answering(rr[r], x).list = rr[r].list
  BY <1>1, AnsweringFields DEF Alike
<1>5. \E x \in ImmedAnswers : SeenIdentical(rr[r], p) = Answering(rr[r], x)
  BY <1>1, SeenIdenticalIs
<1>6. ProbeAgain(rr[r], Probes + 1, 1).list = rr[r].list
  BY <1>1, <1>2, ProbeAgainFields
<1> QED
  BY <1>2, <1>3, <1>4, <1>5, <1>6

LEMMA ConflictReal ==
  ASSUME ConflictAssumption, ClaimInv, NEW p \in net, ReceiveAnswer(p), NEW r \in Records,
         rr[r].list # "none", rr'[r].list = "none"
  PROVE  p.from # HostOf[r] /\ p.rdata # rr[r].rdata
<1>1. /\ RegistrationTypeOK /\ \A q \in Records : Proper(rr[q]) /\ ContentOf(q, rr[q])
      /\ p.kind = "answer"
  BY LinkFacts, ReceiveAnswerStep DEF ClaimInv
<1>2. HostOf[r] = p.to
  BY <1>1, ReceiveAnswerStep
<1>3. ASSUME NEW s \in Records, HostOf[s] = p.to, rr[s].list = "main", LosesName(rr[s], p)
      PROVE  p.from # p.to /\ p.rdata # rr[s].rdata
  <2>1. Contender(rr[s]) /\ p.rdata # rr[s].rdata
    BY <1>1, <1>3, LoserContends DEF ConflictAssumption
  <2>2. ~Own(p, p.to)
    BY <1>3, <2>1 DEF ClaimInv, ClaimOf
  <2> QED
    BY <1>1, <2>1, <2>2 DEF Own
<1>4. CASE rr[r].list = "main"
  <2>1. LosesName(rr[r], p)
    <3>1. SUFFICES ASSUME ~LosesName(rr[r], p) PROVE rr'[r].list = "main"
      OBVIOUS
    <3> QED
      BY <1>1, <1>2, <1>4, <3>1, AnsweredStays
  <2> QED
    BY <1>2, <1>3, <1>4, <2>1
<1>5. CASE rr[r].list = "duplicate"
  <2>1. PICK s \in Records : Loser(s, p) /\ RecordIsLocalDuplicate(rr[r], rr[s])
    BY <1>1, <1>2, <1>5, ReceiveAnswerStep
  <2>2. HostOf[s] = p.to /\ rr[s].list = "main" /\ LosesName(rr[s], p)
    BY <2>1 DEF Loser, ResourceRecords
  <2> QED
    BY <1>2, <1>3, <2>1, <2>2 DEF RecordIsLocalDuplicate
<1> QED
  BY <1>1, <1>4, <1>5 DEF Proper, AuthRecord

LEMMA ProbeKeepsAll ==
  ASSUME RegistrationTypeOK, NEW p \in net, ReceiveProbe(p), NEW r \in Records
  PROVE  rr'[r].list = rr[r].list
<1>1. Proper(rr[r])
  BY TypeIs DEF AllProper
<1>2. /\ Probes \in 0 .. Probes + 1 /\ Deferral \in 0 .. Deferral
      /\ \A x \in {"all", "mark", p.from} : x \in ImmedAnswers
  BY RegistrationAssumption DEF ImmedAnswers, RegistrationTypeOK, Packet
<1>3. \/ rr'[r] = rr[r]
      \/ \E x \in {"all", "mark", p.from} : rr'[r] = Answering(rr[r], x)
      \/ rr[r].list = "main" /\ rr'[r] = ProbeAgain(rr[r], Probes, Deferral)
  BY ReceiveProbeStep
<1> QED
  BY <1>1, <1>2, <1>3, AnsweringFields, ProbeAgainFields DEF Alike

LEMMA ConflictStep ==
  ASSUME ConflictAssumption, ClaimInv, [RegistrationNext]_registrationVars, NEW r \in Records, NEW p \in net \ net',
         rr[r].list # "none", rr'[r].list = "none"
  PROVE  p.from # HostOf[r] /\ p.rdata # rr[r].rdata
<1>1. RegistrationTypeOK
  BY LinkFacts DEF ClaimInv
<1>2. ASSUME net \subseteq net' PROVE FALSE
  BY <1>2
<1>3. ASSUME NEW q \in Records, Client(q) PROVE FALSE
  BY <1>2, <1>3 DEF Client, mDNS_Register, mDNS_Deregister, mDNS_Update
<1>4. ASSUME NEW h \in Hosts, mDNS_StartExit(h) \/ Probe(h) \/ Respond(h) PROVE FALSE
  BY <1>1, <1>2, <1>4, ExitStep, ProbeStep, ResponsePackets DEF Probe, Respond
<1>5. ASSUME Tick \/ UNCHANGED registrationVars PROVE FALSE
  BY <1>2, <1>5 DEF Tick, registrationVars
<1>6. ASSUME NEW q \in net, Receive(q) PROVE p.from # HostOf[r] /\ p.rdata # rr[r].rdata
  <2>1. CASE ReceiveProbe(q)
    BY <1>1, <2>1, ProbeKeepsAll
  <2>2. CASE ReceiveAnswer(q)
    <3>1. p = q
      BY <1>1, <2>2, ReceiveAnswerStep
    <3> QED
      BY <2>2, <3>1, ConflictReal
  <2> QED
    BY <1>6, <2>1, <2>2 DEF Receive
<1> QED
  BY <1>3, <1>4, <1>5, <1>6 DEF RegistrationNext

(* A client is told of a conflict only when another host has claimed the    *)
(* name with other contents: no step of a host that hears only itself takes *)
(* a name from it, whatever the number of hosts and records, when what a    *)
(* host's records register is the same and they are probed.                 *)
THEOREM RealConflicts == ASSUME ConflictAssumption PROVE RegistrationSpec => ConflictsAreReal
<1>1. ClaimInv /\ [RegistrationNext]_registrationVars => ClaimInv'
  BY ClaimKept
<1>2. ASSUME ClaimInv, [RegistrationNext]_registrationVars
      PROVE  [\A r \in Records : \A p \in net \ net' :
                rr[r].list # "none" /\ rr'[r].list = "none"
                  => p.from # HostOf[r] /\ p.rdata # rr[r].rdata]_registrationVars
  BY <1>2, ConflictStep
<1> QED
  BY <1>1, <1>2, ClaimInit, PTL DEF RegistrationSpec, ConflictsAreReal

=============================================================================

------------------------------ MODULE LongLived ------------------------------
(* The client of long-lived queries, mDNSCore/uDNS.c: one question that a name
   server answers as long as its lease is renewed, and that is polled where that
   cannot be.  The zone's server is looked for first (GetZoneData); the server is
   asked by UDP, or over TLS where the zone is private.

   Time passes as it likes: what a question waits for is due, or not yet.  A
   connection is never there at once (uDNS.c:1270).  The port that events come to,
   and the way of the answers into the cache, are left out: the question has seen a
   version of them. *)
EXTENDS Naturals, FiniteSets

CONSTANTS
  Zones,       \* what the zone may be: "public", "private"
  Labels,      \* of the name, down to the zone's own: SOA queries
  kLLQ_MAX_TRIES,
  Versions,    \* of the answers: 0 .. Versions
  Entries,     \* bound: long-lived queries the server has had
  MaxEvents, MaxLosses, MaxUnderway  \* bounds: events, messages lost, on their way

LongLivedAssumption ==
  /\ Zones \subseteq {"public", "private"}
  /\ {Labels, kLLQ_MAX_TRIES, Versions, Entries, MaxEvents, MaxLosses, MaxUnderway} \subseteq Nat

VARIABLES
  q,           \* the question
  LLQNAT,      \* whether events get in: "asking", "none", "mapped"; "off" when none is wanted
  net,         \* messages
  server,      \* its queries, and the version of the answers
  calls, losses
queryVars == <<q, LLQNAT, net, server, calls, losses>>

Ids == 1 .. Entries

DNSQuestion ==
  [on : BOOLEAN, state : {"InitialRequest", "SecondaryRequest", "Established", "Poll"},
   timer : BOOLEAN,                      \* ThisQInterval is not 0
   private : BOOLEAN,                    \* AuthInfo
   nta : {"none", "SOA", "SRV", "A", "known"}, label : 0 .. Labels,
   asks : {"LLQ", "query"},              \* ZoneDataCallback
   servPort : BOOLEAN, unusable : BOOLEAN,  \* the server is known; servAddr is all ones
   tcp : {"none", "connecting", "open", "answered"}, request : {"none", "refresh"},
   ntries : 0 .. kLLQ_MAX_TRIES + 1, id : {0} \union Ids,
   ReqLease : BOOLEAN, expired : BOOLEAN, seen : 0 .. Versions,
   latest : 0 .. Versions,               \* history: of the versions it has seen
   misled : BOOLEAN]                     \* history: a repeated challenge was taken for the
                                         \* acknowledgment, and neither that nor an event has come
NewQuestion ==
  [on |-> FALSE, state |-> "InitialRequest", timer |-> FALSE, private |-> FALSE, nta |-> "none",
   label |-> 0, asks |-> "LLQ", servPort |-> FALSE, unusable |-> FALSE, tcp |-> "none",
   request |-> "none", ntries |-> 0, id |-> 0, ReqLease |-> FALSE, expired |-> FALSE, seen |-> 0,
   latest |-> 0, misled |-> FALSE]

LongLivedTypeOK ==
  /\ q \in DNSQuestion
  /\ LLQNAT \in {"off", "asking", "none", "mapped"}
  /\ \A m \in net : m.to \in {"server", "client"} /\ m.id \in {0} \union Ids
  /\ server.version \in 0 .. Versions
  /\ \A i \in Ids : server.entry[i] \in {"none", "requested", "established"}
                    /\ server.told[i] \in 0 .. Versions
  /\ q.on <=> LLQNAT # "off"
  /\ calls \in 0 .. MaxEvents /\ losses \in 0 .. MaxLosses

LongLivedInit ==
  /\ q = NewQuestion /\ LLQNAT = "off" /\ net = {}
  /\ server = [version |-> 0, entry |-> [i \in Ids |-> "none"], told |-> [i \in Ids |-> 0],
               used |-> 0]
  /\ calls = 0 /\ losses = 0

Call == calls < MaxEvents /\ calls' = calls + 1

-----------------------------------------------------------------------------
\* What a handler leaves: the question, and what it sends.

Result(p, sent) == [q |-> p, sent |-> sent]
Quiet(p) == Result(p, {})
Message(kind, p, lease) ==
  [to |-> "server", kind |-> kind, via |-> IF p.tcp = "none" THEN "udp" ELSE "tcp",
   id |-> p.id, lease |-> lease, version |-> 0, err |-> FALSE,
   now |-> TRUE]

\* Sends, where the bound allows.  What was on its way by a connection goes with it.
Do(result) ==
  /\ q' = result.q
  /\ LET kept == {m \in net : m.via = "udp" \/ result.q.tcp \in {"open", "answered"}}
     IN /\ net' = kept \union result.sent
        /\ result.sent # {} => Cardinality(kept) < MaxUnderway

Timer(p) == [p EXCEPT !.timer = TRUE]
StartLLQPolling(p) == Timer([p EXCEPT !.state = "Poll", !.misled = FALSE])

StartGetZoneData(p, asks) == [p EXCEPT !.nta = "SOA", !.label = 0, !.asks = asks]
CancelGetZoneData(p) == [p EXCEPT !.nta = "none"]

\* The request is kept until the connection is there.
MakeTCPConn(p, request) == [p EXCEPT !.tcp = "connecting", !.request = request]
DisposeTCPConn(p) == [p EXCEPT !.tcp = "none", !.request = "none"]

sendChallengeResponse(p) ==
  IF p.private \/ p.tcp # "none" THEN Quiet(p)
  ELSE LET more == [p EXCEPT !.ntries = @ + 1] IN
       IF p.ntries = kLLQ_MAX_TRIES THEN Quiet(StartLLQPolling(more))
       ELSE Result(Timer(more), {Message("challenge", p, TRUE)})

\* Where the zone is private the server is asked when the connection is there.
startLLQHandshake(p, nat) ==
  IF nat = "asking" THEN Quiet(Timer(p))
  ELSE IF nat # "mapped" THEN Quiet(StartLLQPolling(p))
  ELSE IF ~p.servPort THEN Quiet(StartGetZoneData([Timer(p) EXCEPT !.unusable = FALSE], "LLQ"))
  ELSE IF p.private
  THEN LET closed == DisposeTCPConn(p) IN
       Quiet(CASE p.nta = "none" -> StartGetZoneData(closed, "LLQ")
               [] p.nta \in {"SOA", "SRV"} -> Timer(closed)   \* the host is not known
               [] OTHER -> [MakeTCPConn(closed, "none") EXCEPT
                              !.state = "SecondaryRequest", !.ReqLease = TRUE, !.timer = FALSE])
  ELSE IF p.ntries >= kLLQ_MAX_TRIES THEN Quiet(StartLLQPolling([p EXCEPT !.ntries = kLLQ_MAX_TRIES + 1]))
  ELSE LET more == Timer([p EXCEPT !.ntries = @ + 1, !.state = "InitialRequest", !.ReqLease = TRUE,
                                       !.misled = FALSE])
       IN Result(more, {[Message("setup", p, TRUE) EXCEPT !.id = 0, !.via = "udp"]})

\* After so many tries, or with its lease, a query is given up.
sendLLQRefresh(p) ==
  LET more == [p EXCEPT !.ntries = IF @ > kLLQ_MAX_TRIES THEN @ ELSE @ + 1] IN
  IF p.ReqLease /\ ((p.state = "Established" /\ p.ntries >= kLLQ_MAX_TRIES) \/ p.expired)
  THEN Quiet(StartLLQPolling(p))
  ELSE IF p.private /\ p.tcp = "none"
  THEN IF p.nta = "none" THEN Quiet(p) ELSE Quiet(MakeTCPConn(more, "refresh"))
  ELSE IF p.tcp = "connecting" THEN Quiet(DisposeTCPConn(more))     \* nothing to write to yet
  ELSE Result(more, {Message("refresh", p, p.ReqLease)})

SetLLQTimer(p) == Timer([p EXCEPT !.ReqLease = TRUE, !.expired = FALSE])

ActivateUnicastQuery(p) ==
  DisposeTCPConn(CancelGetZoneData([p EXCEPT !.state = "InitialRequest", !.id = 0, !.servPort = FALSE,
                                             !.misled = FALSE]))

-----------------------------------------------------------------------------
\* Clients, and the platform.

mDNS_StartQuery ==
  /\ ~q.on /\ Call /\ LLQNAT' = "asking"
  /\ \E zone \in Zones :
     q' = Timer([NewQuestion EXCEPT !.on = TRUE, !.private = (zone = "private")])
  /\ UNCHANGED <<net, server, losses>>

\* Answers to what was sent before have another TargetQID.
Old(messages) == {[m EXCEPT !.now = FALSE] : m \in messages}

\* A query that the server has is given back; by the connection, if there is one.
mDNS_StopQuery ==
  /\ q.on /\ LLQNAT' = "off" /\ UNCHANGED <<server, calls, losses>>
  /\ LET closed == DisposeTCPConn(q)
         bye == IF q.state # "Established" \/ (q.private /\ q.nta = "none") THEN {}
                ELSE {Message("refresh", closed, FALSE)}
     IN /\ q' = NewQuestion
        /\ net' = Old({m \in net : m.via = "udp"}) \union Old(bye)
        /\ bye # {} => Cardinality(net) < MaxUnderway

\* uDNS_SetupDNSConfig and the like: from the beginning.
Restart ==
  /\ q.on /\ Call
  /\ q' = Timer(ActivateUnicastQuery(q)) /\ net' = Old({m \in net : m.via = "udp"})
  /\ UNCHANGED <<LLQNAT, server, losses>>

LLQNATCallback ==
  /\ q.on /\ \E n \in {"none", "mapped"} : n # LLQNAT /\ LLQNAT' = n
  /\ IF LLQNAT = "asking" THEN UNCHANGED calls ELSE Call
  /\ UNCHANGED <<server, losses>>
  /\ Do(startLLQHandshake(q, LLQNAT'))

\* SuspendLLQs, before the machine sleeps.
SuspendLLQs ==
  /\ q.on /\ q.state = "Established" /\ q.ReqLease /\ Call
  /\ Do(sendLLQRefresh([q EXCEPT !.ReqLease = FALSE])) /\ UNCHANGED <<LLQNAT, server, losses>>

LeaseEnds ==
  /\ q.state \in {"SecondaryRequest", "Established"} /\ ~q.expired /\ Call
  /\ q' = [q EXCEPT !.expired = TRUE] /\ UNCHANGED <<LLQNAT, net, server, losses>>

\* What the question waits for is due.  A poll of a private zone looks for its
\* server each time.
uDNS_CheckCurrentQuestion ==
  /\ q.on /\ q.timer /\ UNCHANGED <<LLQNAT, server, calls, losses>>
  /\ Do(CASE q.state = "InitialRequest" -> startLLQHandshake(q, LLQNAT)
          [] q.state = "SecondaryRequest" ->
               IF q.private THEN startLLQHandshake(q, LLQNAT) ELSE sendChallengeResponse(q)
          [] q.state = "Established" -> sendLLQRefresh(q)
          [] q.state = "Poll" ->
               IF q.private THEN Quiet(StartGetZoneData(q, "query"))
               ELSE Result(q, {[Message("poll", q, FALSE) EXCEPT !.id = 0, !.via = "udp"]}))

-----------------------------------------------------------------------------
\* The zone's data.

LLQGotZoneData(p, found) ==
  IF found
  THEN startLLQHandshake([p EXCEPT !.servPort = TRUE, !.unusable = FALSE, !.ntries = 0,
                                   !.nta = IF p.private THEN "known" ELSE "none"], LLQNAT)
  ELSE Quiet(StartLLQPolling([CancelGetZoneData(p) EXCEPT !.servPort = FALSE, !.unusable = FALSE]))

PrivateQueryGotZoneData(p, found, private) ==
  Quiet(IF ~found \/ ~p.private THEN CancelGetZoneData(p)
        ELSE IF ~private THEN Timer([CancelGetZoneData(p) EXCEPT !.private = FALSE])
        ELSE CancelGetZoneData(MakeTCPConn(DisposeTCPConn(p), "none")))

ZoneDataCallback(p, found, private) ==
  IF p.asks = "LLQ" THEN LLQGotZoneData(p, found) ELSE PrivateQueryGotZoneData(p, found, private)

\* The zone's own SOA is that of the name or of a domain above it; its server has a
\* name and then an address.
GetZoneData_QuestionCallback ==
  /\ q.on /\ q.nta \in {"SOA", "SRV", "A"} /\ UNCHANGED <<LLQNAT, server, calls, losses>>
  /\ \E found, private \in BOOLEAN :
     Do(CASE q.nta = "SOA" /\ found -> Quiet([q EXCEPT !.nta = "SRV"])
          [] q.nta = "SOA" /\ ~found ->
               IF q.label < Labels THEN Quiet([q EXCEPT !.label = @ + 1])
               ELSE LET r == ZoneDataCallback(q, FALSE, private) IN
                    [r EXCEPT !.q.unusable = (q.asks = "LLQ")]   \* NoSuchNameErr
          [] q.nta = "SRV" /\ found -> Quiet([q EXCEPT !.nta = "A"])
          [] OTHER -> ZoneDataCallback(q, found /\ q.nta = "A", private))

-----------------------------------------------------------------------------
\* Connections.

\* What is sent is what the state asks for now.
Connected ==
  /\ q.tcp = "connecting" /\ UNCHANGED <<LLQNAT, server, calls, losses>>
  /\ LET p == Timer([q EXCEPT !.tcp = "open", !.request = "none"]) IN
     Do(IF q.state = "Established" THEN
          Result(p, {Message(IF q.request = "refresh" THEN "refresh" ELSE "nothing", p, q.ReqLease)})
        ELSE IF q.state # "Poll" /\ LLQNAT = "mapped" /\ q.servPort
        THEN Result([p EXCEPT !.ntries = 0], {[Message("setup", p, TRUE) EXCEPT !.id = 0]})
        ELSE Result(p, {[Message("poll", p, FALSE) EXCEPT !.id = 0]}))

\* A connection that has brought an answer may be closed; another has failed, and
\* what cannot be read is not tried again.
Disconnected ==
  /\ q.tcp # "none" /\ losses < MaxLosses /\ losses' = losses + 1
  /\ UNCHANGED <<LLQNAT, server, calls>>
  /\ \E err \in {"ConnFailed", "other"} :
     LET retry == Timer([q EXCEPT !.ntries = IF q.timer \/ @ > kLLQ_MAX_TRIES THEN @ ELSE @ + 1])
         back == [retry EXCEPT !.state = IF @ = "SecondaryRequest" THEN "InitialRequest" ELSE @]
     IN Do(Quiet(DisposeTCPConn(
             IF q.tcp = "answered" /\ err = "ConnFailed" THEN q
             ELSE IF err = "other" THEN StartLLQPolling(back) ELSE back)))

-----------------------------------------------------------------------------
\* Answers.

\* What is not called an error of the query may be one of the message.  A challenge that
\* comes again looks like the acknowledgment.
recvSetupResponse(p, m) ==
  IF m.kind = "refused" THEN Quiet(p)
  ELSE IF m.err /\ p.state = "InitialRequest" THEN Quiet(StartLLQPolling(p))
  ELSE IF p.state = "InitialRequest"
  THEN sendChallengeResponse([p EXCEPT !.state = "SecondaryRequest", !.id = m.id, !.ntries = 0,
                                       !.ReqLease = TRUE, !.expired = FALSE])
  ELSE LET known == IF p.private THEN [p EXCEPT !.id = m.id] ELSE p IN
       IF m.err THEN Quiet(StartLLQPolling(known))
       ELSE IF known.id # m.id THEN Quiet(known)
       ELSE Quiet(SetLLQTimer([known EXCEPT !.state = "Established", !.ntries = 0,
                                            !.misled = (m.kind = "setup")]))

Saw(p, version) == [p EXCEPT !.seen = version, !.latest = IF version > @ THEN version ELSE @]

\* What a message says is all there is, and nothing when there are no answers in it.
Shows(p, m) == IF m.kind \in {"ack", "answer", "event"} THEN Saw(p, m.version) ELSE [p EXCEPT !.seen = 0]

\* mutant: the answers that come with an acknowledgment are not looked at
Sees_Later(result, m) == [result EXCEPT !.q = IF m.kind = "ack" THEN @ ELSE Shows(@, m)]

Sees(result, m) == [result EXCEPT !.q = Shows(@, m)]

NotMisled(p, m) == [p EXCEPT !.misled = @ /\ m.id # p.id]

\* An answer to a poll, an event, the answer to a refresh, to a request; or one that
\* is taken for an answer to a plain query.
uDNS_recvLLQResponse(m) ==
  LET p == IF q.tcp = "open" /\ m.via = "tcp" THEN [q EXCEPT !.tcp = "answered"] ELSE q
      setup == {"setup", "ack", "refreshed", "refused"} IN
  IF ~m.now THEN Quiet(p) ELSE
  CASE p.state = "Poll" /\ m.kind \in setup \union {"answer"} ->
         Sees(Quiet(Timer([p EXCEPT !.servPort = FALSE,
                        !.state = IF ~p.unusable /\ LLQNAT = "mapped" THEN "InitialRequest" ELSE @])), m)
    [] p.state = "Established" /\ m.kind = "event" /\ m.id = p.id ->
         Sees(Result(NotMisled(p, m), {[Message("acked", p, TRUE) EXCEPT !.version = m.version, !.via = "udp"]}), m)
    [] p.state = "Established" /\ m.kind = "refreshed" /\ m.id = p.id ->
         Quiet(IF m.err THEN p ELSE SetLLQTimer([p EXCEPT !.ntries = 0, !.ReqLease = m.lease]))
    [] p.state \in {"InitialRequest", "SecondaryRequest"} /\ m.kind \in setup ->
         LET r == IF m.kind = "refreshed" THEN Quiet(p) ELSE recvSetupResponse(p, m)  \* another operation
         IN IF p.state = "SecondaryRequest" THEN Sees(r, m) ELSE r
    [] p.state # "Poll" /\ m.kind = "answer" -> Quiet(Saw(p, m.version))
    [] p.state = "Established" /\ m.kind = "ack" -> Quiet(Saw(NotMisled(p, m), m.version))
    [] OTHER -> Quiet(p)

\* What was cut short is asked for again by a connection.
uDNS_ReceiveMsg(m) ==
  LET r == uDNS_recvLLQResponse(m) IN
  {r} \union IF m.kind = "answer" /\ m.now /\ m.via = "udp"
              THEN {[r EXCEPT !.q = [MakeTCPConn(@, "none") EXCEPT !.seen = q.seen, !.latest = q.latest]]} ELSE {}

Receive(m) ==
  /\ m \in net /\ m.to = "client" /\ q.on
  /\ \E r \in uDNS_ReceiveMsg(m) :
     LET kept == {x \in net \ {m} : x.via = "udp" \/ r.q.tcp \in {"open", "answered"}}
     IN q' = r.q /\ net' = kept \union r.sent
  /\ UNCHANGED <<LLQNAT, server, calls, losses>>

-----------------------------------------------------------------------------
\* The server, and the network, external.  By UDP the server may be dnsextd, whose handlers
\* these are seen from outside, and what others do too: they answer what dnsextd leaves
\* unanswered, and send an event again that was not acknowledged.  By TLS it is another.

Reply(m, kind, id) ==
  [m EXCEPT !.to = "client", !.kind = kind, !.id = id, !.version = server.version]
Refusal(m, kind, id) == [Reply(m, kind, id) EXCEPT !.err = TRUE]

Taken(m, replies) == m \in net /\ m.to = "server" /\ net' = (net \ {m}) \union replies

\* LookupLLQ, LLQSetupChallenge: a request without an id is answered for the query that waits
\* for the answer to its challenge, with the challenge again; or, where it comes from another
\* port, for a new one.
Challenge(m) ==
  /\ m.kind = "setup" /\ m.via = "udp"
  /\ \/ \E i \in Ids : server.entry[i] = "requested" /\ Taken(m, {Reply(m, "setup", i)}) /\ UNCHANGED server
     \/ LET new == server.used + 1 IN
        /\ new \in Ids /\ Taken(m, {Reply(m, "setup", new)})
        /\ server' = [server EXCEPT !.entry[new] = "requested", !.used = new]

\* An acknowledgment that is repeated does not stand for the events in between
\* (dnsextd.c sends those to all queries alike).
Establish(i) ==
  IF server.entry[i] = "established" THEN server
  ELSE [server EXCEPT !.entry[i] = "established", !.told[i] = server.version]

\* LLQCompleteHandshake.
Acknowledge(m) ==
  /\ m.kind = "challenge" /\ m.id # 0 /\ server.entry[m.id] # "none"
  /\ Taken(m, {Reply(m, "ack", m.id)}) /\ server' = Establish(m.id)

\* By TLS a request needs no challenge.
AcknowledgeAtOnce(m) ==
  LET new == server.used + 1 IN
  /\ m.kind = "setup" /\ m.via = "tcp" /\ new \in Ids
  /\ Taken(m, {Reply(m, "ack", new)}) /\ server' = [Establish(new) EXCEPT !.used = new]

\* LLQRefresh: of a query that is established.
Refresh(m) ==
  /\ m.kind = "refresh" /\ m.id # 0 /\ server.entry[m.id] = "established"
  /\ Taken(m, {Reply(m, "refreshed", m.id)})
  /\ server' = IF m.lease THEN server ELSE [server EXCEPT !.entry[m.id] = "none"]

\* What is acknowledged is not sent again; dnsextd sends nothing again.
EventTaken(m) ==
  /\ m.kind = "acked" /\ Taken(m, {})
  /\ server' = IF m.version = server.version /\ m.id # 0
               THEN [server EXCEPT !.told[m.id] = m.version] ELSE server

Answer(m) ==
  /\ m.kind = "poll" /\ Taken(m, {Reply(m, "answer", 0)}) /\ UNCHANGED server

\* dnsextd does not answer about a query that it does not have, or that is not established; other
\* servers do, and have room for so many, which is an error of the query or of the message.
Decline(m) ==
  /\ UNCHANGED server
  /\ CASE m.kind = "setup" ->
            server.used = Entries /\ \E r \in {Refusal(m, "setup", 0), Reply(m, "refused", 0)} : Taken(m, {r})
       [] m.kind = "challenge" /\ (m.id = 0 \/ server.entry[m.id] = "none") ->
            \E r \in {{}, {Refusal(m, "setup", m.id)}} : Taken(m, r)
       [] m.kind = "refresh" /\ (m.id = 0 \/ server.entry[m.id] # "established") ->
            \E r \in {{}, {Refusal(m, "refreshed", m.id)}} : Taken(m, r)
       [] m.kind = "nothing" -> Taken(m, {})
       [] OTHER -> FALSE

Serve(m) ==
  /\ \/ Challenge(m) \/ Acknowledge(m) \/ AcknowledgeAtOnce(m) \/ Refresh(m) \/ EventTaken(m) \/ Answer(m)
     \/ Decline(m)
  /\ UNCHANGED <<q, LLQNAT, calls, losses>>

Change ==
  /\ server.version < Versions /\ server' = [server EXCEPT !.version = @ + 1]
  /\ UNCHANGED <<q, LLQNAT, net, calls, losses>>

Event(i) ==
  /\ server.entry[i] = "established" /\ server.told[i] # server.version
  /\ Cardinality(net) < MaxUnderway
  /\ net' = net \union {[to |-> "client", kind |-> "event", via |-> "udp", id |-> i, lease |-> TRUE,
                         version |-> server.version, err |-> FALSE, now |-> TRUE]}
  /\ UNCHANGED <<q, LLQNAT, server, calls, losses>>

EntryEnds(i) ==
  /\ server.entry[i] # "none" /\ Call
  /\ server' = [server EXCEPT !.entry[i] = "none"]
  /\ UNCHANGED <<q, LLQNAT, net, losses>>

Lose(m) ==
  /\ m \in net
  /\ IF m.to = "client" /\ ~q.on THEN UNCHANGED losses ELSE losses < MaxLosses /\ losses' = losses + 1
  /\ net' = net \ {m} /\ UNCHANGED <<q, LLQNAT, server, calls>>

LongLivedNext ==
  \/ mDNS_StartQuery \/ mDNS_StopQuery \/ Restart \/ LLQNATCallback \/ SuspendLLQs \/ LeaseEnds
  \/ uDNS_CheckCurrentQuestion \/ GetZoneData_QuestionCallback \/ Connected \/ Disconnected
  \/ \E m \in net : Receive(m) \/ Serve(m) \/ Lose(m)
  \/ Change \/ \E i \in Ids : Event(i) \/ EntryEnds(i)

LongLivedSpec == LongLivedInit /\ [][LongLivedNext]_queryVars

-----------------------------------------------------------------------------
\* A question that is asked has its time, or a connection that will tell.
NeverStuck == q.on => q.timer \/ q.tcp # "none"

\* A private query that is to be refreshed knows the host to be connected to
\* (uDNS.c:3612 calls it an error).
HostIsKnown == q.state = "Established" /\ q.private => q.nta # "none"

\* When the server holds the query and has been told that its events came, the
\* question has seen what there is; what it sees may be older where messages have
\* overtaken one another.  Not so one that a repeated challenge has misled, until the
\* acknowledgment or an event comes.
EstablishedIsCurrent ==
  q.on /\ q.state = "Established" /\ ~q.misled /\ q.id # 0 /\ server.entry[q.id] = "established"
    /\ server.told[q.id] = server.version
      => q.latest = server.version

\* The challenge packet has no answers in it, and tells us nothing about whether our cache
\* entries are still valid, so this packet should not cause us to do anything that messes with
\* our cache. (uDNS.c:943-944)  The code looks at its own state and not at the packet: one that
\* is repeated empties the cache, and the query is taken for established.
ChallengeTellsNothing == ~(q.state = "Established" /\ q.misled)
=============================================================================

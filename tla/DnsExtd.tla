------------------------------- MODULE DnsExtd -------------------------------
(* dnsextd, mDNSShared/dnsextd.c: a daemon before a name server that knows no
   update leases and no long-lived queries.  It relays dynamic updates, each in
   a thread of its own, keeps a table of leases and deletes from the zone what
   is not renewed, and tells the clients of long-lived queries of every change.

   A record is a value of one name; a lease and the life of a query run out at
   any moment.  The name server, external, may lose a request or its answer.
   The table of answers is walked by the main thread, which waits for the
   threads that query for it; they are steps of it here. *)
EXTENDS Integers, Sequences, FiniteSets, SequencesExt

CONSTANTS
  Zoned,       \* the records that clients put into the zone
  Updates,     \* requests: what one adds, what it deletes with a set of records and one by
               \* one, whether it asks for a lease, whether a key of the zone signs it
  Questions,   \* of long-lived queries
  AnswersTo,   \* [Questions -> SUBSET Zoned]
  Clients,     \* of long-lived queries
  Threads,     \* of requests, at most so many at once
  Conns,       \* TCP connections
  Keyed,       \* the zone has a key for updates and one for queries
  PrivateLLQ,  \* clients set up long-lived queries over TLS too
  TableSize,   \* LLQ_TABLESIZE
  MaxRequests, MaxIds, MaxCalls,  \* bounds: updates received, ids of long-lived
                                  \* queries, both together
  Nobody

ASSUME DnsExtdAssumption ==
  /\ Updates \subseteq [adds : SUBSET Zoned, dels : SUBSET Zoned, ones : SUBSET Zoned,
                        lease : BOOLEAN, signed : BOOLEAN]
  /\ AnswersTo \in [Questions -> SUBSET Zoned]
  /\ {Keyed, PrivateLLQ} \subseteq BOOLEAN
  /\ {TableSize, MaxRequests, MaxIds, MaxCalls} \subseteq Nat /\ Nobody \notin Conns

VARIABLES
  zone,           \* what the name server holds
  privateZone,    \* the zone is private, as the configuration says
  srvs,           \* the services of dnsextd that the zone announces
  leases,         \* table: "none", "live" or "out" for each record
  lingering,      \* records with a lease that were deleted one by one since they got it
  threads,        \* HandleRequest in each thread
  conns,          \* "closed", "waiting" in the event loop, or "handled"
  LLQTable,       \* long-lived queries, the newest first
  AnswerTable,    \* what the clients of a question know
  lastId,         \* of the long-lived queries
  pinged,         \* threads have told the main thread of updates
  EventsPending,
  main,           \* where the main thread is, and what it has still to do there
  requests,       \* to update and to read the configuration, so far
  astray,         \* records whose lease the daemon may have got wrong
  unseen          \* answers to questions whose changes it could not, or did not, notice
vars == <<zone, privateZone, srvs, leases, lingering, threads, conns, LLQTable, AnswerTable, lastId,
          pinged, EventsPending, main, requests, astray, unseen>>
llqVars == <<LLQTable, AnswerTable, lastId>>
srvVars == <<privateZone, srvs>>
leaseTable == <<leases, lingering>>

TlsNames == {"_dns-update-tls", "_dns-query-tls", "_dns-llq-tls"}
UdpNames == {"_dns-update", "_dns-llq"}
Names(private) == IF private THEN TlsNames ELSE UdpNames

Idle == [pc |-> "idle"]
Thread == {Idle} \union [pc : {"relay", "lease", "ping"}, req : Updates, conn : Conns \union {Nobody}]

NoList == [known |-> {}, adds |-> {}, rmvs |-> {}, refcount |-> 0, there |-> FALSE]
AnswerListElem == [known : SUBSET Zoned, adds : SUBSET Zoned, rmvs : SUBSET Zoned,
                   refcount : Nat, there : BOOLEAN]
LLQEntry == [cli : Clients, q : Questions, id : 0 .. MaxIds, live : BOOLEAN, list : BOOLEAN,
             state : {"RequestReceived", "ChallengeSent", "Established"},
             told : SUBSET Zoned]  \* by what was sent to the client
LLQMessage == [cli : Clients, q : Questions, op : {"setup", "refresh"}, id : 0 .. MaxIds,
               lease : BOOLEAN, tcp : BOOLEAN]

\* Each invariant counts on this for the shapes of what it looks at.
DnsExtdTypeOK ==
  /\ zone \subseteq Zoned /\ privateZone \in BOOLEAN /\ srvs \subseteq TlsNames \union UdpNames
  /\ leases \in [Zoned -> {"none", "live", "out"}] /\ lingering \subseteq Zoned
  /\ \A t \in Threads : threads[t] \in Thread
  /\ conns \in [Conns -> {"closed", "waiting", "handled"}]
  /\ \A i \in DOMAIN LLQTable : LLQTable[i] \in LLQEntry
  /\ \A q \in Questions : AnswerTable[q] \in AnswerListElem
  /\ lastId \in 0 .. MaxIds /\ {pinged, EventsPending} \subseteq BOOLEAN /\ requests \in 0 .. MaxRequests
  /\ main.pc \in {"start", "select", "expire", "query", "stop", "clear", "stopped"}
  /\ main.todo \subseteq Zoned \union Questions
  /\ astray \subseteq Zoned /\ unseen \subseteq Questions \X Zoned
  \* a connection is handled for as long as a thread has its context
  /\ \A c \in Conns : conns[c] = "handled" <=>
       Cardinality({t \in Threads : threads[t] # Idle /\ threads[t].conn = c}) = 1

RoomForRequest == requests < MaxRequests /\ requests + lastId < MaxCalls
RoomForId == lastId < MaxIds /\ requests + lastId < MaxCalls

DnsExtdInit ==
  /\ zone = {} /\ privateZone \in BOOLEAN /\ srvs = {}
  /\ leases = [r \in Zoned |-> "none"] /\ lingering = {}
  /\ threads = [t \in Threads |-> Idle]
  /\ conns = [c \in Conns |-> "closed"]
  /\ LLQTable = <<>> /\ AnswerTable = [q \in Questions |-> NoList] /\ lastId = 0
  /\ pinged = FALSE /\ EventsPending = FALSE /\ main = [pc |-> "start", todo |-> {}]
  /\ requests = 0 /\ astray = {} /\ unseen = {}

-----------------------------------------------------------------------------
\* The name server.  A transaction has been applied or not, and has an answer or not.

UDPServerTransaction == {[applied |-> a, reply |-> r] : a \in BOOLEAN, r \in {"none", "truncated"}}
  \union {[applied |-> TRUE, reply |-> "done"], [applied |-> FALSE, reply |-> "refused"]}

\* Ten attempts to connect.
ConnectToServer == BOOLEAN

SendPacket == BOOLEAN
RecvPacket(applied) == IF applied THEN {"done", "none"} ELSE {"refused", "none"}

TCPTransaction ==
  {[applied |-> FALSE, reply |-> "none"]}
  \union UNION {{[applied |-> a, reply |-> r] : r \in RecvPacket(a)} : a \in SendPacket}

\* What may become of a request: UDP, and TCP when there was no answer to that.
Relayed ==
  {u \in UDPServerTransaction : u.reply \in {"done", "refused"}}
  \union {[applied |-> u.applied \/ t.applied, reply |-> t.reply] :
            u \in {v \in UDPServerTransaction : v.reply \in {"none", "truncated"}}, t \in TCPTransaction}

\* UpdateSRV: registers the services, or deletes them all before exit.  For a zone
\* that is not private the names of the TLS services lack their protocol.
UpdateSRV(registration) ==
  IF registration THEN srvs \union Names(privateZone)
  ELSE srvs \ (UdpNames \union IF privateZone THEN TlsNames ELSE {})

-----------------------------------------------------------------------------
\* Requests.

\* IsAuthorized, SetZone: a public zone takes all; a private one wants a signature
\* with a key it has, and refuses one when it has no keys.
IsAuthorized(req) == ~privateZone \/ (Keyed /\ req.signed)

Touches(req) == req.adds \union req.dels \union req.ones

\* Leases of records that such a request takes out of the zone one by one stay.
Lingers(req) ==
  (lingering \union {r \in req.ones : leases[r] # "none"}) \ (req.adds \union req.dels)

\* A thread that has passed a change on and not recorded it.
Recording(r) == {t \in Threads : threads[t].pc = "lease" /\ r \in Touches(threads[t].req)}

\* What is unseen when these records change and nobody tells of it.
Missed(changed) ==
  unseen \union {a \in Questions \X changed : AnswerTable[a[1]].there /\ a[2] \in AnswersTo[a[1]]}

\* UDPMessageHandler, TCPMessageHandler: a free thread takes the request.
Hand(req, c) ==
  \E t \in Threads :
    /\ threads[t] = Idle
    /\ threads' = [threads EXCEPT ![t] = [pc |-> "relay", req |-> req, conn |-> c]]

RecvUDPMessage(req) ==
  /\ main.pc = "select" /\ RoomForRequest
  /\ requests' = requests + 1
  /\ IF IsAuthorized(req) THEN Hand(req, Nobody) ELSE UNCHANGED threads
  /\ UNCHANGED <<zone, srvVars, leaseTable, conns, llqVars, pinged, EventsPending, main, astray, unseen>>

AcceptTCPConnection(c) ==
  /\ main.pc = "select" /\ conns[c] = "closed" /\ RoomForRequest
  /\ conns' = [conns EXCEPT ![c] = "waiting"]
  /\ UNCHANGED <<zone, srvVars, leaseTable, threads, llqVars, pinged, EventsPending, main, requests, astray, unseen>>

\* The client has closed, or the request is refused, or no thread can be made: the
\* context is freed.  Otherwise it leaves the event loop with the request.
RecvTCPMessage(c) ==
  /\ main.pc = "select" /\ conns[c] = "waiting"
  /\ \/ /\ conns' = [conns EXCEPT ![c] = "closed"]
        /\ UNCHANGED <<threads, requests>>
     \/ \E req \in Updates :
          /\ RoomForRequest /\ requests' = requests + 1
          /\ IF IsAuthorized(req)
               THEN Hand(req, c) /\ conns' = [conns EXCEPT ![c] = "handled"]
               ELSE conns' = [conns EXCEPT ![c] = "closed"] /\ UNCHANGED threads
  /\ UNCHANGED <<zone, srvVars, leaseTable, llqVars, pinged, EventsPending, main, astray, unseen>>

\* The reply is sent, or there is none, and the thread ends.
EndOf(t) ==
  /\ threads' = [threads EXCEPT ![t] = Idle]
  /\ conns' = IF threads[t].conn = Nobody THEN conns
              ELSE [conns EXCEPT ![threads[t].conn] = "closed"]

\* HandleRequest up to the name server's answer: additions without a lease are
\* rejected, everything else goes to the name server.
Relay(t) ==
  /\ threads[t].pc = "relay"
  /\ LET req == threads[t].req IN
     IF req.adds # {} /\ ~req.lease
     THEN EndOf(t) /\ UNCHANGED <<zone, lingering, astray, unseen>>
     ELSE \E x \in Relayed :
          /\ zone' = IF x.applied THEN (zone \ Touches(req)) \union req.adds ELSE zone
          /\ lingering' = IF x.applied THEN Lingers(req) ELSE lingering
          /\ IF x.reply = "done"
               THEN threads' = [threads EXCEPT ![t].pc = "lease"] /\ UNCHANGED conns
               ELSE EndOf(t)
          /\ astray' = IF x.reply # "done" \/ main.pc \in {"stop", "clear"}
                       THEN astray \union IF x.applied THEN Touches(req) ELSE {}
                       ELSE astray \union {r \in Touches(req) : Recording(r) # {}}
          /\ unseen' = IF x.applied /\ x.reply # "done"
                       THEN Missed(Touches(req)) ELSE unseen
  /\ UNCHANGED <<srvVars, leases, llqVars, pinged, EventsPending, main, requests>>

\* Mutant: only additions are recorded.
UpdateLeaseTable_Adds(t) ==
  /\ threads[t].pc = "lease" /\ main.pc \notin {"expire", "stop"}
  /\ leases' = [r \in Zoned |-> IF r \in threads[t].req.adds THEN "live" ELSE leases[r]]
  /\ threads' = [threads EXCEPT ![t].pc = "ping"]
  /\ UNCHANGED <<zone, srvVars, lingering, conns, llqVars, pinged, EventsPending, main, requests, astray, unseen>>

\* What is left unrecorded when the memory for an addition cannot be had.
Unrecorded(req) == {{}} \union {l \in SUBSET Touches(req) : l \intersect req.adds # {}}

\* Under the lock of the table, which DeleteRecords holds until it is through.  The
\* deletion of a single record is of class NONE, which the table's records are not:
\* it finds none of them, and the lease stays.
UpdateLeaseTable(t) ==
  /\ threads[t].pc = "lease" /\ main.pc \notin {"expire", "stop"}
  /\ LET req == threads[t].req IN
     \E lost \in Unrecorded(req) :
       /\ leases' = [r \in Zoned |->
            IF r \in lost THEN leases[r]
            ELSE IF r \in req.adds /\ req.lease THEN "live"
            ELSE IF r \in req.dels THEN "none" ELSE leases[r]]
       /\ astray' = astray \union IF main.pc = "clear" THEN Touches(req) ELSE lost
  /\ threads' = [threads EXCEPT ![t].pc = "ping"]
  /\ UNCHANGED <<zone, srvVars, lingering, conns, llqVars, pinged, EventsPending, main, requests, unseen>>

\* Tells the main thread there was an update, and answers.
Ping(t) ==
  /\ threads[t].pc = "ping"
  /\ pinged' = TRUE
  /\ EndOf(t)
  /\ UNCHANGED <<zone, srvVars, leaseTable, llqVars, EventsPending, main, requests, astray, unseen>>

RecvPing ==
  /\ main.pc = "select" /\ pinged
  /\ pinged' = FALSE /\ EventsPending' = TRUE
  /\ UNCHANGED <<zone, srvVars, leaseTable, threads, conns, llqVars, main, requests, astray, unseen>>

\* Time: a lease that is not renewed runs out.
LeaseRunsOut(r) ==
  /\ leases[r] = "live" /\ main.pc \in {"select", "query"}
  /\ leases' = [leases EXCEPT ![r] = "out"]
  /\ UNCHANGED <<zone, srvVars, lingering, threads, conns, llqVars, pinged, EventsPending, main, requests, astray, unseen>>

-----------------------------------------------------------------------------
\* The lease table.

\* DeleteRecords takes the lock and looks for what has run out, or takes all.
DeleteRecords ==
  /\ main.pc = "select" /\ ~EventsPending
  /\ \E r \in Zoned : leases[r] = "out"
  /\ main' = [pc |-> "expire", todo |-> {r \in Zoned : leases[r] = "out"}]
  /\ UNCHANGED <<zone, srvVars, leaseTable, threads, conns, llqVars, pinged, EventsPending, requests, astray, unseen>>

\* DeleteOneRecord: the entry goes whatever the name server answers.
DeleteOneRecord(r) ==
  /\ main.pc \in {"expire", "stop"} /\ r \in main.todo
  /\ \E x \in TCPTransaction :
       /\ zone' = IF x.applied THEN zone \ {r} ELSE zone
       /\ astray' = IF ~x.applied \/ Recording(r) # {} THEN astray \union {r} ELSE astray
  /\ unseen' = Missed({r})  \* nothing tells the main loop of it
  /\ leases' = [leases EXCEPT ![r] = "none"] /\ lingering' = lingering \ {r}
  /\ main' = [main EXCEPT !.todo = @ \ {r}]
  /\ UNCHANGED <<srvVars, threads, conns, llqVars, pinged, EventsPending, requests>>

RecordsDeleted ==
  /\ main.pc \in {"expire", "stop"} /\ main.todo = {}
  /\ main' = [main EXCEPT !.pc = IF @ = "expire" THEN "select" ELSE "clear"]
  /\ UNCHANGED <<zone, srvVars, leaseTable, threads, conns, llqVars, pinged, EventsPending, requests, astray, unseen>>

-----------------------------------------------------------------------------
\* Long-lived queries.

\* An answer list nobody refers to is kept, unless the table is full.
Unrefer(table, e) ==
  IF ~e.list THEN table
  ELSE LET n == table[e.q].refcount - 1
           full == Cardinality({q \in Questions : table[q].there}) >= TableSize
       IN  [table EXCEPT ![e.q] = IF n = 0 /\ full THEN NoList ELSE [@ EXCEPT !.refcount = n]]

\* AnswerQuestion: what the zone holds, or a part of it when the name server does
\* not answer, or not well, or memory runs out.
AnswerQuestion(q) == SUBSET (zone \intersect AnswersTo[q])

\* What is unseen when a question has been answered so.
Seen(q, answer) ==
  IF answer = zone \intersect AnswersTo[q] THEN unseen \ {q} \X Zoned
  ELSE unseen \union {q} \X AnswersTo[q]

LookupLLQ(m) ==
  {i \in DOMAIN LLQTable :
     /\ LLQTable[i].cli = m.cli /\ LLQTable[i].q = m.q
     /\ \/ LLQTable[i].state = "ChallengeSent" /\ m.id = 0
        \/ LLQTable[i].id = m.id}

NewLLQ(m) == [cli |-> m.cli, q |-> m.q, id |-> 0, live |-> TRUE, list |-> FALSE,
              state |-> "RequestReceived", told |-> {}]

\* The client must repeat the id it was challenged with.  Over TLS it gives the
\* port for events where this wants no error.
Challenged(e, m) == m.id = e.id /\ m.op = "setup" /\ ~m.tcp

\* Mutant: every response refers to the list, a repeated one too.
CompleteHandshake_Again(i, e, m, table) ==
  IF ~Challenged(e, m)
  THEN LLQTable' = [table EXCEPT ![i] = e] /\ UNCHANGED <<AnswerTable, unseen>>
  ELSE \E known \in AnswerQuestion(e.q) :
         LET a == AnswerTable[e.q]
             b == IF a.there THEN a ELSE [NoList EXCEPT !.known = known, !.there = TRUE]
         IN /\ AnswerTable' = [AnswerTable EXCEPT ![e.q] = [b EXCEPT !.refcount = @ + 1]]
            /\ LLQTable' = [table EXCEPT ![i] = [e EXCEPT !.state = "Established", !.list = TRUE,
                                                           !.told = b.known]]
            /\ UNCHANGED unseen

\* LLQCompleteHandshake, SetAnswerList: the acknowledgement tells all that is known.
CompleteHandshake(i, e, m, table) ==
  IF ~Challenged(e, m)
  THEN LLQTable' = [table EXCEPT ![i] = e] /\ UNCHANGED <<AnswerTable, unseen>>
  ELSE LET a == AnswerTable[e.q]
           refer(b) == [b EXCEPT !.refcount = IF e.state = "Established" THEN @ ELSE @ + 1]
           establish(b) ==
             /\ AnswerTable' = [AnswerTable EXCEPT ![e.q] = refer(b)]
             /\ LLQTable' = [table EXCEPT ![i] = [e EXCEPT !.state = "Established", !.list = TRUE,
                                                           !.told = b.known]]
       IN IF a.there THEN establish(a) /\ UNCHANGED unseen
          ELSE \E known \in AnswerQuestion(e.q) :
                 /\ establish([NoList EXCEPT !.known = known, !.there = TRUE])
                 /\ unseen' = Seen(e.q, known)

\* LLQSetupChallenge: only a request that has no id yet.
SetupChallenge(i, e, m, table) ==
  /\ IF m.id # 0 \/ m.op # "setup"
       THEN LLQTable' = table /\ UNCHANGED lastId
       ELSE LET id == IF e.id = 0 THEN lastId + 1 ELSE e.id IN
            /\ (e.id = 0 => RoomForId)
            /\ lastId' = IF e.id = 0 THEN id ELSE lastId
            /\ LLQTable' = [table EXCEPT ![i] = [e EXCEPT !.id = id, !.state = "ChallengeSent"]]
  /\ UNCHANGED <<AnswerTable, unseen>>

\* LLQRefresh: a lease of zero ends the query.
LLQRefresh(i, e, m) ==
  /\ IF m.lease
       THEN LLQTable' = [LLQTable EXCEPT ![i].live = TRUE] /\ UNCHANGED AnswerTable
       ELSE LLQTable' = RemoveAt(LLQTable, i) /\ AnswerTable' = Unrefer(AnswerTable, e)
  /\ UNCHANGED <<lastId, unseen>>

\* UpdateLLQ: entry i of the table is e.
UpdateLLQ(i, e, m, table) ==
  CASE e.state = "RequestReceived" /\ m.tcp ->
         /\ RoomForId /\ lastId' = lastId + 1
         /\ LLQTable' = [table EXCEPT ![i] = [e EXCEPT !.id = lastId + 1, !.state = "Established"]]
         /\ UNCHANGED <<AnswerTable, unseen>>
    [] e.state = "RequestReceived" /\ ~m.tcp -> SetupChallenge(i, e, m, table)
    [] e.state = "ChallengeSent" ->
         IF m.id = 0 THEN SetupChallenge(i, e, m, table)
         ELSE CompleteHandshake(i, e, m, table) /\ UNCHANGED lastId
    [] e.state = "Established" ->
         IF m.op = "setup" THEN CompleteHandshake(i, e, m, table) /\ UNCHANGED lastId
         ELSE LLQRefresh(i, e, m)

\* A client repeats only ids it was given.
Sane(m) ==
  /\ m.op = "refresh" => m.id # 0
  /\ m.op = "setup" => m.lease
  /\ m.tcp => PrivateLLQ /\ m.op = "setup" /\ m.id = 0

RecvLLQ(m) ==
  /\ main.pc = "select" /\ Sane(m) /\ m.id <= lastId
  /\ LET found == LookupLLQ(m) IN
     IF found = {}
     THEN Len(LLQTable) < MaxIds /\ UpdateLLQ(1, NewLLQ(m), m, <<NewLLQ(m)>> \o LLQTable)
     ELSE LET i == CHOOSE j \in found : \A k \in found : j <= k
          IN UpdateLLQ(i, LLQTable[i], m, LLQTable)
  /\ UNCHANGED <<zone, srvVars, leaseTable, threads, conns, pinged, EventsPending, main, requests, astray>>

LLQRunsOut(i) ==
  /\ main.pc = "select" /\ LLQTable[i].live
  /\ LLQTable' = [LLQTable EXCEPT ![i].live = FALSE]
  /\ UNCHANGED <<zone, srvVars, leaseTable, threads, conns, AnswerTable, lastId, pinged, EventsPending, main,
                 requests, astray, unseen>>

\* GenLLQEvents begins: a thread for each list of answers.
GenLLQEvents ==
  /\ main.pc = "select" /\ EventsPending
  /\ main' = [pc |-> "query", todo |-> {q \in Questions : AnswerTable[q].there}]
  /\ UNCHANGED <<zone, srvVars, leaseTable, threads, conns, llqVars, pinged, EventsPending, requests, astray, unseen>>

UpdateAnswerList(q) ==
  /\ main.pc = "query" /\ q \in main.todo
  /\ \E new \in AnswerQuestion(q) :
       /\ AnswerTable' = [AnswerTable EXCEPT ![q] =
            [AnswerTable[q] EXCEPT !.known = @ \intersect new, !.adds = new \ AnswerTable[q].known,
                                   !.rmvs = AnswerTable[q].known \ new]]
       /\ unseen' = Seen(q, new)
  /\ main' = [main EXCEPT !.todo = @ \ {q}]
  /\ UNCHANGED <<zone, srvVars, leaseTable, threads, conns, LLQTable, lastId, pinged, EventsPending, requests, astray>>

SendEvents(e) ==
  LET a == AnswerTable[e.q] IN
  IF e.state = "Established" THEN [e EXCEPT !.told = (@ \ a.rmvs) \union a.adds] ELSE e

\* The lists without the events, which have been sent.
Merged(table) ==
  [q \in Questions |->
     [table[q] EXCEPT !.known = @ \union table[q].adds, !.adds = {}, !.rmvs = {}]]

\* What has run out is deleted, all others hear of the changes.
DeleteOrTell(s, e) ==
  IF e.live THEN [s EXCEPT !.left = Append(@, SendEvents(e))]
  ELSE [s EXCEPT !.table = Unrefer(@, e)]

\* GenLLQEvents ends, with one query of the table after the other.
SendAllEvents ==
  /\ main.pc = "query" /\ main.todo = {}
  /\ LET s == FoldLeft(DeleteOrTell, [left |-> <<>>, table |-> AnswerTable], LLQTable)
     IN  LLQTable' = s.left /\ AnswerTable' = Merged(s.table)
  /\ EventsPending' = FALSE
  /\ main' = [main EXCEPT !.pc = "select"]
  /\ UNCHANGED <<zone, srvVars, leaseTable, threads, conns, lastId, pinged, requests, astray, unseen>>

-----------------------------------------------------------------------------
\* The daemon.

\* main: no services, no daemon.
Start ==
  /\ main.pc = "start"
  /\ srvs' = UpdateSRV(TRUE)
  /\ main' = [main EXCEPT !.pc = "select"]
  /\ UNCHANGED <<zone, privateZone, leaseTable, threads, conns, llqVars, pinged, EventsPending, requests, astray, unseen>>

\* SIGHUP: the configuration is read again, which tells of the zone's type.
Reread ==
  /\ main.pc = "select" /\ RoomForRequest
  /\ requests' = requests + 1
  /\ privateZone' = ~privateZone
  /\ UNCHANGED <<zone, srvs, leaseTable, threads, conns, llqVars, pinged, EventsPending, main, astray, unseen>>

\* SIGTERM: every record goes, leased or run out; but none when the name server cannot be
\* reached, or when it is the configuration, read again, that has ended the loop.
\* Threads go on until exit.
Terminate ==
  /\ main.pc = "select"
  /\ LET held == {r \in Zoned : leases[r] # "none"} IN
     \/ main' = [pc |-> "stop", todo |-> held] /\ UNCHANGED astray
     \/ main' = [pc |-> "clear", todo |-> {}] /\ astray' = astray \union held
  /\ UNCHANGED <<zone, srvVars, leaseTable, threads, conns, llqVars, pinged, EventsPending, requests, unseen>>

\* Those that work on the table are cut off by exit.
Exit ==
  /\ main.pc = "clear"
  /\ srvs' = UpdateSRV(FALSE)
  /\ main' = [main EXCEPT !.pc = "stopped"]
  /\ astray' = astray \union {r \in Zoned : Recording(r) # {}}
  /\ threads' = [t \in Threads |-> Idle] /\ conns' = [c \in Conns |-> "closed"]
  /\ UNCHANGED <<zone, privateZone, leaseTable, llqVars, pinged, EventsPending, requests, unseen>>

DnsExtdNext ==
  \/ \E t \in Threads : Relay(t) \/ UpdateLeaseTable(t) \/ Ping(t)
  \/ main.pc = "select" /\ RoomForRequest /\ \E req \in Updates : RecvUDPMessage(req)
  \/ \E c \in Conns : AcceptTCPConnection(c) \/ RecvTCPMessage(c)
  \/ \E r \in Zoned : LeaseRunsOut(r) \/ DeleteOneRecord(r)
  \/ RecvPing \/ DeleteRecords \/ RecordsDeleted
  \/ \E m \in LLQMessage : RecvLLQ(m)
  \/ \E i \in DOMAIN LLQTable : LLQRunsOut(i)
  \/ GenLLQEvents \/ SendAllEvents \/ \E q \in Questions : UpdateAnswerList(q)
  \/ Start \/ Reread \/ Terminate \/ Exit

DnsExtdSpec == DnsExtdInit /\ [][DnsExtdNext]_vars

-----------------------------------------------------------------------------
\* The table has a lease of exactly the records in the zone and of those that were deleted
\* one by one, unless a thread is about to record what it has passed on; records whose
\* updates overtook one another between the name server and the table, or met a
\* failure, excepted.
LeasesFollowTheZone ==
  main.pc # "stopped" =>
    \A r \in Zoned \ astray :
      Recording(r) = {} => (leases[r] # "none" <=> r \in zone \union lingering)

\* // handle deletions (dnsextd.c:1403)  Not so for single records, which the comparison
\* of classes (1418) never finds.
DeletionsAreHandled ==
  main.pc # "stopped" =>
    \A r \in Zoned \ astray : Recording(r) = {} => (leases[r] # "none" <=> r \in zone)

\* When no update is under way, what the clients of a question know is what the zone
\* answers; except for changes that no successful update has told the main loop of:
\* an expired record, one whose update was not acknowledged.
AnswersFollowTheZone ==
  main.pc = "select" /\ ~pinged /\ ~EventsPending =>
    \A q \in Questions : AnswerTable[q].there =>
      \A r \in {a \in AnswersTo[q] : <<q, a>> \notin unseen} :
        (\A t \in Threads : threads[t].pc \in {"lease", "ping"} => r \notin Touches(threads[t].req))
          => (r \in AnswerTable[q].known <=> r \in zone)

\* Between two rounds of events every client has been told exactly what its list of
\* answers holds, and a list is referred to by those queries it is for.
ClientsHearAll ==
  main.pc = "select" =>
    /\ \A i \in DOMAIN LLQTable : LLQTable[i].state = "Established" =>
         /\ AnswerTable[LLQTable[i].q].there
         /\ LLQTable[i].told = AnswerTable[LLQTable[i].q].known
    /\ \A q \in Questions : AnswerTable[q].refcount =
         Cardinality({i \in DOMAIN LLQTable : LLQTable[i].q = q /\ LLQTable[i].list})

\* A daemon that was told to stop leaves none of the records it leased in the zone,
\* and none of its own services, unless the zone became public while it ran.
LeavesNothing ==
  main.pc = "stopped" =>
    /\ zone \subseteq astray
    /\ srvs # {} => (~privateZone /\ srvs = TlsNames)

\* client started over.  reset state. (dnsextd.c:2269)  Not kept: one that starts over when
\* its query is established is not found by id 0, and gets a second entry.
OneQueryEach ==
  \A i, j \in DOMAIN LLQTable :
    (LLQTable[i].cli = LLQTable[j].cli /\ LLQTable[i].q = LLQTable[j].q
      /\ LLQTable[i].state = "Established" /\ LLQTable[j].state = "Established") => i = j
=============================================================================

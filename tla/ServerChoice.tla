----------------------------- MODULE ServerChoice -----------------------------
(* Which DNS server a unicast question is sent to (mDNSCore/uDNS.c, mDNS.c): the
   servers that the network's configuration gives, the choice of one of those that
   fit a name best, the penalty of one that fails, and the cached answers, which
   belong to a server and answer the questions that have that server.

   A server is its address, port, domain and interface, by which the code finds it
   again.  Questions of one name ask for the same type.  Multicast and long-lived
   questions, CNAMEs and local records are left out. *)
EXTENDS Naturals, Sequences, SequencesExt, FiniteSets

CONSTANTS
  Servers, Depth,   \* of its domain: 0 for all names
  Questions, NameOf,
  Matches,          \* the names in a server's domain, asked on its interface
  PTRs,             \* names that are asked for PTRs, and no reverse lookup
  Configs,          \* the servers in order
  Slots,            \* room in the cache
  MAX_UCAST_UNANSWERED_QUERIES,
  Suppressible,     \* questions for addresses that need an interface with one
  Nobody,
  MaxEvents         \* bound

ASSUME ServerChoiceAssumption ==
  /\ Depth \in [Servers -> Nat] /\ Nobody \notin Servers \union Questions
  /\ DOMAIN NameOf = Questions /\ \A s \in Servers : Matches[s] \subseteq {NameOf[q] : q \in Questions}
  /\ \A c \in Configs : ToSet(c) \subseteq Servers /\ IsInjective(c)
  /\ {MAX_UCAST_UNANSWERED_QUERIES, MaxEvents} \subseteq Nat /\ Suppressible \subseteq Questions

VARIABLES m, events
choiceVars == <<m, events>>

Names == {NameOf[q] : q \in Questions}

DNSQuestion ==
  [on : BOOLEAN, new : BOOLEAN, DuplicateOf : Questions \union {Nobody},
   qDNSServer : Servers \union {Nobody},
   validDNSServers : SUBSET (1 .. Cardinality(Servers)),  \* places in the list of servers
   ThisQInterval : {"0", "short", "Max"}, unansweredQueries : 0 .. MAX_UCAST_UNANSWERED_QUERIES + 1,
   noServerResponse : BOOLEAN, triedAllServersOnce : BOOLEAN, deliverAddEvents : BOOLEAN,
   SuppressQuery : BOOLEAN,
   asked : BOOLEAN,                 \* an answer with its TargetQID may come
   told : SUBSET Slots,             \* history: added and not removed
   stale : BOOLEAN]                 \* history: what it was told has gone, and it does not know
NoQuestion ==
  [on |-> FALSE, new |-> FALSE, DuplicateOf |-> Nobody, qDNSServer |-> Nobody, validDNSServers |-> {},
   ThisQInterval |-> "0", unansweredQueries |-> 0, noServerResponse |-> FALSE,
   triedAllServersOnce |-> FALSE, deliverAddEvents |-> FALSE, SuppressQuery |-> FALSE,
   asked |-> FALSE, told |-> {}, stale |-> FALSE]

CacheRecord ==
  [kind : {"free", "negative", "positive"}, name : Names, rDNSServer : Servers \union {Nobody},
   CRActiveQuestion : Questions \union {Nobody},
   purged : BOOLEAN, delayed : BOOLEAN]   \* it goes, it is delivered when the cache is looked at
NoRecord(name) == [kind |-> "free", name |-> name, rDNSServer |-> Nobody, CRActiveQuestion |-> Nobody,
                   purged |-> FALSE, delayed |-> FALSE]

ServerChoiceTypeOK ==
  /\ m.q \in [Questions -> DNSQuestion] /\ m.cache \in [Slots -> CacheRecord]
  /\ IsInjective(m.list) /\ ToSet(m.list) = {q \in Questions : m.q[q].on}
  /\ m.DNSServers \in Seq(Servers) /\ IsInjective(m.DNSServers)
  /\ IsInjective(m.penalties) /\ ToSet(m.penalties) \subseteq ToSet(m.DNSServers)
  /\ m.deleted = {} /\ m.failed \subseteq Servers /\ m.usable \in BOOLEAN
  /\ events \in 0 .. MaxEvents

\* penalties: the servers that have one, the first to be free again first.
ServerChoiceInit ==
  /\ m = [DNSServers |-> <<>>, deleted |-> {}, penalties |-> <<>>, failed |-> {}, list |-> <<>>,
          q |-> [q \in Questions |-> NoQuestion],
          cache |-> [r \in Slots |-> NoRecord(CHOOSE n \in Names : TRUE)], usable |-> TRUE]
  /\ events = 0

Event == events < MaxEvents /\ events' = events + 1

-----------------------------------------------------------------------------
\* The choice.  d is the state a function starts from.

\* Servers that are to be deleted have no place.
Live(d) == SelectSeq(d.DNSServers, LAMBDA s : s \notin d.deleted)

BetterMatchForName(d, name, places) ==
  LET fit == {i \in places : name \in Matches[Live(d)[i]]}
  IN {i \in fit : \A j \in fit : Depth[Live(d)[j]] <= Depth[Live(d)[i]]}

PenaltyTimeForServer(d, s) == IF \E k \in DOMAIN d.penalties : d.penalties[k] = s
                              THEN CHOOSE k \in DOMAIN d.penalties : d.penalties[k] = s ELSE 0

\* The first with the least penalty.
GetBestServer(d, places) ==
  LET time(i) == PenaltyTimeForServer(d, Live(d)[i])
  IN CHOOSE i \in places : \A j \in places : time(i) < time(j) \/ (time(i) = time(j) /\ i <= j)

GetServerForName(d, name) ==
  LET best == BetterMatchForName(d, name, DOMAIN Live(d))
  IN IF best = {} THEN Nobody ELSE Live(d)[GetBestServer(d, best)]

SetValidDNSServers(d, q) ==
  [d EXCEPT !.q[q].validDNSServers = BetterMatchForName(d, NameOf[q], DOMAIN Live(d)),
            !.q[q].noServerResponse = FALSE]

\* What is chosen is not chosen again.
ValidPlaces(d, q) == d.q[q].validDNSServers \intersect DOMAIN Live(d)
GetServerForQuestion(d, q) ==
  IF ValidPlaces(d, q) = {} THEN Nobody ELSE Live(d)[GetBestServer(d, ValidPlaces(d, q))]
\* Mutant: what is chosen may be chosen again.
Taken_Not(d, q) == d
Taken(d, q) ==
  IF ValidPlaces(d, q) = {} THEN d
  ELSE [d EXCEPT !.q[q].validDNSServers = @ \ {GetBestServer(d, ValidPlaces(d, q))}]

Duplicates(d, q) == {x \in Questions : d.q[x].DuplicateOf = q}
CopyToDuplicates(d, q) ==
  [d EXCEPT !.q = [x \in Questions |-> IF x \notin Duplicates(d, q) THEN @[x]
                     ELSE [@[x] EXCEPT !.validDNSServers = d.q[q].validDNSServers,
                                       !.qDNSServer = d.q[q].qDNSServer]]]

\* The server is set, and what is cached is left as it is.
ChooseAgain(d, q) ==
  LET v == SetValidDNSServers(d, q)
  IN CopyToDuplicates([Taken(v, q) EXCEPT !.q[q].qDNSServer = GetServerForQuestion(v, q)], q)

-----------------------------------------------------------------------------
\* The cache.

NameRecordAnswers(r, name, server) == r.kind # "free" /\ r.name = name /\ r.rDNSServer = server
Answering(d, q) == {r \in Slots : NameRecordAnswers(d.cache[r], NameOf[q], d.q[q].qDNSServer)}

Purge(d, records) ==
  [d EXCEPT !.cache = [r \in Slots |-> [@[r] EXCEPT !.purged = @ \/ r \in records]]]

AnswerCurrentQuestion(d, q, r) ==
  LET told == [d EXCEPT !.q[q].told = @ \union {r}] IN
  IF d.q[q].SuppressQuery THEN told
  ELSE IF d.q[q].DuplicateOf # Nobody THEN told
  ELSE [told EXCEPT !.cache[r].CRActiveQuestion = q,
                    !.q[q].ThisQInterval = IF @ = "0" THEN @ ELSE "Max"]

\* What is added while a change of servers is to be told is told with it.
CacheRecordAdd(d, r) ==
  LET add(e, q) ==
        IF e.q[q].new \/ e.q[q].SuppressQuery \/ r \notin Answering(e, q) THEN e
        ELSE IF e.q[q].deliverAddEvents /\ e.q[q].told = {} THEN e
        ELSE AnswerCurrentQuestion([e EXCEPT !.q[q].unansweredQueries = 0], q, r)
  IN FoldLeft(add, [d EXCEPT !.cache[r].delayed = FALSE], d.list)

CreateNewCacheEntry(d, r, kind, name, server, delayed) ==
  LET e == [d EXCEPT !.cache[r] = [NoRecord(name) EXCEPT !.kind = kind, !.rDNSServer = server,
                                                         !.delayed = delayed]]
  IN IF delayed THEN e ELSE CacheRecordAdd(e, r)

\* Who was told of a record is told that it goes, if he still asks its server.
CacheRecordRmv(d, r) ==
  LET rec == d.cache[r]
      after(q) == LET x == d.q[q]
                      answers == NameRecordAnswers(rec, NameOf[q], x.qDNSServer)
                      knows == x.on /\ ~x.new /\ ~x.SuppressQuery /\ answers
                  IN [x EXCEPT !.told = @ \ {r},
                               !.stale = @ \/ (r \in x.told /\ ~knows /\ rec.kind = "positive")]
      active == rec.CRActiveQuestion
  IN [d EXCEPT !.q = [q \in Questions |->
        LET x == after(q) IN
        IF q = active /\ x.ThisQInterval # "0" /\ x.DuplicateOf = Nobody
        THEN [x EXCEPT !.ThisQInterval = "short"] ELSE x],
      !.cache[r] = NoRecord(rec.name)]

CheckCacheExpiration(d, name) ==
  LET here == SetToSeq({r \in Slots : d.cache[r].kind # "free" /\ d.cache[r].name = name})
      check(e, r) == IF e.cache[r].purged THEN CacheRecordRmv(e, r)
                     ELSE IF e.cache[r].delayed THEN CacheRecordAdd(e, r) ELSE e
  IN FoldLeft(check, d, here)

IsQuestionNew(d, q) == d.q[q].new

\* The records of the old server become the new one's; where it has records already
\* the old ones go.
CacheRecordResetDNSServer(d, q, new) ==
  LET foundNew == \E r \in Slots : NameRecordAnswers(d.cache[r], NameOf[q], new)
      reset(r) == IF foundNew /\ IsQuestionNew(d, q)
                  THEN [r EXCEPT !.purged = TRUE, !.CRActiveQuestion = Nobody]
                  ELSE [r EXCEPT !.purged = @ \/ foundNew, !.rDNSServer = new]
      tell == foundNew /\ ~IsQuestionNew(d, q) /\ ~d.q[q].SuppressQuery
  IN [d EXCEPT !.cache = [r \in Slots |-> IF r \in Answering(d, q) THEN reset(@[r]) ELSE @[r]],
               !.q = [x \in Questions |->
                        IF tell /\ x \in {q} \union Duplicates(d, q)
                        THEN [@[x] EXCEPT !.deliverAddEvents = TRUE] ELSE @[x]]]

\* An answer to what was sent before has another TargetQID.
DNSServerChangeForQuestion(d, q, new) ==
  LET e == IF d.q[q].DuplicateOf # Nobody THEN d ELSE CacheRecordResetDNSServer(d, q, new)
  IN CopyToDuplicates([e EXCEPT !.q[q].qDNSServer = new, !.q[q].asked = FALSE], q)

-----------------------------------------------------------------------------
\* Servers that do not answer.

Move(s, x) == Append(SelectSeq(s, LAMBDA y : y # x), x)

\* One that is given the server it had, or none again, is stopped, so as not to bombard
\* the network, and keeps its count.
PenalizeDNSServer(d, q) ==
  LET orig == d.q[q].qDNSServer
      p == IF orig = Nobody \/ NameOf[q] \in PTRs THEN d ELSE [d EXCEPT !.penalties = Move(@, orig)]
      new == GetServerForQuestion(p, q)
      e == Taken(p, q)
      changed == DNSServerChangeForQuestion(e, q, new)
  IN IF new = orig THEN [e EXCEPT !.q[q].ThisQInterval = "0"]
     ELSE [changed EXCEPT !.q[q].unansweredQueries = 0,
                          !.q[q].ThisQInterval =
                             IF new # Nobody /\ ~d.q[q].triedAllServersOnce THEN "short" ELSE @]

NoTestQuery(q) == NameOf[q] \notin PTRs

FreeSlots(d) == {r \in Slots : d.cache[r].kind = "free"}
ASlot(d) == CHOOSE r \in FreeSlots(d) : TRUE

\* Without a server the question gets a negative answer, and is asked again later if
\* there is any to try.
Fail(d, q) ==
  LET p == Purge(d, Answering(d, q))
      v == SetValidDNSServers(p, q)
      e == IF p.q[q].qDNSServer # Nobody THEN [p EXCEPT !.q[q].ThisQInterval = "0"]
           ELSE IF v.q[q].validDNSServers = {} THEN [v EXCEPT !.q[q].ThisQInterval = "0"]
           ELSE ChooseAgain(p, q)
  IN CreateNewCacheEntry([e EXCEPT !.q[q].unansweredQueries = 0], ASlot(d), "negative", NameOf[q],
                         e.q[q].qDNSServer, TRUE)

Unanswered(d, q) ==
  IF d.q[q].unansweredQueries < MAX_UCAST_UNANSWERED_QUERIES THEN d
  ELSE [PenalizeDNSServer(d, q) EXCEPT !.q[q].noServerResponse = TRUE]

\* A server that did not answer is tried again, less often.
Retried(d, q) ==
  IF d.q[q].qDNSServer # Nobody \/ ~d.q[q].noServerResponse THEN d
  ELSE LET v == SetValidDNSServers([d EXCEPT !.q[q].triedAllServersOnce = TRUE], q)
           new == GetServerForQuestion(v, q)
       IN CopyToDuplicates(
            IF new = Nobody THEN v ELSE DNSServerChangeForQuestion(Taken(v, q), q, new), q)

Asked(d, q) ==
  [d EXCEPT !.q[q].unansweredQueries = @ + 1,
            !.q[q].asked = @ \/ d.q[q].qDNSServer \notin d.failed \/ NoTestQuery(q)]

\* mDNS_Execute has looked at the cache before.
Due(r) == m.cache[r].purged \/ m.cache[r].delayed

uDNS_CheckCurrentQuestion(q) ==
  /\ \A r \in Slots : Due(r) => m.cache[r].kind = "free" \/ m.cache[r].name # NameOf[q]
  /\ m.q[q].on /\ m.q[q].DuplicateOf = Nobody /\ ~m.q[q].SuppressQuery /\ ~m.q[q].new
  /\ m.q[q].ThisQInterval = "short" /\ FreeSlots(m) # {} /\ UNCHANGED events
  /\ LET e == Retried(Unanswered(m, q), q)
     IN m' = IF e.q[q].qDNSServer # Nobody THEN Asked(e, q) ELSE Fail(e, q)

-----------------------------------------------------------------------------
\* Clients.

FindDuplicateQuestion(d, q) ==
  LET same == SelectSeq(d.list, LAMBDA x : NameOf[x] = NameOf[q]
                                           /\ d.q[x].SuppressQuery = d.q[q].SuppressQuery)
  IN IF same = <<>> THEN Nobody ELSE Head(same)

ShouldSuppressQuery(d, q) == q \in Suppressible /\ ~d.usable

Started(d, q) ==
  LET e == [d EXCEPT !.q[q] = [NoQuestion EXCEPT !.on = TRUE, !.new = TRUE, !.ThisQInterval = "short",
                                                 !.SuppressQuery = ShouldSuppressQuery(d, q)]]
      of == FindDuplicateQuestion(e, q)
      f == IF of = Nobody THEN ChooseAgain(e, q)
           ELSE [e EXCEPT !.q[q].DuplicateOf = of,
                          !.q[q].validDNSServers = d.q[of].validDNSServers,
                          !.q[q].qDNSServer = d.q[of].qDNSServer]
  IN [f EXCEPT !.list = Append(@, q)]

\* The first of the duplicates takes the question's place.
UpdateQuestionDuplicates(d, q) ==
  LET others == SelectSeq(d.list, LAMBDA x : d.q[x].DuplicateOf = q) IN
  IF d.q[q].DuplicateOf # Nobody \/ others = <<>> THEN d
  ELSE [d EXCEPT !.q = [x \in Questions |->
          IF x = Head(others)
          THEN [d.q[q] EXCEPT !.new = d.q[x].new, !.told = d.q[x].told, !.stale = d.q[x].stale,
                              !.deliverAddEvents = d.q[x].deliverAddEvents]
          ELSE IF x \in ToSet(others) THEN [@[x] EXCEPT !.DuplicateOf = Head(others)] ELSE @[x]]]

\* The first question that a record answers keeps it fresh.
NextActive(d, rec, but) ==
  LET able == SelectSeq(d.list, LAMBDA x : x # but /\ d.q[x].DuplicateOf = Nobody
                 /\ d.q[x].ThisQInterval # "0" /\ ~d.q[x].SuppressQuery
                 /\ NameRecordAnswers(rec, NameOf[x], d.q[x].qDNSServer))
  IN IF able = <<>> THEN Nobody ELSE Head(able)

Stopped(d, q) ==
  LET e == UpdateQuestionDuplicates([d EXCEPT !.list = SelectSeq(@, LAMBDA x : x # q)], q)
      f == [e EXCEPT !.q[q] = NoQuestion]
  IN [f EXCEPT !.cache = [r \in Slots |-> IF @[r].CRActiveQuestion # q THEN @[r]
                             ELSE [@[r] EXCEPT !.CRActiveQuestion = NextActive(f, f.cache[r], q)]]]

mDNS_StartQuery(q) == ~m.q[q].on /\ Event /\ m' = Started(m, q)
mDNS_StopQuery(q) == m.q[q].on /\ m' = Stopped(m, q) /\ UNCHANGED events

AnswerNewQuestion(q) ==
  /\ m.q[q].new /\ UNCHANGED events
  /\ \A x \in Questions : m.q[x].new =>
       \E i, j \in DOMAIN m.list : m.list[i] = q /\ m.list[j] = x /\ i <= j
  /\ LET d == [CheckCacheExpiration(m, NameOf[q]) EXCEPT !.q[q].new = FALSE]
     IN m' = IF d.q[q].SuppressQuery THEN d
             ELSE FoldLeft(LAMBDA e, r : AnswerCurrentQuestion(e, q, r), d, SetToSeq(Answering(d, q)))

\* mDNS_Execute has looked at the cache and at new questions before.  A question
\* that a negative answer answers chooses a server again.
AnswerQuestionsForDNSServerChanges ==
  /\ \E q \in Questions : m.q[q].deliverAddEvents /\ ~m.q[q].new
  /\ \A r \in Slots : ~Due(r)
  /\ \A q \in Questions : ~m.q[q].new
  /\ UNCHANGED events
  /\ LET give(q, e, r) ==
           IF r \notin Answering(e, q) THEN e
           ELSE LET f == IF e.q[q].qDNSServer = Nobody /\ e.q[q].DuplicateOf = Nobody
                            /\ e.cache[r].kind = "negative"
                         THEN ChooseAgain(e, q) ELSE e
                IN AnswerCurrentQuestion(f, q, r)
         tell(e, q) ==
           IF ~e.q[q].deliverAddEvents THEN e
           ELSE LET f == [e EXCEPT !.q[q].deliverAddEvents = FALSE] IN
                IF e.q[q].SuppressQuery THEN f
                ELSE FoldLeft(LAMBDA g, r : give(q, g, r), f, SetToSeq(Slots))
     IN m' = FoldLeft(tell, m, m.list)

\* A question whose addresses have become of no use, or of use, is stopped and
\* started again.
RmvEvents(d, q) ==
  [d EXCEPT !.q[q].told = @ \ Answering(d, q),
            !.q[q].stale = @ \/ \E r \in d.q[q].told \ Answering(d, q) : d.cache[r].kind = "positive",
            !.cache = [r \in Slots |->
               IF @[r].CRActiveQuestion # q \/ r \notin Answering(d, q) \/ @[r].kind = "negative" THEN @[r]
               ELSE [@[r] EXCEPT !.CRActiveQuestion = NextActive(d, d.cache[r], q)]]]

CheckSuppressUnusableQuestions ==
  /\ Event
  /\ LET d == [m EXCEPT !.usable = ~@]
         changed == SelectSeq(m.list, LAMBDA q : ShouldSuppressQuery(d, q) # m.q[q].SuppressQuery)
         leave(e, q) == Stopped(IF e.q[q].new \/ e.q[q].SuppressQuery THEN e ELSE RmvEvents(e, q), q)
         gone == FoldLeft(leave, d, changed)
         stale == {q \in ToSet(changed) : RmvEvents(d, q).q[q].stale /\ ~m.q[q].SuppressQuery}
         again == FoldLeft(Started, gone, Reverse(changed))
     IN m' = [again EXCEPT !.q = [q \in Questions |-> [@[q] EXCEPT !.stale = @ \/ q \in stale]]]

-----------------------------------------------------------------------------
\* Answers, and time.

\* Records of the same server that the answer does not repeat go, unless it is the
\* same one.
Response(q) ==
  /\ m.q[q].asked /\ FreeSlots(m) # {} /\ UNCHANGED events
  /\ LET d == [m EXCEPT !.q[q].asked = FALSE]
         here == Answering(d, q)
         of(kind) == {r \in here : d.cache[r].kind = kind /\ ~d.cache[r].purged}
         refreshed == [d EXCEPT !.q = [x \in Questions |->
             IF d.q[x].on /\ ~d.q[x].SuppressQuery /\ d.q[x].DuplicateOf = Nobody /\ NameOf[x] = NameOf[q]
                /\ d.q[x].qDNSServer = d.q[q].qDNSServer /\ d.q[x].ThisQInterval # "0"
             THEN [@[x] EXCEPT !.ThisQInterval = "Max", !.unansweredQueries = 0] ELSE @[x]]]
     IN \/ \E kind \in {"negative", "positive"} :
             m' = IF of(kind) # {} THEN Purge(refreshed, here \ of(kind))
                  ELSE CreateNewCacheEntry(Purge(d, here), ASlot(d), kind, NameOf[q], d.q[q].qDNSServer,
                                           kind = "positive" /\ here # {})
        \/ m' = PenalizeDNSServer(d, q)                          \* the server has failed

Expire(r) ==
  /\ m.cache[r].kind # "free" /\ ~Due(r) /\ Event
  /\ m' = CacheRecordRmv(m, r)

\* A record that is asked for is fetched again before it ends.
SendQueries(r) ==
  /\ m.cache[r].kind # "free" /\ m.cache[r].CRActiveQuestion # Nobody /\ UNCHANGED events
  /\ LET q == m.cache[r].CRActiveQuestion IN
     m.q[q].ThisQInterval = "Max" /\ m' = [m EXCEPT !.q[q].ThisQInterval = "short"]

mDNS_Execute(name) ==
  /\ \E r \in Slots : m.cache[r].kind # "free" /\ m.cache[r].name = name /\ Due(r)
  /\ m' = CheckCacheExpiration(m, name) /\ UNCHANGED events

PenaltyEnds ==
  /\ m.penalties # <<>> /\ m' = [m EXCEPT !.penalties = Tail(@)] /\ UNCHANGED events

\* The answer to the test that tells whether a server can be asked for such names.
uDNS_ReceiveTestQuestionResponse(s) ==
  /\ s \in ToSet(m.DNSServers) /\ Event
  /\ LET passed == s \in m.failed IN
     m' = [m EXCEPT !.failed = IF passed THEN @ \ {s} ELSE @ \union {s},
             !.q = [q \in Questions |->
                IF passed /\ m.q[q].on /\ m.q[q].qDNSServer = s /\ ~NoTestQuery(q)
                THEN [@[q] EXCEPT !.ThisQInterval = "short", !.unansweredQueries = 0] ELSE @[q]]]

-----------------------------------------------------------------------------
\* The configuration.

\* What is configured moves behind what was; the rest is to be deleted.
mDNS_AddDNSServer(d, config) ==
  LET old == SelectSeq(d.DNSServers, LAMBDA s : s \notin ToSet(config))
  IN [d EXCEPT !.DNSServers = old \o config, !.deleted = ToSet(old), !.penalties = <<>>]

PurgeOrReconfirmCacheRecord(d, r) ==
  IF d.cache[r].kind = "positive" /\ d.cache[r].name \in PTRs THEN d ELSE Purge(d, {r})

PurgeOthers(d) ==
  LET other(r) == LET best == GetServerForName(d, d.cache[r].name)
                  IN d.cache[r].kind # "free" /\ best # Nobody /\ best # d.cache[r].rDNSServer
      purge(e, r) == IF d.cache[r].CRActiveQuestion = Nobody THEN Purge(e, {r})
                     ELSE PurgeOrReconfirmCacheRecord(e, r)
  IN FoldLeft(purge, d, SetToSeq({r \in Slots : other(r)}))

\* A question that has a server again, or another, is asked at once.
UpdateQuestions(d) ==
  LET update(e, q) ==
        IF e.q[q].DuplicateOf # Nobody THEN e
        ELSE LET v == [SetValidDNSServers(e, q) EXCEPT !.q[q].triedAllServersOnce = FALSE]
                 s == GetServerForQuestion(v, q)
                 f == [DNSServerChangeForQuestion(Taken(v, q), q, s) EXCEPT !.q[q].unansweredQueries = 0]
             IN IF s = e.q[q].qDNSServer THEN CopyToDuplicates(Taken(v, q), q)
                ELSE IF e.q[q].SuppressQuery THEN f
                ELSE [f EXCEPT !.q[q].ThisQInterval = "short"]
  IN FoldLeft(update, d, d.list)

DeleteServer(d, s) ==
  LET lame(e, r) ==
        LET active == e.cache[r].CRActiveQuestion
            f == IF active = Nobody THEN [e EXCEPT !.cache[r].rDNSServer = Nobody]
                 ELSE IF e.q[active].qDNSServer # s
                 THEN [e EXCEPT !.cache[r].rDNSServer = e.q[active].qDNSServer]
                 ELSE [e EXCEPT !.cache[r].rDNSServer = Nobody, !.q[active].qDNSServer = Nobody,
                                !.q[active].validDNSServers = {}]
        IN PurgeOrReconfirmCacheRecord(f, r)
      mine == {r \in Slots : d.cache[r].kind # "free" /\ d.cache[r].rDNSServer = s}
  IN [FoldLeft(lame, d, SetToSeq(mine)) EXCEPT !.DNSServers = SelectSeq(@, LAMBDA x : x # s),
        !.deleted = @ \ {s}, !.failed = @ \ {s}]

uDNS_SetupDNSConfig(config) ==
  /\ Event
  /\ LET added == mDNS_AddDNSServer(m, config)
         d == FoldLeft(DeleteServer, UpdateQuestions(PurgeOthers(added)), SetToSeq(added.deleted))
     IN m' = IF (config = <<>>) = (m.DNSServers = <<>>) THEN d ELSE Purge(d, Slots \ FreeSlots(d))

ServerChoiceNext ==
  \/ \E q \in Questions : mDNS_StartQuery(q) \/ mDNS_StopQuery(q) \/ AnswerNewQuestion(q)
                          \/ uDNS_CheckCurrentQuestion(q) \/ Response(q)
  \/ AnswerQuestionsForDNSServerChanges \/ CheckSuppressUnusableQuestions \/ PenaltyEnds
  \/ \E r \in Slots : Expire(r) \/ SendQueries(r)
  \/ \E name \in Names : mDNS_Execute(name)
  \/ \E s \in Servers : uDNS_ReceiveTestQuestionResponse(s)
  \/ \E config \in Configs : uDNS_SetupDNSConfig(config)

ServerChoiceSpec == ServerChoiceInit /\ [][ServerChoiceNext]_choiceVars

-----------------------------------------------------------------------------
On == {q \in Questions : m.q[q].on}

\* No question and no record keeps a server that has been freed.
NoFreedServer ==
  /\ \A q \in On : m.q[q].qDNSServer \in ToSet(m.DNSServers) \union {Nobody}
  /\ \A r \in Slots : m.cache[r].kind # "free" =>
       m.cache[r].rDNSServer \in ToSet(m.DNSServers) \union {Nobody}

\* Questions that are the same go the same way.
DuplicatesAgree ==
  \A q \in On : LET of == m.q[q].DuplicateOf IN of # Nobody =>
    /\ m.q[of].on /\ m.q[of].DuplicateOf = Nobody
    /\ m.q[q].qDNSServer = m.q[of].qDNSServer /\ m.q[q].validDNSServers = m.q[of].validDNSServers

\* A server is tried once: the one that is asked is not among those left.
TriedOnce ==
  \A q \in On : \A i \in m.q[q].validDNSServers :
    i \in DOMAIN m.DNSServers /\ m.DNSServers[i] # m.q[q].qDNSServer

\* A question that waits for nothing more has no server it could ask.
NobodyWaits ==
  \A q \in On : m.q[q].ThisQInterval = "0" =>
    GetServerForName(m, NameOf[q]) = Nobody

\* A client does not keep an answer that has gone.  Not kept: the answer of a server that
\* was replaced goes from the cache untold once the next one has said there is none.
NoStaleAnswers == \A q \in On : ~m.q[q].stale
=============================================================================

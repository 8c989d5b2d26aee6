----------------------------- MODULE MdnsCache -----------------------------
(***************************************************************************)
(* The questions that clients ask mDNSResponder and the cache of answers   *)
(* heard on the link (mdnsresponder/mDNSCore/mDNS.c).  The core walks its  *)
(* list of questions and calls a client back for each answer it adds or    *)
(* removes; the client may start and stop questions in that callback, also *)
(* the one the walk stands on or is to go to next.                         *)
(*                                                                         *)
(* All records have one name, type and interface, so that they are one     *)
(* record set; the questions differ in what Answers says answers them.     *)
(* Multicast only, no CNAMEs, no suppressed questions.                     *)
(*                                                                         *)
(* The life of a record counts down through the times the code tells       *)
(* apart: its first second (Fresh), up to the first reconfirming query,    *)
(* between those queries, its last second (1), expired (0).                *)
(***************************************************************************)
EXTENDS Naturals, Sequences, SequencesExt, FiniteSets

CONSTANTS
  Questions,            \* the clients' DNSQuestion structures
  CacheRecords,         \* the resource records of the set
  Kinds, KindOf,        \* what makes two questions the same one
  Answers,              \* the records that answer a kind of question
  UniqueRecords,        \* the records that come with the cache-flush bit
  MaxUnansweredQueries,
  rrcache_size,         \* records the cache has room for
  Nobody,               \* no question
  MaxClientCalls,       \* bound: calls of clients
  MaxPackets            \* bound: responses received

ASSUME CacheAssumption ==
  /\ KindOf \in [Questions -> Kinds]
  /\ Answers \in [Kinds -> SUBSET CacheRecords]
  /\ UniqueRecords \subseteq CacheRecords
  /\ MaxUnansweredQueries \in Nat \ {0}
  /\ rrcache_size \in Nat \ {0}
  /\ Nobody \notin Questions
  /\ {MaxClientCalls, MaxPackets} \subseteq Nat

VARIABLES
  m,        \* the questions and the cache
  walk,     \* the walk over the questions that callbacks interrupt
  response, \* the response being processed
  packets   \* responses received

cacheVars == <<m, walk, response, packets>>

Fresh == MaxUnansweredQueries + 3

DNSQuestion ==
  [DuplicateOf : Questions \cup {Nobody},
   CurrentAnswers : Nat,
   DelayAnswering : SUBSET CacheRecords,          \* the dying records it waits for
   told : [CacheRecords -> 0 .. 1]]               \* history: added and not removed

CacheRecord ==
  [life : 0 .. Fresh,
   UnansweredQueries : 0 .. MaxUnansweredQueries,
   CRActiveQuestion : Questions \cup {Nobody},
   DelayDelivery : SUBSET CacheRecords,           \* what it waits for, itself: the flush
   cached : BOOLEAN]

Walks == [what : {"idle"}] \cup
  [what : {"add", "remove", "add uncached"}, rr : CacheRecords, CurrentQuestion : Questions \cup {Nobody}]
    \cup
  [what : {"answer"}, q : Questions, todo : SUBSET CacheRecords, CurrentQuestion : Questions \cup {Nobody}]

Responses ==
  [answers : SUBSET CacheRecords, goodbyes : SUBSET CacheRecords, todo : SUBSET CacheRecords,
   CacheFlushRecords : SUBSET CacheRecords, flushing : BOOLEAN]

CacheTypeOK ==
  /\ m \in [Questions : Seq(Questions), NewQuestions : SUBSET Questions,
            q : [Questions -> DNSQuestion], rr : [CacheRecords -> CacheRecord],
            rrcache_active : Nat, calls : 0 .. MaxClientCalls]
  /\ walk \in Walks
  /\ response \in Responses
  /\ packets \in 0 .. MaxPackets

NoQuestion == [DuplicateOf |-> Nobody, CurrentAnswers |-> 0, DelayAnswering |-> {},
               told |-> [r \in CacheRecords |-> 0]]
NoCacheRecord == [life |-> 0, UnansweredQueries |-> 0, CRActiveQuestion |-> Nobody,
             DelayDelivery |-> {}, cached |-> FALSE]
Idle == [what |-> "idle"]
NoResponse == [answers |-> {}, goodbyes |-> {}, todo |-> {}, CacheFlushRecords |-> {},
               flushing |-> FALSE]

CacheInit ==
  /\ m = [Questions |-> <<>>, NewQuestions |-> {}, q |-> [q \in Questions |-> NoQuestion],
          rr |-> [r \in CacheRecords |-> NoCacheRecord], rrcache_active |-> 0, calls |-> 0]
  /\ walk = Idle
  /\ response = NoResponse
  /\ packets = 0

-----------------------------------------------------------------------------
Asked(n) == Range(n.Questions)
AnswersQuestion(r, q) == r \in Answers[KindOf[q]]
ActiveQuestion(n, q) == q \in Asked(n) /\ n.q[q].DuplicateOf = Nobody
Cached(n) == {r \in CacheRecords : n.rr[r].cached}

(* Of some questions the first of the list, and the one after q.           *)
First(n, some) ==
  LET found == {i \in DOMAIN n.Questions : n.Questions[i] \in some}
  IN  IF found = {} THEN Nobody ELSE n.Questions[CHOOSE i \in found : \A j \in found : i <= j]
Position(n, q) == CHOOSE i \in DOMAIN n.Questions : n.Questions[i] = q
NextQuestion(n, q) ==
  IF Position(n, q) = Len(n.Questions) THEN Nobody ELSE n.Questions[Position(n, q) + 1]

(* Where a walk ends that leaves out the questions not answered yet.       *)
OldQuestion(n, q) == IF q \in n.NewQuestions THEN Nobody ELSE q

CheckForSoonToExpireRecords(n) == {r \in Cached(n) : n.rr[r].life <= 1}

FindDuplicateQuestion(n, q) == First(n, {p \in Questions : KindOf[p] = KindOf[q]})

mDNS_StartQuery(n, q) ==
  [n EXCEPT
    !.Questions = Append(@, q),
    !.NewQuestions = @ \cup {q},
    !.q[q] = [NoQuestion EXCEPT !.DuplicateOf = FindDuplicateQuestion(n, q),
                                !.DelayAnswering = CheckForSoonToExpireRecords(n)],
    !.calls = @ + 1]

(* Mutant: the duplicates of a question that stops are forgotten.          *)
UpdateQuestionDuplicates_Orphaned(n, q) == n.q

(* The first of the duplicates of a question that stops is active from now *)
(* on, and the others are its duplicates.                                  *)
UpdateQuestionDuplicates(n, q) ==
  LET duplicates == {p \in Asked(n) : n.q[p].DuplicateOf = q}
      first == First(n, duplicates)
  IN  [p \in Questions |->
         IF p \notin duplicates THEN n.q[p]
         ELSE [n.q[p] EXCEPT !.DuplicateOf = IF p = first THEN Nobody ELSE first]]

NewActiveQuestion(n, r) ==
  First(n, {p \in Questions : ActiveQuestion(n, p) /\ AnswersQuestion(r, p)})

(* A walk that stands on the question goes on with the next: see Client.   *)
mDNS_StopQuery(n, q) ==
  LET without == [n EXCEPT !.Questions = RemoveAt(@, Position(n, q)),
                           !.NewQuestions = @ \ {q}]
      n1 == [without EXCEPT !.q = UpdateQuestionDuplicates(without, q)]
      mine == {r \in Cached(n) : n.rr[r].CRActiveQuestion = q}
      heirless == {r \in mine : NewActiveQuestion(n1, r) = Nobody}
  IN  [n1 EXCEPT
        !.q[q] = NoQuestion,
        !.rr = [r \in CacheRecords |->
                  IF r \in mine THEN [@[r] EXCEPT !.CRActiveQuestion = NewActiveQuestion(n1, r)]
                  ELSE @[r]],
        !.rrcache_active = @ - Cardinality(heirless),
        !.calls = @ + 1]

(* What a client may do, at any time or in a callback, with the core at n  *)
(* and the walk at question c: the new core and where the walk is then.    *)
Client(n, c) ==
  {<<n, c>>} \cup
  IF n.calls = MaxClientCalls THEN {} ELSE
  {<<mDNS_StartQuery(n, q), c>> : q \in Questions \ Asked(n)} \cup
  {<<mDNS_StopQuery(n, q), IF q = c THEN NextQuestion(n, q) ELSE c>> : q \in Asked(n)}

-----------------------------------------------------------------------------
(* AnswerCurrentQuestionWithResourceRecord: what it does before the        *)
(* callback, for an add and a remove.                                      *)

AddAnswer(n, q, r) ==
  LET takes == n.q[q].DuplicateOf = Nobody /\ n.rr[r].CRActiveQuestion # q
      n1 == IF ~takes THEN n
            ELSE [n EXCEPT !.rr[r].CRActiveQuestion = q,
                           !.rrcache_active = IF n.rr[r].CRActiveQuestion = Nobody THEN @ + 1 ELSE @]
  IN  IF n.rr[r].DelayDelivery # {} THEN n1
      ELSE [n1 EXCEPT !.q[q].told[r] = @ + 1]

RemoveAnswer(n, q, r) ==
  LET n1 == [n EXCEPT !.q[q].CurrentAnswers = IF @ = 0 THEN 0 ELSE @ - 1]
  IN  IF n.rr[r].DelayDelivery # {} THEN n1
      ELSE [n1 EXCEPT !.q[q].told[r] = @ - 1]

Told(n, q, r) ==
  CASE walk.what = "add" -> AddAnswer(n, q, r)
    [] walk.what = "remove" -> RemoveAnswer(n, q, r)
    [] walk.what = "add uncached" -> n

(* Mutant: the walk goes on with what was the next question before the     *)
(* callback, which the client may have stopped.                            *)
After_Stale(n, q, c) == IF NextQuestion(m, q) \in Asked(n) \cup {Nobody} THEN NextQuestion(m, q) ELSE q

(* Where a walk goes on that stood on q before the callback, and stands on *)
(* c after it.                                                             *)
After(n, q, c) == IF c = q THEN NextQuestion(n, q) ELSE c

(* One question of CacheRecordAdd, CacheRecordDeferredAdd, CacheRecordRmv  *)
(* and NoCacheAnswer; only the last goes on to the new questions.          *)
WalkOn(n, c) ==
  LET e == IF walk.what = "add uncached" THEN c ELSE IF c = Nobody THEN c ELSE OldQuestion(n, c)
  IN  walk' = IF e = Nobody THEN Idle ELSE [walk EXCEPT !.CurrentQuestion = e]

Step ==
  /\ walk.what \in {"add", "remove", "add uncached"}
  /\ LET q == walk.CurrentQuestion
         r == walk.rr
     IN  IF ~AnswersQuestion(r, q)
         THEN m' = m /\ WalkOn(m, NextQuestion(m, q))
         ELSE \E x \in Client(Told(m, q, r), q) :
                m' = x[1] /\ WalkOn(x[1], After(x[1], q, x[2]))
  /\ UNCHANGED <<response, packets>>

Begin(what, n, r) ==
  LET c == IF n.Questions = <<>> THEN Nobody
           ELSE IF what = "add uncached" THEN n.Questions[1] ELSE OldQuestion(n, n.Questions[1])
  IN  walk' = IF c = Nobody THEN Idle
              ELSE [what |-> what, rr |-> r, CurrentQuestion |-> c]

-----------------------------------------------------------------------------
(* AnswerNewQuestion, after its CheckCacheExpiration.                      *)
AnswerNewQuestion ==
  LET q == First(m, m.NewQuestions) IN
  /\ walk = Idle /\ response = NoResponse
  /\ m.NewQuestions # {}
  /\ m.q[q].DelayAnswering \cap CheckForSoonToExpireRecords(m) = {}
  /\ \A r \in Cached(m) : m.rr[r].life > 0
  /\ m' = [m EXCEPT !.NewQuestions = @ \ {q}, !.q[q].DelayAnswering = {}]
  /\ walk' = [what |-> "answer", q |-> q, CurrentQuestion |-> q,
              todo |-> {r \in Cached(m) : AnswersQuestion(r, q)}]
  /\ UNCHANGED <<response, packets>>

AnswerStep ==
  /\ walk.what = "answer"
  /\ \/ /\ walk.todo = {} \/ walk.CurrentQuestion # walk.q
        /\ walk' = Idle
        /\ UNCHANGED m
     \/ /\ walk.CurrentQuestion = walk.q
        /\ \E r \in walk.todo :
             \E x \in Client(AddAnswer([m EXCEPT !.q[walk.q].CurrentAnswers = @ + 1], walk.q, r), walk.q) :
               /\ m' = x[1]
               /\ walk' = [walk EXCEPT !.todo = @ \ {r}, !.CurrentQuestion = x[2]]
  /\ UNCHANGED <<response, packets>>

-----------------------------------------------------------------------------
(* CheckCacheExpiration, for one record.                                   *)
Expire(r) ==
  /\ walk = Idle /\ response = NoResponse
  /\ m.rr[r].cached /\ m.rr[r].life = 0
  /\ LET active == m.rr[r].CRActiveQuestion # Nobody
         n == [m EXCEPT !.rr[r] = [NoCacheRecord EXCEPT !.DelayDelivery = m.rr[r].DelayDelivery],
                        !.rrcache_active = IF active THEN @ - 1 ELSE @]
     IN  /\ m' = n
         /\ IF active THEN Begin("remove", n, r) ELSE walk' = Idle
  /\ UNCHANGED <<response, packets>>

(* The records that a new one, r, has to wait for are gone, or refreshed.  *)
CacheRecordDeferredAdd(r) ==
  /\ walk = Idle /\ response = NoResponse
  /\ m.rr[r].cached /\ m.rr[r].life > 0 /\ m.rr[r].DelayDelivery # {}
  /\ m.rr[r].DelayDelivery \cap CheckForSoonToExpireRecords(m) = {}
  /\ LET n == [m EXCEPT !.rr[r].DelayDelivery = {}]
     IN  m' = n /\ Begin("add", n, r)
  /\ UNCHANGED <<response, packets>>

Refreshed(a) == [a EXCEPT !.life = Fresh, !.UnansweredQueries = 0]
Ended(a) == [a EXCEPT !.life = 0]
Dying(a) == [a EXCEPT !.life = 1, !.UnansweredQueries = MaxUnansweredQueries]

(* A query is due for a record that a question refers to.                  *)
Due(n, r) ==
  /\ n.rr[r].cached /\ n.rr[r].CRActiveQuestion # Nobody
  /\ n.rr[r].UnansweredQueries < MaxUnansweredQueries
  /\ n.rr[r].life <= MaxUnansweredQueries + 1 - n.rr[r].UnansweredQueries

Queried(a) == [a EXCEPT !.UnansweredQueries = IF @ < MaxUnansweredQueries THEN @ + 1 ELSE @]

(* BuildQuestion: a query counts for every record that answers it and is   *)
(* not listed in it as a known answer; none is that is unique, or whose    *)
(* life is half over.                                                      *)
BuildQuestions(n, sent, known) ==
  LET counts == {r \in Cached(n) \ known : \E q \in sent : AnswersQuestion(r, q)}
  IN  [n EXCEPT !.rr = [r \in CacheRecords |-> IF r \in counts THEN Queried(@[r]) ELSE @[r]]]

(* Questions are sent when a record is due, and by a schedule of their own.*)
SendQueries ==
  /\ walk = Idle /\ response = NoResponse
  /\ \E scheduled \in SUBSET {q \in Questions : ActiveQuestion(m, q) /\ q \notin m.NewQuestions} :
     \E known \in SUBSET {r \in Cached(m) \ UniqueRecords : m.rr[r].life > MaxUnansweredQueries + 1} :
       LET sent == scheduled \cup {m.rr[r].CRActiveQuestion : r \in {s \in CacheRecords : Due(m, s)}}
       IN  sent # {} /\ m' = BuildQuestions(m, sent, known)
  /\ UNCHANGED <<walk, response, packets>>

(* Time passes for a record; the daemon is quicker, and so is the last     *)
(* second of what a delivery waits for.                                    *)
Age(r) ==
  /\ walk = Idle /\ response = NoResponse
  /\ m.rr[r].cached /\ m.rr[r].life > 0 /\ ~Due(m, r)
  /\ m.rr[r].life = Fresh \/ m.rr[r].DelayDelivery = {}
  /\ m' = [m EXCEPT !.rr[r].life = @ - 1]
  /\ UNCHANGED <<walk, response, packets>>

-----------------------------------------------------------------------------
(* mDNSCoreReceiveResponse.                                                *)

Receive(answers, goodbyes) ==
  /\ walk = Idle /\ response = NoResponse
  /\ packets < MaxPackets
  /\ answers \cup goodbyes # {} /\ answers \cap goodbyes = {}
  /\ response' = [answers |-> answers, goodbyes |-> goodbyes, todo |-> answers \cup goodbyes,
                  CacheFlushRecords |-> {}, flushing |-> FALSE]
  /\ packets' = packets + 1
  /\ UNCHANGED <<m, walk>>

(* CacheRecordAdd counts the new answer at once, also when its delivery    *)
(* has to wait.                                                            *)
OneMore(a) == [a EXCEPT !.CurrentAnswers = @ + 1]
Created(n, r) ==
  LET delay == IF r \in UniqueRecords THEN {r} ELSE CheckForSoonToExpireRecords(n)
      counting == {q \in Asked(n) \ n.NewQuestions : AnswersQuestion(r, q)}
  IN  [n EXCEPT !.rr[r] = [NoCacheRecord EXCEPT !.cached = TRUE, !.life = Fresh, !.DelayDelivery = delay],
                !.q = [q \in Questions |->
                         IF q \in counting THEN OneMore(@[q]) ELSE @[q]]]

(* GetCacheEntity: when the cache is full, every record that no question   *)
(* refers to goes.                                                         *)
Recycled(n, kept) ==
  IF Cardinality(Cached(n)) < rrcache_size THEN n
  ELSE [n EXCEPT !.rr = [r \in CacheRecords |->
          IF @[r].CRActiveQuestion = Nobody /\ r \notin kept THEN NoCacheRecord ELSE @[r]]]

ReceiveRecord(r) ==
  LET done == [response EXCEPT !.todo = @ \ {r},
                 !.CacheFlushRecords = IF r \in UniqueRecords /\ m'.rr[r].cached
                                       THEN @ \cup {r} ELSE @]
      n == Recycled(m, response.CacheFlushRecords)
      full == Cardinality(Cached(n)) >= rrcache_size
  IN
  /\ walk = Idle /\ r \in response.todo
  /\ \/ /\ m.rr[r].cached /\ r \in response.answers
        /\ m' = [m EXCEPT !.rr[r] = Refreshed(@)]
        /\ walk' = Idle
     \/ /\ m.rr[r].cached /\ r \in response.goodbyes
        /\ m' = [m EXCEPT !.rr[r] = IF @.life > 1 THEN Dying(@) ELSE @]
        /\ walk' = Idle
     \/ /\ ~m.rr[r].cached /\ r \in response.goodbyes
        /\ UNCHANGED <<m, walk>>
     \/ /\ ~m.rr[r].cached /\ r \in response.answers /\ ~full
        /\ m' = Created(n, r)
        /\ IF m'.rr[r].DelayDelivery = {} THEN Begin("add", m', r) ELSE walk' = Idle
     \/ /\ ~m.rr[r].cached /\ r \in response.answers /\ full
        /\ m' = n
        /\ Begin("add uncached", n, r)
  /\ response' = done
  /\ UNCHANGED packets

(* The records of the set that did not come with the response, and not     *)
(* within the last second, have one second left; those of which it said    *)
(* goodbye, and those that came with them, none.                           *)
Flush ==
  LET rest == Cached(m) \ {r \in Cached(m) : m.rr[r].life = Fresh}
      ended == {r \in rest \cap response.goodbyes : m.rr[r].UnansweredQueries = MaxUnansweredQueries}
  IN
  /\ walk = Idle /\ response # NoResponse /\ response.todo = {} /\ ~response.flushing
  /\ IF response.CacheFlushRecords = {} THEN response' = NoResponse /\ UNCHANGED m
     ELSE /\ m' = [m EXCEPT !.rr = [r \in CacheRecords |->
                     IF r \in ended THEN Ended(@[r])
                     ELSE IF r \in rest /\ @[r].life > 1 THEN Dying(@[r]) ELSE @[r]]]
          /\ response' = [response EXCEPT !.flushing = TRUE]
  /\ UNCHANGED <<walk, packets>>

(* The delay of what came with the cache-flush bit is known now.           *)
FlushRecord ==
  /\ walk = Idle /\ response.flushing
  /\ \E r \in response.CacheFlushRecords :
       LET soon == CheckForSoonToExpireRecords(m)
           rest == response.CacheFlushRecords \ {r}
           n == [m EXCEPT !.rr[r].DelayDelivery = IF @ = {} THEN {} ELSE soon]
       IN  /\ m' = n
           /\ IF m.rr[r].DelayDelivery # {} /\ soon = {} THEN Begin("add", n, r) ELSE walk' = Idle
           /\ response' = IF rest = {} THEN NoResponse
                          ELSE [response EXCEPT !.CacheFlushRecords = rest]
  /\ UNCHANGED packets

-----------------------------------------------------------------------------
ClientCall ==
  /\ walk = Idle /\ response = NoResponse
  /\ \E x \in Client(m, Nobody) : m' = x[1] /\ m' # m
  /\ UNCHANGED <<walk, response, packets>>

CacheNext ==
  \/ ClientCall \/ Step \/ AnswerNewQuestion \/ AnswerStep \/ SendQueries
  \/ \E r \in CacheRecords : Expire(r) \/ CacheRecordDeferredAdd(r) \/ Age(r) \/ ReceiveRecord(r)
  \/ \E answers, goodbyes \in SUBSET CacheRecords : Receive(answers, goodbyes)
  \/ Flush \/ FlushRecord

CacheSpec == CacheInit /\ [][CacheNext]_cacheVars

-----------------------------------------------------------------------------
AtRest == walk = Idle /\ response = NoResponse
Answered == Asked(m) \ m.NewQuestions

(* What the clients were told is what the cache holds: between packets and *)
(* callbacks, a client whose question has been answered has been given     *)
(* each answer in the cache whose delivery does not wait, and no other,    *)
(* whatever clients do in their callbacks.  The type says that none was    *)
(* ever given twice, or taken back before it was given.                    *)
ClientsSeeTheCache ==
  AtRest => \A q \in Answered :
    {r \in CacheRecords : m.q[q].told[r] = 1} =
      {r \in Cached(m) : AnswersQuestion(r, q) /\ m.rr[r].DelayDelivery = {}}

(* CurrentAnswers is the number of records in the cache that answer.  Not  *)
(* kept: one that a full cache gives up before it was delivered is still   *)
(* counted.                                                                *)
AnswersAreCounted ==
  AtRest => \A q \in Answered :
    m.q[q].CurrentAnswers = Cardinality({r \in Cached(m) : AnswersQuestion(r, q)})

(* A record that somebody was given is kept alive by an active question,   *)
(* which will send the queries to refresh it; and no record refers to a    *)
(* question that has been stopped or that waits for another's answers.     *)
AnswersAreKeptAlive ==
  /\ \A r \in Cached(m) : m.rr[r].CRActiveQuestion # Nobody =>
       ActiveQuestion(m, m.rr[r].CRActiveQuestion)
         /\ AnswersQuestion(r, m.rr[r].CRActiveQuestion)
  /\ AtRest => \A q \in Answered : \A r \in CacheRecords :
       m.q[q].told[r] = 1 => m.rr[r].CRActiveQuestion # Nobody

(* rrcache_active counts the records in use: it decides when the cache is  *)
(* grown.                                                                  *)
ActiveIsCounted ==
  m.rrcache_active = Cardinality({r \in Cached(m) : m.rr[r].CRActiveQuestion # Nobody})

(* "Can never point to a NewQuestion" (mDNSEmbeddedAPI.h:1331).  Not kept:  *)
(* a duplicate that is new still takes over what its original is stopped   *)
(* with.                                                                   *)
NeverNewQuestion ==
  \A r \in Cached(m) : m.rr[r].CRActiveQuestion \notin m.NewQuestions
=============================================================================

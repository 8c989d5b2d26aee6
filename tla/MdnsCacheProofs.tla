-------------------------- MODULE MdnsCacheProofs --------------------------
(* Proofs about MdnsCache: that what the clients were told is what the      *)
(* cache holds, whatever they do in their callbacks, and that what they     *)
(* were told is kept alive.                                                 *)
EXTENDS MdnsCache, SequenceTheorems, WellFoundedInduction, TLAPS

---------------------------------------------------------------------------
(* The invariant.                                                           *)

NoDuplicates(list) == \A i, j \in DOMAIN list : list[i] = list[j] => i = j
Pos(list, q) == CHOOSE i \in DOMAIN list : list[i] = q

(* Question p is where a walk that stands on c will still come.             *)
Ahead(list, c, p) == c # Nobody /\ Pos(list, c) <= Pos(list, p)

Old(n) == Asked(n) \ n.NewQuestions

CoreType(n) ==
  /\ DOMAIN n = {"Questions", "NewQuestions", "q", "rr", "rrcache_active", "calls"}
  /\ n.Questions \in Seq(Questions) /\ NoDuplicates(n.Questions)
  /\ n.NewQuestions \subseteq Asked(n)
  /\ n.q \in [Questions -> DNSQuestion]
  /\ n.rr \in [CacheRecords -> CacheRecord]

(* The questions not answered yet are at the end of the list.               *)
NewComeLast(n) ==
  \A p, q \in Asked(n) : p \in n.NewQuestions /\ Pos(n.Questions, p) <= Pos(n.Questions, q) => q \in n.NewQuestions

(* A duplicate comes after the active question that asks the same.          *)
OriginalOf(n, d, p) ==
  /\ d \in Asked(n) /\ Pos(n.Questions, d) < Pos(n.Questions, p)
  /\ n.q[d].DuplicateOf = Nobody /\ KindOf[d] = KindOf[p]
OriginalsComeFirst(n) ==
  \A p \in Asked(n) : n.q[p].DuplicateOf # Nobody => OriginalOf(n, n.q[p].DuplicateOf, p)

(* Who has not been answered has been told nothing.                         *)
NewAreQuiet(n) == \A q \in Questions \ Old(n) : \A r \in CacheRecords : n.q[q].told[r] = 0

KeptBy(n, r, q) == ActiveQuestion(n, q) /\ AnswersQuestion(r, q)
KeptAlive(n) ==
  /\ \A r \in Cached(n) : n.rr[r].CRActiveQuestion # Nobody => KeptBy(n, r, n.rr[r].CRActiveQuestion)
  /\ \A q \in Old(n), r \in Cached(n) : n.q[q].told[r] = 1 =>
       AnswersQuestion(r, q) /\ n.rr[r].CRActiveQuestion # Nobody

CoreInv(n) == CoreType(n) /\ NewComeLast(n) /\ OriginalsComeFirst(n) /\ NewAreQuiet(n) /\ KeptAlive(n)

(* What a client has been told, of the records a walk is about up to where  *)
(* the walk is, and of all the others.                                      *)
Given(n, q, r) == IF n.rr[r].cached /\ AnswersQuestion(r, q) /\ n.rr[r].DelayDelivery = {} THEN 1 ELSE 0
Meant(n, what, rr, c, q, r) ==
  IF what = "add" /\ r = rr /\ Ahead(n.Questions, c, q) THEN 0
  ELSE IF /\ what = "remove" /\ r = rr
          /\ AnswersQuestion(r, q) /\ n.rr[r].DelayDelivery = {} /\ Ahead(n.Questions, c, q) THEN 1
  ELSE Given(n, q, r)
Expected(n, w, q, r) ==
  IF w.what = "answer" THEN IF q = w.q /\ r \in w.todo THEN 0 ELSE Given(n, q, r)
  ELSE IF w.what = "idle" THEN Given(n, q, r)
  ELSE Meant(n, w.what, w.rr, w.CurrentQuestion, q, r)
ToldAsExpected(n, w) == \A q \in Old(n), r \in CacheRecords : n.q[q].told[r] = Expected(n, w, q, r)

WalkOK(n, w) ==
  /\ w \in Walks
  /\ w.what = "add" =>
       w.CurrentQuestion \in Old(n) /\ n.rr[w.rr].cached /\ n.rr[w.rr].DelayDelivery = {}
  /\ w.what = "remove" => w.CurrentQuestion \in Old(n) /\ ~n.rr[w.rr].cached
  /\ w.what = "add uncached" => w.CurrentQuestion \in Asked(n)
  /\ w.what = "answer" =>
       /\ \A r \in w.todo : n.rr[r].cached /\ AnswersQuestion(r, w.q)
       /\ IF w.CurrentQuestion = w.q THEN w.q \in Old(n) ELSE w.q \notin Asked(n)

ResponseOK(n, s) == s \in Responses /\ s.CacheFlushRecords \subseteq Cached(n)

CacheInv == CoreInv(m) /\ WalkOK(m, walk) /\ ToldAsExpected(m, walk) /\ ResponseOK(m, response)

---------------------------------------------------------------------------
(* The list.                                                                *)

LEMMA PosFields ==
  ASSUME NEW list \in Seq(Questions), NoDuplicates(list)
  PROVE /\ \A p \in Range(list) : Pos(list, p) \in DOMAIN list /\ list[Pos(list, p)] = p
        /\ \A i \in DOMAIN list : Pos(list, list[i]) = i /\ list[i] \in Range(list)
        /\ Range(list) \subseteq Questions
<1>1. \A p \in Range(list) : \E i \in DOMAIN list : list[i] = p
  BY DEF Range
<1>2. \A p \in Range(list) : Pos(list, p) \in DOMAIN list /\ list[Pos(list, p)] = p
  BY <1>1 DEF Pos
<1>3. \A i \in DOMAIN list : list[i] \in Range(list)
  BY DEF Range
<1>4. \A i \in DOMAIN list : Pos(list, list[i]) = i
  BY <1>2, <1>3 DEF NoDuplicates
<1>5. Range(list) \subseteq Questions
  BY DEF Range
<1> QED
  BY <1>2, <1>3, <1>4, <1>5

LEMMA PosNumbers ==
  ASSUME NEW list \in Seq(Questions), NoDuplicates(list), NEW p \in Range(list)
  PROVE Pos(list, p) \in 1 .. Len(list) /\ Len(list) \in Nat /\ Pos(list, p) \in Nat
<1>1. DOMAIN list = 1 .. Len(list) /\ Len(list) \in Nat
  OBVIOUS
<1> QED
  BY <1>1, PosFields

LEMMA PosDiffer ==
  ASSUME NEW list \in Seq(Questions), NoDuplicates(list), NEW p \in Range(list), NEW q \in Range(list), p # q
  PROVE Pos(list, p) # Pos(list, q)
  BY PosFields

LEMMA AppendPos ==
  ASSUME NEW list \in Seq(Questions), NoDuplicates(list), NEW q \in Questions, q \notin Range(list)
  PROVE LET new == Append(list, q)
        IN  /\ new \in Seq(Questions) /\ NoDuplicates(new)
            /\ Range(new) = Range(list) \cup {q}
            /\ \A p \in Range(list) : Pos(new, p) = Pos(list, p) /\ Pos(new, p) < Pos(new, q)
<1> DEFINE new == Append(list, q)
<1>1. new \in Seq(Questions) /\ new[Len(list) + 1] = q /\ \A i \in 1 .. Len(list) : new[i] = list[i]
  OBVIOUS
<1>2. DOMAIN list = 1 .. Len(list) /\ DOMAIN new = 1 .. Len(list) + 1 /\ Len(list) \in Nat
  OBVIOUS
<1> HIDE DEF new
<1>3. \A i \in 1 .. Len(list) : new[i] # q
  BY <1>1, <1>2 DEF Range
<1>4. NoDuplicates(new)
  <2> SUFFICES ASSUME NEW i \in DOMAIN new, NEW j \in DOMAIN new, new[i] = new[j] PROVE i = j
    BY DEF NoDuplicates
  <2>1. CASE i \in 1 .. Len(list) /\ j \in 1 .. Len(list)
    BY <1>1, <1>2, <2>1 DEF NoDuplicates
  <2>2. CASE i = Len(list) + 1 \/ j = Len(list) + 1
    BY <1>1, <1>2, <1>3, <2>2
  <2> QED
    BY <1>2, <2>1, <2>2
<1>5. Range(new) = Range(list) \cup {q}
  BY <1>1, <1>2 DEF Range
<1>6. Pos(new, q) = Len(list) + 1
  BY <1>1, <1>2, <1>4, PosFields
<1>7. ASSUME NEW p \in Range(list) PROVE Pos(new, p) = Pos(list, p) /\ Pos(new, p) < Pos(new, q)
  <2>1. Pos(list, p) \in 1 .. Len(list) /\ list[Pos(list, p)] = p
    BY <1>2, PosFields
  <2>2. new[Pos(list, p)] = p /\ Pos(list, p) \in DOMAIN new
    BY <1>1, <1>2, <2>1
  <2>3. Pos(new, p) = Pos(list, p)
    BY <1>1, <1>4, <2>2, PosFields
  <2> QED
    BY <1>2, <1>6, <2>1, <2>3
<1> QED
  BY <1>1, <1>4, <1>5, <1>7 DEF new

LEMMA RemovePos ==
  ASSUME NEW list \in Seq(Questions), NoDuplicates(list), NEW q \in Range(list)
  PROVE LET new == RemoveAt(list, Pos(list, q))
        IN  /\ new \in Seq(Questions) /\ NoDuplicates(new)
            /\ Range(new) = Range(list) \ {q}
            /\ \A p, r \in Range(new) : Pos(new, p) <= Pos(new, r) <=> Pos(list, p) <= Pos(list, r)
<1> DEFINE new == RemoveAt(list, Pos(list, q))
           k == Pos(list, q)
           n == Len(list)
<1>1. n \in Nat /\ DOMAIN list = 1 .. n /\ k \in 1 .. n /\ list[k] = q
  BY PosFields
<1> DEFINE left == SubSeq(list, 1, k - 1)
           right == SubSeq(list, k + 1, n)
<1>2. new = left \o right
  BY DEF RemoveAt
<1> HIDE DEF k, n, new
<1>3. /\ left \in Seq(Questions) /\ Len(left) = k - 1 /\ \A i \in 1 .. k - 1 : left[i] = list[i]
  <2>1. 1 \in Int /\ k - 1 \in Int /\ \A i \in 1 .. k - 1 : list[i] \in Questions
    BY <1>1
  <2> QED
    BY <1>1, <2>1, SubSeqProperties
<1>4. /\ right \in Seq(Questions) /\ Len(right) = n - k /\ \A i \in 1 .. n - k : right[i] = list[k + i]
  <2>1. k + 1 \in Int /\ n \in Int /\ \A i \in k + 1 .. n : list[i] \in Questions
    BY <1>1
  <2>2. /\ right \in Seq(Questions)
        /\ Len(right) = IF k + 1 <= n THEN n - (k + 1) + 1 ELSE 0
        /\ \A i \in 1 .. n - (k + 1) + 1 : right[i] = list[k + 1 + i - 1]
    BY <2>1, SubSeqProperties
  <2> HIDE DEF right
  <2> QED
    BY <1>1, <2>2
<1> HIDE DEF left, right
<1>5. new \in Seq(Questions) /\ Len(new) = n - 1 /\ DOMAIN new = 1 .. n - 1
  <2>1. Len(left) + Len(right) = n - 1
    BY <1>1, <1>3, <1>4
  <2>2. new \in Seq(Questions) /\ Len(new) = Len(left) + Len(right)
    BY <1>2, <1>3, <1>4, ConcatProperties
  <2> QED
    BY <2>1, <2>2
<1> DEFINE From(i) == IF i < k THEN i ELSE i + 1
<1>6. \A i \in 1 .. n - 1 : new[i] = list[From(i)] /\ From(i) \in 1 .. n /\ From(i) # k
  <2> SUFFICES ASSUME NEW i \in 1 .. n - 1
               PROVE new[i] = list[From(i)] /\ From(i) \in 1 .. n /\ From(i) # k
    OBVIOUS
  <2>1. CASE i < k
    <3>1. new[i] = left[i]
      BY <1>1, <1>2, <1>3, <1>4, <2>1
    <3> QED
      BY <1>1, <1>3, <2>1, <3>1
  <2>2. CASE i >= k
    <3>1. new[i] = right[i - (k - 1)] /\ i - (k - 1) \in 1 .. n - k
      BY <1>1, <1>2, <1>3, <1>4, <2>2
    <3>2. right[i - (k - 1)] = list[k + (i - (k - 1))] /\ k + (i - (k - 1)) = i + 1
      BY <1>1, <1>4, <3>1
    <3> QED
      BY <1>1, <2>2, <3>1, <3>2
  <2> QED
    BY <1>1, <2>1, <2>2
<1>7. \A i, j \in 1 .. n - 1 : (From(i) <= From(j) <=> i <= j) /\ (From(i) = From(j) => i = j)
  BY <1>1
<1>8. \A i \in 1 .. n : i # k => \E j \in 1 .. n - 1 : From(j) = i
  <2> SUFFICES ASSUME NEW i \in 1 .. n, i # k PROVE \E j \in 1 .. n - 1 : From(j) = i
    OBVIOUS
  <2>1. CASE i < k
    BY <1>1, <2>1
  <2>2. CASE i > k
    <3>1. i - 1 \in 1 .. n - 1 /\ From(i - 1) = i
      BY <1>1, <2>2
    <3> QED
      BY <3>1
  <2> QED
    BY <1>1, <2>1, <2>2
<1> HIDE DEF From
<1>9. NoDuplicates(new)
  BY <1>1, <1>5, <1>6, <1>7 DEF NoDuplicates
<1>10. Range(new) = Range(list) \ {q}
  <2>1. ASSUME NEW i \in DOMAIN new PROVE new[i] \in Range(list) \ {q}
    BY <1>1, <1>5, <1>6 DEF NoDuplicates, Range
  <2>2. ASSUME NEW i \in DOMAIN list, list[i] # q PROVE \E j \in DOMAIN new : new[j] = list[i]
    BY <1>1, <1>5, <1>6, <1>8, <2>2
  <2> QED
    BY <2>1, <2>2 DEF Range
<1>11. ASSUME NEW p \in Range(new) PROVE Pos(list, p) = From(Pos(new, p)) /\ Pos(new, p) \in 1 .. n - 1
  <2>1. Pos(new, p) \in 1 .. n - 1 /\ new[Pos(new, p)] = p
    BY <1>5, <1>9, PosFields
  <2>2. list[From(Pos(new, p))] = p /\ From(Pos(new, p)) \in DOMAIN list
    BY <1>1, <1>6, <2>1
  <2> QED
    BY <2>1, <2>2, PosFields
<1>12. \A p, r \in Range(new) : Pos(new, p) <= Pos(new, r) <=> Pos(list, p) <= Pos(list, r)
  BY <1>7, <1>11
<1> QED
  BY <1>5, <1>9, <1>10, <1>12 DEF new, k

LEMMA LeastExists ==
  ASSUME NEW T, T \subseteq Nat, T # {} PROVE \E x \in T : \A y \in T : x <= y
<1>1. PICK x \in T : \A y \in T : ~(<<y, x>> \in OpToRel(<, Nat))
  BY NatLessThanWellFounded, WFMin
<1>2. \A y \in T : ~(y < x)
  BY <1>1 DEF OpToRel
<1> QED
  BY <1>2

LEMMA FirstFields ==
  ASSUME NEW n, n.Questions \in Seq(Questions), NoDuplicates(n.Questions), NEW some
  PROVE LET f == First(n, some)
        IN  /\ f = Nobody <=> Asked(n) \cap some = {}
            /\ f # Nobody => /\ f \in Asked(n) \cap some
                             /\ \A p \in Asked(n) \cap some : Pos(n.Questions, f) <= Pos(n.Questions, p)
<1> DEFINE list == n.Questions
           found == {i \in DOMAIN list : list[i] \in some}
           f == First(n, some)
<1>1. DOMAIN list = 1 .. Len(list) /\ Len(list) \in Nat
  OBVIOUS
<1>2. Nobody \notin Questions
  BY CacheAssumption
<1>3. CASE found = {}
  <2>1. f = Nobody
    BY <1>3 DEF First
  <2>2. Asked(n) \cap some = {}
    BY <1>3 DEF Asked, Range
  <2> QED
    BY <2>1, <2>2
<1>4. CASE found # {}
  <2> DEFINE k == CHOOSE i \in found : \A j \in found : i <= j
  <2>1. f = list[k]
    BY <1>4 DEF First
  <2>2. found \subseteq Nat
    BY <1>1
  <2>3. \E i \in found : \A j \in found : i <= j
    BY <1>4, <2>2, LeastExists
  <2>4. k \in found /\ \A j \in found : k <= j
    BY <2>3
  <2> HIDE DEF k
  <2>5. f \in Asked(n) /\ f \in some /\ Pos(list, f) = k /\ f \in Questions
    BY <2>1, <2>4, PosFields DEF Asked
  <2>6. ASSUME NEW p \in Asked(n) \cap some PROVE Pos(list, f) <= Pos(list, p)
    <3>1. Pos(list, p) \in DOMAIN list /\ list[Pos(list, p)] = p
      BY PosFields DEF Asked
    <3> QED
      BY <2>4, <2>5, <3>1
  <2> QED
    BY <1>2, <2>5, <2>6
<1> QED
  BY <1>3, <1>4

---------------------------------------------------------------------------
(* What clients do.                                                         *)

LEMMA NobodyAsks == Nobody \notin Questions
  BY CacheAssumption

LEMMA CoreFields ==
  ASSUME NEW n, CoreType(n)
  PROVE /\ n.Questions \in Seq(Questions) /\ NoDuplicates(n.Questions)
        /\ Asked(n) = Range(n.Questions) /\ Asked(n) \subseteq Questions
        /\ n.NewQuestions \subseteq Asked(n) /\ Old(n) \subseteq Asked(n)
        /\ \A q \in Questions : n.q[q] \in DNSQuestion
        /\ \A r \in CacheRecords : n.rr[r] \in CacheRecord
  BY PosFields DEF CoreType, Asked, Old

LEMMA NoQuestionFields ==
  ASSUME NEW d \in Questions \cup {Nobody}, NEW soon \in SUBSET CacheRecords
  PROVE LET t == [NoQuestion EXCEPT !.DuplicateOf = d, !.DelayAnswering = soon]
        IN  /\ t \in DNSQuestion /\ NoQuestion \in DNSQuestion
            /\ t.DuplicateOf = d /\ \A r \in CacheRecords : t.told[r] = 0
            /\ \A r \in CacheRecords : NoQuestion.told[r] = 0
<1> DEFINE nothing == [r \in CacheRecords |-> 0]
           t == [NoQuestion EXCEPT !.DuplicateOf = d, !.DelayAnswering = soon]
<1>1. nothing \in [CacheRecords -> 0 .. 1] /\ \A r \in CacheRecords : nothing[r] = 0
  OBVIOUS
<1>2. NoQuestion = [DuplicateOf |-> Nobody, CurrentAnswers |-> 0, DelayAnswering |-> {}, told |-> nothing]
  BY DEF NoQuestion
<1> HIDE DEF nothing
<1>3. NoQuestion \in DNSQuestion /\ NoQuestion.told = nothing
  BY <1>1, <1>2 DEF DNSQuestion
<1>4. t \in DNSQuestion /\ t.told = NoQuestion.told /\ t.DuplicateOf = d
  BY <1>3 DEF DNSQuestion
<1> QED
  BY <1>1, <1>3, <1>4

LEMMA StartFields ==
  ASSUME NEW n, CoreInv(n), NEW q \in Questions, q \notin Asked(n)
  PROVE LET x == mDNS_StartQuery(n, q)
        IN  /\ CoreInv(x) /\ Old(x) = Old(n) /\ Asked(x) = Asked(n) \cup {q}
            /\ \A p \in Asked(n) : Pos(x.Questions, p) = Pos(n.Questions, p)
            /\ \A p \in Questions : p # q => x.q[p] = n.q[p]
            /\ x.rr = n.rr
<1> DEFINE x == mDNS_StartQuery(n, q)
           d == FindDuplicateQuestion(n, q)
           soon == CheckForSoonToExpireRecords(n)
           fresh == [NoQuestion EXCEPT !.DuplicateOf = d, !.DelayAnswering = soon]
<1>0. CoreType(n) /\ NewComeLast(n) /\ OriginalsComeFirst(n) /\ NewAreQuiet(n) /\ KeptAlive(n)
  BY DEF CoreInv
<1>1. /\ DOMAIN x = DOMAIN n /\ x.Questions = Append(n.Questions, q) /\ x.NewQuestions = n.NewQuestions \cup {q}
      /\ x.q = [n.q EXCEPT ![q] = fresh] /\ x.rr = n.rr
  <2>1. x = [n EXCEPT !.Questions = Append(@, q), !.NewQuestions = @ \cup {q}, !.q[q] = fresh, !.calls = @ + 1]
    BY DEF mDNS_StartQuery
  <2> HIDE DEF x, fresh
  <2> QED
    BY <1>0, <2>1 DEF CoreType
<1>2. /\ n.Questions \in Seq(Questions) /\ NoDuplicates(n.Questions) /\ Asked(n) = Range(n.Questions)
      /\ Asked(n) \subseteq Questions /\ n.NewQuestions \subseteq Asked(n)
  BY <1>0, CoreFields
<1>3. /\ x.Questions \in Seq(Questions) /\ NoDuplicates(x.Questions) /\ Asked(x) = Asked(n) \cup {q}
      /\ \A p \in Asked(n) : /\ Pos(x.Questions, p) = Pos(n.Questions, p)
                             /\ Pos(x.Questions, p) < Pos(x.Questions, q)
  BY <1>1, <1>2, AppendPos DEF Asked
<1>4. /\ d \in Asked(n) \cup {Nobody}
      /\ d # Nobody => /\ KindOf[d] = KindOf[q]
                       /\ \A p \in Asked(n) : KindOf[p] = KindOf[q] => Pos(n.Questions, d) <= Pos(n.Questions, p)
  <2> DEFINE same == {p \in Questions : KindOf[p] = KindOf[q]}
  <2>1. d = First(n, same)
    BY DEF FindDuplicateQuestion
  <2>2. d # Nobody => d \in Asked(n) \cap same /\ \A p \in Asked(n) \cap same : Pos(n.Questions, d) <= Pos(n.Questions, p)
    BY <1>2, <2>1, FirstFields
  <2> HIDE DEF d
  <2> QED
    BY <1>2, <2>2
<1>5. soon \in SUBSET CacheRecords
  BY DEF CheckForSoonToExpireRecords, Cached
<1> HIDE DEF d, soon
<1>6. d \in Questions \cup {Nobody}
  BY <1>2, <1>4
<1>7. fresh \in DNSQuestion /\ fresh.DuplicateOf = d /\ \A r \in CacheRecords : fresh.told[r] = 0
  BY <1>5, <1>6, NoQuestionFields
<1> HIDE DEF fresh, x
<1>8. x.q[q] = fresh /\ \A p \in Questions : p # q => x.q[p] = n.q[p]
  BY <1>0, <1>1 DEF CoreType
<1>9. Old(x) = Old(n)
  BY <1>1, <1>2, <1>3 DEF Old
<1>10. CoreType(x)
  <2>1. x.q \in [Questions -> DNSQuestion]
    BY <1>0, <1>1, <1>7 DEF CoreType
  <2>2. x.rr \in [CacheRecords -> CacheRecord] /\ DOMAIN x = {"Questions", "NewQuestions", "q", "rr", "rrcache_active", "calls"}
    BY <1>0, <1>1 DEF CoreType
  <2>3. x.NewQuestions \subseteq Asked(x)
    BY <1>1, <1>2, <1>3
  <2> QED
    BY <1>3, <2>1, <2>2, <2>3 DEF CoreType
<1>11. NewComeLast(x)
  <2> SUFFICES ASSUME NEW p \in Asked(x), NEW p2 \in Asked(x), p \in x.NewQuestions,
                      Pos(x.Questions, p) <= Pos(x.Questions, p2)
               PROVE p2 \in x.NewQuestions
    BY DEF NewComeLast
  <2>1. CASE p2 = q
    BY <1>1, <2>1
  <2>2. CASE p2 # q
    <3>1. p2 \in Asked(n)
      BY <1>3, <2>2
    <3>2. CASE p = q
      <4>1. Pos(x.Questions, p2) < Pos(x.Questions, p) /\ Pos(x.Questions, p2) \in Nat /\ Pos(x.Questions, p) \in Nat
        BY <1>2, <1>3, <3>1, <3>2, PosNumbers DEF Asked
      <4> QED
        BY <4>1
    <3>3. CASE p # q
      BY <1>0, <1>1, <1>3, <3>1, <3>3 DEF NewComeLast
    <3> QED
      BY <3>2, <3>3
  <2> QED
    BY <2>1, <2>2
<1>12. OriginalsComeFirst(x)
  <2> SUFFICES ASSUME NEW p \in Asked(x), x.q[p].DuplicateOf # Nobody PROVE OriginalOf(x, x.q[p].DuplicateOf, p)
    BY DEF OriginalsComeFirst
  <2>1. CASE p = q
    <3>1. d \in Asked(n) /\ d # q /\ KindOf[d] = KindOf[q] /\ x.q[p].DuplicateOf = d /\ d \in Questions
      BY <1>2, <1>4, <1>7, <1>8, <2>1
    <3>2. n.q[d].DuplicateOf = Nobody
      <4> SUFFICES ASSUME n.q[d].DuplicateOf # Nobody PROVE FALSE
        OBVIOUS
      <4> DEFINE e == n.q[d].DuplicateOf
      <4>1. e \in Asked(n) /\ Pos(n.Questions, e) < Pos(n.Questions, d) /\ KindOf[e] = KindOf[d]
        BY <1>0, <3>1 DEF OriginalsComeFirst, OriginalOf
      <4>2. Pos(n.Questions, d) <= Pos(n.Questions, e)
        BY <1>4, <3>1, <4>1, NobodyAsks
      <4>3. Pos(n.Questions, d) \in Nat /\ Pos(n.Questions, e) \in Nat
        BY <1>2, <3>1, <4>1, PosNumbers
      <4> QED
        BY <4>1, <4>2, <4>3
    <3> QED
      BY <1>3, <1>8, <2>1, <3>1, <3>2 DEF OriginalOf
  <2>2. CASE p # q
    <3>1. p \in Asked(n) /\ x.q[p] = n.q[p] /\ n.q[p].DuplicateOf # Nobody
      BY <1>2, <1>3, <1>8, <2>2
    <3>2. OriginalOf(n, n.q[p].DuplicateOf, p)
      BY <1>0, <3>1 DEF OriginalsComeFirst
    <3> QED
      BY <1>2, <1>3, <1>8, <3>1, <3>2 DEF OriginalOf
  <2> QED
    BY <2>1, <2>2
<1>13. NewAreQuiet(x)
  BY <1>0, <1>7, <1>8, <1>9 DEF NewAreQuiet
<1>14. KeptAlive(x)
  <2>1. Cached(x) = Cached(n)
    BY <1>1 DEF Cached
  <2>2. ASSUME NEW r, NEW p, KeptBy(n, r, p) PROVE KeptBy(x, r, p)
    BY <1>2, <1>3, <1>8, <2>2 DEF KeptBy, ActiveQuestion
  <2>3. ASSUME NEW p \in Old(x) PROVE x.q[p] = n.q[p]
    BY <1>2, <1>8, <1>9 DEF Old
  <2> QED
    BY <1>0, <1>1, <1>9, <2>1, <2>2, <2>3 DEF KeptAlive
<1> QED
  BY <1>1, <1>3, <1>8, <1>9, <1>10, <1>11, <1>12, <1>13, <1>14 DEF CoreInv, x

(* A question taken off the list, and its duplicates without it.            *)
Without(n, q) == [n EXCEPT !.Questions = RemoveAt(@, Position(n, q)), !.NewQuestions = @ \ {q}]
Rid(n, q) == [Without(n, q) EXCEPT !.q = UpdateQuestionDuplicates(Without(n, q), q)]

LEMMA WithoutFields ==
  ASSUME NEW n, CoreType(n), NEW q \in Asked(n)
  PROVE LET x == Without(n, q)
        IN  /\ DOMAIN x = DOMAIN n /\ x.q = n.q /\ x.rr = n.rr
            /\ x.Questions \in Seq(Questions) /\ NoDuplicates(x.Questions)
            /\ Asked(x) = Asked(n) \ {q} /\ x.NewQuestions = n.NewQuestions \ {q}
            /\ \A p, r \in Asked(x) : /\ Pos(x.Questions, p) <= Pos(x.Questions, r)
                                           <=> Pos(n.Questions, p) <= Pos(n.Questions, r)
                                      /\ Pos(n.Questions, p) < Pos(n.Questions, r)
                                           => Pos(x.Questions, p) < Pos(x.Questions, r)
<1> DEFINE x == Without(n, q)
           list == RemoveAt(n.Questions, Pos(n.Questions, q))
<1>1. Position(n, q) = Pos(n.Questions, q)
  BY DEF Position, Pos
<1>2. x = [n EXCEPT !.Questions = RemoveAt(@, Position(n, q)), !.NewQuestions = @ \ {q}]
  BY DEF Without
<1> HIDE DEF x
<1>3. /\ DOMAIN x = DOMAIN n /\ x.q = n.q /\ x.rr = n.rr
      /\ x.Questions = list /\ x.NewQuestions = n.NewQuestions \ {q}
  BY <1>1, <1>2 DEF CoreType
<1>4. /\ n.Questions \in Seq(Questions) /\ NoDuplicates(n.Questions) /\ Asked(n) = Range(n.Questions)
  BY CoreFields
<1>5. /\ list \in Seq(Questions) /\ NoDuplicates(list) /\ Range(list) = Range(n.Questions) \ {q}
      /\ \A p, r \in Range(list) : Pos(list, p) <= Pos(list, r) <=> Pos(n.Questions, p) <= Pos(n.Questions, r)
  BY <1>4, RemovePos
<1> HIDE DEF list
<1>6. ASSUME NEW p \in Range(list), NEW r \in Range(list), Pos(n.Questions, p) < Pos(n.Questions, r)
      PROVE Pos(list, p) < Pos(list, r)
  <2>1. /\ Pos(list, p) \in Nat /\ Pos(list, r) \in Nat
        /\ Pos(n.Questions, p) \in Nat /\ Pos(n.Questions, r) \in Nat
    BY <1>4, <1>5, PosNumbers
  <2>2. ~(Pos(list, r) <= Pos(list, p))
    BY <1>5, <1>6, <2>1
  <2> QED
    BY <2>1, <2>2
<1> QED
  BY <1>3, <1>4, <1>5, <1>6 DEF Asked, x

LEMMA RidFields ==
  ASSUME NEW n, CoreType(n), OriginalsComeFirst(n), NEW q \in Asked(n)
  PROVE LET x == Rid(n, q)
        IN  /\ DOMAIN x = DOMAIN n /\ x.rr = n.rr
            /\ x.Questions = Without(n, q).Questions /\ x.NewQuestions = n.NewQuestions \ {q}
            /\ x.q \in [Questions -> DNSQuestion]
            /\ \A p \in Questions : /\ x.q[p].told = n.q[p].told
                                    /\ n.q[p].DuplicateOf # q => x.q[p] = n.q[p]
            /\ OriginalsComeFirst(x)
<1> DEFINE w == Without(n, q)
           x == Rid(n, q)
           duplicates == {p \in Asked(w) : w.q[p].DuplicateOf = q}
           first == First(w, duplicates)
           now == UpdateQuestionDuplicates(w, q)
<1>1. /\ DOMAIN w = DOMAIN n /\ w.q = n.q /\ w.rr = n.rr
      /\ w.Questions \in Seq(Questions) /\ NoDuplicates(w.Questions)
      /\ Asked(w) = Asked(n) \ {q} /\ w.NewQuestions = n.NewQuestions \ {q}
      /\ \A p, r \in Asked(w) : /\ Pos(w.Questions, p) <= Pos(w.Questions, r)
                                     <=> Pos(n.Questions, p) <= Pos(n.Questions, r)
                                /\ Pos(n.Questions, p) < Pos(n.Questions, r)
                                     => Pos(w.Questions, p) < Pos(w.Questions, r)
  BY WithoutFields
<1>2. x = [w EXCEPT !.q = now]
  BY DEF Rid
<1>3. now = [p \in Questions |->
               IF p \notin duplicates THEN w.q[p]
               ELSE [w.q[p] EXCEPT !.DuplicateOf = IF p = first THEN Nobody ELSE first]]
  BY DEF UpdateQuestionDuplicates
<1>4. /\ first = Nobody \/ (first \in duplicates /\ \A p \in duplicates : Pos(w.Questions, first) <= Pos(w.Questions, p))
      /\ \A p \in duplicates : first # Nobody
  <2>1. duplicates \subseteq Asked(w)
    OBVIOUS
  <2> HIDE DEF duplicates, w
  <2> QED
    BY <1>1, <2>1, FirstFields
<1>5. Asked(n) \subseteq Questions /\ q \in Questions /\ q # Nobody /\ \A p \in Questions : n.q[p] \in DNSQuestion
  BY CoreFields, NobodyAsks
<1> HIDE DEF x, w, now, first
<1>6. /\ DOMAIN x = DOMAIN n /\ x.rr = n.rr /\ x.Questions = w.Questions
      /\ x.NewQuestions = n.NewQuestions \ {q} /\ x.q = now
  BY <1>1, <1>2 DEF CoreType
<1>7. Asked(x) = Asked(w)
  BY <1>6 DEF Asked
<1>8. first \in Questions \cup {Nobody}
  BY <1>1, <1>4, <1>5
<1>9. ASSUME NEW p \in Questions
      PROVE /\ x.q[p] \in DNSQuestion /\ x.q[p].told = n.q[p].told
            /\ p \notin duplicates => x.q[p] = n.q[p]
            /\ p \in duplicates => x.q[p].DuplicateOf = IF p = first THEN Nobody ELSE first
  <2>1. n.q[p] \in DNSQuestion /\ w.q[p] = n.q[p]
    BY <1>1, <1>5
  <2>2. CASE p \notin duplicates
    <3>1. x.q[p] = n.q[p]
      BY <1>3, <1>6, <2>1, <2>2
    <3> QED
      BY <2>1, <2>2, <3>1
  <2>3. CASE p \in duplicates
    <3>1. x.q[p] = [n.q[p] EXCEPT !.DuplicateOf = IF p = first THEN Nobody ELSE first]
      BY <1>3, <1>6, <2>1, <2>3
    <3>2. (IF p = first THEN Nobody ELSE first) \in Questions \cup {Nobody}
      BY <1>8
    <3> HIDE DEF duplicates
    <3> QED
      BY <2>1, <2>3, <3>1, <3>2 DEF DNSQuestion
  <2> QED
    BY <2>2, <2>3
<1>10. x.q \in [Questions -> DNSQuestion]
  <2>1. x.q = [p \in Questions |-> x.q[p]]
    BY <1>3, <1>6
  <2> QED
    BY <1>9, <2>1
<1>11. OriginalsComeFirst(x)
  <2> SUFFICES ASSUME NEW p \in Asked(w), x.q[p].DuplicateOf # Nobody PROVE OriginalOf(x, x.q[p].DuplicateOf, p)
    BY <1>7 DEF OriginalsComeFirst
  <2>1. p \in Asked(n) /\ p \in Questions
    BY <1>1, <1>5
  <2>2. CASE p \in duplicates
    <3>1. /\ x.q[p].DuplicateOf = first /\ p # first /\ first \in duplicates /\ first \in Questions
          /\ Pos(w.Questions, first) <= Pos(w.Questions, p)
      BY <1>4, <1>5, <1>8, <1>9, <2>1, <2>2
    <3>2. Pos(w.Questions, first) < Pos(w.Questions, p)
      <4>1. Pos(w.Questions, first) # Pos(w.Questions, p)
        BY <1>1, <3>1, PosDiffer DEF Asked
      <4>2. Pos(w.Questions, first) \in Nat /\ Pos(w.Questions, p) \in Nat
        BY <1>1, <3>1, PosNumbers DEF Asked
      <4> QED
        BY <3>1, <4>1, <4>2
    <3>3. x.q[first].DuplicateOf = Nobody
      BY <1>9, <3>1
    <3>4. KindOf[first] = KindOf[p]
      <4>1. n.q[p].DuplicateOf = q /\ n.q[first].DuplicateOf = q /\ first \in Asked(n)
        BY <1>1, <2>2, <3>1
      <4> QED
        BY <1>5, <2>1, <4>1 DEF OriginalsComeFirst, OriginalOf
    <3> QED
      BY <1>6, <1>7, <3>1, <3>2, <3>3, <3>4 DEF OriginalOf
  <2>3. CASE p \notin duplicates
    <3> DEFINE d == n.q[p].DuplicateOf
    <3>1. x.q[p].DuplicateOf = d /\ d # Nobody /\ d # q
      BY <1>1, <1>9, <2>1, <2>3
    <3>2. OriginalOf(n, d, p)
      BY <2>1, <3>1 DEF OriginalsComeFirst
    <3>3. d \in Asked(w) /\ d \in Questions /\ Pos(w.Questions, d) < Pos(w.Questions, p)
      BY <1>1, <1>5, <3>1, <3>2 DEF OriginalOf
    <3>4. d \notin duplicates
      BY <1>1, <1>5, <3>2 DEF OriginalOf
    <3>5. x.q[d] = n.q[d]
      BY <1>9, <3>3, <3>4
    <3> QED
      BY <1>6, <1>7, <3>1, <3>2, <3>3, <3>5 DEF OriginalOf
  <2> QED
    BY <2>2, <2>3
<1>12. ASSUME NEW p \in Questions, n.q[p].DuplicateOf # q PROVE p \notin duplicates
  BY <1>1, <1>12
<1> QED
  BY <1>6, <1>9, <1>10, <1>11, <1>12 DEF x, w

SameDelivery(n, x) ==
  \A r \in CacheRecords : x.rr[r].cached = n.rr[r].cached /\ x.rr[r].DelayDelivery = n.rr[r].DelayDelivery

LEMMA StopFields ==
  ASSUME NEW n, CoreInv(n), NEW q \in Asked(n)
  PROVE LET x == mDNS_StopQuery(n, q)
        IN  /\ CoreInv(x) /\ Old(x) = Old(n) \ {q} /\ Asked(x) = Asked(n) \ {q}
            /\ \A p, r \in Asked(x) : Pos(x.Questions, p) <= Pos(x.Questions, r) <=>
                                        Pos(n.Questions, p) <= Pos(n.Questions, r)
            /\ \A p \in Questions : p # q => x.q[p].told = n.q[p].told
            /\ SameDelivery(n, x)
<1> DEFINE x == mDNS_StopQuery(n, q)
           w == Without(n, q)
           n1 == Rid(n, q)
           mine == {r \in Cached(n) : n.rr[r].CRActiveQuestion = q}
           heirless == {r \in mine : NewActiveQuestion(n1, r) = Nobody}
           records == [r \in CacheRecords |->
                  IF r \in mine THEN [n1.rr[r] EXCEPT !.CRActiveQuestion = NewActiveQuestion(n1, r)]
                  ELSE n1.rr[r]]
<1>0. CoreType(n) /\ NewComeLast(n) /\ OriginalsComeFirst(n) /\ NewAreQuiet(n) /\ KeptAlive(n)
  BY DEF CoreInv
<1>1. x = [n1 EXCEPT !.q[q] = NoQuestion, !.rr = records,
                     !.rrcache_active = @ - Cardinality(heirless), !.calls = @ + 1]
  BY DEF mDNS_StopQuery, Rid, Without
<1>2. /\ DOMAIN n1 = DOMAIN n /\ n1.rr = n.rr
      /\ n1.Questions = w.Questions /\ n1.NewQuestions = n.NewQuestions \ {q}
      /\ n1.q \in [Questions -> DNSQuestion]
      /\ \A p \in Questions : /\ n1.q[p].told = n.q[p].told
                              /\ n.q[p].DuplicateOf # q => n1.q[p] = n.q[p]
      /\ OriginalsComeFirst(n1)
  BY <1>0, RidFields
<1>3. /\ w.Questions \in Seq(Questions) /\ NoDuplicates(w.Questions)
      /\ Asked(w) = Asked(n) \ {q}
      /\ \A p, r \in Asked(w) : /\ Pos(w.Questions, p) <= Pos(w.Questions, r)
                                     <=> Pos(n.Questions, p) <= Pos(n.Questions, r)
  BY <1>0, WithoutFields
<1>4. Asked(n) \subseteq Questions /\ q \in Questions /\ q # Nobody /\ n.NewQuestions \subseteq Asked(n)
  BY <1>0, CoreFields, NobodyAsks
<1> HIDE DEF x, w, n1, records, heirless, mine
<1>5. /\ DOMAIN x = DOMAIN n /\ x.Questions = w.Questions /\ x.NewQuestions = n.NewQuestions \ {q}
      /\ x.q = [n1.q EXCEPT ![q] = NoQuestion] /\ x.rr = records
  BY <1>0, <1>1, <1>2 DEF CoreType
<1>6. Asked(x) = Asked(n) \ {q} /\ Asked(n1) = Asked(n) \ {q}
  BY <1>2, <1>3, <1>5 DEF Asked
<1>7. /\ NoQuestion \in DNSQuestion /\ \A r \in CacheRecords : NoQuestion.told[r] = 0
      /\ x.q[q] = NoQuestion
      /\ \A p \in Questions : p # q => x.q[p] = n1.q[p]
  <2>1. NoQuestion \in DNSQuestion /\ \A r \in CacheRecords : NoQuestion.told[r] = 0
    BY NoQuestionFields
  <2> QED
    BY <1>2, <1>4, <1>5, <2>1
<1>8. Old(x) = Old(n) \ {q}
  BY <1>5, <1>6 DEF Old
<1>9. ASSUME NEW r \in CacheRecords
      PROVE /\ NewActiveQuestion(n1, r) \in Questions \cup {Nobody}
            /\ NewActiveQuestion(n1, r) # Nobody => KeptBy(n1, r, NewActiveQuestion(n1, r))
            /\ \A p \in Questions : KeptBy(n1, r, p) => NewActiveQuestion(n1, r) # Nobody
  <2> DEFINE some == {p \in Questions : ActiveQuestion(n1, p) /\ AnswersQuestion(r, p)}
             f == NewActiveQuestion(n1, r)
  <2>1. f = First(n1, some)
    BY DEF NewActiveQuestion
  <2>2. /\ f = Nobody <=> Asked(n1) \cap some = {}
        /\ f # Nobody => f \in Asked(n1) \cap some
    BY <1>2, <1>3, <2>1, FirstFields
  <2> HIDE DEF f
  <2>3. \A p \in Questions : KeptBy(n1, r, p) => p \in Asked(n1) \cap some
    BY DEF KeptBy, ActiveQuestion
  <2> QED
    BY <2>2, <2>3 DEF KeptBy, f
<1>10. ASSUME NEW r \in CacheRecords
       PROVE /\ x.rr[r] \in CacheRecord
             /\ x.rr[r].cached = n.rr[r].cached /\ x.rr[r].DelayDelivery = n.rr[r].DelayDelivery
             /\ r \in mine => x.rr[r].CRActiveQuestion = NewActiveQuestion(n1, r)
             /\ r \notin mine => x.rr[r] = n.rr[r]
  <2>1. n.rr[r] \in CacheRecord
    BY <1>0 DEF CoreType
  <2>2. CASE r \in mine
    <3>1. x.rr[r] = [n.rr[r] EXCEPT !.CRActiveQuestion = NewActiveQuestion(n1, r)]
      BY <1>2, <1>5, <2>2 DEF records
    <3> QED
      BY <1>9, <2>1, <2>2, <3>1 DEF CacheRecord
  <2>3. CASE r \notin mine
    <3>1. x.rr[r] = n.rr[r]
      BY <1>2, <1>5, <2>3 DEF records
    <3> QED
      BY <2>1, <2>3, <3>1
  <2> QED
    BY <2>2, <2>3
<1>11. CoreType(x)
  <2>1. x.rr = [r \in CacheRecords |-> x.rr[r]]
    BY <1>5 DEF records
  <2>2. x.rr \in [CacheRecords -> CacheRecord]
    BY <1>10, <2>1
  <2>3. x.q \in [Questions -> DNSQuestion]
    BY <1>2, <1>5, <1>7
  <2>4. x.NewQuestions \subseteq Asked(x)
    BY <1>4, <1>5, <1>6
  <2>5. DOMAIN x = {"Questions", "NewQuestions", "q", "rr", "rrcache_active", "calls"}
    BY <1>0, <1>5 DEF CoreType
  <2> QED
    BY <1>3, <1>5, <2>2, <2>3, <2>4, <2>5 DEF CoreType
<1>12. NewComeLast(x)
  BY <1>0, <1>3, <1>5, <1>6 DEF NewComeLast
<1>13. OriginalsComeFirst(x)
  <2> SUFFICES ASSUME NEW p \in Asked(x), x.q[p].DuplicateOf # Nobody PROVE OriginalOf(x, x.q[p].DuplicateOf, p)
    BY DEF OriginalsComeFirst
  <2>1. p \in Asked(n1) /\ p # q /\ p \in Questions /\ x.q[p] = n1.q[p]
    BY <1>4, <1>6, <1>7
  <2>2. OriginalOf(n1, n1.q[p].DuplicateOf, p)
    BY <1>2, <2>1 DEF OriginalsComeFirst
  <2> QED
    BY <1>2, <1>4, <1>5, <1>6, <1>7, <2>1, <2>2 DEF OriginalOf
<1>14. NewAreQuiet(x)
  <2> SUFFICES ASSUME NEW p \in Questions \ Old(x), NEW r \in CacheRecords PROVE x.q[p].told[r] = 0
    BY DEF NewAreQuiet
  <2>1. CASE p = q
    BY <1>7, <2>1
  <2>2. CASE p # q
    <3>1. p \notin Old(n)
      BY <1>8, <2>2
    <3> QED
      BY <1>0, <1>2, <1>7, <2>2, <3>1 DEF NewAreQuiet
  <2> QED
    BY <2>1, <2>2
<1>15. ASSUME NEW r, NEW p, KeptBy(n1, r, p) PROVE KeptBy(x, r, p)
  BY <1>4, <1>6, <1>7, <1>15 DEF KeptBy, ActiveQuestion
<1>16. Cached(x) = Cached(n)
  BY <1>10 DEF Cached
<1>17. ASSUME NEW r \in Cached(x), x.rr[r].CRActiveQuestion # Nobody
       PROVE KeptBy(x, r, x.rr[r].CRActiveQuestion)
  <2>1. r \in CacheRecords /\ r \in Cached(n)
    BY <1>16 DEF Cached
  <2>2. CASE r \in mine
    BY <1>9, <1>10, <1>15, <1>17, <2>1, <2>2
  <2>3. CASE r \notin mine
    <3> DEFINE c == n.rr[r].CRActiveQuestion
    <3>1. x.rr[r].CRActiveQuestion = c /\ c # q /\ c # Nobody
      BY <1>10, <1>17, <2>1, <2>3 DEF mine
    <3>2. KeptBy(n, r, c)
      BY <1>0, <2>1, <3>1 DEF KeptAlive
    <3>3. KeptBy(n1, r, c)
      BY <1>2, <1>4, <1>6, <3>1, <3>2 DEF KeptBy, ActiveQuestion
    <3> QED
      BY <1>15, <3>1, <3>3
  <2> QED
    BY <2>2, <2>3
<1>18. ASSUME NEW p \in Old(x), NEW r \in Cached(x), x.q[p].told[r] = 1
       PROVE AnswersQuestion(r, p) /\ x.rr[r].CRActiveQuestion # Nobody
  <2>1. /\ r \in CacheRecords /\ r \in Cached(n) /\ p \in Old(n) /\ p # q /\ p \in Questions /\ p \in Asked(n1)
        /\ x.q[p] = n1.q[p]
    BY <1>4, <1>6, <1>7, <1>8, <1>16 DEF Cached, Old
  <2>2. n.q[p].told[r] = 1
    BY <1>2, <1>18, <2>1
  <2>3. AnswersQuestion(r, p) /\ n.rr[r].CRActiveQuestion # Nobody
    BY <1>0, <2>1, <2>2 DEF KeptAlive
  <2>4. CASE r \notin mine
    BY <1>10, <2>1, <2>3, <2>4
  <2>5. CASE r \in mine
    <3>1. \E d \in Questions : KeptBy(n1, r, d)
      <4>1. CASE n1.q[p].DuplicateOf = Nobody
        <5>1. KeptBy(n1, r, p)
          BY <2>1, <2>3, <4>1 DEF KeptBy, ActiveQuestion
        <5> QED
          BY <2>1, <5>1
      <4>2. CASE n1.q[p].DuplicateOf # Nobody
        <5> DEFINE d == n1.q[p].DuplicateOf
        <5>1. OriginalOf(n1, d, p)
          BY <1>2, <2>1, <4>2 DEF OriginalsComeFirst
        <5>2. KeptBy(n1, r, d) /\ d \in Questions
          BY <1>4, <1>6, <2>3, <5>1 DEF OriginalOf, KeptBy, ActiveQuestion, AnswersQuestion
        <5> QED
          BY <5>2
      <4> QED
        BY <4>1, <4>2
    <3> QED
      BY <1>9, <1>10, <2>1, <2>3, <2>5, <3>1
  <2> QED
    BY <2>4, <2>5
<1>19. KeptAlive(x)
  BY <1>17, <1>18 DEF KeptAlive
<1>20. SameDelivery(n, x)
  BY <1>10 DEF SameDelivery
<1>21. \A p \in Questions : p # q => x.q[p].told = n.q[p].told
  BY <1>2, <1>7
<1>22. \A p, r \in Asked(x) : Pos(x.Questions, p) <= Pos(x.Questions, r) <=>
                                        Pos(n.Questions, p) <= Pos(n.Questions, r)
  BY <1>3, <1>5, <1>6
<1> QED
  BY <1>6, <1>8, <1>11, <1>12, <1>13, <1>14, <1>19, <1>20, <1>21, <1>22 DEF CoreInv, x

(* The next question of the list.                                           *)
LEMMA NextFields ==
  ASSUME NEW n, CoreType(n), NEW q \in Asked(n)
  PROVE LET e == NextQuestion(n, q)
        IN  /\ e \in Asked(n) \cup {Nobody} /\ e # q
            /\ \A p \in Asked(n) : Ahead(n.Questions, e, p) <=> Ahead(n.Questions, q, p) /\ p # q
<1> DEFINE list == n.Questions
           k == Pos(list, q)
           e == NextQuestion(n, q)
<1>1. /\ list \in Seq(Questions) /\ NoDuplicates(list) /\ Asked(n) = Range(list)
      /\ q \in Questions /\ q # Nobody /\ Asked(n) \subseteq Questions
  BY CoreFields, NobodyAsks
<1>2. DOMAIN list = 1 .. Len(list) /\ Len(list) \in Nat
  BY <1>1
<1>3. k \in 1 .. Len(list) /\ list[k] = q
  BY <1>1, <1>2, PosFields
<1>4. Position(n, q) = k
  BY DEF Position, Pos
<1>5. e = IF k = Len(list) THEN Nobody ELSE list[k + 1]
  BY <1>4 DEF NextQuestion
<1>6. ASSUME NEW p \in Asked(n) PROVE Pos(list, p) \in 1 .. Len(list) /\ (p # q => Pos(list, p) # k)
  BY <1>1, <1>2, PosFields, PosDiffer
<1> HIDE DEF k, list, e
<1>7. CASE k = Len(list)
  <2>1. e = Nobody
    BY <1>5, <1>7
  <2>2. ASSUME NEW p \in Asked(n), k <= Pos(list, p) PROVE p = q
    BY <1>2, <1>3, <1>6, <1>7, <2>2
  <2>3. ASSUME NEW p \in Asked(n) PROVE ~(Ahead(list, q, p) /\ p # q)
    BY <2>2 DEF Ahead, k
  <2> QED
    BY <1>1, <2>1, <2>3 DEF Ahead, list, e
<1>8. CASE k # Len(list)
  <2>c. k \in Nat /\ k >= 1 /\ k <= Len(list) /\ Len(list) \in Nat
    BY <1>2, <1>3
  <2>a. k + 1 \in 1 .. Len(list)
    BY <1>8, <2>c
  <2>b. e = list[k + 1]
    BY <1>5, <1>8
  <2>1. k + 1 \in DOMAIN list /\ e = list[k + 1]
    BY <1>2, <2>a, <2>b
  <2>2. e \in Asked(n) /\ Pos(list, e) = k + 1
    BY <1>1, <2>1, PosFields
  <2>3. e # q /\ e # Nobody
    BY <1>1, <1>2, <1>3, <2>2, NobodyAsks DEF k
  <2>4. ASSUME NEW p \in Asked(n) PROVE k + 1 <= Pos(list, p) <=> k <= Pos(list, p) /\ p # q
    <3>1. CASE p = q
      BY <1>2, <1>3, <3>1 DEF k
    <3>2. CASE p # q
      BY <1>2, <1>3, <1>6, <3>2
    <3> QED
      BY <3>1, <3>2
  <2> QED
    BY <1>1, <2>2, <2>3, <2>4 DEF Ahead, list, e, k
<1> QED
  BY <1>7, <1>8

(* Behind a question that is new there are new ones only.                   *)
LEMMA AheadOfNew ==
  ASSUME NEW n, CoreInv(n), NEW c \in n.NewQuestions, NEW p \in Old(n)
  PROVE ~Ahead(n.Questions, c, p)
  BY CoreFields DEF CoreInv, NewComeLast, Ahead, Old

LEMMA ClientCore ==
  ASSUME NEW n, CoreInv(n), NEW c, NEW x \in Client(n, c)
  PROVE /\ CoreInv(x[1]) /\ Old(x[1]) \subseteq Old(n)
        /\ \A p \in Old(x[1]) : x[1].q[p].told = n.q[p].told
        /\ SameDelivery(n, x[1])
<1>0. CoreType(n) /\ Asked(n) \subseteq Questions /\ Old(n) \subseteq Asked(n)
  BY CoreFields DEF CoreInv
<1>1. CASE x = <<n, c>>
  BY <1>1 DEF SameDelivery
<1>2. ASSUME NEW q \in Questions \ Asked(n), x[1] = mDNS_StartQuery(n, q)
      PROVE /\ CoreInv(x[1]) /\ Old(x[1]) \subseteq Old(n)
            /\ \A p \in Old(x[1]) : x[1].q[p].told = n.q[p].told
            /\ SameDelivery(n, x[1])
  <2> DEFINE y == mDNS_StartQuery(n, q)
  <2>1. /\ CoreInv(y) /\ Old(y) = Old(n) /\ y.rr = n.rr
        /\ \A p \in Questions : p # q => y.q[p] = n.q[p]
    BY StartFields
  <2> HIDE DEF y
  <2> QED
    BY <1>0, <1>2, <2>1 DEF SameDelivery, y
<1>3. ASSUME NEW q \in Asked(n), x[1] = mDNS_StopQuery(n, q)
      PROVE /\ CoreInv(x[1]) /\ Old(x[1]) \subseteq Old(n)
            /\ \A p \in Old(x[1]) : x[1].q[p].told = n.q[p].told
            /\ SameDelivery(n, x[1])
  <2> DEFINE y == mDNS_StopQuery(n, q)
  <2>1. /\ CoreInv(y) /\ Old(y) = Old(n) \ {q} /\ SameDelivery(n, y)
        /\ \A p \in Questions : p # q => y.q[p].told = n.q[p].told
    BY StopFields
  <2> HIDE DEF y
  <2> QED
    BY <1>0, <1>3, <2>1 DEF y
<1> QED
  BY <1>1, <1>2, <1>3 DEF Client

(* A walk that stood on c goes on, wherever the client has moved it.        *)
LEMMA ClientWalk ==
  ASSUME NEW n, CoreInv(n), NEW c \in Asked(n), NEW x \in Client(n, c)
  PROVE LET e == After(x[1], c, x[2])
        IN  /\ e \in Asked(x[1]) \cup {Nobody}
            /\ \A p \in Old(x[1]) : Ahead(x[1].Questions, e, p) <=> Ahead(n.Questions, c, p) /\ p # c
            /\ \/ x[2] = c /\ (c \in Old(n) => c \in Old(x[1]))
               \/ x[2] # c /\ c \notin Asked(x[1])
            /\ x[2] \in Questions \cup {Nobody}
<1> DEFINE e == After(x[1], c, x[2])
<1>0. CoreType(n) /\ Asked(n) \subseteq Questions /\ Old(n) \subseteq Asked(n) /\ c # Nobody
  BY CoreFields, NobodyAsks DEF CoreInv
<1>1. ASSUME x[2] = c, c \in Asked(x[1]), CoreInv(x[1]),
             \A p \in Old(x[1]) : Ahead(x[1].Questions, c, p) <=> Ahead(n.Questions, c, p)
      PROVE /\ e \in Asked(x[1]) \cup {Nobody}
            /\ \A p \in Old(x[1]) : Ahead(x[1].Questions, e, p) <=> Ahead(n.Questions, c, p) /\ p # c
  <2>1. e = NextQuestion(x[1], c)
    BY <1>1 DEF After
  <2>2. Old(x[1]) \subseteq Asked(x[1])
    BY DEF Old
  <2> HIDE DEF e
  <2> QED
    BY <1>1, <2>1, <2>2, NextFields DEF CoreInv
<1>2. CASE x = <<n, c>>
  BY <1>0, <1>1, <1>2
<1>3. ASSUME NEW q \in Questions \ Asked(n), x = <<mDNS_StartQuery(n, q), c>>
      PROVE /\ e \in Asked(x[1]) \cup {Nobody}
            /\ \A p \in Old(x[1]) : Ahead(x[1].Questions, e, p) <=> Ahead(n.Questions, c, p) /\ p # c
            /\ x[2] = c /\ (c \in Old(n) => c \in Old(x[1]))
  <2> DEFINE y == mDNS_StartQuery(n, q)
  <2>1. /\ CoreInv(y) /\ Old(y) = Old(n) /\ Asked(y) = Asked(n) \cup {q}
        /\ \A p \in Asked(n) : Pos(y.Questions, p) = Pos(n.Questions, p)
    BY StartFields
  <2>2. x[1] = y /\ x[2] = c
    BY <1>3
  <2> HIDE DEF y, e
  <2>3. \A p \in Old(y) : Ahead(y.Questions, c, p) <=> Ahead(n.Questions, c, p)
    BY <1>0, <2>1 DEF Ahead
  <2> QED
    BY <1>1, <2>1, <2>2, <2>3
<1>4. ASSUME NEW q \in Asked(n), x = <<mDNS_StopQuery(n, q), IF q = c THEN NextQuestion(n, q) ELSE c>>
      PROVE /\ e \in Asked(x[1]) \cup {Nobody}
            /\ \A p \in Old(x[1]) : Ahead(x[1].Questions, e, p) <=> Ahead(n.Questions, c, p) /\ p # c
            /\ \/ x[2] = c /\ (c \in Old(n) => c \in Old(x[1]))
               \/ x[2] # c /\ c \notin Asked(x[1])
            /\ x[2] \in Questions \cup {Nobody}
  <2> DEFINE y == mDNS_StopQuery(n, q)
  <2>1. /\ CoreInv(y) /\ Old(y) = Old(n) \ {q} /\ Asked(y) = Asked(n) \ {q}
        /\ \A p, r \in Asked(y) : Pos(y.Questions, p) <= Pos(y.Questions, r) <=>
                                    Pos(n.Questions, p) <= Pos(n.Questions, r)
    BY StopFields
  <2>2. x[1] = y
    BY <1>4
  <2> HIDE DEF y
  <2>3. CASE q = c
    <3> DEFINE f == NextQuestion(n, c)
    <3>1. x[2] = f /\ f # c /\ f \in Asked(n) \cup {Nobody}
          /\ \A p \in Asked(n) : Ahead(n.Questions, f, p) <=> Ahead(n.Questions, c, p) /\ p # c
      BY <1>0, <1>4, <2>3, NextFields
    <3>2. e = f
      BY <3>1 DEF After
    <3> HIDE DEF f, e
    <3>3. \A p \in Old(y) : Ahead(y.Questions, f, p) <=> Ahead(n.Questions, f, p)
      BY <1>0, <2>1, <2>3, <3>1 DEF Ahead
    <3> QED
      BY <1>0, <2>1, <2>2, <2>3, <3>1, <3>2, <3>3
  <2>4. CASE q # c
    <3>1. x[2] = c /\ c \in Asked(y)
      BY <1>4, <2>1, <2>4
    <3> HIDE DEF e
    <3>2. \A p \in Old(y) : Ahead(y.Questions, c, p) <=> Ahead(n.Questions, c, p)
      BY <1>0, <2>1, <3>1 DEF Ahead
    <3> QED
      BY <1>0, <1>1, <2>1, <2>2, <2>4, <3>1, <3>2
  <2> QED
    BY <2>3, <2>4
<1> QED
  BY <1>0, <1>1, <1>2, <1>3, <1>4 DEF Client

---------------------------------------------------------------------------
(* What the core does.                                                      *)

(* The list stays, and what the clients were told; a record in the cache is *)
(* one that was there, with its question, or a new one.                     *)
SameList(n, x) ==
  DOMAIN x = DOMAIN n /\ x.Questions = n.Questions /\ x.NewQuestions = n.NewQuestions

LEMMA SameListFields ==
  ASSUME NEW n, NEW x, CoreInv(n), SameList(n, x), x.q \in [Questions -> DNSQuestion],
         x.rr \in [CacheRecords -> CacheRecord], \A p \in Questions : x.q[p].DuplicateOf = n.q[p].DuplicateOf
  PROVE /\ CoreType(x) /\ NewComeLast(x) /\ OriginalsComeFirst(x)
        /\ Asked(x) = Asked(n) /\ Old(x) = Old(n)
        /\ \A r, p : KeptBy(n, r, p) => KeptBy(x, r, p)
<1>1. Asked(x) = Asked(n) /\ Old(x) = Old(n)
  BY DEF SameList, Asked, Old
<1>2. CoreType(x)
  BY <1>1 DEF SameList, CoreInv, CoreType
<1>3. NewComeLast(x)
  BY <1>1 DEF SameList, CoreInv, NewComeLast
<1>4. Asked(n) \subseteq Questions
  BY CoreFields DEF CoreInv
<1>5. OriginalsComeFirst(x)
  BY <1>1, <1>4 DEF SameList, CoreInv, OriginalsComeFirst, OriginalOf
<1>6. \A r, p : KeptBy(n, r, p) => KeptBy(x, r, p)
  BY <1>1, <1>4 DEF KeptBy, ActiveQuestion
<1> QED
  BY <1>1, <1>2, <1>3, <1>5, <1>6

LEMMA CoreKept ==
  ASSUME NEW n, NEW x, CoreInv(n), SameList(n, x), x.q \in [Questions -> DNSQuestion],
         x.rr \in [CacheRecords -> CacheRecord],
         \A p \in Questions : x.q[p].DuplicateOf = n.q[p].DuplicateOf /\ x.q[p].told = n.q[p].told,
         \A r \in CacheRecords : x.rr[r].cached =>
           \/ n.rr[r].cached /\ x.rr[r].CRActiveQuestion = n.rr[r].CRActiveQuestion
           \/ x.rr[r].CRActiveQuestion = Nobody /\ \A p \in Questions : n.q[p].told[r] = 0
  PROVE CoreInv(x) /\ Asked(x) = Asked(n) /\ Old(x) = Old(n)
<1>1. /\ CoreType(x) /\ NewComeLast(x) /\ OriginalsComeFirst(x)
      /\ Asked(x) = Asked(n) /\ Old(x) = Old(n)
      /\ \A r, p : KeptBy(n, r, p) => KeptBy(x, r, p)
  BY SameListFields
<1>2. NewAreQuiet(x)
  BY <1>1 DEF CoreInv, NewAreQuiet
<1>3. Old(x) \subseteq Questions
  BY <1>1, CoreFields
<1>4. ASSUME NEW r \in Cached(x), x.rr[r].CRActiveQuestion # Nobody
      PROVE KeptBy(x, r, x.rr[r].CRActiveQuestion)
  BY <1>1, <1>4 DEF CoreInv, KeptAlive, Cached
<1>5. ASSUME NEW p \in Old(x), NEW r \in Cached(x), x.q[p].told[r] = 1
      PROVE AnswersQuestion(r, p) /\ x.rr[r].CRActiveQuestion # Nobody
  BY <1>1, <1>3, <1>5 DEF CoreInv, KeptAlive, Cached
<1> QED
  BY <1>1, <1>2, <1>4, <1>5 DEF CoreInv, KeptAlive

Retold(n, q, r, v) == [n.q EXCEPT ![q] = [n.q[q] EXCEPT !.told = [n.q[q].told EXCEPT ![r] = v]]]

LEMMA RetoldFields ==
  ASSUME NEW n, CoreType(n), NEW q \in Questions, NEW r \in CacheRecords, NEW v \in 0 .. 1
  PROVE LET new == Retold(n, q, r, v)
        IN  /\ new \in [Questions -> DNSQuestion]
            /\ \A p \in Questions : new[p].DuplicateOf = n.q[p].DuplicateOf
            /\ \A p \in Questions, t \in CacheRecords :
                 new[p].told[t] = IF p = q /\ t = r THEN v ELSE n.q[p].told[t]
<1> DEFINE told == [n.q[q].told EXCEPT ![r] = v]
           one == [n.q[q] EXCEPT !.told = told]
           new == [n.q EXCEPT ![q] = one]
<1>1. n.q \in [Questions -> DNSQuestion] /\ n.q[q] \in DNSQuestion
  BY DEF CoreType
<1>2. n.q[q].told \in [CacheRecords -> 0 .. 1]
  BY <1>1 DEF DNSQuestion
<1>3. told \in [CacheRecords -> 0 .. 1] /\ \A t \in CacheRecords : told[t] = IF t = r THEN v ELSE n.q[q].told[t]
  BY <1>2
<1> HIDE DEF told
<1>4. one \in DNSQuestion /\ one.told = told /\ one.DuplicateOf = n.q[q].DuplicateOf
  BY <1>1, <1>3 DEF DNSQuestion
<1> HIDE DEF one
<1>5. new \in [Questions -> DNSQuestion] /\ new[q] = one /\ \A p \in Questions : p # q => new[p] = n.q[p]
  BY <1>1, <1>4
<1> HIDE DEF new
<1>6. \A p \in Questions : new[p].DuplicateOf = n.q[p].DuplicateOf
  BY <1>4, <1>5
<1>7. ASSUME NEW p \in Questions, NEW t \in CacheRecords
      PROVE new[p].told[t] = IF p = q /\ t = r THEN v ELSE n.q[p].told[t]
  BY <1>3, <1>4, <1>5
<1> QED
  BY <1>5, <1>6, <1>7 DEF new, one, told, Retold

(* A record offered to a client: the record has a question from now on.     *)
LEMMA AddFields ==
  ASSUME NEW n, CoreInv(n), NEW q \in Old(n), NEW r \in CacheRecords,
         n.rr[r].cached, AnswersQuestion(r, q), n.q[q].told[r] = 0,
         n.q[q].DuplicateOf # Nobody /\ n.rr[r].DelayDelivery = {} => n.rr[r].CRActiveQuestion # Nobody
  PROVE LET x == AddAnswer(n, q, r)
        IN  /\ CoreInv(x) /\ SameList(n, x) /\ Old(x) = Old(n) /\ Asked(x) = Asked(n) /\ SameDelivery(n, x)
            /\ \A p \in Questions, t \in CacheRecords :
                 x.q[p].told[t] = IF p = q /\ t = r /\ n.rr[r].DelayDelivery = {} THEN 1 ELSE n.q[p].told[t]
<1> DEFINE x == AddAnswer(n, q, r)
           takes == n.q[q].DuplicateOf = Nobody /\ n.rr[r].CRActiveQuestion # q
           count == IF n.rr[r].CRActiveQuestion = Nobody THEN n.rrcache_active + 1 ELSE n.rrcache_active
           n1 == IF ~takes THEN n
                 ELSE [n EXCEPT !.rr[r].CRActiveQuestion = q, !.rrcache_active = count]
           tells == n.rr[r].DelayDelivery = {}
<1>0. /\ CoreType(n) /\ NewAreQuiet(n) /\ KeptAlive(n)
      /\ Asked(n) \subseteq Questions /\ q \in Asked(n) /\ q \in Questions /\ q # Nobody
  BY CoreFields, NobodyAsks DEF CoreInv
<1>1. x = IF ~tells THEN n1 ELSE [n1 EXCEPT !.q[q].told[r] = @ + 1]
  BY <1>0 DEF AddAnswer, CoreType
<1>2. n.rr \in [CacheRecords -> CacheRecord] /\ n.rr[r] \in CacheRecord /\ n.q \in [Questions -> DNSQuestion]
  BY <1>0 DEF CoreType
<1>3. /\ SameList(n, n1) /\ n1.q = n.q
      /\ n1.rr = IF takes THEN [n.rr EXCEPT ![r] = [n.rr[r] EXCEPT !.CRActiveQuestion = q]] ELSE n.rr
  <2>1. CASE takes
    <3>1. n1 = [n EXCEPT !.rr[r].CRActiveQuestion = q, !.rrcache_active = count]
      BY <2>1
    <3> HIDE DEF n1, takes
    <3> QED
      BY <1>0, <2>1, <3>1 DEF CoreType, SameList
  <2>2. CASE ~takes
    BY <2>2 DEF SameList
  <2> QED
    BY <2>1, <2>2
<1>4. [n.rr[r] EXCEPT !.CRActiveQuestion = q] \in CacheRecord
  BY <1>0, <1>2 DEF CacheRecord
<1> HIDE DEF x, n1, takes
<1>5. /\ SameList(n, x) /\ x.rr = n1.rr
      /\ x.q = IF tells THEN Retold(n, q, r, 1) ELSE n.q
  <2>1. CASE tells
    <3>1. x = [n1 EXCEPT !.q[q].told[r] = @ + 1]
      BY <1>1, <2>1
    <3>2. n.q[q] \in DNSQuestion
      BY <1>0, <1>2
    <3>3. n.q[q].told \in [CacheRecords -> 0 .. 1]
      BY <3>2 DEF DNSQuestion
    <3>4. x.q = Retold(n, q, r, 1)
      <4>1. x.q = [n.q EXCEPT ![q] = [n.q[q] EXCEPT !.told = [n.q[q].told EXCEPT ![r] = 0 + 1]]]
        BY <1>0, <1>2, <1>3, <3>1, <3>2, <3>3 DEF CoreType, SameList, DNSQuestion
      <4> QED
        BY <4>1 DEF Retold
    <3>5. SameList(n, x) /\ x.rr = n1.rr
      BY <1>0, <1>3, <3>1 DEF CoreType, SameList
    <3> QED
      BY <2>1, <3>4, <3>5
  <2>2. CASE ~tells
    BY <1>1, <1>3, <2>2
  <2> QED
    BY <2>1, <2>2
<1>6. x.rr \in [CacheRecords -> CacheRecord]
  BY <1>2, <1>3, <1>4, <1>5
<1>7. ASSUME NEW t \in CacheRecords
      PROVE /\ x.rr[t].cached = n.rr[t].cached /\ x.rr[t].DelayDelivery = n.rr[t].DelayDelivery
            /\ x.rr[t].CRActiveQuestion = IF takes /\ t = r THEN q ELSE n.rr[t].CRActiveQuestion
  <2>1. n.rr[t] \in CacheRecord
    BY <1>2
  <2>2. CASE takes /\ t = r
    <3>1. x.rr[t] = [n.rr[r] EXCEPT !.CRActiveQuestion = q]
      BY <1>2, <1>3, <1>5, <2>2
    <3> QED
      BY <2>1, <2>2, <3>1 DEF CacheRecord
  <2>3. CASE ~(takes /\ t = r)
    <3>1. x.rr[t] = n.rr[t]
      BY <1>2, <1>3, <1>5, <2>3
    <3> QED
      BY <2>3, <3>1
  <2> QED
    BY <2>2, <2>3
<1>8. /\ x.q \in [Questions -> DNSQuestion]
      /\ \A p \in Questions : x.q[p].DuplicateOf = n.q[p].DuplicateOf
      /\ \A p \in Questions, t \in CacheRecords :
           x.q[p].told[t] = IF p = q /\ t = r /\ tells THEN 1 ELSE n.q[p].told[t]
  <2>1. CASE tells
    <3> DEFINE new == Retold(n, q, r, 1)
    <3>1. x.q = new
      BY <1>5, <2>1
    <3>2. /\ new \in [Questions -> DNSQuestion]
          /\ \A p \in Questions : new[p].DuplicateOf = n.q[p].DuplicateOf
          /\ \A p \in Questions, t \in CacheRecords :
               new[p].told[t] = IF p = q /\ t = r THEN 1 ELSE n.q[p].told[t]
      BY <1>0, RetoldFields
    <3> HIDE DEF new
    <3> QED
      BY <2>1, <3>1, <3>2
  <2>2. CASE ~tells
    BY <1>2, <1>5, <2>2
  <2> QED
    BY <2>1, <2>2
<1>9. /\ CoreType(x) /\ NewComeLast(x) /\ OriginalsComeFirst(x)
      /\ Asked(x) = Asked(n) /\ Old(x) = Old(n)
      /\ \A t, p : KeptBy(n, t, p) => KeptBy(x, t, p)
  BY <1>5, <1>6, <1>8, SameListFields
<1>10. NewAreQuiet(x)
  BY <1>0, <1>8, <1>9 DEF NewAreQuiet
<1>11. Cached(x) = Cached(n)
  BY <1>7 DEF Cached
<1>12. ASSUME NEW t \in Cached(x), x.rr[t].CRActiveQuestion # Nobody
       PROVE KeptBy(x, t, x.rr[t].CRActiveQuestion)
  <2>1. t \in CacheRecords /\ t \in Cached(n)
    BY <1>11 DEF Cached
  <2>2. CASE takes /\ t = r
    <3>1. KeptBy(n, r, q)
      BY <1>0, <2>2 DEF KeptBy, ActiveQuestion, takes
    <3> QED
      BY <1>7, <1>9, <2>1, <2>2, <3>1
  <2>3. CASE ~(takes /\ t = r)
    BY <1>0, <1>7, <1>9, <1>12, <2>1, <2>3 DEF KeptAlive
  <2> QED
    BY <2>2, <2>3
<1>13. ASSUME NEW p \in Old(x), NEW t \in Cached(x), x.q[p].told[t] = 1
       PROVE AnswersQuestion(t, p) /\ x.rr[t].CRActiveQuestion # Nobody
  <2>1. t \in CacheRecords /\ t \in Cached(n) /\ p \in Old(n) /\ p \in Questions
    BY <1>0, <1>9, <1>11 DEF Cached, Old
  <2>2. CASE p = q /\ t = r /\ tells
    <3>1. n.q[q].DuplicateOf = Nobody => takes \/ n.rr[r].CRActiveQuestion = q
      BY DEF takes
    <3> QED
      BY <1>0, <1>7, <2>1, <2>2, <3>1
  <2>3. CASE ~(p = q /\ t = r /\ tells)
    <3>1. n.q[p].told[t] = 1
      BY <1>8, <1>13, <2>1, <2>3
    <3>2. AnswersQuestion(t, p) /\ n.rr[t].CRActiveQuestion # Nobody
      BY <1>0, <2>1, <3>1 DEF KeptAlive
    <3> QED
      BY <1>0, <1>7, <2>1, <3>2
  <2> QED
    BY <2>2, <2>3
<1> QED
  BY <1>5, <1>7, <1>8, <1>9, <1>10, <1>12, <1>13 DEF CoreInv, KeptAlive, SameDelivery, x

Counted(n, q, v) == [n EXCEPT !.q[q].CurrentAnswers = v]

LEMMA CountedFields ==
  ASSUME NEW n, CoreInv(n), NEW q \in Questions, NEW v \in Nat
  PROVE LET x == Counted(n, q, v)
        IN  /\ CoreInv(x) /\ SameList(n, x) /\ Old(x) = Old(n) /\ Asked(x) = Asked(n) /\ x.rr = n.rr
            /\ \A p \in Questions : x.q[p].DuplicateOf = n.q[p].DuplicateOf /\ x.q[p].told = n.q[p].told
<1> DEFINE x == Counted(n, q, v)
           one == [n.q[q] EXCEPT !.CurrentAnswers = v]
<1>1. CoreType(n) /\ n.q \in [Questions -> DNSQuestion] /\ n.rr \in [CacheRecords -> CacheRecord]
  BY DEF CoreInv, CoreType
<1>2. x = [n EXCEPT !.q = [n.q EXCEPT ![q] = one]]
  BY <1>1 DEF Counted, CoreType
<1>3. one \in DNSQuestion /\ one.DuplicateOf = n.q[q].DuplicateOf /\ one.told = n.q[q].told
  BY <1>1 DEF DNSQuestion
<1> HIDE DEF x, one
<1>4. SameList(n, x) /\ x.rr = n.rr /\ x.q = [n.q EXCEPT ![q] = one]
  BY <1>1, <1>2 DEF CoreType, SameList
<1>5. /\ x.q \in [Questions -> DNSQuestion]
      /\ \A p \in Questions : x.q[p].DuplicateOf = n.q[p].DuplicateOf /\ x.q[p].told = n.q[p].told
  BY <1>1, <1>3, <1>4
<1>6. CoreInv(x) /\ Asked(x) = Asked(n) /\ Old(x) = Old(n)
  BY <1>1, <1>4, <1>5, CoreKept
<1> QED
  BY <1>4, <1>5, <1>6 DEF x

(* A record that is gone taken back from a client.                          *)
LEMMA RemoveFields ==
  ASSUME NEW n, CoreInv(n), NEW q \in Old(n), NEW r \in CacheRecords,
         ~n.rr[r].cached, n.rr[r].DelayDelivery = {} => n.q[q].told[r] = 1
  PROVE LET x == RemoveAnswer(n, q, r)
        IN  /\ CoreInv(x) /\ SameList(n, x) /\ Old(x) = Old(n) /\ Asked(x) = Asked(n) /\ SameDelivery(n, x)
            /\ \A p \in Questions, t \in CacheRecords :
                 x.q[p].told[t] = IF p = q /\ t = r /\ n.rr[r].DelayDelivery = {} THEN 0 ELSE n.q[p].told[t]
<1> DEFINE x == RemoveAnswer(n, q, r)
           v == IF n.q[q].CurrentAnswers = 0 THEN 0 ELSE n.q[q].CurrentAnswers - 1
           y == Counted(n, q, v)
           tells == n.rr[r].DelayDelivery = {}
<1>1. q \in Asked(n) /\ q \in Questions /\ CoreType(n) /\ n.q[q] \in DNSQuestion
  BY CoreFields DEF CoreInv
<1>2. v \in Nat
  <2>1. n.q[q].CurrentAnswers \in Nat
    BY <1>1 DEF DNSQuestion
  <2> QED
    BY <2>1
<1>3. x = IF ~tells THEN y ELSE [y EXCEPT !.q[q].told[r] = @ - 1]
  BY <1>1 DEF RemoveAnswer, Counted, CoreType
<1> HIDE DEF v
<1>4. /\ CoreInv(y) /\ SameList(n, y) /\ Old(y) = Old(n) /\ Asked(y) = Asked(n) /\ y.rr = n.rr
      /\ \A p \in Questions : y.q[p].DuplicateOf = n.q[p].DuplicateOf /\ y.q[p].told = n.q[p].told
  BY <1>1, <1>2, CountedFields
<1> HIDE DEF y, x
<1>5. CASE ~tells
  BY <1>1, <1>3, <1>4, <1>5 DEF SameDelivery, x
<1>6. CASE tells
  <2> DEFINE new == Retold(y, q, r, 0)
  <2>1. CoreType(y) /\ y.q[q] \in DNSQuestion /\ y.q \in [Questions -> DNSQuestion]
    BY <1>1, <1>4 DEF CoreInv, CoreType
  <2>2. y.q[q].told \in [CacheRecords -> 0 .. 1] /\ y.q[q].told[r] = 1
    <3>1. y.q[q].told \in [CacheRecords -> 0 .. 1]
      BY <2>1 DEF DNSQuestion
    <3> QED
      BY <1>1, <1>4, <1>6, <3>1
  <2>3. x = [y EXCEPT !.q[q].told[r] = @ - 1]
    BY <1>3, <1>6
  <2>4. x.q = new
    <3>1. x.q = [y.q EXCEPT ![q] = [y.q[q] EXCEPT !.told = [y.q[q].told EXCEPT ![r] = 1 - 1]]]
      BY <1>1, <2>1, <2>2, <2>3 DEF CoreType, DNSQuestion
    <3> QED
      BY <3>1 DEF Retold
  <2>5. SameList(y, x) /\ x.rr = y.rr
    BY <2>1, <2>3 DEF CoreType, SameList
  <2>6. /\ new \in [Questions -> DNSQuestion]
        /\ \A p \in Questions : new[p].DuplicateOf = y.q[p].DuplicateOf
        /\ \A p \in Questions, t \in CacheRecords : new[p].told[t] = IF p = q /\ t = r THEN 0 ELSE y.q[p].told[t]
    BY <1>1, <2>1, RetoldFields
  <2> HIDE DEF new
  <2>7. y.rr \in [CacheRecords -> CacheRecord]
    BY <2>1 DEF CoreType
  <2>8. /\ CoreType(x) /\ NewComeLast(x) /\ OriginalsComeFirst(x)
        /\ Asked(x) = Asked(y) /\ Old(x) = Old(y)
        /\ \A t, p : KeptBy(y, t, p) => KeptBy(x, t, p)
    BY <1>4, <2>4, <2>5, <2>6, <2>7, SameListFields
  <2>9. NewAreQuiet(x)
    BY <1>1, <1>4, <2>4, <2>6, <2>8 DEF CoreInv, NewAreQuiet
  <2>10. Old(x) \subseteq Questions /\ Cached(x) = Cached(y) /\ r \notin Cached(y)
    BY <1>4, <2>5, <2>8, CoreFields DEF Cached
  <2>11. KeptAlive(x)
    <3>1. ASSUME NEW t \in Cached(x), x.rr[t].CRActiveQuestion # Nobody
          PROVE KeptBy(x, t, x.rr[t].CRActiveQuestion)
      BY <1>4, <2>5, <2>8, <2>10, <3>1 DEF CoreInv, KeptAlive
    <3>2. ASSUME NEW p \in Old(x), NEW t \in Cached(x), x.q[p].told[t] = 1
          PROVE AnswersQuestion(t, p) /\ x.rr[t].CRActiveQuestion # Nobody
      <4>1. t \in CacheRecords /\ t # r /\ t \in Cached(y) /\ p \in Questions
        BY <2>10 DEF Cached
      <4>2. y.q[p].told[t] = 1
        BY <2>4, <2>6, <3>2, <4>1
      <4> QED
        BY <1>4, <2>5, <2>8, <4>1, <4>2 DEF CoreInv, KeptAlive
    <3> QED
      BY <3>1, <3>2 DEF KeptAlive
  <2>12. CoreInv(x)
    BY <2>8, <2>9, <2>11 DEF CoreInv
  <2>13. \A p \in Questions, t \in CacheRecords :
           x.q[p].told[t] = IF p = q /\ t = r /\ tells THEN 0 ELSE n.q[p].told[t]
    BY <1>4, <1>6, <2>4, <2>6
  <2> QED
    BY <1>4, <2>5, <2>8, <2>12, <2>13 DEF SameList, SameDelivery, x
<1> QED
  BY <1>5, <1>6

---------------------------------------------------------------------------
(* The walks.                                                               *)

Whats == {"add", "remove", "add uncached"}
Subject(n, what, r) ==
  /\ what = "add" => n.rr[r].cached /\ n.rr[r].DelayDelivery = {}
  /\ what = "remove" => ~n.rr[r].cached

(* Where a walk about r is that goes on with c.                             *)
Along(n, what, r, c) ==
  LET e == IF what = "add uncached" THEN c ELSE IF c = Nobody THEN c ELSE OldQuestion(n, c)
  IN  IF e = Nobody THEN Idle ELSE [what |-> what, rr |-> r, CurrentQuestion |-> e]

LEMMA IdleIsWalk == Idle \in Walks /\ Idle.what = "idle"
  BY DEF Idle, Walks

LEMMA AlongFields ==
  ASSUME NEW n, CoreInv(n), NEW what \in Whats, NEW r \in CacheRecords, Subject(n, what, r),
         NEW c \in Asked(n) \cup {Nobody},
         \A p \in Old(n), t \in CacheRecords : n.q[p].told[t] = Meant(n, what, r, c, p, t)
  PROVE WalkOK(n, Along(n, what, r, c)) /\ ToldAsExpected(n, Along(n, what, r, c))
<1> DEFINE w == Along(n, what, r, c)
           e == IF what = "add uncached" THEN c ELSE IF c = Nobody THEN c ELSE OldQuestion(n, c)
<1>1. Asked(n) \subseteq Questions /\ Nobody \notin Asked(n) /\ n.NewQuestions \subseteq Asked(n) /\ Old(n) \subseteq Asked(n)
  BY CoreFields, NobodyAsks DEF CoreInv
<1>2. w = IF e = Nobody THEN Idle ELSE [what |-> what, rr |-> r, CurrentQuestion |-> e]
  BY DEF Along
<1>3. /\ e \in Asked(n) \cup {Nobody}
      /\ what # "add uncached" /\ e # Nobody => e \in Old(n)
      /\ e = c \/ (e = Nobody /\ what # "add uncached" /\ c \in n.NewQuestions)
  BY <1>1 DEF OldQuestion, Old
<1> HIDE DEF e, w
<1>4. CASE e = Nobody
  <2>1. w = Idle /\ w.what = "idle" /\ w \in Walks
    BY <1>2, <1>4, IdleIsWalk
  <2>2. ASSUME NEW p \in Old(n) PROVE ~Ahead(n.Questions, c, p)
    <3>1. CASE c = Nobody
      BY <3>1 DEF Ahead
    <3>2. CASE c \in n.NewQuestions
      BY <3>2, AheadOfNew
    <3> QED
      BY <1>3, <1>4, <3>1, <3>2
  <2>3. ToldAsExpected(n, w)
    BY <2>1, <2>2 DEF ToldAsExpected, Expected, Meant
  <2>4. WalkOK(n, w)
    BY <2>1 DEF WalkOK
  <2> QED
    BY <2>3, <2>4 DEF w
<1>5. CASE e # Nobody
  <2>1. w = [what |-> what, rr |-> r, CurrentQuestion |-> e]
    BY <1>2, <1>5
  <2>2. w.what = what /\ w.rr = r /\ w.CurrentQuestion = e /\ w.what # "answer" /\ w.what # "idle"
    BY <2>1 DEF Whats
  <2>3. w \in Walks
    BY <1>1, <1>3, <2>1 DEF Walks, Whats
  <2>4. e = c
    BY <1>3, <1>5
  <2>5. ToldAsExpected(n, w)
    BY <2>2, <2>4 DEF ToldAsExpected, Expected
  <2>6. WalkOK(n, w)
    BY <1>3, <1>5, <2>2, <2>3 DEF WalkOK, Subject
  <2> QED
    BY <2>5, <2>6 DEF w
<1> QED
  BY <1>4, <1>5

LEMMA BeginFields ==
  ASSUME NEW n, CoreInv(n), NEW what \in Whats, NEW r \in CacheRecords, Subject(n, what, r),
         Begin(what, n, r),
         \A p \in Old(n), t \in CacheRecords :
           n.q[p].told[t] = IF what = "add" /\ t = r THEN 0
                            ELSE IF what = "remove" /\ t = r /\ AnswersQuestion(r, p) /\ n.rr[r].DelayDelivery = {} THEN 1
                            ELSE Given(n, p, t)
  PROVE WalkOK(n, walk') /\ ToldAsExpected(n, walk')
<1> DEFINE c == IF n.Questions = <<>> THEN Nobody ELSE n.Questions[1]
<1>1. /\ n.Questions \in Seq(Questions) /\ NoDuplicates(n.Questions) /\ Asked(n) = Range(n.Questions)
      /\ Asked(n) \subseteq Questions /\ Nobody \notin Asked(n) /\ Old(n) \subseteq Asked(n)
  BY CoreFields, NobodyAsks DEF CoreInv
<1>2. n.Questions # <<>> => n.Questions[1] \in Asked(n) /\ Pos(n.Questions, n.Questions[1]) = 1
  <2>1. n.Questions # <<>> => 1 \in DOMAIN n.Questions
    BY <1>1
  <2> QED
    BY <1>1, <2>1, PosFields
<1>3. c \in Asked(n) \cup {Nobody}
  BY <1>2
<1>4. ASSUME NEW p \in Old(n) PROVE Ahead(n.Questions, c, p)
  <2>1. n.Questions # <<>>
    BY <1>1 DEF Range
  <2>2. Pos(n.Questions, p) >= 1
    BY <1>1, PosNumbers
  <2> QED
    BY <1>1, <1>2, <2>1, <2>2 DEF Ahead
<1>5. walk' = Along(n, what, r, c)
  BY <1>1, <1>2 DEF Begin, Along, Whats
<1> HIDE DEF c
<1>6. \A p \in Old(n), t \in CacheRecords : n.q[p].told[t] = Meant(n, what, r, c, p, t)
  BY <1>4 DEF Meant
<1>7. WalkOK(n, Along(n, what, r, c)) /\ ToldAsExpected(n, Along(n, what, r, c))
  BY <1>3, <1>6, AlongFields
<1> QED
  BY <1>5, <1>7

LEMMA WalkGoesOn ==
  ASSUME NEW n, NEW c, walk \in Walks, walk.what \in Whats, WalkOn(n, c)
  PROVE walk' = Along(n, walk.what, walk.rr, c) /\ walk.rr \in CacheRecords
<1> DEFINE e == IF walk.what = "add uncached" THEN c ELSE IF c = Nobody THEN c ELSE OldQuestion(n, c)
<1>1. walk' = IF e = Nobody THEN Idle ELSE [walk EXCEPT !.CurrentQuestion = e]
  BY DEF WalkOn
<1>2. walk \in [what : Whats, rr : CacheRecords, CurrentQuestion : Questions \cup {Nobody}]
  BY DEF Walks, Whats
<1> HIDE DEF e
<1>3. [walk EXCEPT !.CurrentQuestion = e] = [what |-> walk.what, rr |-> walk.rr, CurrentQuestion |-> e]
  BY <1>2
<1>4. walk' = IF e = Nobody THEN Idle ELSE [what |-> walk.what, rr |-> walk.rr, CurrentQuestion |-> e]
  BY <1>1, <1>3
<1>5. walk.rr \in CacheRecords
  BY <1>2
<1> QED
  BY <1>4, <1>5 DEF Along, e

LEMMA GivenSame ==
  ASSUME NEW n, NEW x, SameDelivery(n, x), NEW q, NEW r \in CacheRecords
  PROVE Given(x, q, r) = Given(n, q, r)
  BY DEF SameDelivery, Given

LEMMA CachedSame ==
  ASSUME NEW n, NEW x, SameDelivery(n, x)
  PROVE Cached(x) = Cached(n)
  BY DEF SameDelivery, Cached

LEMMA AheadOfItself ==
  ASSUME NEW n, CoreType(n), NEW q \in Asked(n)
  PROVE Ahead(n.Questions, q, q)
<1>1. q # Nobody /\ Pos(n.Questions, q) \in Nat
  BY CoreFields, PosNumbers, NobodyAsks
<1> QED
  BY <1>1 DEF Ahead

(* A duplicate is given what its original has been given already, and which *)
(* is kept alive therefore.                                                 *)
LEMMA OriginalKeeps ==
  ASSUME NEW n, CoreInv(n), NEW q \in Old(n), NEW r \in Cached(n), n.q[q].DuplicateOf # Nobody,
         AnswersQuestion(r, q),
         \A d \in Old(n) : Pos(n.Questions, d) < Pos(n.Questions, q) /\ AnswersQuestion(r, d) =>
                             n.q[d].told[r] = 1
  PROVE n.rr[r].CRActiveQuestion # Nobody
<1> DEFINE d == n.q[q].DuplicateOf
<1>0. CoreType(n) /\ NewComeLast(n) /\ OriginalsComeFirst(n) /\ KeptAlive(n)
  BY DEF CoreInv
<1>1. q \in Asked(n)
  BY <1>0, CoreFields
<1>2. OriginalOf(n, d, q)
  BY <1>0, <1>1 DEF OriginalsComeFirst
<1>3. d \in Asked(n) /\ Pos(n.Questions, d) < Pos(n.Questions, q)
  BY <1>2 DEF OriginalOf
<1>4. Pos(n.Questions, d) \in Nat /\ Pos(n.Questions, q) \in Nat
  BY <1>0, <1>1, <1>3, CoreFields, PosNumbers
<1>5. d \in Old(n)
  <2>1. d \notin n.NewQuestions
    BY <1>0, <1>1, <1>3, <1>4 DEF NewComeLast, Old
  <2> QED
    BY <1>3, <2>1 DEF Old
<1>6. AnswersQuestion(r, d)
  BY <1>2 DEF OriginalOf, AnswersQuestion
<1> HIDE DEF d
<1> QED
  BY <1>0, <1>3, <1>5, <1>6 DEF KeptAlive

(* What AnswerCurrentQuestionWithResourceRecord leaves before the callback. *)
LEMMA ToldFields ==
  ASSUME CoreInv(m), WalkOK(m, walk), ToldAsExpected(m, walk), walk.what \in Whats,
         AnswersQuestion(walk.rr, walk.CurrentQuestion)
  PROVE LET q == walk.CurrentQuestion
            r == walk.rr
            x == Told(m, q, r)
        IN  /\ CoreInv(x) /\ SameList(m, x) /\ Old(x) = Old(m) /\ Asked(x) = Asked(m) /\ SameDelivery(m, x)
            /\ \A p \in Old(m), t \in CacheRecords :
                 x.q[p].told[t] = IF p = q /\ t = r THEN Given(m, q, r) ELSE m.q[p].told[t]
<1> DEFINE q == walk.CurrentQuestion
           r == walk.rr
           x == Told(m, q, r)
<1>0. CoreType(m) /\ NewComeLast(m) /\ OriginalsComeFirst(m) /\ KeptAlive(m) /\ walk \in Walks
  BY DEF CoreInv, WalkOK
<1>1. r \in CacheRecords /\ q \in Asked(m)
  <2>1. walk \in [what : Whats, rr : CacheRecords, CurrentQuestion : Questions \cup {Nobody}]
    BY <1>0 DEF Walks, Whats
  <2>2. Old(m) \subseteq Asked(m)
    BY <1>0, CoreFields
  <2> QED
    BY <2>1, <2>2 DEF WalkOK, Whats
<1>2. \A p \in Old(m), t \in CacheRecords : m.q[p].told[t] = Meant(m, walk.what, r, q, p, t)
  BY DEF ToldAsExpected, Expected, Whats
<1>3. Ahead(m.Questions, q, q)
  BY <1>0, <1>1, AheadOfItself
<1>4. Old(m) \subseteq Questions
  BY <1>0, CoreFields
<1>5. CASE walk.what = "add"
  <2>1. q \in Old(m) /\ m.rr[r].cached /\ m.rr[r].DelayDelivery = {}
    BY <1>5 DEF WalkOK
  <2>2. m.q[q].told[r] = 0
    BY <1>1, <1>2, <1>3, <1>5, <2>1 DEF Meant
  <2>3. ASSUME m.q[q].DuplicateOf # Nobody PROVE m.rr[r].CRActiveQuestion # Nobody
    <3>1. r \in Cached(m)
      BY <1>1, <2>1 DEF Cached
    <3>2. ASSUME NEW d \in Old(m), Pos(m.Questions, d) < Pos(m.Questions, q), AnswersQuestion(r, d)
          PROVE m.q[d].told[r] = 1
      <4>1. Pos(m.Questions, d) \in Nat /\ Pos(m.Questions, q) \in Nat
        BY <1>0, <1>1, CoreFields, PosNumbers
      <4>2. ~Ahead(m.Questions, q, d)
        BY <3>2, <4>1 DEF Ahead
      <4> QED
        BY <1>1, <1>2, <1>5, <2>1, <3>2, <4>2 DEF Meant, Given
    <3> QED
      BY <2>1, <2>3, <3>1, <3>2, OriginalKeeps
  <2>4. x = AddAnswer(m, q, r)
    BY <1>5 DEF Told
  <2>5. /\ CoreInv(x) /\ SameList(m, x) /\ Old(x) = Old(m) /\ Asked(x) = Asked(m) /\ SameDelivery(m, x)
        /\ \A p \in Questions, t \in CacheRecords :
             x.q[p].told[t] = IF p = q /\ t = r /\ m.rr[r].DelayDelivery = {} THEN 1 ELSE m.q[p].told[t]
    BY <1>1, <2>1, <2>2, <2>3, <2>4, AddFields
  <2>6. Given(m, q, r) = 1
    BY <2>1 DEF Given
  <2> HIDE DEF x
  <2> QED
    BY <1>4, <2>1, <2>5, <2>6 DEF x
<1>6. CASE walk.what = "remove"
  <2>1. q \in Old(m) /\ ~m.rr[r].cached
    BY <1>6 DEF WalkOK
  <2>2. m.rr[r].DelayDelivery = {} => m.q[q].told[r] = 1
    BY <1>1, <1>2, <1>3, <1>6, <2>1 DEF Meant
  <2>3. Given(m, q, r) = 0
    BY <2>1 DEF Given
  <2>4. m.rr[r].DelayDelivery # {} => m.q[q].told[r] = 0
    BY <1>1, <1>2, <1>6, <2>1, <2>3 DEF Meant
  <2>5. x = RemoveAnswer(m, q, r)
    BY <1>6 DEF Told
  <2>6. /\ CoreInv(x) /\ SameList(m, x) /\ Old(x) = Old(m) /\ Asked(x) = Asked(m) /\ SameDelivery(m, x)
        /\ \A p \in Questions, t \in CacheRecords :
             x.q[p].told[t] = IF p = q /\ t = r /\ m.rr[r].DelayDelivery = {} THEN 0 ELSE m.q[p].told[t]
    BY <1>1, <2>1, <2>2, <2>5, RemoveFields
  <2> HIDE DEF x
  <2> QED
    BY <1>4, <2>3, <2>4, <2>6 DEF x
<1>7. CASE walk.what = "add uncached"
  <2>1. x = m
    BY <1>7 DEF Told
  <2>2. \A p \in Old(m) : p = q => m.q[p].told[r] = Given(m, q, r)
    BY <1>1, <1>2, <1>7 DEF Meant
  <2>3. SameList(m, m) /\ SameDelivery(m, m)
    BY DEF SameList, SameDelivery
  <2> QED
    BY <2>1, <2>2, <2>3
<1> QED
  BY <1>5, <1>6, <1>7 DEF Whats

LEMMA StepKeeps ==
  ASSUME CacheInv, Step PROVE CacheInv'
<1> DEFINE q == walk.CurrentQuestion
           r == walk.rr
           what == walk.what
<1>0. /\ CoreInv(m) /\ WalkOK(m, walk) /\ ToldAsExpected(m, walk) /\ ResponseOK(m, response)
      /\ CoreType(m) /\ walk \in Walks /\ what \in Whats /\ UNCHANGED response
  BY DEF CacheInv, CoreInv, WalkOK, Step, Whats
<1>1. q \in Asked(m) /\ r \in CacheRecords /\ Subject(m, what, r)
  <2>1. walk \in [what : Whats, rr : CacheRecords, CurrentQuestion : Questions \cup {Nobody}]
    BY <1>0 DEF Walks, Whats
  <2>2. Old(m) \subseteq Asked(m)
    BY <1>0, CoreFields
  <2> QED
    BY <1>0, <2>1, <2>2 DEF WalkOK, Whats, Subject
<1>2. \A p \in Old(m), t \in CacheRecords : m.q[p].told[t] = Meant(m, what, r, q, p, t)
  BY <1>0 DEF ToldAsExpected, Expected, Whats
<1>3. Old(m) \subseteq Asked(m)
  BY <1>0, CoreFields
<1>4. CASE ~AnswersQuestion(r, q)
  <2> DEFINE e == NextQuestion(m, q)
  <2>1. m' = m /\ WalkOn(m, e)
    BY <1>4 DEF Step
  <2>2. /\ e \in Asked(m) \cup {Nobody}
        /\ \A p \in Asked(m) : Ahead(m.Questions, e, p) <=> Ahead(m.Questions, q, p) /\ p # q
    BY <1>0, <1>1, NextFields
  <2>3. walk' = Along(m, what, r, e)
    BY <1>0, <2>1, WalkGoesOn
  <2> HIDE DEF e
  <2>4. ASSUME NEW p \in Old(m), NEW t \in CacheRecords
        PROVE m.q[p].told[t] = Meant(m, what, r, e, p, t)
    <3>1. Ahead(m.Questions, e, p) <=> Ahead(m.Questions, q, p) /\ p # q
      BY <1>3, <2>2
    <3>2. Given(m, q, r) = 0
      BY <1>4 DEF Given
    <3> HIDE DEF q, r, what
    <3>3. Meant(m, what, r, e, p, t) = Meant(m, what, r, q, p, t)
      BY <1>4, <3>1, <3>2 DEF Meant
    <3> QED
      BY <1>2, <3>3
  <2>5. WalkOK(m, Along(m, what, r, e)) /\ ToldAsExpected(m, Along(m, what, r, e))
    BY <1>0, <1>1, <2>2, <2>4, AlongFields
  <2>6. CoreInv(m') /\ WalkOK(m', walk') /\ ToldAsExpected(m', walk') /\ ResponseOK(m', response')
    BY <1>0, <2>1, <2>3, <2>5
  <2> QED
    BY <2>6 DEF CacheInv
<1>5. CASE AnswersQuestion(r, q)
  <2> DEFINE n == Told(m, q, r)
  <2>1. PICK x \in Client(n, q) : m' = x[1] /\ WalkOn(x[1], After(x[1], q, x[2]))
    BY <1>5 DEF Step
  <2>2. /\ CoreInv(n) /\ SameList(m, n) /\ Old(n) = Old(m) /\ Asked(n) = Asked(m) /\ SameDelivery(m, n)
        /\ \A p \in Old(m), t \in CacheRecords :
             n.q[p].told[t] = IF p = q /\ t = r THEN Given(m, q, r) ELSE m.q[p].told[t]
    BY <1>0, <1>5, ToldFields
  <2> HIDE DEF n
  <2> DEFINE y == x[1]
             e == After(y, q, x[2])
  <2>3. /\ CoreInv(y) /\ Old(y) \subseteq Old(n) /\ SameDelivery(n, y)
        /\ \A p \in Old(y) : y.q[p].told = n.q[p].told
    BY <2>2, ClientCore
  <2>4. /\ e \in Asked(y) \cup {Nobody}
        /\ \A p \in Old(y) : Ahead(y.Questions, e, p) <=> Ahead(n.Questions, q, p) /\ p # q
    BY <1>1, <2>2, ClientWalk
  <2>5. walk' = Along(y, what, r, e) /\ m' = y
    BY <1>0, <2>1, WalkGoesOn
  <2> HIDE DEF e, y
  <2>6. SameDelivery(m, y)
    BY <2>2, <2>3 DEF SameDelivery
  <2>7. Subject(y, what, r)
    BY <1>1, <2>6 DEF Subject, SameDelivery
  <2>8. ASSUME NEW p \in Old(y), NEW t \in CacheRecords
        PROVE y.q[p].told[t] = Meant(y, what, r, e, p, t)
    <3>1. Ahead(y.Questions, e, p) <=> Ahead(m.Questions, q, p) /\ p # q
      BY <2>2, <2>4 DEF SameList
    <3>2. Given(y, p, t) = Given(m, p, t) /\ y.rr[r].DelayDelivery = m.rr[r].DelayDelivery
      BY <1>1, <2>6, GivenSame DEF SameDelivery
    <3>3. p \in Old(m) /\ y.q[p].told[t] = IF p = q /\ t = r THEN Given(m, q, r) ELSE m.q[p].told[t]
      BY <2>2, <2>3
    <3>4. m.q[p].told[t] = Meant(m, what, r, q, p, t)
      BY <1>2, <3>3
    <3> HIDE DEF q, r, what
    <3>5. CASE p = q /\ t = r
      BY <3>1, <3>2, <3>3, <3>5 DEF Meant
    <3>6. CASE ~(p = q /\ t = r)
      <4>1. Meant(y, what, r, e, p, t) = Meant(m, what, r, q, p, t)
        BY <3>1, <3>2, <3>6 DEF Meant
      <4> QED
        BY <3>3, <3>4, <3>6, <4>1
    <3> QED
      BY <3>5, <3>6
  <2>9. WalkOK(y, Along(y, what, r, e)) /\ ToldAsExpected(y, Along(y, what, r, e))
    BY <1>0, <1>1, <2>3, <2>4, <2>7, <2>8, AlongFields
  <2>10. ResponseOK(y, response)
    BY <1>0, <2>6, CachedSame DEF ResponseOK
  <2>11. CoreInv(m') /\ WalkOK(m', walk') /\ ToldAsExpected(m', walk') /\ ResponseOK(m', response')
    BY <1>0, <2>3, <2>5, <2>9, <2>10
  <2> QED
    BY <2>11 DEF CacheInv
<1> QED
  BY <1>4, <1>5

---------------------------------------------------------------------------
(* The answers to a new question.                                           *)

Answering(n, q) == [n EXCEPT !.NewQuestions = @ \ {q}, !.q[q].DelayAnswering = {}]

LEMMA AnsweringFields ==
  ASSUME NEW n, CoreInv(n), NEW q \in n.NewQuestions,
         \A p \in n.NewQuestions : Pos(n.Questions, q) <= Pos(n.Questions, p)
  PROVE LET x == Answering(n, q)
        IN  /\ CoreInv(x) /\ Old(x) = Old(n) \cup {q} /\ x.rr = n.rr
            /\ \A p \in Questions : x.q[p].told = n.q[p].told
<1> DEFINE x == Answering(n, q)
           one == [n.q[q] EXCEPT !.DelayAnswering = {}]
<1>1. /\ CoreType(n) /\ NewComeLast(n) /\ OriginalsComeFirst(n) /\ NewAreQuiet(n) /\ KeptAlive(n)
      /\ n.q \in [Questions -> DNSQuestion] /\ Asked(n) \subseteq Questions
      /\ n.NewQuestions \subseteq Asked(n) /\ q \in Questions
  BY CoreFields DEF CoreInv, CoreType
<1>2. x = [n EXCEPT !.NewQuestions = n.NewQuestions \ {q}, !.q = [n.q EXCEPT ![q] = one]]
  BY <1>1 DEF Answering, CoreType
<1>3. one \in DNSQuestion /\ one.DuplicateOf = n.q[q].DuplicateOf /\ one.told = n.q[q].told
  BY <1>1 DEF DNSQuestion
<1> HIDE DEF x, one
<1>4. /\ DOMAIN x = DOMAIN n /\ x.Questions = n.Questions /\ x.NewQuestions = n.NewQuestions \ {q}
      /\ x.rr = n.rr /\ x.q = [n.q EXCEPT ![q] = one]
  BY <1>1, <1>2 DEF CoreType
<1>5. /\ x.q \in [Questions -> DNSQuestion]
      /\ \A p \in Questions : x.q[p].DuplicateOf = n.q[p].DuplicateOf /\ x.q[p].told = n.q[p].told
  BY <1>1, <1>3, <1>4
<1>6. Asked(x) = Asked(n) /\ Cached(x) = Cached(n)
  BY <1>4 DEF Asked, Cached
<1>7. CoreType(x)
  BY <1>1, <1>4, <1>5, <1>6 DEF CoreType
<1>8. Old(x) = Old(n) \cup {q}
  BY <1>1, <1>4, <1>6 DEF Old
<1>9. NewComeLast(x)
  <2> SUFFICES ASSUME NEW p \in x.NewQuestions, NEW s \in Asked(x), Pos(x.Questions, p) <= Pos(x.Questions, s)
               PROVE s \in x.NewQuestions
    BY DEF NewComeLast
  <2>1. p \in n.NewQuestions /\ p # q /\ s \in n.NewQuestions
    BY <1>1, <1>4, <1>6 DEF NewComeLast
  <2>2. s # q
    <3> SUFFICES ASSUME s = q PROVE FALSE
      OBVIOUS
    <3>1. /\ Pos(n.Questions, p) \in Nat /\ Pos(n.Questions, q) \in Nat
          /\ Pos(n.Questions, p) # Pos(n.Questions, q)
      BY <1>1, <2>1, CoreFields, PosNumbers, PosDiffer
    <3>2. Pos(n.Questions, q) <= Pos(n.Questions, p) /\ Pos(n.Questions, p) <= Pos(n.Questions, q)
      BY <1>4, <2>1
    <3> QED
      BY <3>1, <3>2
  <2> QED
    BY <1>4, <2>1, <2>2
<1>10. OriginalsComeFirst(x)
  BY <1>1, <1>4, <1>5, <1>6 DEF OriginalsComeFirst, OriginalOf
<1>11. NewAreQuiet(x)
  BY <1>1, <1>5, <1>8 DEF NewAreQuiet
<1>12. KeptAlive(x)
  <2>1. ASSUME NEW r \in Cached(x), x.rr[r].CRActiveQuestion # Nobody
        PROVE KeptBy(x, r, x.rr[r].CRActiveQuestion)
    <3>1. KeptBy(n, r, x.rr[r].CRActiveQuestion)
      BY <1>1, <1>4, <1>6, <2>1 DEF KeptAlive
    <3> QED
      BY <1>1, <1>5, <1>6, <3>1 DEF KeptBy, ActiveQuestion
  <2>2. q \notin Old(n)
    BY DEF Old
  <2>3. ASSUME NEW p \in Old(x), NEW r \in Cached(x), x.q[p].told[r] = 1
        PROVE AnswersQuestion(r, p) /\ x.rr[r].CRActiveQuestion # Nobody
    <3>1. r \in CacheRecords /\ r \in Cached(n) /\ p \in Questions
      BY <1>1, <1>6, <1>8 DEF Cached, Old
    <3>2. n.q[p].told[r] = 1
      BY <1>5, <2>3, <3>1
    <3>3. p # q
      BY <1>1, <2>2, <3>1, <3>2 DEF NewAreQuiet
    <3> QED
      BY <1>1, <1>4, <1>8, <3>1, <3>2, <3>3 DEF KeptAlive
  <2> QED
    BY <2>1, <2>3 DEF KeptAlive
<1> QED
  BY <1>4, <1>5, <1>7, <1>8, <1>9, <1>10, <1>11, <1>12 DEF CoreInv, x

(* Between the walks.                                                       *)
LEMMA IdleExpects ==
  ASSUME CacheInv, walk = Idle
  PROVE /\ CoreInv(m) /\ ResponseOK(m, response) /\ CoreType(m)
        /\ Asked(m) \subseteq Questions /\ Old(m) \subseteq Asked(m)
        /\ \A p \in Old(m), t \in CacheRecords : m.q[p].told[t] = Given(m, p, t)
<1>1. CoreInv(m) /\ ResponseOK(m, response) /\ CoreType(m) /\ ToldAsExpected(m, Idle)
  BY DEF CacheInv, CoreInv
<1> QED
  BY <1>1, CoreFields, IdleIsWalk DEF ToldAsExpected, Expected

LEMMA AnswerNewKeeps ==
  ASSUME CacheInv, AnswerNewQuestion PROVE CacheInv'
<1> DEFINE q == First(m, m.NewQuestions)
           w == [what |-> "answer", q |-> q, CurrentQuestion |-> q, todo |-> {r \in Cached(m) : AnswersQuestion(r, q)}]
<1>0. /\ walk = Idle /\ m.NewQuestions # {} /\ UNCHANGED response
      /\ m' = Answering(m, q) /\ walk' = w
  BY DEF AnswerNewQuestion, Answering
<1>1. /\ CoreInv(m) /\ CoreType(m) /\ ResponseOK(m, response) /\ NewAreQuiet(m)
      /\ Asked(m) \subseteq Questions /\ Old(m) \subseteq Asked(m) /\ m.NewQuestions \subseteq Asked(m)
      /\ m.Questions \in Seq(Questions) /\ NoDuplicates(m.Questions)
      /\ \A p \in Old(m), t \in CacheRecords : m.q[p].told[t] = Given(m, p, t)
  BY <1>0, IdleExpects, CoreFields DEF CoreInv
<1>2. q \in m.NewQuestions /\ \A p \in m.NewQuestions : Pos(m.Questions, q) <= Pos(m.Questions, p)
  <2>1. Asked(m) \cap m.NewQuestions = m.NewQuestions
    BY <1>1
  <2> QED
    BY <1>0, <1>1, <2>1, FirstFields
<1> DEFINE x == Answering(m, q)
<1>3. /\ CoreInv(x) /\ Old(x) = Old(m) \cup {q} /\ x.rr = m.rr
      /\ \A p \in Questions : x.q[p].told = m.q[p].told
  BY <1>1, <1>2, AnsweringFields
<1> HIDE DEF q, x
<1>4. w.what = "answer" /\ w.q = q /\ w.CurrentQuestion = q /\ w.todo = {r \in Cached(m) : AnswersQuestion(r, q)}
  OBVIOUS
<1>5. w \in Walks
  BY <1>1, <1>2 DEF Walks, Cached
<1> HIDE DEF w
<1>6. WalkOK(x, w)
  BY <1>3, <1>4, <1>5 DEF WalkOK, Cached
<1>7. ASSUME NEW p \in Old(x), NEW t \in CacheRecords PROVE x.q[p].told[t] = Expected(x, w, p, t)
  <2>1. x.q[p].told[t] = m.q[p].told[t] /\ Given(x, p, t) = Given(m, p, t)
    BY <1>1, <1>2, <1>3 DEF Given
  <2>2. CASE p = q
    <3>1. m.q[p].told[t] = 0
      BY <1>1, <1>2, <2>2 DEF NewAreQuiet, Old
    <3>2. t \notin w.todo => Given(m, p, t) = 0
      BY <1>4, <2>2 DEF Given, Cached
    <3> QED
      BY <1>4, <2>1, <2>2, <3>1, <3>2 DEF Expected
  <2>3. CASE p # q
    BY <1>1, <1>3, <1>4, <2>1, <2>3 DEF Expected
  <2> QED
    BY <2>2, <2>3
<1>8. ToldAsExpected(x, w)
  BY <1>7 DEF ToldAsExpected
<1>9. ResponseOK(x, response)
  BY <1>1, <1>3 DEF ResponseOK, Cached
<1>10. CoreInv(m') /\ WalkOK(m', walk') /\ ToldAsExpected(m', walk') /\ ResponseOK(m', response')
  BY <1>0, <1>3, <1>6, <1>8, <1>9 DEF x
<1> QED
  BY <1>10 DEF CacheInv

LEMMA AnswerStepKeeps ==
  ASSUME CacheInv, AnswerStep PROVE CacheInv'
<1> DEFINE q == walk.q
<1>0. /\ CoreInv(m) /\ WalkOK(m, walk) /\ ToldAsExpected(m, walk) /\ ResponseOK(m, response)
      /\ CoreType(m) /\ walk \in Walks /\ walk.what = "answer" /\ UNCHANGED response
  BY DEF CacheInv, CoreInv, WalkOK, AnswerStep
<1>1. /\ walk \in [what : {"answer"}, q : Questions, todo : SUBSET CacheRecords, CurrentQuestion : Questions \cup {Nobody}]
      /\ \A t \in walk.todo : t \in CacheRecords /\ m.rr[t].cached /\ AnswersQuestion(t, q)
      /\ IF walk.CurrentQuestion = q THEN q \in Old(m) ELSE q \notin Asked(m)
  <2>1. walk \in [what : {"answer"}, q : Questions, todo : SUBSET CacheRecords, CurrentQuestion : Questions \cup {Nobody}]
    BY <1>0 DEF Walks
  <2> QED
    BY <1>0, <2>1 DEF WalkOK
<1>2. \A p \in Old(m), t \in CacheRecords :
        m.q[p].told[t] = IF p = q /\ t \in walk.todo THEN 0 ELSE Given(m, p, t)
  BY <1>0 DEF ToldAsExpected, Expected
<1>3. Old(m) \subseteq Asked(m) /\ Asked(m) \subseteq Questions
  BY <1>0, CoreFields
<1>4. CASE (walk.todo = {} \/ walk.CurrentQuestion # q) /\ walk' = Idle /\ UNCHANGED m
  <2>1. \A p \in Old(m), t \in CacheRecords : m.q[p].told[t] = Given(m, p, t)
    BY <1>1, <1>2, <1>3, <1>4
  <2>2. ToldAsExpected(m, Idle) /\ WalkOK(m, Idle)
    BY <2>1, IdleIsWalk DEF ToldAsExpected, Expected, WalkOK
  <2>3. CoreInv(m') /\ WalkOK(m', walk') /\ ToldAsExpected(m', walk') /\ ResponseOK(m', response')
    BY <1>0, <1>4, <2>2
  <2> QED
    BY <2>3 DEF CacheInv
<1>5. ASSUME walk.CurrentQuestion = q, NEW r \in walk.todo,
             NEW x \in Client(AddAnswer([m EXCEPT !.q[q].CurrentAnswers = @ + 1], q, r), q),
             m' = x[1], walk' = [walk EXCEPT !.todo = @ \ {r}, !.CurrentQuestion = x[2]]
      PROVE CacheInv'
  <2> DEFINE v == m.q[q].CurrentAnswers + 1
             counted == Counted(m, q, v)
             n == AddAnswer(counted, q, r)
             y == x[1]
  <2>1. q \in Old(m) /\ q \in Questions /\ r \in CacheRecords /\ m.rr[r].cached /\ AnswersQuestion(r, q)
    BY <1>1, <1>3, <1>5
  <2>2. m.q[q] \in DNSQuestion
    BY <1>0, <2>1 DEF CoreType
  <2>3. v \in Nat
    <3>1. m.q[q].CurrentAnswers \in Nat
      BY <2>2 DEF DNSQuestion
    <3> QED
      BY <3>1
  <2>4. [m EXCEPT !.q[q].CurrentAnswers = @ + 1] = counted
    BY <1>0, <2>1, <2>2 DEF Counted, CoreType, DNSQuestion
  <2>5. x \in Client(n, q)
    BY <1>5, <2>4
  <2> HIDE DEF v
  <2>6. /\ CoreInv(counted) /\ Old(counted) = Old(m) /\ Asked(counted) = Asked(m) /\ counted.rr = m.rr
        /\ SameList(m, counted)
        /\ \A p \in Questions : counted.q[p].DuplicateOf = m.q[p].DuplicateOf /\ counted.q[p].told = m.q[p].told
    BY <1>0, <2>1, <2>3, CountedFields
  <2> HIDE DEF counted
  <2>7. counted.q[q].told[r] = 0
    BY <1>2, <2>1, <2>6
  <2>8. ASSUME counted.q[q].DuplicateOf # Nobody, counted.rr[r].DelayDelivery = {}
        PROVE counted.rr[r].CRActiveQuestion # Nobody
    <3>1. r \in Cached(m) /\ m.q[q].DuplicateOf # Nobody /\ m.rr[r].DelayDelivery = {}
      BY <2>1, <2>6, <2>8 DEF Cached
    <3>2. ASSUME NEW d \in Old(m), Pos(m.Questions, d) < Pos(m.Questions, q), AnswersQuestion(r, d)
          PROVE m.q[d].told[r] = 1
      <4>1. Pos(m.Questions, d) \in Nat /\ Pos(m.Questions, q) \in Nat
        BY <1>0, <1>3, <2>1, CoreFields, PosNumbers
      <4>2. d # q
        BY <3>2, <4>1
      <4> QED
        BY <1>2, <2>1, <3>1, <3>2, <4>2 DEF Given
    <3>3. m.rr[r].CRActiveQuestion # Nobody
      BY <1>0, <2>1, <3>1, <3>2, OriginalKeeps
    <3> QED
      BY <2>6, <3>3
  <2>9. /\ CoreInv(n) /\ SameDelivery(counted, n) /\ Old(n) = Old(m) /\ Asked(n) = Asked(m)
        /\ \A p \in Questions, t \in CacheRecords :
             n.q[p].told[t] = IF p = q /\ t = r /\ counted.rr[r].DelayDelivery = {} THEN 1
                              ELSE counted.q[p].told[t]
    <3>1. q \in Old(counted) /\ counted.rr[r].cached
      BY <2>1, <2>6
    <3> QED
      BY <2>1, <2>6, <2>7, <2>8, <3>1, AddFields
  <2> HIDE DEF n
  <2>10. /\ CoreInv(y) /\ Old(y) \subseteq Old(n) /\ SameDelivery(n, y)
         /\ \A p \in Old(y) : y.q[p].told = n.q[p].told
    BY <2>5, <2>9, ClientCore
  <2>11. /\ \/ x[2] = q /\ (q \in Old(n) => q \in Old(y))
            \/ x[2] # q /\ q \notin Asked(y)
         /\ x[2] \in Questions \cup {Nobody}
    <3>1. q \in Asked(n)
      BY <1>3, <2>1, <2>9
    <3> QED
      BY <2>5, <2>9, <3>1, ClientWalk
  <2>12. SameDelivery(m, y)
    BY <2>6, <2>9, <2>10 DEF SameDelivery
  <2> DEFINE c == x[2]
             w == [walk EXCEPT !.todo = @ \ {r}, !.CurrentQuestion = c]
  <2>13. /\ w \in Walks /\ w.what = "answer" /\ w.q = q /\ w.todo = walk.todo \ {r} /\ w.CurrentQuestion = x[2]
    <3>1. walk \in [what : {"answer"}, q : Questions, todo : SUBSET CacheRecords, CurrentQuestion : Questions \cup {Nobody}]
      BY <1>1
    <3>2. c \in Questions \cup {Nobody}
      BY <2>11
    <3> HIDE DEF c
    <3>3. /\ w \in [what : {"answer"}, q : Questions, todo : SUBSET CacheRecords, CurrentQuestion : Questions \cup {Nobody}]
          /\ w.q = walk.q /\ w.todo = walk.todo \ {r} /\ w.CurrentQuestion = c
      BY <3>1, <3>2
    <3> HIDE DEF w
    <3> QED
      BY <3>3 DEF Walks, c
  <2>14. m' = y /\ walk' = w
    BY <1>5
  <2> HIDE DEF w, y, c
  <2>15. WalkOK(y, w)
    <3>1. \A t \in w.todo : y.rr[t].cached /\ AnswersQuestion(t, q)
      BY <1>1, <2>12, <2>13 DEF SameDelivery
    <3>2. IF x[2] = q THEN q \in Old(y) ELSE q \notin Asked(y)
      BY <2>1, <2>9, <2>11
    <3> QED
      BY <2>13, <3>1, <3>2 DEF WalkOK
  <2>16. ASSUME NEW p \in Old(y), NEW t \in CacheRecords PROVE y.q[p].told[t] = Expected(y, w, p, t)
    <3>1. /\ p \in Old(m) /\ p \in Questions /\ Given(y, p, t) = Given(m, p, t)
          /\ m.rr[r].DelayDelivery = counted.rr[r].DelayDelivery
      BY <1>3, <2>6, <2>9, <2>10, <2>12, GivenSame
    <3>2. y.q[p].told[t] = IF p = q /\ t = r /\ m.rr[r].DelayDelivery = {} THEN 1 ELSE m.q[p].told[t]
      BY <2>6, <2>9, <2>10, <3>1
    <3>3. m.q[p].told[t] = IF p = q /\ t \in walk.todo THEN 0 ELSE Given(m, p, t)
      BY <1>2, <3>1
    <3>4. Expected(y, w, p, t) = IF p = q /\ t \in walk.todo \ {r} THEN 0 ELSE Given(m, p, t)
      BY <2>13, <3>1 DEF Expected
    <3>5. CASE p = q /\ t = r
      <4>1. Given(m, p, t) = IF m.rr[r].DelayDelivery = {} THEN 1 ELSE 0
        BY <2>1, <3>5 DEF Given
      <4> QED
        BY <1>5, <3>2, <3>3, <3>4, <3>5, <4>1
    <3>6. CASE ~(p = q /\ t = r)
      BY <3>2, <3>3, <3>4, <3>6
    <3> QED
      BY <3>5, <3>6
  <2>17. ToldAsExpected(y, w)
    BY <2>16 DEF ToldAsExpected
  <2>18. ResponseOK(y, response)
    BY <1>0, <2>12, CachedSame DEF ResponseOK
  <2>19. CoreInv(m') /\ WalkOK(m', walk') /\ ToldAsExpected(m', walk') /\ ResponseOK(m', response')
    BY <1>0, <2>10, <2>14, <2>15, <2>17, <2>18
  <2> QED
    BY <2>19 DEF CacheInv
<1> QED
  BY <1>4, <1>5 DEF AnswerStep

---------------------------------------------------------------------------
(* Time, queries and responses.                                             *)

LEMMA IdleAgain ==
  ASSUME NEW x, \A p \in Old(x), t \in CacheRecords : x.q[p].told[t] = Given(x, p, t)
  PROVE WalkOK(x, Idle) /\ ToldAsExpected(x, Idle)
  BY IdleIsWalk DEF WalkOK, ToldAsExpected, Expected

(* The records of the cache, who refers to them and what their deliveries   *)
(* wait for stay.                                                           *)
LEMMA Steady ==
  ASSUME CacheInv, walk = Idle, NEW x, SameList(m, x), x.q = m.q, x.rr \in [CacheRecords -> CacheRecord],
         SameDelivery(m, x), \A r \in CacheRecords : x.rr[r].CRActiveQuestion = m.rr[r].CRActiveQuestion
  PROVE CoreInv(x) /\ WalkOK(x, Idle) /\ ToldAsExpected(x, Idle) /\ Cached(x) = Cached(m)
<1>1. /\ CoreInv(m) /\ m.q \in [Questions -> DNSQuestion]
      /\ \A p \in Old(m), t \in CacheRecords : m.q[p].told[t] = Given(m, p, t)
  BY IdleExpects DEF CoreType
<1>2. CoreInv(x) /\ Old(x) = Old(m)
  BY <1>1, CoreKept DEF SameDelivery
<1>3. \A p \in Old(x), t \in CacheRecords : x.q[p].told[t] = Given(x, p, t)
  BY <1>1, <1>2, GivenSame
<1> QED
  BY <1>2, <1>3, IdleAgain, CachedSame

LEMMA AgeKeeps ==
  ASSUME CacheInv, NEW r \in CacheRecords, Age(r) PROVE CacheInv'
<1> DEFINE one == [m.rr[r] EXCEPT !.life = @ - 1]
           x == [m EXCEPT !.rr[r].life = @ - 1]
<1>1. walk = Idle /\ m' = x /\ walk' = walk /\ response' = response /\ m.rr[r].life > 0
  BY DEF Age
<1>2. /\ CoreType(m) /\ ResponseOK(m, response) /\ m.rr \in [CacheRecords -> CacheRecord] /\ m.rr[r] \in CacheRecord
  BY <1>1, IdleExpects DEF CoreType
<1>3. m.rr[r].life \in 0 .. Fresh /\ m.rr[r].life - 1 \in 0 .. Fresh
  <2>1. m.rr[r].life \in 0 .. Fresh
    BY <1>2 DEF CacheRecord
  <2>2. Fresh \in Nat
    BY CacheAssumption DEF Fresh
  <2> QED
    BY <1>1, <2>1, <2>2
<1>4. /\ one \in CacheRecord /\ one.cached = m.rr[r].cached /\ one.DelayDelivery = m.rr[r].DelayDelivery
      /\ one.CRActiveQuestion = m.rr[r].CRActiveQuestion
  BY <1>2, <1>3 DEF CacheRecord
<1>5. DOMAIN x = DOMAIN m /\ x.Questions = m.Questions /\ x.NewQuestions = m.NewQuestions /\ x.q = m.q
      /\ x.rr = [m.rr EXCEPT ![r] = one]
  BY <1>2 DEF CoreType
<1> HIDE DEF one, x
<1>6. x.rr \in [CacheRecords -> CacheRecord] /\ SameDelivery(m, x)
      /\ \A t \in CacheRecords : x.rr[t].CRActiveQuestion = m.rr[t].CRActiveQuestion
  BY <1>2, <1>4, <1>5 DEF SameDelivery
<1>7. CoreInv(x) /\ WalkOK(x, Idle) /\ ToldAsExpected(x, Idle) /\ Cached(x) = Cached(m)
  BY <1>1, <1>5, <1>6, Steady DEF SameList
<1>8. CoreInv(m') /\ WalkOK(m', walk') /\ ToldAsExpected(m', walk') /\ ResponseOK(m', response')
  BY <1>1, <1>2, <1>7 DEF ResponseOK
<1> QED
  BY <1>8 DEF CacheInv

LEMMA SendKeeps ==
  ASSUME CacheInv, SendQueries PROVE CacheInv'
<1>1. PICK sent, known : m' = BuildQuestions(m, sent, known)
  BY DEF SendQueries
<1>2. walk = Idle /\ walk' = walk /\ response' = response
  BY DEF SendQueries
<1>3. CoreType(m) /\ ResponseOK(m, response) /\ m.rr \in [CacheRecords -> CacheRecord]
  BY <1>2, IdleExpects DEF CoreType
<1> DEFINE x == BuildQuestions(m, sent, known)
           counts == {r \in Cached(m) \ known : \E q \in sent : AnswersQuestion(r, q)}
           new == [r \in CacheRecords |-> IF r \in counts THEN Queried(m.rr[r]) ELSE m.rr[r]]
<1>4. x = [m EXCEPT !.rr = new]
  BY DEF BuildQuestions
<1> HIDE DEF counts, x
<1>5. ASSUME NEW t \in CacheRecords
      PROVE /\ new[t] \in CacheRecord /\ new[t].cached = m.rr[t].cached
            /\ new[t].DelayDelivery = m.rr[t].DelayDelivery
            /\ new[t].CRActiveQuestion = m.rr[t].CRActiveQuestion
  <2> DEFINE a == m.rr[t]
             u == IF a.UnansweredQueries < MaxUnansweredQueries THEN a.UnansweredQueries + 1
                  ELSE a.UnansweredQueries
  <2>1. a \in CacheRecord /\ new[t] = IF t \in counts THEN Queried(a) ELSE a
    BY <1>3
  <2> HIDE DEF a, new
  <2>2. a.UnansweredQueries \in 0 .. MaxUnansweredQueries
    BY <2>1 DEF CacheRecord
  <2>3. u \in 0 .. MaxUnansweredQueries
    BY <2>2, CacheAssumption
  <2>4. Queried(a) = [a EXCEPT !.UnansweredQueries = u]
    BY <2>1 DEF Queried, CacheRecord
  <2> HIDE DEF u
  <2>5. /\ Queried(a) \in CacheRecord /\ Queried(a).cached = a.cached
        /\ Queried(a).DelayDelivery = a.DelayDelivery /\ Queried(a).CRActiveQuestion = a.CRActiveQuestion
    BY <2>1, <2>3, <2>4 DEF CacheRecord
  <2> QED
    BY <2>1, <2>5 DEF a
<1>6. new \in [CacheRecords -> CacheRecord]
  BY <1>5
<1> HIDE DEF new
<1>7. SameList(m, x) /\ x.q = m.q /\ x.rr = new
  BY <1>3, <1>4 DEF CoreType, SameList
<1>8. CoreInv(x) /\ WalkOK(x, Idle) /\ ToldAsExpected(x, Idle) /\ Cached(x) = Cached(m)
  BY <1>2, <1>5, <1>6, <1>7, Steady DEF SameDelivery
<1>9. CoreInv(m') /\ WalkOK(m', walk') /\ ToldAsExpected(m', walk') /\ ResponseOK(m', response')
  BY <1>1, <1>2, <1>3, <1>8 DEF ResponseOK, x
<1> QED
  BY <1>9 DEF CacheInv

LEMMA ReceiveKeeps ==
  ASSUME CacheInv, NEW answers \in SUBSET CacheRecords, NEW goodbyes \in SUBSET CacheRecords, Receive(answers, goodbyes)
  PROVE CacheInv'
<1>1. /\ response' = [answers |-> answers, goodbyes |-> goodbyes, todo |-> answers \cup goodbyes,
                      CacheFlushRecords |-> {}, flushing |-> FALSE]
      /\ m' = m /\ walk' = walk
  BY DEF Receive
<1>2. response' \in Responses /\ response'.CacheFlushRecords = {}
  BY <1>1 DEF Responses
<1>3. CoreInv(m') /\ WalkOK(m', walk') /\ ToldAsExpected(m', walk') /\ ResponseOK(m', response')
  BY <1>1, <1>2 DEF CacheInv, ResponseOK
<1> QED
  BY <1>3 DEF CacheInv

(* Nothing is known of a record that is not in the cache.                   *)
LEMMA UncachedUntold ==
  ASSUME NEW n, CoreInv(n), NEW r \in CacheRecords, ~n.rr[r].cached,
         \A p \in Old(n), t \in CacheRecords : n.q[p].told[t] = Given(n, p, t)
  PROVE \A p \in Questions : n.q[p].told[r] = 0
  BY DEF Given, CoreInv, NewAreQuiet

(* Nobody has been given a record that no question refers to.               *)
LEMMA UnkeptUntold ==
  ASSUME NEW n, CoreInv(n), NEW r \in Cached(n), n.rr[r].CRActiveQuestion = Nobody, NEW p \in Old(n)
  PROVE n.q[p].told[r] = 0
<1>1. CoreType(n) /\ KeptAlive(n) /\ r \in CacheRecords
  BY DEF CoreInv, Cached
<1>2. p \in Questions /\ n.q[p] \in DNSQuestion
  BY <1>1, CoreFields
<1>3. n.q[p].told[r] \in 0 .. 1
  BY <1>1, <1>2 DEF DNSQuestion
<1>4. n.q[p].told[r] # 1
  BY <1>1 DEF KeptAlive
<1> QED
  BY <1>3, <1>4

(* Another state of one record.                                             *)
LEMMA OneRecord ==
  ASSUME NEW n, CoreInv(n), NEW r \in CacheRecords, NEW one \in CacheRecord, NEW x,
         SameList(n, x), x.q = n.q, x.rr = [n.rr EXCEPT ![r] = one],
         one.cached => \/ n.rr[r].cached /\ one.CRActiveQuestion = n.rr[r].CRActiveQuestion
                       \/ one.CRActiveQuestion = Nobody /\ \A p \in Questions : n.q[p].told[r] = 0
  PROVE /\ CoreInv(x) /\ Asked(x) = Asked(n) /\ Old(x) = Old(n) /\ x.rr[r] = one
        /\ \A t \in CacheRecords : t # r => x.rr[t] = n.rr[t] /\ \A p : Given(x, p, t) = Given(n, p, t)
<1>1. n.rr \in [CacheRecords -> CacheRecord] /\ n.q \in [Questions -> DNSQuestion]
  BY DEF CoreInv, CoreType
<1>2. x.rr[r] = one /\ x.rr \in [CacheRecords -> CacheRecord] /\ \A t \in CacheRecords : t # r => x.rr[t] = n.rr[t]
  BY <1>1
<1>3. \A t \in CacheRecords : x.rr[t].cached =>
        \/ n.rr[t].cached /\ x.rr[t].CRActiveQuestion = n.rr[t].CRActiveQuestion
        \/ x.rr[t].CRActiveQuestion = Nobody /\ \A p \in Questions : n.q[p].told[t] = 0
  BY <1>2
<1>4. CoreInv(x) /\ Asked(x) = Asked(n) /\ Old(x) = Old(n)
  BY <1>1, <1>2, <1>3, CoreKept
<1>5. \A t \in CacheRecords : t # r => \A p : Given(x, p, t) = Given(n, p, t)
  BY <1>2 DEF Given
<1> QED
  BY <1>2, <1>4, <1>5

LEMMA DeferredKeeps ==
  ASSUME CacheInv, NEW r \in CacheRecords, CacheRecordDeferredAdd(r) PROVE CacheInv'
<1> DEFINE x == [m EXCEPT !.rr[r].DelayDelivery = {}]
           one == [m.rr[r] EXCEPT !.DelayDelivery = {}]
<1>1. /\ walk = Idle /\ m' = x /\ Begin("add", x, r) /\ response' = response
      /\ m.rr[r].cached /\ m.rr[r].DelayDelivery # {}
  BY DEF CacheRecordDeferredAdd
<1>2. /\ CoreInv(m) /\ CoreType(m) /\ ResponseOK(m, response) /\ m.rr[r] \in CacheRecord
      /\ m.rr \in [CacheRecords -> CacheRecord]
      /\ \A p \in Old(m), t \in CacheRecords : m.q[p].told[t] = Given(m, p, t)
  BY <1>1, IdleExpects DEF CoreType
<1>3. /\ one \in CacheRecord /\ one.cached = m.rr[r].cached /\ one.DelayDelivery = {}
      /\ one.CRActiveQuestion = m.rr[r].CRActiveQuestion
  BY <1>2 DEF CacheRecord
<1>4. SameList(m, x) /\ x.q = m.q /\ x.rr = [m.rr EXCEPT ![r] = one]
  BY <1>2 DEF CoreType, SameList
<1> HIDE DEF one, x
<1>5. /\ CoreInv(x) /\ Old(x) = Old(m) /\ x.rr[r] = one
      /\ \A t \in CacheRecords : t # r => x.rr[t] = m.rr[t] /\ \A p : Given(x, p, t) = Given(m, p, t)
  BY <1>1, <1>2, <1>3, <1>4, OneRecord
<1>6. ASSUME NEW p \in Old(x), NEW t \in CacheRecords
      PROVE x.q[p].told[t] = IF t = r THEN 0 ELSE Given(x, p, t)
  <2>1. Given(m, p, r) = 0
    BY <1>1 DEF Given
  <2> QED
    BY <1>2, <1>4, <1>5, <2>1
<1>7. Subject(x, "add", r) /\ "add" \in Whats
  BY <1>1, <1>3, <1>5 DEF Subject, Whats
<1>8. WalkOK(x, walk') /\ ToldAsExpected(x, walk')
  BY <1>1, <1>5, <1>6, <1>7, BeginFields
<1>9. Cached(x) = Cached(m)
  BY <1>1, <1>3, <1>5 DEF Cached
<1>10. CoreInv(m') /\ WalkOK(m', walk') /\ ToldAsExpected(m', walk') /\ ResponseOK(m', response')
  BY <1>1, <1>2, <1>5, <1>8, <1>9 DEF ResponseOK
<1> QED
  BY <1>10 DEF CacheInv

LEMMA NoRecordFields ==
  ASSUME NEW delay \in SUBSET CacheRecords
  PROVE LET a == [NoCacheRecord EXCEPT !.DelayDelivery = delay]
            b == [NoCacheRecord EXCEPT !.cached = TRUE, !.life = Fresh, !.DelayDelivery = delay]
        IN  /\ NoCacheRecord \in CacheRecord /\ ~NoCacheRecord.cached
            /\ a \in CacheRecord /\ ~a.cached /\ a.DelayDelivery = delay
            /\ b \in CacheRecord /\ b.cached /\ b.DelayDelivery = delay /\ b.CRActiveQuestion = Nobody
<1>1. Fresh \in Nat /\ MaxUnansweredQueries \in Nat
  BY CacheAssumption DEF Fresh
<1>2. 0 \in 0 .. Fresh /\ Fresh \in 0 .. Fresh /\ 0 \in 0 .. MaxUnansweredQueries
  BY <1>1
<1>3. NoCacheRecord \in CacheRecord /\ ~NoCacheRecord.cached /\ NoCacheRecord.CRActiveQuestion = Nobody
  BY <1>2 DEF NoCacheRecord, CacheRecord
<1> QED
  BY <1>2, <1>3 DEF CacheRecord

LEMMA ExpireKeeps ==
  ASSUME CacheInv, NEW r \in CacheRecords, Expire(r) PROVE CacheInv'
<1> DEFINE delay == m.rr[r].DelayDelivery
           one == [NoCacheRecord EXCEPT !.DelayDelivery = delay]
           active == m.rr[r].CRActiveQuestion # Nobody
           count == IF active THEN m.rrcache_active - 1 ELSE m.rrcache_active
           x == [m EXCEPT !.rr[r] = one, !.rrcache_active = count]
<1>1. /\ walk = Idle /\ response = NoResponse /\ response' = response /\ m.rr[r].cached
      /\ m' = [m EXCEPT !.rr[r] = one, !.rrcache_active = IF active THEN @ - 1 ELSE @]
      /\ IF active THEN Begin("remove", m', r) ELSE walk' = Idle
  BY DEF Expire
<1>2. /\ CoreInv(m) /\ CoreType(m) /\ m.rr[r] \in CacheRecord /\ m.rr \in [CacheRecords -> CacheRecord]
      /\ \A p \in Old(m), t \in CacheRecords : m.q[p].told[t] = Given(m, p, t)
  BY <1>1, IdleExpects DEF CoreType
<1>3. m' = x
  BY <1>1, <1>2 DEF CoreType
<1>4. delay \in SUBSET CacheRecords
  BY <1>2 DEF CacheRecord
<1>5. one \in CacheRecord /\ ~one.cached /\ one.DelayDelivery = delay
  BY <1>4, NoRecordFields
<1> HIDE DEF count, one
<1>6. SameList(m, x) /\ x.q = m.q /\ x.rr = [m.rr EXCEPT ![r] = one]
  BY <1>2 DEF CoreType, SameList
<1> HIDE DEF x
<1>7. /\ CoreInv(x) /\ Old(x) = Old(m) /\ x.rr[r] = one
      /\ \A t \in CacheRecords : t # r => x.rr[t] = m.rr[t] /\ \A p : Given(x, p, t) = Given(m, p, t)
  BY <1>2, <1>5, <1>6, OneRecord
<1>8. \A p : Given(x, p, r) = 0
  BY <1>5, <1>7 DEF Given
<1>9. ResponseOK(x, response)
  BY <1>1 DEF ResponseOK, NoResponse, Responses
<1>10. WalkOK(x, walk') /\ ToldAsExpected(x, walk')
  <2>1. CASE active
    <3>1. ASSUME NEW p \in Old(x), NEW t \in CacheRecords
          PROVE x.q[p].told[t] = IF t = r /\ AnswersQuestion(r, p) /\ x.rr[r].DelayDelivery = {} THEN 1
                                 ELSE Given(x, p, t)
      <4>1. x.q[p].told[t] = Given(m, p, t)
        BY <1>2, <1>6, <1>7
      <4>2. CASE t = r
        <5>1. Given(m, p, r) = IF AnswersQuestion(r, p) /\ delay = {} THEN 1 ELSE 0
          BY <1>1 DEF Given
        <5> HIDE DEF delay
        <5> QED
          BY <1>5, <1>7, <1>8, <4>1, <4>2, <5>1
      <4>3. CASE t # r
        BY <1>7, <4>1, <4>3
      <4> QED
        BY <4>2, <4>3
    <3>2. Subject(x, "remove", r) /\ "remove" \in Whats
      BY <1>5, <1>7 DEF Subject, Whats
    <3>3. Begin("remove", x, r)
      BY <1>1, <1>3, <2>1
    <3> QED
      BY <1>7, <3>1, <3>2, <3>3, BeginFields
  <2>2. CASE ~active
    <3>1. r \in Cached(m)
      BY <1>1 DEF Cached
    <3>2. \A p \in Old(x), t \in CacheRecords : x.q[p].told[t] = Given(x, p, t)
      BY <1>2, <1>6, <1>7, <1>8, <2>2, <3>1, UnkeptUntold
    <3> QED
      BY <1>1, <2>2, <3>2, IdleAgain
  <2> QED
    BY <2>1, <2>2
<1>11. CoreInv(m') /\ WalkOK(m', walk') /\ ToldAsExpected(m', walk') /\ ResponseOK(m', response')
  BY <1>1, <1>3, <1>7, <1>9, <1>10
<1> QED
  BY <1>11 DEF CacheInv

LEMMA FlushRecordKeeps ==
  ASSUME CacheInv, FlushRecord PROVE CacheInv'
<1> DEFINE soon == CheckForSoonToExpireRecords(m)
<1>1. PICK r \in response.CacheFlushRecords :
        LET rest == response.CacheFlushRecords \ {r}
            n == [m EXCEPT !.rr[r].DelayDelivery = IF @ = {} THEN {} ELSE soon]
        IN  /\ m' = n
            /\ IF m.rr[r].DelayDelivery # {} /\ soon = {} THEN Begin("add", n, r) ELSE walk' = Idle
            /\ response' = IF rest = {} THEN NoResponse
                           ELSE [response EXCEPT !.CacheFlushRecords = rest]
  BY DEF FlushRecord
<1>2. walk = Idle
  BY DEF FlushRecord
<1>3. /\ CoreInv(m) /\ CoreType(m) /\ ResponseOK(m, response) /\ m.rr \in [CacheRecords -> CacheRecord]
      /\ \A p \in Old(m), t \in CacheRecords : m.q[p].told[t] = Given(m, p, t)
  BY <1>2, IdleExpects DEF CoreType
<1>4. r \in CacheRecords /\ m.rr[r].cached /\ m.rr[r] \in CacheRecord
  BY <1>3 DEF ResponseOK, Cached
<1>5. soon \in SUBSET CacheRecords
  BY DEF CheckForSoonToExpireRecords, Cached
<1> HIDE DEF soon
<1> DEFINE rest == response.CacheFlushRecords \ {r}
           delay == IF m.rr[r].DelayDelivery = {} THEN {} ELSE soon
           one == [m.rr[r] EXCEPT !.DelayDelivery = delay]
           x == [m EXCEPT !.rr[r] = one]
<1>6. m' = x /\ response' = (IF rest = {} THEN NoResponse ELSE [response EXCEPT !.CacheFlushRecords = rest])
  BY <1>1, <1>3, <1>4 DEF CoreType, CacheRecord
<1>7. IF m.rr[r].DelayDelivery # {} /\ soon = {} THEN Begin("add", x, r) ELSE walk' = Idle
  BY <1>1, <1>6
<1>8. delay \in SUBSET CacheRecords
  BY <1>5
<1> HIDE DEF delay
<1>9. /\ one \in CacheRecord /\ one.cached /\ one.DelayDelivery = delay
      /\ one.CRActiveQuestion = m.rr[r].CRActiveQuestion
  BY <1>4, <1>8 DEF CacheRecord
<1> HIDE DEF one
<1>10. SameList(m, x) /\ x.q = m.q /\ x.rr = [m.rr EXCEPT ![r] = one]
  BY <1>3 DEF CoreType, SameList
<1> HIDE DEF x
<1>11. /\ CoreInv(x) /\ Old(x) = Old(m) /\ x.rr[r] = one
       /\ \A t \in CacheRecords : t # r => x.rr[t] = m.rr[t] /\ \A p : Given(x, p, t) = Given(m, p, t)
  BY <1>3, <1>4, <1>9, <1>10, OneRecord
<1>12. Cached(x) = Cached(m)
  BY <1>4, <1>9, <1>11 DEF Cached
<1>13. ResponseOK(x, response')
  <2>1. NoResponse \in Responses /\ NoResponse.CacheFlushRecords = {}
    BY DEF NoResponse, Responses
  <2>2. /\ [response EXCEPT !.CacheFlushRecords = rest] \in Responses
        /\ [response EXCEPT !.CacheFlushRecords = rest].CacheFlushRecords = rest
    BY <1>3 DEF ResponseOK, Responses
  <2>3. rest \subseteq Cached(m)
    BY <1>3 DEF ResponseOK
  <2> QED
    BY <1>6, <1>12, <2>1, <2>2, <2>3 DEF ResponseOK
<1>14. WalkOK(x, walk') /\ ToldAsExpected(x, walk')
  <2>1. CASE m.rr[r].DelayDelivery # {} /\ soon = {}
    <3>1. ASSUME NEW p \in Old(x), NEW t \in CacheRecords
          PROVE x.q[p].told[t] = IF t = r THEN 0 ELSE Given(x, p, t)
      <4>1. Given(m, p, r) = 0
        BY <2>1 DEF Given
      <4> QED
        BY <1>3, <1>10, <1>11, <4>1
    <3>2. Subject(x, "add", r) /\ "add" \in Whats
      BY <1>9, <1>11, <2>1 DEF Subject, Whats, delay
    <3> QED
      BY <1>4, <1>7, <1>11, <2>1, <3>1, <3>2, BeginFields
  <2>2. CASE ~(m.rr[r].DelayDelivery # {} /\ soon = {})
    <3>1. delay = {} <=> m.rr[r].DelayDelivery = {}
      BY <2>2 DEF delay
    <3>2. \A p : Given(x, p, r) = Given(m, p, r)
      BY <1>4, <1>9, <1>11, <3>1 DEF Given
    <3>3. \A p \in Old(x), t \in CacheRecords : x.q[p].told[t] = Given(x, p, t)
      BY <1>3, <1>10, <1>11, <3>2
    <3>4. walk' = Idle
      BY <1>7, <2>2
    <3> QED
      BY <3>3, <3>4, IdleAgain
  <2> QED
    BY <2>1, <2>2
<1>15. CoreInv(m') /\ WalkOK(m', walk') /\ ToldAsExpected(m', walk') /\ ResponseOK(m', response')
  BY <1>6, <1>11, <1>13, <1>14
<1> QED
  BY <1>15 DEF CacheInv

LEMMA LifeFields ==
  ASSUME NEW a \in CacheRecord
  PROVE \A b \in {Refreshed(a), Ended(a), Dying(a)} :
          /\ b \in CacheRecord /\ b.cached = a.cached /\ b.DelayDelivery = a.DelayDelivery
          /\ b.CRActiveQuestion = a.CRActiveQuestion
<1>1. MaxUnansweredQueries \in Nat /\ Fresh \in Nat /\ Fresh >= 1
  BY CacheAssumption DEF Fresh
<1>2. /\ 0 \in 0 .. Fresh /\ 1 \in 0 .. Fresh /\ Fresh \in 0 .. Fresh
      /\ 0 \in 0 .. MaxUnansweredQueries /\ MaxUnansweredQueries \in 0 .. MaxUnansweredQueries
  BY <1>1
<1> QED
  BY <1>2 DEF Refreshed, Ended, Dying, CacheRecord

LEMMA FlushKeeps ==
  ASSUME CacheInv, Flush PROVE CacheInv'
<1> DEFINE rest == Cached(m) \ {r \in Cached(m) : m.rr[r].life = Fresh}
           ended == {r \in rest \cap response.goodbyes : m.rr[r].UnansweredQueries = MaxUnansweredQueries}
           new == [r \in CacheRecords |->
                     IF r \in ended THEN Ended(m.rr[r])
                     ELSE IF r \in rest /\ m.rr[r].life > 1 THEN Dying(m.rr[r]) ELSE m.rr[r]]
           x == [m EXCEPT !.rr = new]
<1>1. /\ walk = Idle /\ walk' = walk
      /\ \/ response' = NoResponse /\ m' = m
         \/ m' = x /\ response' = [response EXCEPT !.flushing = TRUE]
  BY DEF Flush
<1>2. /\ CoreInv(m) /\ CoreType(m) /\ ResponseOK(m, response) /\ m.rr \in [CacheRecords -> CacheRecord]
  BY <1>1, IdleExpects DEF CoreType
<1>3. CASE response' = NoResponse /\ m' = m
  <2>1. ResponseOK(m, NoResponse)
    BY DEF ResponseOK, NoResponse, Responses
  <2>2. CoreInv(m') /\ WalkOK(m', walk') /\ ToldAsExpected(m', walk') /\ ResponseOK(m', response')
    BY <1>1, <1>3, <2>1 DEF CacheInv
  <2> QED
    BY <2>2 DEF CacheInv
<1>4. CASE m' = x /\ response' = [response EXCEPT !.flushing = TRUE]
  <2> HIDE DEF rest, ended
  <2>1. ASSUME NEW t \in CacheRecords
        PROVE /\ new[t] \in CacheRecord /\ new[t].cached = m.rr[t].cached
              /\ new[t].DelayDelivery = m.rr[t].DelayDelivery
              /\ new[t].CRActiveQuestion = m.rr[t].CRActiveQuestion
    <3>1. m.rr[t] \in CacheRecord
      BY <1>2
    <3>2. new[t] \in {Ended(m.rr[t]), Dying(m.rr[t]), m.rr[t]}
      OBVIOUS
    <3> HIDE DEF new
    <3> QED
      BY <3>1, <3>2, LifeFields
  <2>2. new \in [CacheRecords -> CacheRecord]
    BY <2>1
  <2> HIDE DEF new
  <2>3. SameList(m, x) /\ x.q = m.q /\ x.rr = new
    BY <1>2 DEF CoreType, SameList
  <2> HIDE DEF x
  <2>4. CoreInv(x) /\ WalkOK(x, Idle) /\ ToldAsExpected(x, Idle) /\ Cached(x) = Cached(m)
    BY <1>1, <2>1, <2>2, <2>3, Steady DEF SameDelivery
  <2>5. ResponseOK(x, response')
    <3>1. response' \in Responses /\ response'.CacheFlushRecords = response.CacheFlushRecords
      BY <1>2, <1>4 DEF ResponseOK, Responses
    <3> QED
      BY <1>2, <2>4, <3>1 DEF ResponseOK
  <2>6. CoreInv(m') /\ WalkOK(m', walk') /\ ToldAsExpected(m', walk') /\ ResponseOK(m', response')
    BY <1>1, <1>4, <2>4, <2>5
  <2> QED
    BY <2>6 DEF CacheInv
<1> QED
  BY <1>1, <1>3, <1>4

LEMMA ClientCallKeeps ==
  ASSUME CacheInv, ClientCall PROVE CacheInv'
<1>1. PICK x \in Client(m, Nobody) : m' = x[1]
  BY DEF ClientCall
<1>2. walk = Idle /\ walk' = walk /\ response' = response
  BY DEF ClientCall
<1>3. /\ CoreInv(m) /\ ResponseOK(m, response)
      /\ \A p \in Old(m), t \in CacheRecords : m.q[p].told[t] = Given(m, p, t)
  BY <1>2, IdleExpects
<1> DEFINE y == x[1]
<1>4. /\ CoreInv(y) /\ Old(y) \subseteq Old(m) /\ SameDelivery(m, y)
      /\ \A p \in Old(y) : y.q[p].told = m.q[p].told
  BY <1>3, ClientCore
<1> HIDE DEF y
<1>5. \A p \in Old(y), t \in CacheRecords : y.q[p].told[t] = Given(y, p, t)
  BY <1>3, <1>4, GivenSame
<1>6. Cached(y) = Cached(m)
  BY <1>4, CachedSame
<1>7. CoreInv(m') /\ WalkOK(m', walk') /\ ToldAsExpected(m', walk') /\ ResponseOK(m', response')
  BY <1>1, <1>2, <1>3, <1>4, <1>5, <1>6, IdleAgain DEF ResponseOK, y
<1> QED
  BY <1>7 DEF CacheInv

(* A full cache gives up what no question refers to, which nobody was given.*)
LEMMA RecycledFields ==
  ASSUME NEW n, CoreInv(n), NEW kept \in SUBSET CacheRecords,
         \A p \in Old(n), t \in CacheRecords : n.q[p].told[t] = Given(n, p, t)
  PROVE LET x == Recycled(n, kept)
        IN  /\ CoreInv(x) /\ Cached(x) \subseteq Cached(n) /\ Cached(n) \cap kept \subseteq Cached(x)
            /\ \A p \in Old(x), t \in CacheRecords : x.q[p].told[t] = Given(x, p, t)
<1> DEFINE x == Recycled(n, kept)
           new == [r \in CacheRecords |->
                     IF n.rr[r].CRActiveQuestion = Nobody /\ r \notin kept THEN NoCacheRecord ELSE n.rr[r]]
<1>1. x = n \/ x = [n EXCEPT !.rr = new]
  BY DEF Recycled
<1>2. CoreType(n) /\ n.rr \in [CacheRecords -> CacheRecord] /\ n.q \in [Questions -> DNSQuestion]
  BY DEF CoreInv, CoreType
<1>3. CASE x = n
  <2> HIDE DEF x
  <2> QED
    BY <1>3 DEF x
<1>4. CASE x = [n EXCEPT !.rr = new]
  <2>1. SameList(n, x) /\ x.q = n.q /\ x.rr = new
    BY <1>2, <1>4 DEF CoreType, SameList
  <2>2. NoCacheRecord \in CacheRecord /\ ~NoCacheRecord.cached
    BY NoRecordFields
  <2>3. x.rr \in [CacheRecords -> CacheRecord]
    BY <1>2, <2>1, <2>2
  <2>4. ASSUME NEW t \in CacheRecords
        PROVE \/ x.rr[t] = n.rr[t]
              \/ n.rr[t].CRActiveQuestion = Nobody /\ t \notin kept /\ ~x.rr[t].cached
    BY <2>1, <2>2
  <2> HIDE DEF x, new
  <2>5. CoreInv(x) /\ Old(x) = Old(n)
    BY <1>2, <2>1, <2>3, <2>4, CoreKept
  <2>6. Cached(x) \subseteq Cached(n) /\ Cached(n) \cap kept \subseteq Cached(x)
    BY <2>4 DEF Cached
  <2>7. ASSUME NEW p \in Old(x), NEW t \in CacheRecords PROVE x.q[p].told[t] = Given(x, p, t)
    <3>1. x.q[p].told[t] = Given(n, p, t)
      BY <2>1, <2>5
    <3>2. CASE x.rr[t] = n.rr[t]
      BY <3>1, <3>2 DEF Given
    <3>3. CASE n.rr[t].CRActiveQuestion = Nobody /\ ~x.rr[t].cached
      <4>1. Given(x, p, t) = 0
        BY <3>3 DEF Given
      <4>2. n.rr[t].cached => n.q[p].told[t] = 0
        BY <2>5, <3>3, UnkeptUntold DEF Cached
      <4>3. ~n.rr[t].cached => Given(n, p, t) = 0
        BY DEF Given
      <4> QED
        BY <2>1, <3>1, <4>1, <4>2, <4>3
    <3> QED
      BY <2>4, <3>2, <3>3
  <2> QED
    BY <2>5, <2>6, <2>7 DEF x
<1> QED
  BY <1>1, <1>3, <1>4

(* A new record is not given to anybody before its delivery is due.         *)
LEMMA CreatedFields ==
  ASSUME NEW n, CoreInv(n), NEW r \in CacheRecords, ~n.rr[r].cached,
         \A p \in Old(n), t \in CacheRecords : n.q[p].told[t] = Given(n, p, t)
  PROVE LET x == Created(n, r)
        IN  /\ CoreInv(x) /\ Cached(x) = Cached(n) \cup {r} /\ x.rr[r].cached
            /\ \A p \in Old(x), t \in CacheRecords : x.q[p].told[t] = IF t = r THEN 0 ELSE Given(x, p, t)
<1> DEFINE x == Created(n, r)
           delay == IF r \in UniqueRecords THEN {r} ELSE CheckForSoonToExpireRecords(n)
           counting == {q \in Asked(n) \ n.NewQuestions : AnswersQuestion(r, q)}
           one == [NoCacheRecord EXCEPT !.cached = TRUE, !.life = Fresh, !.DelayDelivery = delay]
           new == [q \in Questions |-> IF q \in counting THEN OneMore(n.q[q]) ELSE n.q[q]]
<1>1. x = [n EXCEPT !.rr[r] = one, !.q = new]
  BY DEF Created
<1>2. CoreType(n) /\ n.rr \in [CacheRecords -> CacheRecord] /\ n.q \in [Questions -> DNSQuestion]
  BY DEF CoreInv, CoreType
<1>3. delay \in SUBSET CacheRecords
  BY DEF CheckForSoonToExpireRecords, Cached
<1> HIDE DEF delay, counting
<1>4. one \in CacheRecord /\ one.cached /\ one.CRActiveQuestion = Nobody
  BY <1>3, NoRecordFields
<1> HIDE DEF one, x
<1>5. ASSUME NEW q \in Questions
      PROVE new[q] \in DNSQuestion /\ new[q].DuplicateOf = n.q[q].DuplicateOf /\ new[q].told = n.q[q].told
  <2> DEFINE a == n.q[q]
             v == a.CurrentAnswers + 1
  <2>1. a \in DNSQuestion /\ new[q] \in {OneMore(a), a}
    BY <1>2
  <2> HIDE DEF a, new
  <2>2. v \in Nat
    <3>1. a.CurrentAnswers \in Nat
      BY <2>1 DEF DNSQuestion
    <3> QED
      BY <3>1
  <2>3. OneMore(a) = [a EXCEPT !.CurrentAnswers = v]
    BY <2>1 DEF OneMore, DNSQuestion
  <2> HIDE DEF v
  <2>4. OneMore(a) \in DNSQuestion /\ OneMore(a).DuplicateOf = a.DuplicateOf /\ OneMore(a).told = a.told
    BY <2>1, <2>2, <2>3 DEF DNSQuestion
  <2> QED
    BY <2>1, <2>4 DEF a
<1>6. new \in [Questions -> DNSQuestion]
  BY <1>5
<1> HIDE DEF new
<1>7. SameList(n, x) /\ x.q = new /\ x.rr = [n.rr EXCEPT ![r] = one]
  BY <1>1, <1>2 DEF CoreType, SameList
<1>8. \A p \in Questions : n.q[p].told[r] = 0
  BY UncachedUntold
<1>9. x.rr[r] = one /\ x.rr \in [CacheRecords -> CacheRecord] /\ \A t \in CacheRecords : t # r => x.rr[t] = n.rr[t]
  BY <1>2, <1>4, <1>7
<1>10. CoreInv(x) /\ Asked(x) = Asked(n) /\ Old(x) = Old(n)
  <2>1. \A t \in CacheRecords : x.rr[t].cached =>
          \/ n.rr[t].cached /\ x.rr[t].CRActiveQuestion = n.rr[t].CRActiveQuestion
          \/ x.rr[t].CRActiveQuestion = Nobody /\ \A p \in Questions : n.q[p].told[t] = 0
    BY <1>4, <1>8, <1>9
  <2>2. \A p \in Questions : x.q[p].DuplicateOf = n.q[p].DuplicateOf /\ x.q[p].told = n.q[p].told
    BY <1>5, <1>7
  <2> QED
    BY <1>6, <1>7, <1>9, <2>1, <2>2, CoreKept
<1>11. Cached(x) = Cached(n) \cup {r} /\ x.rr[r].cached
  BY <1>4, <1>9 DEF Cached
<1>12. ASSUME NEW p \in Old(x), NEW t \in CacheRecords
       PROVE x.q[p].told[t] = IF t = r THEN 0 ELSE Given(x, p, t)
  <2>1. p \in Questions /\ x.q[p].told = n.q[p].told
    BY <1>2, <1>5, <1>7, <1>10, CoreFields
  <2>2. CASE t = r
    BY <1>8, <2>1, <2>2
  <2>3. CASE t # r
    <3>1. Given(x, p, t) = Given(n, p, t)
      BY <1>9, <2>3 DEF Given
    <3> QED
      BY <1>10, <2>1, <2>3, <3>1
  <2> QED
    BY <2>2, <2>3
<1> QED
  BY <1>10, <1>11, <1>12 DEF x

LEMMA ReceiveRecordKeeps ==
  ASSUME CacheInv, NEW r \in CacheRecords, ReceiveRecord(r) PROVE CacheInv'
<1> DEFINE kept == response.CacheFlushRecords
           n == Recycled(m, kept)
           full == Cardinality(Cached(n)) >= rrcache_size
           more == IF r \in UniqueRecords /\ m'.rr[r].cached THEN kept \cup {r} ELSE kept
           done == [response EXCEPT !.todo = @ \ {r}, !.CacheFlushRecords = more]
<1>1. walk = Idle
  BY DEF ReceiveRecord
<1>2. /\ CoreInv(m) /\ CoreType(m) /\ ResponseOK(m, response) /\ response \in Responses
      /\ m.rr \in [CacheRecords -> CacheRecord]
      /\ \A p \in Old(m), t \in CacheRecords : m.q[p].told[t] = Given(m, p, t)
  BY <1>1, IdleExpects DEF CoreType, ResponseOK
<1>3. \/ m.rr[r].cached /\ m' = [m EXCEPT !.rr[r] = Refreshed(@)] /\ walk' = Idle
      \/ m.rr[r].cached /\ m' = [m EXCEPT !.rr[r] = IF @.life > 1 THEN Dying(@) ELSE @] /\ walk' = Idle
      \/ m' = m /\ walk' = walk
      \/ /\ ~m.rr[r].cached /\ m' = Created(n, r)
         /\ IF m'.rr[r].DelayDelivery = {} THEN Begin("add", m', r) ELSE walk' = Idle
      \/ m' = n /\ Begin("add uncached", n, r)
  BY DEF ReceiveRecord
<1>4. response' = done
  BY <1>2 DEF ReceiveRecord, Responses
<1>5. ASSUME kept \subseteq Cached(m') PROVE ResponseOK(m', response')
  <2>1. more \in SUBSET CacheRecords /\ more \subseteq Cached(m')
    BY <1>5 DEF Cached
  <2> HIDE DEF more
  <2>2. done \in Responses /\ done.CacheFlushRecords = more
    BY <1>2, <2>1 DEF Responses
  <2> HIDE DEF done
  <2> QED
    BY <1>4, <2>1, <2>2 DEF ResponseOK
<1> HIDE DEF done, more
<1>6. kept \subseteq Cached(m) /\ kept \in SUBSET CacheRecords
  BY <1>2 DEF ResponseOK, Cached
<1>7. /\ CoreInv(n) /\ Cached(n) \subseteq Cached(m) /\ kept \subseteq Cached(n)
      /\ \A p \in Old(n), t \in CacheRecords : n.q[p].told[t] = Given(n, p, t)
  BY <1>2, <1>6, RecycledFields
<1> HIDE DEF n, kept
<1>8. CASE \/ m.rr[r].cached /\ m' = [m EXCEPT !.rr[r] = Refreshed(@)] /\ walk' = Idle
           \/ m.rr[r].cached /\ m' = [m EXCEPT !.rr[r] = IF @.life > 1 THEN Dying(@) ELSE @] /\ walk' = Idle
  <2> DEFINE a == m.rr[r]
  <2>1. PICK one \in {Refreshed(a), Dying(a), a} : m' = [m EXCEPT !.rr[r] = one] /\ walk' = Idle
    BY <1>2, <1>8 DEF CoreType
  <2>2. a \in CacheRecord
    BY <1>2
  <2>3. /\ one \in CacheRecord /\ one.cached = a.cached /\ one.DelayDelivery = a.DelayDelivery
        /\ one.CRActiveQuestion = a.CRActiveQuestion
    BY <2>1, <2>2, LifeFields
  <2> DEFINE x == [m EXCEPT !.rr[r] = one]
  <2>4. SameList(m, x) /\ x.q = m.q /\ x.rr = [m.rr EXCEPT ![r] = one]
    BY <1>2 DEF CoreType, SameList
  <2>5. m' = x
    BY <2>1
  <2> HIDE DEF x
  <2>6. x.rr \in [CacheRecords -> CacheRecord] /\ SameDelivery(m, x)
        /\ \A t \in CacheRecords : x.rr[t].CRActiveQuestion = m.rr[t].CRActiveQuestion
    BY <1>2, <2>3, <2>4 DEF SameDelivery
  <2>7. CoreInv(x) /\ WalkOK(x, Idle) /\ ToldAsExpected(x, Idle) /\ Cached(x) = Cached(m)
    BY <1>1, <2>4, <2>6, Steady
  <2>8. CoreInv(m') /\ WalkOK(m', walk') /\ ToldAsExpected(m', walk') /\ ResponseOK(m', response')
    BY <1>5, <1>6, <2>1, <2>5, <2>7
  <2> QED
    BY <2>8 DEF CacheInv
<1>9. CASE m' = m /\ walk' = walk
  <2>1. CoreInv(m') /\ WalkOK(m', walk') /\ ToldAsExpected(m', walk') /\ ResponseOK(m', response')
    BY <1>5, <1>6, <1>9 DEF CacheInv
  <2> QED
    BY <2>1 DEF CacheInv
<1>10. CASE /\ ~m.rr[r].cached /\ m' = Created(n, r)
            /\ IF m'.rr[r].DelayDelivery = {} THEN Begin("add", m', r) ELSE walk' = Idle
  <2> DEFINE x == Created(n, r)
  <2>1. ~n.rr[r].cached
    BY <1>7, <1>10 DEF Cached
  <2>2. /\ CoreInv(x) /\ Cached(x) = Cached(n) \cup {r} /\ x.rr[r].cached
        /\ \A p \in Old(x), t \in CacheRecords : x.q[p].told[t] = IF t = r THEN 0 ELSE Given(x, p, t)
    BY <1>7, <2>1, CreatedFields
  <2>3. m' = x
    BY <1>10
  <2> HIDE DEF x
  <2>4. WalkOK(x, walk') /\ ToldAsExpected(x, walk')
    <3>1. CASE x.rr[r].DelayDelivery = {}
      <4>1. Begin("add", x, r)
        BY <1>10, <2>3, <3>1
      <4>2. Subject(x, "add", r) /\ "add" \in Whats
        BY <2>2, <3>1 DEF Subject, Whats
      <4> QED
        BY <2>2, <4>1, <4>2, BeginFields
    <3>2. CASE x.rr[r].DelayDelivery # {}
      <4>1. walk' = Idle
        BY <1>10, <2>3, <3>2
      <4>2. \A p : Given(x, p, r) = 0
        BY <3>2 DEF Given
      <4> QED
        BY <2>2, <4>1, <4>2, IdleAgain
    <3> QED
      BY <3>1, <3>2
  <2>5. CoreInv(m') /\ WalkOK(m', walk') /\ ToldAsExpected(m', walk') /\ ResponseOK(m', response')
    BY <1>5, <1>7, <2>2, <2>3, <2>4
  <2> QED
    BY <2>5 DEF CacheInv
<1>11. CASE m' = n /\ Begin("add uncached", n, r)
  <2>1. Subject(n, "add uncached", r) /\ "add uncached" \in Whats
    BY DEF Subject, Whats
  <2> DEFINE what == "add uncached"
  <2>2. what # "add" /\ what # "remove" /\ what \in Whats /\ Subject(n, what, r) /\ Begin(what, n, r)
    BY <1>11, <2>1
  <2> HIDE DEF what
  <2>3. WalkOK(n, walk') /\ ToldAsExpected(n, walk')
    BY <1>7, <2>2, BeginFields
  <2>4. CoreInv(m') /\ WalkOK(m', walk') /\ ToldAsExpected(m', walk') /\ ResponseOK(m', response')
    BY <1>5, <1>7, <1>11, <2>3
  <2> QED
    BY <2>4 DEF CacheInv
<1> QED
  BY <1>3, <1>8, <1>9, <1>10, <1>11

---------------------------------------------------------------------------
(* The theorems.                                                            *)

LEMMA InitHolds == CacheInit => CacheInv
<1> SUFFICES ASSUME CacheInit PROVE CacheInv
  OBVIOUS
<1>1. /\ DOMAIN m = {"Questions", "NewQuestions", "q", "rr", "rrcache_active", "calls"}
      /\ m.Questions = <<>> /\ m.NewQuestions = {} /\ m.q = [q \in Questions |-> NoQuestion]
      /\ m.rr = [r \in CacheRecords |-> NoCacheRecord]
  BY DEF CacheInit
<1>2. walk = Idle /\ response = NoResponse
  BY DEF CacheInit
<1>3. Asked(m) = {} /\ Old(m) = {} /\ Cached(m) = {}
  <2>1. Asked(m) = {}
    BY <1>1 DEF Asked, Range
  <2>2. \A r \in CacheRecords : ~m.rr[r].cached
    BY <1>1, NoRecordFields
  <2> QED
    BY <2>1, <2>2 DEF Old, Cached
<1>4. CoreType(m)
  <2>1. m.Questions \in Seq(Questions) /\ NoDuplicates(m.Questions)
    BY <1>1 DEF NoDuplicates
  <2>2. m.q \in [Questions -> DNSQuestion]
    BY <1>1, NoQuestionFields
  <2>3. m.rr \in [CacheRecords -> CacheRecord]
    <3>1. {} \in SUBSET CacheRecords
      OBVIOUS
    <3>2. NoCacheRecord \in CacheRecord
      BY <3>1, NoRecordFields
    <3> QED
      BY <1>1, <3>2
  <2> QED
    BY <1>1, <2>1, <2>2, <2>3 DEF CoreType
<1>5. NewAreQuiet(m)
  <2>1. \A r \in CacheRecords : NoQuestion.told[r] = 0
    BY NoQuestionFields
  <2> QED
    BY <1>1, <2>1 DEF NewAreQuiet
<1>6. CoreInv(m)
  BY <1>3, <1>4, <1>5 DEF CoreInv, NewComeLast, OriginalsComeFirst, KeptAlive
<1>7. WalkOK(m, Idle) /\ ToldAsExpected(m, Idle)
  BY <1>3, IdleAgain
<1>8. ResponseOK(m, NoResponse)
  BY DEF ResponseOK, NoResponse, Responses
<1> QED
  BY <1>2, <1>6, <1>7, <1>8 DEF CacheInv

LEMMA NextKeeps == CacheInv /\ [CacheNext]_cacheVars => CacheInv'
<1> SUFFICES ASSUME CacheInv, [CacheNext]_cacheVars PROVE CacheInv'
  OBVIOUS
<1>1. CASE ClientCall
  BY <1>1, ClientCallKeeps
<1>2. CASE Step
  BY <1>2, StepKeeps
<1>3. CASE AnswerNewQuestion
  BY <1>3, AnswerNewKeeps
<1>4. CASE AnswerStep
  BY <1>4, AnswerStepKeeps
<1>5. CASE SendQueries
  BY <1>5, SendKeeps
<1>6. ASSUME NEW r \in CacheRecords, Expire(r) PROVE CacheInv'
  BY <1>6, ExpireKeeps
<1>7. ASSUME NEW r \in CacheRecords, CacheRecordDeferredAdd(r) PROVE CacheInv'
  BY <1>7, DeferredKeeps
<1>8. ASSUME NEW r \in CacheRecords, Age(r) PROVE CacheInv'
  BY <1>8, AgeKeeps
<1>9. ASSUME NEW r \in CacheRecords, ReceiveRecord(r) PROVE CacheInv'
  BY <1>9, ReceiveRecordKeeps
<1>10. ASSUME NEW answers \in SUBSET CacheRecords, NEW goodbyes \in SUBSET CacheRecords, Receive(answers, goodbyes)
       PROVE CacheInv'
  BY <1>10, ReceiveKeeps
<1>11. CASE Flush
  BY <1>11, FlushKeeps
<1>12. CASE FlushRecord
  BY <1>12, FlushRecordKeeps
<1>13. CASE UNCHANGED cacheVars
  <2>1. m' = m /\ walk' = walk /\ response' = response
    BY <1>13 DEF cacheVars
  <2>2. CoreInv(m') /\ WalkOK(m', walk') /\ ToldAsExpected(m', walk') /\ ResponseOK(m', response')
    BY <2>1 DEF CacheInv
  <2> QED
    BY <2>2 DEF CacheInv
<1> QED
  BY <1>1, <1>2, <1>3, <1>4, <1>5, <1>6, <1>7, <1>8, <1>9, <1>10, <1>11, <1>12, <1>13 DEF CacheNext

LEMMA CacheInvariant == CacheSpec => []CacheInv
  BY InitHolds, NextKeeps, PTL DEF CacheSpec

(* Between packets and callbacks a client whose question has been answered  *)
(* has been given each answer in the cache whose delivery does not wait,    *)
(* and no other: what AnswerCurrentQuestionWithResourceRecord tells clients *)
(* and mDNS_StopQuery takes from the list never come apart.                 *)
THEOREM ClientsSeeCache == CacheSpec => []ClientsSeeTheCache
<1>1. CacheInv => ClientsSeeTheCache
  <2> SUFFICES ASSUME CacheInv, walk = Idle, NEW q \in Answered
               PROVE {r \in CacheRecords : m.q[q].told[r] = 1} =
                       {r \in Cached(m) : AnswersQuestion(r, q) /\ m.rr[r].DelayDelivery = {}}
    BY DEF ClientsSeeTheCache, AtRest
  <2>1. \A t \in CacheRecords : m.q[q].told[t] = Given(m, q, t)
    BY IdleExpects DEF Answered, Old
  <2> QED
    BY <2>1 DEF Given, Cached
<1> QED
  BY <1>1, CacheInvariant, PTL

(* A record that a client was given has an active question that refreshes   *)
(* it; CRActiveQuestion never points to a question that was stopped or that *)
(* is a duplicate.                                                          *)
THEOREM AnswersKept == CacheSpec => []AnswersAreKeptAlive
<1>1. CacheInv => AnswersAreKeptAlive
  <2> SUFFICES ASSUME CacheInv PROVE AnswersAreKeptAlive
    OBVIOUS
  <2>1. CoreInv(m) /\ KeptAlive(m)
    BY DEF CacheInv, CoreInv
  <2>2. \A r \in Cached(m) : m.rr[r].CRActiveQuestion # Nobody =>
          /\ ActiveQuestion(m, m.rr[r].CRActiveQuestion)
          /\ AnswersQuestion(r, m.rr[r].CRActiveQuestion)
    BY <2>1 DEF KeptAlive, KeptBy
  <2>3. ASSUME walk = Idle, NEW q \in Answered, NEW r \in CacheRecords, m.q[q].told[r] = 1
        PROVE m.rr[r].CRActiveQuestion # Nobody
    <3>1. q \in Old(m)
      BY DEF Answered, Old
    <3>2. m.q[q].told[r] = Given(m, q, r)
      BY <2>3, <3>1, IdleExpects
    <3>3. r \in Cached(m)
      BY <2>3, <3>2 DEF Given, Cached
    <3> QED
      BY <2>1, <2>3, <3>1, <3>3 DEF KeptAlive
  <2> QED
    BY <2>2, <2>3 DEF AnswersAreKeptAlive, AtRest
<1> QED
  BY <1>1, CacheInvariant, PTL
=============================================================================

--------------------------- MODULE SleepProxyProofs ---------------------------
(* What is proved about going to sleep and standing in for sleepers.          *)
EXTENDS SleepProxy, FiniteSetTheorems, WellFoundedInduction, TLAPS

------------------------------------------------------------------------------
(* Folds over finite sets.                                                    *)

LEMMA LeastExists ==
  ASSUME NEW T, T \subseteq Nat, T # {} PROVE \E x \in T : \A y \in T : x <= y
<1>1. PICK x \in T : \A y \in T : ~(<<y, x>> \in OpToRel(<, Nat))
  BY NatLessThanWellFounded, WFMin
<1>2. \A y \in T : ~(y < x)
  BY <1>1 DEF OpToRel
<1> QED
  BY <1>2

(* What is chosen from a set, and the rest of it: a fold takes them so.       *)
Chosen(s) == CHOOSE x \in s : TRUE
Rest(s) == s \ {Chosen(s)}

LEMMA RestIsSmaller ==
  ASSUME NEW T, IsFiniteSet(T), NEW s \in SUBSET T, s # {}
  PROVE  /\ Chosen(s) \in s /\ Rest(s) \in SUBSET T
         /\ Cardinality(s) \in Nat /\ Cardinality(Rest(s)) \in Nat
         /\ Cardinality(Rest(s)) + 1 = Cardinality(s)
<1>1. Chosen(s) \in s
  BY DEF Chosen
<1>2. IsFiniteSet(s)
  BY FS_Subset
<1>3. Cardinality(Rest(s)) = Cardinality(s) - 1 /\ IsFiniteSet(Rest(s))
  BY <1>1, <1>2, FS_RemoveElement DEF Rest
<1>4. Cardinality(Rest(s)) \in Nat /\ Cardinality(s) \in Nat
  BY <1>2, <1>3, FS_CardinalityType
<1> QED
  BY <1>1, <1>3, <1>4 DEF Rest

(* A property of sets that comes from the rest of a set to the set holds of   *)
(* all of a finite set.                                                       *)
LEMMA RestInduction ==
  ASSUME NEW T, IsFiniteSet(T), NEW Q \in SUBSET (SUBSET T), {} \in Q,
         \A s \in SUBSET T : s # {} /\ Rest(s) \in Q => s \in Q
  PROVE  T \in Q
<1> DEFINE Sizes == {n \in Nat : \E s \in SUBSET T : s \notin Q /\ Cardinality(s) = n}
<1>1. SUFFICES ASSUME T \notin Q PROVE FALSE
  OBVIOUS
<1>2. Cardinality(T) \in Sizes
  BY <1>1, FS_CardinalityType
<1>3. PICK n \in Sizes : \A k \in Sizes : n <= k
  <2>1. Sizes \subseteq Nat /\ Sizes # {}
    BY <1>2
  <2> HIDE DEF Sizes
  <2> QED
    BY <2>1, LeastExists
<1>4. PICK s \in SUBSET T : s \notin Q /\ Cardinality(s) = n
  OBVIOUS
<1>5. s # {}
  BY <1>4
<1>6. Rest(s) \in SUBSET T /\ Cardinality(Rest(s)) \in Nat /\ Cardinality(Rest(s)) + 1 = n
  BY <1>4, <1>5, RestIsSmaller
<1>7. Rest(s) \notin Q
  BY <1>4, <1>5
<1>8. Cardinality(Rest(s)) \in Sizes
  BY <1>6, <1>7
<1> QED
  BY <1>3, <1>6, <1>8

(* What a fold with the step G makes of each part of a finite set.            *)
FoldsAs(f, T, b, G) ==
  \A s \in SUBSET T : f[s] = IF s = {} THEN b ELSE G[<<Chosen(s), f[Rest(s)]>>]

LEMMA FoldExists ==
  ASSUME NEW T, IsFiniteSet(T), NEW D, NEW b \in D, NEW G \in [T \X D -> D]
  PROVE  \E f \in [SUBSET T -> D] : FoldsAs(f, T, b, G)
<1> DEFINE Small(n) == {s \in SUBSET T : Cardinality(s) <= n}
           Right(n, f) == \A s \in Small(n) : f[s] = IF s = {} THEN b ELSE G[<<Chosen(s), f[Rest(s)]>>]
           Bad == {n \in Nat : ~ \E f \in [Small(n) -> D] : Right(n, f)}
<1>1. Bad = {}
  <2>1. SUFFICES ASSUME Bad # {} PROVE FALSE
    OBVIOUS
  <2>2. PICK n \in Bad : \A k \in Bad : n <= k
    <3>1. Bad \subseteq Nat
      OBVIOUS
    <3> HIDE DEF Bad
    <3> QED
      BY <2>1, <3>1, LeastExists
  <2>3. n \in Nat
    BY <2>2
  <2>6. \A s \in SUBSET T : Cardinality(s) <= 0 => s = {}
    <3> SUFFICES ASSUME NEW s \in SUBSET T, s # {} PROVE ~(Cardinality(s) <= 0)
      OBVIOUS
    <3>1. Cardinality(s) \in Nat /\ Cardinality(Rest(s)) \in Nat /\ Cardinality(Rest(s)) + 1 = Cardinality(s)
      BY RestIsSmaller
    <3> QED
      BY <3>1
  <2>4. CASE n = 0
    <3> DEFINE f == [s \in Small(0) |-> b]
    <3>1. f \in [Small(0) -> D] /\ Right(0, f)
      BY <2>6
    <3> QED
      BY <2>4, <3>1
  <2>5. CASE n # 0
    <3>1. n - 1 \in Nat /\ n - 1 \notin Bad
      <4>1. n - 1 \in Nat /\ ~(n <= n - 1)
        BY <2>3, <2>5
      <4>2. \A k \in Bad : n <= k
        BY <2>2
      <4> HIDE DEF Bad
      <4> QED
        BY <4>1, <4>2
    <3>2. PICK f \in [Small(n - 1) -> D] : Right(n - 1, f)
      BY <3>1
    <3> DEFINE g == [s \in Small(n) |-> IF s = {} THEN b ELSE G[<<Chosen(s), f[Rest(s)]>>]]
    <3>3. \A s \in Small(n) : s # {} => Chosen(s) \in T /\ Rest(s) \in Small(n - 1)
      <4> TAKE s \in Small(n)
      <4> HAVE s # {}
      <4>1. Chosen(s) \in s /\ Rest(s) \in SUBSET T /\ Cardinality(s) \in Nat /\ Cardinality(Rest(s)) \in Nat
            /\ Cardinality(Rest(s)) + 1 = Cardinality(s)
        BY RestIsSmaller
      <4> QED
        BY <2>3, <4>1
    <3>4. g \in [Small(n) -> D]
      BY <3>3
    <3>5. \A s \in Small(n - 1) : s \in Small(n) /\ g[s] = f[s]
      <4>1. \A s \in Small(n - 1) : s \in Small(n)
        <5> TAKE s \in Small(n - 1)
        <5>1. Cardinality(s) \in Nat
          BY FS_Subset, FS_CardinalityType
        <5> QED
          BY <2>3, <5>1
      <4> QED
        BY <3>2, <4>1
    <3>6. Right(n, g)
      BY <3>3, <3>5
    <3> QED
      BY <2>3, <3>4, <3>6
  <2> QED
    BY <2>4, <2>5
<1>2. Cardinality(T) \in Nat
  BY FS_CardinalityType
<1>3. \A s \in SUBSET T : s \in Small(Cardinality(T))
  BY FS_Subset
<1>4. Small(Cardinality(T)) = SUBSET T
  BY <1>3
<1>5. PICK f \in [Small(Cardinality(T)) -> D] : Right(Cardinality(T), f)
  BY <1>1, <1>2
<1> QED
  BY <1>4, <1>5 DEF FoldsAs

------------------------------------------------------------------------------
(* The inductive invariant.                                                   *)

UpdateMsg == [type : {"update"}, from : Machines, to : Machines \cup {None}, id : Nat,
              recs : SUBSET Records, owner : Machines, seq : Nat]
AnswerMsg == [type : {"answer"}, from : Machines, to : Machines, id : Nat]

Updates == {msg \in net : msg.type = "update"}
Answers == {msg \in net : msg.type = "answer"}

\* The records a machine of the link registered itself.
Own(m) == {r \in link.records : OwnerOf[r] = m}

NetTyped == net \subseteq UpdateMsg \cup AnswerMsg
Typed ==
  /\ SleepTypeOK /\ link \in Links /\ lastId \in [Machines -> Nat]
  /\ records \in [Machines -> [Records -> AuthRecord]] /\ NetTyped
WellFormed == \A m \in Machines, r \in Records :
  /\ records[m][r].state = "none" => records[m][r] = NoRecord
  /\ records[m][r].state = "waking" => records[m][r].hmac # None
SleptLess == \A m \in Machines : power[m] # "awake" => SleepSeqNum[m] < link.sleeps

\* A machine that is no sleep proxy has its own records and no other.
OnlyItsOwn ==
  \A m \in Machines \ Servers :
    /\ ~SPSSocket[m]
    /\ \A r \in Records :
         /\ r \in Own(m) => records[m][r] = [OwnRecord EXCEPT !.updateid = records[m][r].updateid]
         /\ r \notin Own(m) => records[m][r] = NoRecord

\* No message has an id its sender has not given yet.
IdsAreOld ==
  /\ \A msg \in Updates : msg.id \in 1 .. lastId[msg.from]
  /\ \A msg \in Answers : msg.id \in 1 .. lastId[msg.to]

\* A record that waits for an answer is in every update of that id, and an
\* answer to what was asked in this sleep means that a proxy has looked at it.
UpdatesHaveIt ==
  \A msg \in Updates : \A r \in Records : records[msg.from][r].updateid = msg.id =>
    /\ r \in msg.recs
    /\ r \in Own(msg.from) => msg.owner = msg.from /\ msg.seq = SleepSeqNum[msg.from]
AnswersSawIt ==
  \A msg \in Answers : asked[msg.to] =>
    \A r \in Own(msg.to) : records[msg.to][r].updateid = msg.id => fate[r] # "none"

\* Until it says goodbye, a machine that asked waits for an answer for each
\* record that no proxy has looked at.
AskedForAll ==
  \A m \in Machines : asked[m] => \A r \in Own(m) :
    /\ power[m] \in {"awake", "transferring"} => records[m][r].updateid # 0 \/ fate[r] # "none"
    /\ power[m] = "off" /\ quiet[m] => fate[r] # "none"

AskInv ==
  /\ Typed /\ WellFormed /\ SleptLess /\ OnlyItsOwn
  /\ IdsAreOld /\ UpdatesHaveIt /\ AnswersSawIt /\ AskedForAll

------------------------------------------------------------------------------
(* What holds of records handed over, until their owner wakes.                *)

\* The owner has not woken, and nobody has sent for it.
Unstirred(r) == SleepSeqNum[OwnerOf[r]] = 0 /\ OwnerOf[r] \notin woken

\* Whoever has the record, or gets it, has it as the owner's.
HeldForOwner(r) == \A m \in Machines \ {OwnerOf[r]} :
  records[m][r].state # "none" => records[m][r].hmac = OwnerOf[r] /\ records[m][r].seq = 0
SentForOwner(r) == \A msg \in Updates : r \in msg.recs => msg.owner = OwnerOf[r] /\ msg.seq = 0

\* Records that wait for the same answer are of one owner.
SentTogether(r) == \A m \in Machines, q \in Records :
  records[m][r].updateid # 0 /\ records[m][q].updateid = records[m][r].updateid
    => records[m][q].hmac = records[m][r].hmac /\ records[m][q].seq = records[m][r].seq

\* A machine has the record and no answer that takes it away is under way.
Keeps(m, r) ==
  /\ m # OwnerOf[r] /\ records[m][r].state # "none"
  /\ \A msg \in Answers : msg.to = m => msg.id # records[m][r].updateid
Kept(r) == power[OwnerOf[r]] # "awake" /\ fate[r] = "accepted" => \E m \in Machines : Keeps(m, r)

\* Before its owner's first sleep nobody knows of it.
NotYet(r) == power[OwnerOf[r]] = "awake" /\ SleepSeqNum[OwnerOf[r]] = 0
UnknownYet(r) ==
  /\ fate[r] = "none" /\ \A msg \in Updates : r \notin msg.recs
  /\ \A m \in Machines \ {OwnerOf[r]} : records[m][r].state = "none"
  /\ \A i \in 0 .. Slots - 1 : slots[OwnerOf[r]][i] = NoSlot

KeepInv == \A r \in Records :
  /\ Unstirred(r) => HeldForOwner(r) /\ SentForOwner(r) /\ SentTogether(r) /\ Kept(r)
  /\ NotYet(r) => UnknownYet(r)

------------------------------------------------------------------------------
(* What a registration works out.                                             *)

Owner == [hmac : Machines \cup {None}, seq : Nat]
Working == [attempt : -1 .. Slots * Tries - 1, slots : [0 .. Slots - 1 -> Slot], lastId : Nat,
            records : [Records -> AuthRecord], sent : SUBSET UpdateMsg]

\* It gives registered records new ids, and sends updates that name them all.
HandsOver(m, st) ==
  /\ lastId[m] <= st.lastId
  /\ \A r \in Records : \/ st.records[r] = records[m][r]
                        \/ /\ records[m][r].state = "registered"
                           /\ st.records[r].updateid \in lastId[m] + 1 .. st.lastId
                           /\ st.records[r] = [records[m][r] EXCEPT !.updateid = st.records[r].updateid]
  /\ \A msg \in st.sent :
       /\ msg.from = m /\ msg.id \in lastId[m] + 1 .. st.lastId
       /\ \A r \in Records : st.records[r].updateid = msg.id => r \in msg.recs
       /\ \A r \in msg.recs : /\ records[m][r].state = "registered"
                              /\ msg.owner = IF records[m][r].hmac = None THEN m ELSE records[m][r].hmac
                              /\ msg.seq = IF records[m][r].hmac = None THEN SleepSeqNum[m] ELSE records[m][r].seq
  /\ \A r, q \in Records : /\ st.records[r].updateid = st.records[q].updateid
                           /\ st.records[r].updateid > lastId[m]
                           => records[m][r].hmac = records[m][q].hmac /\ records[m][r].seq = records[m][q].seq

LEMMA SlotOfAttempt ==
  ASSUME NEW a \in -1 .. Slots * Tries - 1
  PROVE  SlotOf(a) \in 0 .. Slots - 1
<1>1. Slots \in Nat \ {0} /\ Tries \in Nat \ {0}
  BY SleepProxyAssumption
<1>2. CASE a < 0
  BY <1>1, <1>2 DEF SlotOf
<1>3. CASE ~(a < 0)
  <2> DEFINE q == a \div Tries
  <2>1. a \in Nat /\ a < Slots * Tries /\ Slots * Tries \in Nat
    BY <1>1, <1>3
  <2>2. q \in Nat /\ q * Tries <= a
    BY <1>1, <2>1
  <2>3. q < Slots
    <3>1. SUFFICES ASSUME q >= Slots PROVE FALSE
      BY <1>1, <2>2
    <3> HIDE DEF q
    <3>2. q * Tries >= Slots * Tries
      BY <1>1, <2>2, <3>1
    <3> QED
      BY <1>1, <2>1, <2>2, <3>2
  <2> QED
    BY <1>1, <1>3, <2>2, <2>3 DEF SlotOf
<1> QED
  BY <1>1, <1>2, <1>3

LEMMA FurtherTyped ==
  ASSUME NEW a \in -1 .. Slots * Tries - 1
  PROVE  Further(a) \in -1 .. Slots * Tries - 1
<1>1. Slots * Tries \in Nat
  BY SleepProxyAssumption
<1> QED
  BY <1>1 DEF Further

LEMMA NowTyped ==
  ASSUME AskInv, NEW m \in Machines
  PROVE  Now(m) \in Working /\ HandsOver(m, Now(m))
<1>1. lastId[m] \in Nat /\ records[m] \in [Records -> AuthRecord] /\ slots[m] \in [0 .. Slots - 1 -> Slot]
      /\ NextSPSAttempt[m] \in -1 .. Slots * Tries - 1
  BY DEF AskInv, Typed, SleepTypeOK
<1>2. \A r \in Records : records[m][r].updateid \in Nat /\ records[m][r].updateid <= lastId[m]
  BY <1>1 DEF AskInv, Typed, SleepTypeOK, AuthRecord
<1>3. Now(m) \in Working
  BY <1>1 DEF Now, Working
<1>4. HandsOver(m, Now(m))
  BY <1>1, <1>2 DEF Now, HandsOver
<1> QED
  BY <1>3, <1>4

\* A registration for one owner, after others.
LEMMA ForOwnerHandsOver ==
  ASSUME AskInv, NEW m \in Machines, NEW o \in Owner, NEW st \in Working, HandsOver(m, st)
  PROVE  LET new == ForOwner(m, o, st) IN
         /\ new \in Working /\ HandsOver(m, new) /\ st.lastId <= new.lastId
         /\ new.lastId # st.lastId => \A r \in Records :
              records[m][r].state = "registered" /\ records[m][r].hmac = o.hmac /\ records[m][r].seq = o.seq
                => new.records[r].updateid > st.lastId
<1> DEFINE i == SlotOf(st.attempt)
           recs == {r \in Records : records[m][r].state = "registered"
                                    /\ records[m][r].hmac = o.hmac /\ records[m][r].seq = o.seq}
           id == st.lastId + 1
           marks == [r \in Records |-> IF r \in recs THEN [st.records[r] EXCEPT !.updateid = id] ELSE st.records[r]]
           marked == [st EXCEPT !.lastId = id, !.records = marks]
           msg == Update(m, st.slots[i].who, id, o, recs)
           skip == [st EXCEPT !.attempt = Further(@)]
           asks == [marked EXCEPT !.slots[i].ask = "a"]
           lost == [marked EXCEPT !.attempt = Further(@), !.sent = @]
           goes == [marked EXCEPT !.attempt = Further(@), !.sent = @ \cup {msg}]
<1>1. ForOwner(m, o, st) \in {skip, asks, lost, goes}
  BY DEF ForOwner
<1>2. /\ st.attempt \in -1 .. Slots * Tries - 1 /\ st.slots \in [0 .. Slots - 1 -> Slot] /\ st.lastId \in Nat
      /\ st.records \in [Records -> AuthRecord] /\ st.sent \in SUBSET UpdateMsg
  BY DEF Working
<1>3. i \in 0 .. Slots - 1 /\ Further(st.attempt) \in -1 .. Slots * Tries - 1
  BY <1>2, SlotOfAttempt, FurtherTyped
<1>4. id \in Nat /\ marks \in [Records -> AuthRecord]
  BY <1>2 DEF AuthRecord
<1>5. lastId[m] \in Nat /\ \A r \in Records : records[m][r] \in AuthRecord
      /\ records[m][r].updateid \in Nat /\ records[m][r].updateid <= lastId[m]
  BY DEF AskInv, Typed, SleepTypeOK, AuthRecord
<1>6. msg \in UpdateMsg
  <2>1. st.slots[i].who \in Machines \cup {None}
    BY <1>2, <1>3 DEF Slot
  <2>2. SleepSeqNum[m] \in Nat
    <3>1. link.sleeps \in Nat
      BY SleepProxyAssumption DEF AskInv, Typed, Link
    <3> QED
      BY <3>1 DEF AskInv, Typed, SleepTypeOK
  <2> QED
    BY <1>4, <2>1, <2>2 DEF Update, UpdateMsg, Owner
<1> HIDE DEF i, marks, msg, recs
<1>7. /\ skip.attempt = Further(st.attempt) /\ skip.slots = st.slots /\ skip.lastId = st.lastId
      /\ skip.records = st.records /\ skip.sent = st.sent /\ skip \in Working
  BY <1>2, <1>3 DEF Working
<1>8. [st.slots EXCEPT ![i].ask = "a"] \in [0 .. Slots - 1 -> Slot]
  BY <1>2, <1>3 DEF Slot
<1>9. asks.lastId = id /\ asks.records = marks /\ asks.sent = st.sent /\ asks \in Working
  BY <1>2, <1>4, <1>8 DEF Working
<1>10. lost.lastId = id /\ lost.records = marks /\ lost.sent = st.sent /\ lost \in Working
  BY <1>2, <1>3, <1>4 DEF Working
<1>11. goes.lastId = id /\ goes.records = marks /\ goes.sent = st.sent \cup {msg} /\ goes \in Working
  BY <1>2, <1>3, <1>4, <1>6 DEF Working
<1>12. HandsOver(m, skip)
  BY <1>7 DEF HandsOver
<1>13. \A new \in Working : new.lastId = id /\ new.records = marks /\ (new.sent = st.sent \/ new.sent = st.sent \cup {msg})
         => HandsOver(m, new)
  <2> TAKE new \in Working
  <2> HAVE new.lastId = id /\ new.records = marks /\ (new.sent = st.sent \/ new.sent = st.sent \cup {msg})
  <2>1. \A r \in Records : marks[r] = IF r \in recs THEN [st.records[r] EXCEPT !.updateid = id] ELSE st.records[r]
    BY DEF marks
  <2>2. \A r \in recs : r \in Records /\ records[m][r].state = "registered" /\ records[m][r].hmac = o.hmac
                        /\ records[m][r].seq = o.seq
    BY DEF recs
  <2>3. lastId[m] <= st.lastId /\ lastId[m] <= new.lastId
    BY <1>2, <1>5 DEF HandsOver
  <2>4. \A r \in Records : marks[r].updateid = IF r \in recs THEN id ELSE st.records[r].updateid
    BY <1>2, <2>1 DEF AuthRecord
  <2>5. \A r \in Records : st.records[r].updateid \in Nat /\ st.records[r].updateid <= st.lastId
    <3> TAKE r \in Records
    <3>1. st.records[r] = records[m][r] \/ st.records[r].updateid \in lastId[m] + 1 .. st.lastId
      BY DEF HandsOver
    <3> QED
      BY <1>2, <1>5, <2>3, <3>1
  <2>6. \A r \in Records : \/ new.records[r] = records[m][r]
                           \/ /\ records[m][r].state = "registered"
                              /\ new.records[r].updateid \in lastId[m] + 1 .. new.lastId
                              /\ new.records[r] = [records[m][r] EXCEPT !.updateid = new.records[r].updateid]
    <3> TAKE r \in Records
    <3>1. CASE r \in recs
      <4>1. st.records[r] = records[m][r] \/ st.records[r] = [records[m][r] EXCEPT !.updateid = st.records[r].updateid]
        BY DEF HandsOver
      <4>2. records[m][r] \in AuthRecord
        BY <1>5
      <4>3. [st.records[r] EXCEPT !.updateid = id] = [records[m][r] EXCEPT !.updateid = id]
        BY <4>1, <4>2 DEF AuthRecord
      <4> QED
        BY <1>2, <1>4, <1>5, <2>1, <2>2, <2>3, <2>4, <3>1, <4>3
    <3>2. CASE r \notin recs
      <4>1. new.records[r] = st.records[r]
        BY <2>1, <3>2
      <4>2. \/ st.records[r] = records[m][r]
            \/ /\ records[m][r].state = "registered" /\ st.records[r].updateid \in lastId[m] + 1 .. st.lastId
               /\ st.records[r] = [records[m][r] EXCEPT !.updateid = st.records[r].updateid]
        BY DEF HandsOver
      <4> QED
        BY <1>2, <1>5, <2>5, <4>1, <4>2
    <3> QED
      BY <3>1, <3>2
  <2>7. \A r \in recs : /\ msg.owner = IF records[m][r].hmac = None THEN m ELSE records[m][r].hmac
                        /\ msg.seq = IF records[m][r].hmac = None THEN SleepSeqNum[m] ELSE records[m][r].seq
    BY <2>2 DEF msg, Update
  <2>8. msg.from = m /\ msg.id = id /\ msg.recs = recs
    BY DEF msg, Update
  <2>9. ASSUME NEW u \in new.sent
        PROVE  /\ u.from = m /\ u.id \in lastId[m] + 1 .. new.lastId
               /\ \A r \in Records : new.records[r].updateid = u.id => r \in u.recs
               /\ \A r \in u.recs : /\ records[m][r].state = "registered"
                                    /\ u.owner = IF records[m][r].hmac = None THEN m ELSE records[m][r].hmac
                                    /\ u.seq = IF records[m][r].hmac = None THEN SleepSeqNum[m] ELSE records[m][r].seq
    <3>1. CASE u \in st.sent
      <4>1. /\ u.from = m /\ u.id \in lastId[m] + 1 .. st.lastId
            /\ \A r \in Records : st.records[r].updateid = u.id => r \in u.recs
            /\ \A r \in u.recs : /\ records[m][r].state = "registered"
                                 /\ u.owner = IF records[m][r].hmac = None THEN m ELSE records[m][r].hmac
                                 /\ u.seq = IF records[m][r].hmac = None THEN SleepSeqNum[m] ELSE records[m][r].seq
        BY <3>1 DEF HandsOver
      <4>2. u.id \in lastId[m] + 1 .. new.lastId /\ u.id # id
        BY <1>2, <1>5, <4>1
      <4> QED
        BY <2>4, <4>1, <4>2
    <3>2. CASE u = msg
      <4>1. u.id = id /\ id \in lastId[m] + 1 .. new.lastId
        BY <1>2, <1>5, <2>3, <2>8, <3>2
      <4>2. \A r \in Records : new.records[r].updateid = id => r \in recs
        BY <1>2, <2>4, <2>5
      <4> QED
        BY <2>2, <2>7, <2>8, <3>2, <4>1, <4>2
    <3> QED
      BY <3>1, <3>2
  <2>10. ASSUME NEW r \in Records, NEW q \in Records, new.records[r].updateid = new.records[q].updateid,
                new.records[r].updateid > lastId[m]
         PROVE  records[m][r].hmac = records[m][q].hmac /\ records[m][r].seq = records[m][q].seq
    <3>1. CASE r \in recs \/ q \in recs
      <4>1. r \in recs /\ q \in recs
        BY <1>2, <2>4, <2>5, <2>10, <3>1
      <4> QED
        BY <2>2, <4>1
    <3>2. CASE r \notin recs /\ q \notin recs
      BY <2>4, <2>10, <3>2 DEF HandsOver
    <3> QED
      BY <3>1, <3>2
  <2> QED
    BY <2>3, <2>6, <2>9, <2>10 DEF HandsOver
<1>14. \A new : new.records = marks => \A r \in recs : new.records[r].updateid > st.lastId
  BY <1>2, <1>4 DEF marks, recs, AuthRecord
<1>15. \A r \in Records : records[m][r].state = "registered" /\ records[m][r].hmac = o.hmac /\ records[m][r].seq = o.seq
         => r \in recs
  BY DEF recs
<1> HIDE DEF skip, asks, lost, goes, marked
<1>16. CASE ForOwner(m, o, st) = skip
  BY <1>2, <1>7, <1>12, <1>16
<1>17. CASE ForOwner(m, o, st) = asks
  BY <1>2, <1>9, <1>13, <1>14, <1>15, <1>17
<1>18. CASE ForOwner(m, o, st) = lost
  BY <1>2, <1>10, <1>13, <1>14, <1>15, <1>18
<1>19. CASE ForOwner(m, o, st) = goes
  BY <1>2, <1>11, <1>13, <1>14, <1>15, <1>19
<1> QED
  BY <1>1, <1>16, <1>17, <1>18, <1>19

\* What is left of an owner's registration after all the others of the machine.
LEMMA SendSPSRegistrationHandsOver ==
  ASSUME AskInv, NEW m \in Machines, NEW st \in Working, HandsOver(m, st)
  PROVE  LET new == SendSPSRegistration(m, st) IN
         /\ new \in Working /\ HandsOver(m, new)
         /\ m \notin Servers /\ new.lastId # st.lastId => \A r \in Own(m) : new.records[r].updateid > st.lastId
<1> DEFINE T == OwnersOf(m)
           D == {x \in Working : HandsOver(m, x)}
           b == ForOwner(m, NoOwner, st)
           G == [y \in T \X D |-> ForOwner(m, y[1], y[2])]
           IsFold(g) == g = [s \in SUBSET T |-> IF s = {} THEN b
                                                ELSE ForOwner(m, CHOOSE x \in s : TRUE, g[s \ {CHOOSE x \in s : TRUE}])]
           fold == CHOOSE g : IsFold(g)
<1>1. \A r \in Records : records[m][r] \in AuthRecord
  BY DEF AskInv, Typed, SleepTypeOK
<1>2. T \subseteq Owner /\ NoOwner \in Owner
  BY <1>1 DEF OwnersOf, Held, Foreign, Owner, NoOwner, AuthRecord
<1>3. IsFiniteSet(T)
  <2> DEFINE F == [r \in Records |-> [hmac |-> records[m][r].hmac, seq |-> records[m][r].seq]]
             H == Held(m) \cup Foreign(m)
             All == {[hmac |-> records[m][r].hmac, seq |-> records[m][r].seq] : r \in H}
  <2>1. IsFiniteSet(H)
    <3>1. H \subseteq Records
      BY DEF Held, Foreign
    <3> QED
      BY <3>1, FS_Subset, SleepProxyAssumption
  <2>2. IsFiniteSet(All)
    <3> DEFINE g == [r \in H |-> [hmac |-> records[m][r].hmac, seq |-> records[m][r].seq]]
    <3>1. g \in Surjection(H, All)
      BY DEF Surjection
    <3> HIDE DEF g, H, All
    <3> QED
      BY <2>1, <3>1, FS_Surjection
  <2>3. T \subseteq All
    BY DEF OwnersOf
  <2> HIDE DEF All, T
  <2> QED
    BY <2>2, <2>3, FS_Subset
<1>4. \A o \in Owner, x \in D : ForOwner(m, o, x) \in D
  BY ForOwnerHandsOver
<1>5. b \in D /\ G \in [T \X D -> D]
  BY <1>2, <1>4
<1> HIDE DEF T, D, b, G, IsFold, fold
<1>6. PICK f \in [SUBSET T -> D] : FoldsAs(f, T, b, G)
  BY <1>3, <1>5, FoldExists
<1>7. \A s \in SUBSET T : s # {} => Chosen(s) \in T /\ Rest(s) \in SUBSET T
  BY <1>3, RestIsSmaller
<1>8. \A s \in SUBSET T : s # {} => G[<<Chosen(s), f[Rest(s)]>>] = ForOwner(m, Chosen(s), f[Rest(s)])
  BY <1>6, <1>7 DEF G
<1>9. IsFold(f)
  BY <1>6, <1>8 DEF IsFold, FoldsAs, Chosen, Rest
<1>10. IsFold(fold)
  BY <1>9 DEF fold
<1>11. SendSPSRegistration(m, st) = fold[T]
  BY DEF SendSPSRegistration, FoldSet, MapThenFoldSet, T, b, fold, IsFold
<1>12. fold[T] \in D
  <2> DEFINE Q == {s \in SUBSET T : fold[s] \in D}
  <2>1. {} \in Q
    BY <1>5, <1>10 DEF IsFold
  <2>2. \A s \in SUBSET T : s # {} /\ Rest(s) \in Q => s \in Q
    <3> TAKE s \in SUBSET T
    <3> HAVE s # {} /\ Rest(s) \in Q
    <3>1. fold[s] = ForOwner(m, Chosen(s), fold[Rest(s)])
      BY <1>10 DEF IsFold, Chosen, Rest
    <3> QED
      BY <1>2, <1>4, <1>7, <3>1
  <2> HIDE DEF Q
  <2>3. T \in Q
    <3>1. Q \in SUBSET (SUBSET T)
      BY DEF Q
    <3> QED
      BY <1>3, <2>1, <2>2, <3>1, RestInduction
  <2> QED
    BY <2>3 DEF Q
<1>13. ASSUME m \notin Servers PROVE fold[T] = b
  <2>1. \A r \in Records : records[m][r].state = "none" \/ (OwnerOf[r] = m /\ records[m][r].hmac = None)
    <3> TAKE r \in Records
    <3>1. \/ r \in Own(m) /\ records[m][r] = [OwnRecord EXCEPT !.updateid = records[m][r].updateid]
          \/ records[m][r] = NoRecord
      BY <1>13 DEF AskInv, OnlyItsOwn
    <3>2. NoRecord.state = "none" /\ \A n : [OwnRecord EXCEPT !.updateid = n].hmac = None
      BY DEF OwnRecord, NoRecord
    <3> QED
      BY <3>1, <3>2 DEF Own
  <2>2. T = {}
    BY <2>1 DEF T, OwnersOf, Held, Foreign
  <2> QED
    BY <1>10, <2>2 DEF IsFold
<1>14. ASSUME m \notin Servers, b.lastId # st.lastId PROVE \A r \in Own(m) : b.records[r].updateid > st.lastId
  <2>1. \A r \in Own(m) : r \in Records
    BY SleepProxyAssumption DEF Own, AskInv, Typed, Link
  <2>2. \A r \in Own(m) : records[m][r].state = "registered" /\ records[m][r].hmac = None /\ records[m][r].seq = 0
    <3> TAKE r \in Own(m)
    <3>1. records[m][r] = [OwnRecord EXCEPT !.updateid = records[m][r].updateid]
      BY <1>14, <2>1 DEF AskInv, OnlyItsOwn
    <3>2. \A n : /\ [OwnRecord EXCEPT !.updateid = n].state = "registered" /\ [OwnRecord EXCEPT !.updateid = n].hmac = None
                 /\ [OwnRecord EXCEPT !.updateid = n].seq = 0
      BY DEF OwnRecord, NoRecord
    <3> QED
      BY <3>1, <3>2
  <2> QED
    BY <1>2, <1>14, <2>1, <2>2, ForOwnerHandsOver DEF b, NoOwner
<1> QED
  BY <1>11, <1>12, <1>13, <1>14 DEF D

------------------------------------------------------------------------------
(* What a proxy does with the records it holds.                               *)

\* A record is freed when its owner was heard or sent for, or never had one, and
\* else keeps its id; it loses its HMAC only when the owner was sent for.
HeldChange(s, q, new) ==
  LET old == records[s][q]
  IN  \/ new = old
      \/ /\ new = NoRecord
         /\ \/ old.hmac \in {None} \cup woken'
            \/ old.hmac \in Machines /\ power[old.hmac] = "awake"
      \/ /\ old.state # "none" /\ new.state # "none" /\ new.updateid = old.updateid /\ new.seq = old.seq
         /\ new.hmac = old.hmac \/ old.hmac \in woken'
         /\ new.state = "waking" => new.hmac # None
ChangesHeld(s) ==
  /\ \E R \in [Records -> AuthRecord] :
       /\ records' = [records EXCEPT ![s] = R]
       /\ \A q \in Records : HeldChange(s, q, R[q])
  /\ woken \subseteq woken' /\ woken' \subseteq Machines /\ leaving' \in [Machines -> Nat]
  /\ SPSSocket' \in [Machines -> BOOLEAN] /\ \A m \in Machines \ Servers : SPSSocket'[m] = SPSSocket[m]
  /\ SPSState' \in [Machines -> 0 .. 3] /\ SPSType' \in [Machines -> 0 .. 1]
  /\ UNCHANGED <<sleeper, net, fate>>

LEMMA RecordsTyped ==
  ASSUME AskInv, NEW m \in Machines
  PROVE  /\ records[m] \in [Records -> AuthRecord] /\ \A r \in Records : records[m][r] \in AuthRecord
         /\ records \in [Machines -> [Records -> AuthRecord]]
BY DEF AskInv, Typed

LEMMA NoRecordTyped == NoRecord \in AuthRecord /\ NoRecord.state = "none" /\ NoRecord.updateid = 0
BY DEF NoRecord, AuthRecord

LEMMA ChangesHeldAskInv ==
  ASSUME AskInv, NEW s \in Servers, ChangesHeld(s) PROVE AskInv'
<1>1. PICK R \in [Records -> AuthRecord] :
        /\ records' = [records EXCEPT ![s] = R]
        /\ \A q \in Records : \/ R[q] = NoRecord
                              \/ R[q] = records[s][q]
                              \/ /\ R[q].updateid = records[s][q].updateid /\ R[q].state # "none"
                                 /\ R[q].state = "waking" => R[q].hmac # None
  BY DEF ChangesHeld, HeldChange
<1>2. /\ link' = link /\ power' = power /\ SleepSeqNum' = SleepSeqNum /\ lastId' = lastId /\ asked' = asked
      /\ quiet' = quiet /\ net' = net /\ fate' = fate
  BY DEF ChangesHeld, sleeper
<1>3. s \in Machines /\ \A m \in Machines \ Servers : m # s
  BY SleepProxyAssumption
<1>4. /\ records' \in [Machines -> [Records -> AuthRecord]] /\ records'[s] = R
      /\ \A m \in Machines : m # s => records'[m] = records[m]
  BY <1>1, <1>3, RecordsTyped
<1>5. \A m \in Machines, r \in Records : records[m][r].updateid \in Nat /\ records[m][r].updateid <= lastId[m] /\ lastId[m] \in Nat
  BY RecordsTyped DEF AskInv, Typed, SleepTypeOK, AuthRecord
<1>6. \A m \in Machines, r \in Records : records'[m][r].updateid = 0 \/ records'[m][r].updateid = records[m][r].updateid
  BY <1>1, <1>4, NoRecordTyped
<1>7. Typed'
  <2>1. \A m \in Machines, r \in Records :
          /\ records'[m][r] \in AuthRecord /\ records'[m][r].updateid <= lastId'[m]
          /\ OwnerOf[r] = m /\ r \in link'.records => records'[m][r].state = "registered" /\ records'[m][r].hmac = None
    <3> TAKE m \in Machines, r \in Records
    <3>1. OwnerOf[r] # s
      BY SleepProxyAssumption
    <3>2. m # s /\ OwnerOf[r] = m /\ r \in link.records => records[m][r].state = "registered" /\ records[m][r].hmac = None
      BY DEF AskInv, Typed, SleepTypeOK
    <3> QED
      BY <1>2, <1>4, <1>5, <1>6, <3>1, <3>2
  <2>2. NetTyped' /\ link' \in Links /\ lastId' \in [Machines -> Nat]
    BY <1>2 DEF AskInv, Typed, NetTyped
  <2>3. /\ woken' \subseteq Machines /\ leaving' \in [Machines -> Nat] /\ SPSSocket' \in [Machines -> BOOLEAN]
        /\ SPSState' \in [Machines -> 0 .. 3] /\ SPSType' \in [Machines -> 0 .. 1]
        /\ UNCHANGED <<sleeper, net, fate>>
    BY DEF ChangesHeld
  <2> QED
    BY <1>4, <2>1, <2>2, <2>3 DEF AskInv, Typed, SleepTypeOK, sleeper
<1>8. WellFormed'
  BY <1>1, <1>4, NoRecordTyped DEF AskInv, WellFormed
<1>9. SleptLess'
  BY <1>2 DEF AskInv, SleptLess
<1>10. OnlyItsOwn'
  <2>1. \A m \in Machines : Own(m)' = Own(m)
    BY <1>2 DEF Own
  <2>2. \A m \in Machines \ Servers : SPSSocket'[m] = SPSSocket[m] /\ records'[m] = records[m]
    BY <1>3, <1>4 DEF ChangesHeld
  <2> QED
    BY <2>1, <2>2 DEF AskInv, OnlyItsOwn
<1>11. IdsAreOld'
  BY <1>2 DEF AskInv, IdsAreOld, Updates, Answers
<1>12. UpdatesHaveIt'
  <2>1. \A msg \in Updates : msg.from \in Machines /\ msg.id # 0
    BY DEF AskInv, Typed, NetTyped, IdsAreOld, Updates, UpdateMsg, AnswerMsg
  <2> QED
    BY <1>2, <1>6, <2>1 DEF AskInv, UpdatesHaveIt, Updates, Own
<1>13. AnswersSawIt'
  <2>1. \A msg \in Answers : msg.to \in Machines /\ msg.id # 0 /\ \A r \in Own(msg.to) : r \in Records
    BY SleepProxyAssumption DEF AskInv, Typed, NetTyped, IdsAreOld, Answers, UpdateMsg, AnswerMsg, Own, Link
  <2> QED
    BY <1>2, <1>6, <2>1 DEF AskInv, AnswersSawIt, Answers, Own
<1>14. AskedForAll'
  <2>1. ASSUME NEW m \in Machines, NEW r \in Own(m) PROVE m # s /\ r \in Records
    BY SleepProxyAssumption DEF AskInv, Typed, Own, Link
  <2> QED
    BY <1>2, <1>4, <2>1 DEF AskInv, AskedForAll, Own
<1> QED
  BY <1>7, <1>8, <1>9, <1>10, <1>11, <1>12, <1>13, <1>14 DEF AskInv

LEMMA StaysServer ==
  ASSUME AskInv
  PROVE  /\ woken \subseteq Machines /\ leaving \in [Machines -> Nat] /\ SPSSocket \in [Machines -> BOOLEAN]
         /\ SPSState \in [Machines -> 0 .. 3] /\ SPSType \in [Machines -> 0 .. 1]
         /\ power \in [Machines -> {"awake", "transferring", "sleeping", "off"}]
BY DEF AskInv, Typed, SleepTypeOK

\* Only the records of one proxy differ.
LEMMA RecordsOfOne ==
  ASSUME AskInv, NEW s \in Servers, NEW R \in [Records -> AuthRecord], records' = [records EXCEPT ![s] = R],
         \A q \in Records : HeldChange(s, q, R[q]),
         woken \subseteq woken', woken' \subseteq Machines, leaving' \in [Machines -> Nat],
         UNCHANGED <<sleeper, server, net, fate>>
  PROVE  ChangesHeld(s)
BY StaysServer DEF ChangesHeld, server

LEMMA FreedTyped ==
  ASSUME NEW recs \in [Records -> AuthRecord], NEW rs
  PROVE  /\ Freed(recs, rs) \in [Records -> AuthRecord]
         /\ \A q \in Records : Freed(recs, rs)[q] = IF q \in rs THEN NoRecord ELSE recs[q]
BY NoRecordTyped DEF Freed

LEMMA WakingTyped ==
  ASSUME NEW recs \in [Records -> AuthRecord], NEW rs
  PROVE  /\ Waking(recs, rs) \in [Records -> AuthRecord]
         /\ \A q \in Records : Waking(recs, rs)[q] = IF q \in rs THEN [recs[q] EXCEPT !.state = "waking"] ELSE recs[q]
BY DEF Waking, AuthRecord

LEMMA MadeWaking ==
  ASSUME AskInv, NEW s \in Servers, NEW rs, rs \subseteq Held(s), NEW q \in Records
  PROVE  HeldChange(s, q, Waking(records[s], rs)[q])
<1>1. s \in Machines
  BY SleepProxyAssumption
<1>2. Waking(records[s], rs)[q] = IF q \in rs THEN [records[s][q] EXCEPT !.state = "waking"] ELSE records[s][q]
  BY <1>1, RecordsTyped, WakingTyped
<1>3. records[s][q] \in AuthRecord
  BY <1>1, RecordsTyped
<1>4. CASE q \in rs
  <2> DEFINE new == [records[s][q] EXCEPT !.state = "waking"]
  <2>1. new.state = "waking" /\ new.hmac = records[s][q].hmac /\ new.seq = records[s][q].seq
        /\ new.updateid = records[s][q].updateid
    BY <1>3 DEF AuthRecord
  <2>2. records[s][q].state = "registered" /\ records[s][q].hmac # None
    BY <1>4 DEF Held
  <2> HIDE DEF new
  <2> QED
    BY <1>2, <1>4, <2>1, <2>2 DEF HeldChange, new
<1>5. CASE q \notin rs
  BY <1>2, <1>5 DEF HeldChange
<1> QED
  BY <1>4, <1>5

LEMMA AnnounceChangesHeld ==
  ASSUME AskInv, NEW m \in Machines, NEW s \in Servers, Announce(m, s) PROVE ChangesHeld(s)
<1>1. s \in Machines /\ records[s] \in [Records -> AuthRecord]
  BY SleepProxyAssumption, RecordsTyped
<1>2. PICK old \in SUBSET Held(s) :
        records' = [records EXCEPT ![s] = Freed(@, ClearProxyRecords(s, m, SleepSeqNum[m], old))]
  BY DEF Announce
<1> DEFINE gone == ClearProxyRecords(s, m, SleepSeqNum[m], old)
           R == Freed(records[s], gone)
<1>3. records' = [records EXCEPT ![s] = R]
  BY <1>1, <1>2, RecordsTyped
<1>4. \A q \in gone : records[s][q].hmac = m
  BY DEF ClearProxyRecords
<1> HIDE DEF gone
<1>5. \A q \in Records : HeldChange(s, q, R[q])
  BY <1>1, <1>4, FreedTyped DEF HeldChange, Announce
<1>6. R \in [Records -> AuthRecord]
  BY <1>1, FreedTyped
<1> HIDE DEF R
<1> QED
  BY <1>3, <1>5, <1>6, RecordsOfOne, StaysServer DEF Announce

LEMMA CheckProxyRecordsChangesHeld ==
  ASSUME AskInv, NEW s \in Servers, CheckProxyRecords(s) PROVE ChangesHeld(s)
<1>1. s \in Machines /\ records[s] \in [Records -> AuthRecord]
  BY SleepProxyAssumption, RecordsTyped
<1>2. PICK ended \in SUBSET Held(s) : records' = [records EXCEPT ![s] = Waking(@, ended)]
  BY DEF CheckProxyRecords
<1> DEFINE R == Waking(records[s], ended)
<1>3. records' = [records EXCEPT ![s] = R]
  BY <1>1, <1>2, RecordsTyped
<1>4. R \in [Records -> AuthRecord] /\ \A q \in Records : HeldChange(s, q, R[q])
  BY <1>1, WakingTyped, MadeWaking
<1> HIDE DEF R
<1> QED
  BY <1>3, <1>4, RecordsOfOne, StaysServer DEF CheckProxyRecords

LEMMA ScheduleWakeupChangesHeld ==
  ASSUME AskInv, NEW s \in Servers, NEW o, ScheduleWakeup(s, o) PROVE ChangesHeld(s)
<1>1. s \in Machines /\ records[s] \in [Records -> AuthRecord]
  BY SleepProxyAssumption, RecordsTyped
<1> DEFINE R == Waking(records[s], Of(s, o))
<1>2. records' = [records EXCEPT ![s] = R]
  BY <1>1, RecordsTyped DEF ScheduleWakeup
<1>3. Of(s, o) \subseteq Held(s)
  BY DEF Of
<1>4. R \in [Records -> AuthRecord] /\ \A q \in Records : HeldChange(s, q, R[q])
  BY <1>1, <1>3, WakingTyped, MadeWaking
<1> HIDE DEF R
<1> QED
  BY <1>2, <1>4, RecordsOfOne, StaysServer DEF ScheduleWakeup

LEMMA SPSRecordCallbackChangesHeld ==
  ASSUME AskInv, NEW s \in Servers, NEW r \in Records, SPSRecordCallback(s, r) PROVE ChangesHeld(s)
<1>1. s \in Machines /\ records[s] \in [Records -> AuthRecord] /\ records[s][r] \in AuthRecord
  BY SleepProxyAssumption, RecordsTyped
<1> DEFINE o == records[s][r].hmac
           W == Waking(records[s], Of(s, o))
           R == Freed(W, {r})
<1>2. records' = [records EXCEPT ![s] = R]
  BY <1>1, RecordsTyped DEF SPSRecordCallback
<1>3. Of(s, o) \subseteq Held(s)
  BY DEF Of
<1>4. W \in [Records -> AuthRecord] /\ \A q \in Records : HeldChange(s, q, W[q])
  BY <1>1, <1>3, WakingTyped, MadeWaking
<1>5. woken' = IF o = None THEN woken ELSE woken \cup {o}
  BY DEF SPSRecordCallback
<1>6. woken \subseteq woken' /\ woken' \subseteq Machines /\ o \in {None} \cup woken'
  BY <1>1, <1>5, StaysServer DEF AuthRecord
<1> HIDE DEF W
<1>7. R \in [Records -> AuthRecord] /\ \A q \in Records : R[q] = IF q = r THEN NoRecord ELSE W[q]
  BY <1>4, FreedTyped
<1>8. \A q \in Records : HeldChange(s, q, R[q])
  BY <1>4, <1>6, <1>7 DEF HeldChange
<1> HIDE DEF R
<1> QED
  BY <1>2, <1>6, <1>7, <1>8, RecordsOfOne, StaysServer DEF SPSRecordCallback

LEMMA SendWakeupChangesHeld ==
  ASSUME AskInv, NEW s \in Servers, NEW r \in Records, SendWakeup(s, r) PROVE ChangesHeld(s)
<1>1. s \in Machines /\ records[s] \in [Records -> AuthRecord] /\ \A q \in Records : records[s][q] \in AuthRecord
  BY SleepProxyAssumption, RecordsTyped
<1>2. PICK down \in SUBSET {q \in Held(s) \cup Woken(s) : records[s][q].hmac = records[s][r].hmac} :
       /\ records' = [records EXCEPT ![s] = [q \in Records |->
                        IF q \notin down THEN @[q]
                        ELSE IF @[q].state = "waking" THEN NoRecord ELSE [@[q] EXCEPT !.hmac = None]]]
       /\ leaving' = [leaving EXCEPT ![s] = @ + Cardinality(down \cap Woken(s))]
  BY DEF SendWakeup
<1> DEFINE R == [q \in Records |->
                   IF q \notin down THEN records[s][q]
                   ELSE IF records[s][q].state = "waking" THEN NoRecord ELSE [records[s][q] EXCEPT !.hmac = None]]
<1>3. records' = [records EXCEPT ![s] = R]
  BY <1>1, <1>2, RecordsTyped
<1>4. R \in [Records -> AuthRecord]
  BY <1>1, NoRecordTyped DEF AuthRecord
<1>5. leaving' \in [Machines -> Nat]
  <2>1. down \cap Woken(s) \subseteq Records
    BY DEF Woken
  <2>2. Cardinality(down \cap Woken(s)) \in Nat
    BY <2>1, SleepProxyAssumption, FS_Subset, FS_CardinalityType
  <2> QED
    BY <1>1, <1>2, <2>2, StaysServer
<1>6. records[s][r].hmac \in Machines /\ woken' = woken \cup {records[s][r].hmac}
  BY <1>1 DEF SendWakeup, Woken, AskInv, WellFormed, AuthRecord
<1>7. woken \subseteq woken' /\ woken' \subseteq Machines
  BY <1>6, StaysServer
<1>8. \A q \in Records : HeldChange(s, q, R[q])
  <2> TAKE q \in Records
  <2>1. CASE q \notin down
    BY <2>1 DEF HeldChange
  <2>2. CASE q \in down
    <3>1. records[s][q].hmac = records[s][r].hmac /\ records[s][q].state \in {"registered", "waking"}
      BY <2>2 DEF Held, Woken
    <3>2. CASE records[s][q].state = "waking"
      <4>1. R[q] = NoRecord
        BY <2>2, <3>2
      <4> QED
        BY <1>6, <3>1, <4>1 DEF HeldChange
    <3>3. CASE records[s][q].state = "registered"
      <4> DEFINE new == [records[s][q] EXCEPT !.hmac = None]
      <4>1. R[q] = new
        BY <2>2, <3>3
      <4>2. new.state = "registered" /\ new.seq = records[s][q].seq /\ new.updateid = records[s][q].updateid
        BY <1>1, <3>3 DEF AuthRecord
      <4> HIDE DEF new, R
      <4> QED
        BY <1>6, <3>1, <3>3, <4>1, <4>2 DEF HeldChange
    <3> QED
      BY <3>1, <3>2, <3>3
  <2> QED
    BY <2>1, <2>2
<1> HIDE DEF R
<1> QED
  BY <1>3, <1>4, <1>5, <1>7, <1>8, RecordsOfOne DEF SendWakeup

\* The others of a proxy's actions leave its records alone.
LEMMA LeavesRecords ==
  ASSUME AskInv, NEW s \in Servers, UNCHANGED <<sleeper, records, net, fate, woken>>,
         leaving' \in [Machines -> Nat], SPSSocket' \in [Machines -> BOOLEAN],
         \A m \in Machines \ Servers : SPSSocket'[m] = SPSSocket[m],
         SPSState' \in [Machines -> 0 .. 3], SPSType' \in [Machines -> 0 .. 1]
  PROVE  ChangesHeld(s)
<1>1. s \in Machines /\ records[s] \in [Records -> AuthRecord] /\ records' = [records EXCEPT ![s] = records[s]]
  BY SleepProxyAssumption, RecordsTyped
<1>2. \A q \in Records : HeldChange(s, q, records[s][q])
  BY DEF HeldChange
<1> QED
  BY <1>1, <1>2, StaysServer DEF ChangesHeld

LEMMA ServiceChangesHeld ==
  ASSUME AskInv, NEW s \in Servers,
         LastGoodbye(s) \/ SleepProxyServerCallback(s) \/ \E type \in {0, 1} : BeSleepProxyServer(s, type)
  PROVE  ChangesHeld(s)
<1>1. s \in Machines
  BY SleepProxyAssumption
<1>2. CASE LastGoodbye(s)
  <2>1. leaving' \in [Machines -> Nat]
    BY <1>1, <1>2, StaysServer DEF LastGoodbye
  <2> QED
    BY <1>2, <2>1, LeavesRecords, StaysServer DEF LastGoodbye, server
<1>3. CASE SleepProxyServerCallback(s)
  <2>1. SPSState' \in [Machines -> 0 .. 3]
    BY <1>1, <1>3, StaysServer DEF SleepProxyServerCallback
  <2> QED
    BY <1>3, <2>1, LeavesRecords, StaysServer DEF SleepProxyServerCallback
<1>4. ASSUME NEW type \in {0, 1}, BeSleepProxyServer(s, type) PROVE ChangesHeld(s)
  <2>1. /\ SPSState' \in [Machines -> 0 .. 3] /\ SPSType' \in [Machines -> 0 .. 1]
        /\ SPSSocket' \in [Machines -> BOOLEAN] /\ \A m \in Machines \ Servers : SPSSocket'[m] = SPSSocket[m]
    BY <1>1, <1>4, StaysServer DEF BeSleepProxyServer
  <2> QED
    BY <1>4, <2>1, LeavesRecords, StaysServer DEF BeSleepProxyServer
<1> QED
  BY <1>2, <1>3, <1>4

\* Each thing a proxy does by itself.
ByProxy(s) ==
  \/ CheckProxyRecords(s) \/ LastGoodbye(s) \/ SleepProxyServerCallback(s)
  \/ \E type \in {0, 1} : BeSleepProxyServer(s, type)
  \/ \E m \in Machines : Announce(m, s)
  \/ \E r \in Records : \/ SPSRecordCallback(s, r) \/ SendWakeup(s, r) \/ mDNSCoreReceiveRawARP(s, r)
                        \/ mDNSCoreReceiveRawTransportPacket(s, r)

LEMMA ByProxyChangesHeld ==
  ASSUME AskInv, NEW s \in Servers, ByProxy(s) PROVE ChangesHeld(s)
<1>1. ASSUME NEW r \in Records, mDNSCoreReceiveRawARP(s, r) \/ mDNSCoreReceiveRawTransportPacket(s, r)
      PROVE ChangesHeld(s)
  BY <1>1, ScheduleWakeupChangesHeld DEF mDNSCoreReceiveRawARP, mDNSCoreReceiveRawTransportPacket
<1> QED
  BY <1>1, CheckProxyRecordsChangesHeld, ServiceChangesHeld, AnnounceChangesHeld, SPSRecordCallbackChangesHeld,
     SendWakeupChangesHeld DEF ByProxy

------------------------------------------------------------------------------
(* What a machine does that hands its records over, or gives up.              *)

\* A machine that goes on has all the ids it gave; one that leaves quietly has none
\* outstanding.
Sends(m, st, recs) ==
  /\ HandsOver(m, st)
  /\ m \notin Servers /\ st.lastId # lastId[m] => \A r \in Own(m) : st.records[r].updateid > lastId[m]
  /\ \A r \in Records : recs[r] = st.records[r] \/ recs[r] = [st.records[r] EXCEPT !.updateid = 0]
  /\ power'[m] # "sleeping" => recs = st.records
  /\ power'[m] = "off" /\ quiet'[m] => power[m] = "transferring" /\ \A r \in Records : recs[r].updateid = 0
  /\ lastId' = [lastId EXCEPT ![m] = st.lastId]
  /\ asked' = [asked EXCEPT ![m] = @ \/ st.lastId # lastId[m]]
  /\ records' = [records EXCEPT ![m] = recs]
  /\ net' \subseteq net \cup st.sent
SendTyped ==
  /\ power' \in [Machines -> {"awake", "transferring", "sleeping", "off"}]
  /\ quiet' \in [Machines -> BOOLEAN] /\ NetWake' \in [Machines -> BOOLEAN]
  /\ SleepLimit' \in [Machines -> {"none", "ahead", "passed"}]
  /\ NextSPSAttempt' \in [Machines -> -1 .. Slots * Tries - 1] /\ slots' \in [Machines -> [0 .. Slots - 1 -> Slot]]
  /\ UNCHANGED <<link, SleepSeqNum, DelaySleep, server, leaving, fate, woken>>
HandsItsOver(m) ==
  /\ \E st \in Working, recs \in [Records -> AuthRecord] : Sends(m, st, recs)
  /\ SendTyped
  /\ \A k \in Machines \ {m} : power'[k] = power[k] /\ quiet'[k] = quiet[k] /\ slots'[k] = slots[k]
  /\ power'[m] \in {"awake", "transferring"} => power'[m] = power[m]
  /\ power[m] = "awake" => power'[m] = "awake" /\ \E i \in 0 .. Slots - 1 : slots[m][i] # NoSlot

LEMMA OwnRecords ==
  ASSUME AskInv
  PROVE  \A m \in Machines : \A r \in Own(m) :
           /\ r \in Records /\ OwnerOf[r] = m /\ m \notin Servers
           /\ records[m][r].state = "registered" /\ records[m][r].hmac = None /\ records[m][r].seq = 0
<1> TAKE m \in Machines
<1> TAKE r \in Own(m)
<1>1. r \in Records /\ OwnerOf[r] = m /\ m \notin Servers
  BY SleepProxyAssumption DEF AskInv, Typed, Own, Link
<1>2. records[m][r] = [OwnRecord EXCEPT !.updateid = records[m][r].updateid]
  BY <1>1 DEF AskInv, OnlyItsOwn
<1>3. \A n : [OwnRecord EXCEPT !.updateid = n].state = "registered" /\ [OwnRecord EXCEPT !.updateid = n].hmac = None
             /\ [OwnRecord EXCEPT !.updateid = n].seq = 0
  BY DEF OwnRecord, NoRecord
<1> QED
  BY <1>1, <1>2, <1>3

\* The records differ from those of before only in their ids.
OnlyIds(m, st, recs) ==
  /\ lastId[m] \in Nat /\ st.lastId \in Nat /\ lastId[m] <= st.lastId
  /\ \A r \in Records :
       /\ recs[r].state = records[m][r].state /\ recs[r].hmac = records[m][r].hmac /\ recs[r].seq = records[m][r].seq
       /\ \/ recs[r].updateid \in {0, records[m][r].updateid}
          \/ recs[r].updateid \in lastId[m] + 1 .. st.lastId /\ records[m][r].state = "registered"
       /\ recs[r].updateid \in {0, st.records[r].updateid}
       /\ records[m][r].updateid \in Nat /\ records[m][r].updateid <= lastId[m]
       /\ recs[r] = [records[m][r] EXCEPT !.updateid = recs[r].updateid]

LEMMA SentKeepRecords ==
  ASSUME AskInv, NEW m \in Machines, NEW st \in Working, NEW recs \in [Records -> AuthRecord], Sends(m, st, recs)
  PROVE  OnlyIds(m, st, recs)
<1>1. lastId[m] \in Nat /\ st.lastId \in Nat /\ lastId[m] <= st.lastId
  BY DEF AskInv, Typed, Working, Sends, HandsOver
<1>2. ASSUME NEW r \in Records
      PROVE  /\ recs[r].state = records[m][r].state /\ recs[r].hmac = records[m][r].hmac /\ recs[r].seq = records[m][r].seq
             /\ \/ recs[r].updateid \in {0, records[m][r].updateid}
                \/ recs[r].updateid \in lastId[m] + 1 .. st.lastId /\ records[m][r].state = "registered"
             /\ recs[r].updateid \in {0, st.records[r].updateid}
             /\ records[m][r].updateid \in Nat /\ records[m][r].updateid <= lastId[m]
             /\ recs[r] = [records[m][r] EXCEPT !.updateid = recs[r].updateid]
  <2>1. records[m][r] \in AuthRecord /\ st.records[r] \in AuthRecord /\ recs[r] \in AuthRecord
    BY RecordsTyped DEF Working
  <2>2. recs[r] = st.records[r] \/ recs[r] = [st.records[r] EXCEPT !.updateid = 0]
    BY DEF Sends
  <2>3. \/ st.records[r] = records[m][r]
        \/ /\ records[m][r].state = "registered"
           /\ st.records[r].updateid \in lastId[m] + 1 .. st.lastId
           /\ st.records[r] = [records[m][r] EXCEPT !.updateid = st.records[r].updateid]
    BY DEF Sends, HandsOver
  <2>4. records[m][r].updateid \in Nat /\ records[m][r].updateid <= lastId[m]
    BY <2>1 DEF AskInv, Typed, SleepTypeOK, AuthRecord
  <2>5. recs[r].state = st.records[r].state /\ recs[r].hmac = st.records[r].hmac /\ recs[r].seq = st.records[r].seq
        /\ recs[r].updateid \in {0, st.records[r].updateid}
    BY <2>1, <2>2 DEF AuthRecord
  <2>6. st.records[r].state = records[m][r].state /\ st.records[r].hmac = records[m][r].hmac
        /\ st.records[r].seq = records[m][r].seq
    BY <2>1, <2>3 DEF AuthRecord
  <2>7. recs[r] = [records[m][r] EXCEPT !.updateid = recs[r].updateid]
    BY <2>1, <2>5, <2>6 DEF AuthRecord
  <2>8. \/ recs[r].updateid \in {0, records[m][r].updateid}
        \/ recs[r].updateid \in lastId[m] + 1 .. st.lastId /\ records[m][r].state = "registered"
    BY <2>3, <2>5
  <2> QED
    BY <2>4, <2>5, <2>6, <2>7, <2>8
<1> QED
  BY <1>1, <1>2 DEF OnlyIds

LEMMA HandsItsOverAskInv ==
  ASSUME AskInv, NEW m \in Machines, HandsItsOver(m) PROVE AskInv'
<1>1. PICK st \in Working, recs \in [Records -> AuthRecord] : Sends(m, st, recs)
  BY DEF HandsItsOver
<1>o. OnlyIds(m, st, recs)
  BY <1>1, SentKeepRecords
<1>2. /\ link' = link /\ SleepSeqNum' = SleepSeqNum /\ DelaySleep' = DelaySleep /\ SPSSocket' = SPSSocket
      /\ SPSState' = SPSState /\ SPSType' = SPSType /\ leaving' = leaving /\ fate' = fate /\ woken' = woken
  BY DEF HandsItsOver, SendTyped, server
<1>3. /\ records' \in [Machines -> [Records -> AuthRecord]] /\ records'[m] = recs
      /\ \A k \in Machines : k # m => records'[k] = records[k]
  BY <1>1, RecordsTyped DEF Sends
<1>4. /\ lastId' \in [Machines -> Nat] /\ lastId'[m] = st.lastId
      /\ \A k \in Machines : lastId[k] \in Nat /\ (k # m => lastId'[k] = lastId[k])
      /\ \A k \in Machines : lastId[k] <= lastId'[k]
  BY <1>o, <1>1 DEF OnlyIds, Sends, AskInv, Typed
<1>5. /\ asked' \in [Machines -> BOOLEAN] /\ (asked'[m] <=> asked[m] \/ st.lastId # lastId[m])
      /\ \A k \in Machines : k # m => asked'[k] = asked[k]
  <2>1. asked \in [Machines -> BOOLEAN] /\ asked' = [asked EXCEPT ![m] = @ \/ st.lastId # lastId[m]]
    BY <1>1 DEF Sends, AskInv, Typed, SleepTypeOK
  <2>2. (asked[m] \/ st.lastId # lastId[m]) \in BOOLEAN
    OBVIOUS
  <2> QED
    BY <2>1, <2>2, Zenon
<1>6. \A k \in Machines : k # m => power'[k] = power[k] /\ quiet'[k] = quiet[k]
  BY DEF HandsItsOver
<1>7. \A k \in Machines : Own(k)' = Own(k)
  BY <1>2 DEF Own
<1>8. st.sent \subseteq UpdateMsg
  BY DEF Working
<1>9. \A msg \in UpdateMsg : msg.type = "update" /\ msg.from \in Machines
  BY DEF UpdateMsg
<1>10. \A msg \in AnswerMsg : msg.type = "answer" /\ msg.to \in Machines
  BY DEF AnswerMsg
<1>11. net' \subseteq net \cup st.sent
  BY <1>1 DEF Sends
<1>12. Updates' \subseteq Updates \cup st.sent /\ Answers' \subseteq Answers
  BY <1>8, <1>9, <1>11 DEF Updates, Answers
<1>13. (\A msg \in Updates : msg.from \in Machines) /\ (\A msg \in Answers : msg.to \in Machines)
  BY <1>9, <1>10 DEF AskInv, Typed, NetTyped, Updates, Answers
<1>14. Typed'
  <2>1. \A k \in Machines, r \in Records :
          /\ records'[k][r] \in AuthRecord /\ records'[k][r].updateid <= lastId'[k]
          /\ OwnerOf[r] = k /\ r \in link'.records => records'[k][r].state = "registered" /\ records'[k][r].hmac = None
    <3> TAKE k \in Machines, r \in Records
    <3>1. /\ records[k][r].updateid \in Nat /\ records[k][r].updateid <= lastId[k]
          /\ OwnerOf[r] = k /\ r \in link.records => records[k][r].state = "registered" /\ records[k][r].hmac = None
      BY RecordsTyped DEF AskInv, Typed, SleepTypeOK, AuthRecord
    <3>2. CASE k # m
      BY <1>2, <1>3, <1>4, <3>1, <3>2
    <3>3. CASE k = m
      BY <1>o, <1>1, <1>2, <1>3, <1>4, <3>1, <3>3 DEF OnlyIds
    <3> QED
      BY <3>2, <3>3
  <2>2. NetTyped' /\ link' \in Links
    BY <1>2, <1>8, <1>11 DEF AskInv, Typed, NetTyped
  <2> QED
    BY <1>2, <1>3, <1>4, <1>5, <2>1, <2>2 DEF AskInv, Typed, SleepTypeOK, HandsItsOver, SendTyped
<1>15. WellFormed'
  <2> SUFFICES ASSUME NEW k \in Machines, NEW r \in Records
               PROVE  /\ records'[k][r].state = "none" => records'[k][r] = NoRecord
                      /\ records'[k][r].state = "waking" => records'[k][r].hmac # None
    BY DEF WellFormed
  <2>1. /\ records[k][r].state = "none" => records[k][r] = NoRecord
        /\ records[k][r].state = "waking" => records[k][r].hmac # None
    BY DEF AskInv, WellFormed
  <2>2. CASE k # m
    BY <1>3, <2>1, <2>2
  <2>3. CASE k = m
    <3>1. recs[r].state = "none" => recs[r].updateid = 0
      BY <1>o, <1>1, <2>1, <2>3, NoRecordTyped DEF OnlyIds
    <3>2. [NoRecord EXCEPT !.updateid = 0] = NoRecord
      BY DEF NoRecord
    <3> QED
      BY <1>o, <1>1, <1>3, <2>1, <2>3, <3>1, <3>2 DEF OnlyIds
  <2> QED
    BY <2>2, <2>3
<1>16. SleptLess'
  BY <1>2, <1>6 DEF AskInv, SleptLess, HandsItsOver
<1>17. OnlyItsOwn'
  <2>a. \A k \in Machines \ Servers : ~SPSSocket'[k]
    BY <1>2 DEF AskInv, OnlyItsOwn
  <2> SUFFICES ASSUME NEW k \in Machines \ Servers, NEW r \in Records
               PROVE  /\ r \in Own(k)' => records'[k][r] = [OwnRecord EXCEPT !.updateid = records'[k][r].updateid]
                      /\ r \notin Own(k)' => records'[k][r] = NoRecord
    BY <2>a DEF OnlyItsOwn
  <2>1. /\ r \in Own(k) => records[k][r] = [OwnRecord EXCEPT !.updateid = records[k][r].updateid]
        /\ r \notin Own(k) => records[k][r] = NoRecord
    BY DEF AskInv, OnlyItsOwn
  <2>2. CASE k # m
    BY <1>2, <1>3, <1>7, <2>1, <2>2
  <2>3. CASE k = m
    <3>1. recs[r] = [records[m][r] EXCEPT !.updateid = recs[r].updateid]
      BY <1>o, <1>1 DEF OnlyIds
    <3>2. \A n, l : [[OwnRecord EXCEPT !.updateid = n] EXCEPT !.updateid = l] = [OwnRecord EXCEPT !.updateid = l]
      BY DEF OwnRecord, NoRecord
    <3>3. r \notin Own(k) => recs[r].state = "none"
      BY <1>o, <1>1, <2>1, <2>3, NoRecordTyped DEF OnlyIds
    <3> QED
      BY <1>2, <1>3, <1>7, <1>15, <2>1, <2>3, <3>1, <3>2, <3>3 DEF WellFormed
  <2> QED
    BY <2>2, <2>3
<1>18. IdsAreOld'
  <2>1. \A msg \in Updates' : msg.id \in 1 .. lastId'[msg.from]
    <3> TAKE msg \in Updates'
    <3>1. CASE msg \in st.sent
      <4>1. msg.from = m /\ msg.id \in lastId[m] + 1 .. st.lastId
        BY <1>1, <3>1 DEF Sends, HandsOver
      <4> QED
        BY <1>o, <1>1, <1>4, <4>1 DEF OnlyIds
    <3>2. CASE msg \in Updates
      <4>1. msg.id \in 1 .. lastId[msg.from] /\ msg.from \in Machines
        BY <1>13, <3>2 DEF AskInv, IdsAreOld
      <4> QED
        BY <1>4, <4>1
    <3> QED
      BY <1>12, <3>1, <3>2
  <2>2. \A msg \in Answers' : msg.id \in 1 .. lastId'[msg.to]
    BY <1>4, <1>12, <1>13 DEF AskInv, IdsAreOld
  <2> QED
    BY <2>1, <2>2 DEF IdsAreOld
<1>19. UpdatesHaveIt'
  <2> SUFFICES ASSUME NEW msg \in Updates', NEW r \in Records, records'[msg.from][r].updateid = msg.id
               PROVE  /\ r \in msg.recs
                      /\ r \in Own(msg.from)' => msg.owner = msg.from /\ msg.seq = SleepSeqNum'[msg.from]
    BY DEF UpdatesHaveIt
  <2>1. CASE msg \in st.sent
    <3>1. /\ msg.from = m /\ msg.id \in lastId[m] + 1 .. st.lastId
          /\ st.records[r].updateid = msg.id => r \in msg.recs
          /\ \A q \in msg.recs :
               /\ msg.owner = IF records[m][q].hmac = None THEN m ELSE records[m][q].hmac
               /\ msg.seq = IF records[m][q].hmac = None THEN SleepSeqNum[m] ELSE records[m][q].seq
      BY <1>1, <2>1 DEF Sends, HandsOver
    <3>2. st.records[r].updateid = msg.id
      BY <1>o, <1>1, <1>3, <1>4, <3>1 DEF OnlyIds
    <3> QED
      BY <1>2, <1>7, <3>1, <3>2, OwnRecords
  <2>2. CASE msg \in Updates
    <3>1. msg.from \in Machines /\ msg.id \in 1 .. lastId[msg.from]
      BY <1>13, <2>2 DEF AskInv, IdsAreOld
    <3>2. records[msg.from][r].updateid = msg.id
      <4>1. CASE msg.from # m
        BY <1>3, <3>1, <4>1
      <4>2. CASE msg.from = m
        BY <1>o, <1>1, <1>3, <1>4, <3>1, <4>2 DEF OnlyIds
      <4> QED
        BY <4>1, <4>2
    <3> QED
      BY <1>2, <1>7, <2>2, <3>1, <3>2 DEF AskInv, UpdatesHaveIt
  <2> QED
    BY <1>12, <2>1, <2>2
<1>20. AnswersSawIt'
  <2> SUFFICES ASSUME NEW msg \in Answers', asked'[msg.to], NEW r \in Own(msg.to)', records'[msg.to][r].updateid = msg.id
               PROVE  fate'[r] # "none"
    BY DEF AnswersSawIt
  <2>1. msg \in Answers /\ msg.to \in Machines /\ msg.id \in 1 .. lastId[msg.to] /\ r \in Own(msg.to) /\ r \in Records
        /\ msg.to \notin Servers
    BY <1>7, <1>12, <1>13, OwnRecords DEF AskInv, IdsAreOld
  <2>2. records[msg.to][r].updateid = msg.id
    <3>1. CASE msg.to # m
      BY <1>3, <2>1, <3>1
    <3>2. CASE msg.to = m
      BY <1>o, <1>1, <1>3, <1>4, <2>1, <3>2 DEF OnlyIds
    <3> QED
      BY <3>1, <3>2
  <2>3. asked[msg.to]
    <3>1. CASE msg.to # m
      BY <1>5, <2>1, <3>1
    <3>2. CASE msg.to = m
      <4>1. recs[r].updateid = msg.id /\ recs[r].updateid \in {0, st.records[r].updateid}
        BY <1>o, <1>3, <2>1, <3>2 DEF OnlyIds
      <4>2. st.records[r].updateid = msg.id /\ msg.id <= lastId[m]
        BY <1>4, <2>1, <3>2, <4>1
      <4>3. st.lastId # lastId[m] => st.records[r].updateid > lastId[m]
        BY <1>1, <2>1, <3>2 DEF Sends
      <4>4. st.lastId = lastId[m]
        BY <1>4, <2>1, <3>2, <4>2, <4>3
      <4> QED
        BY <1>5, <3>2, <4>4
    <3> QED
      BY <3>1, <3>2
  <2> QED
    BY <1>2, <2>1, <2>2, <2>3 DEF AskInv, AnswersSawIt
<1>21. AskedForAll'
  <2> SUFFICES ASSUME NEW k \in Machines, asked'[k], NEW r \in Own(k)'
               PROVE  /\ power'[k] \in {"awake", "transferring"} => records'[k][r].updateid # 0 \/ fate'[r] # "none"
                      /\ power'[k] = "off" /\ quiet'[k] => fate'[r] # "none"
    BY DEF AskedForAll
  <2>1. r \in Own(k) /\ r \in Records /\ k \notin Servers
    BY <1>7, OwnRecords
  <2>2. asked[k] => /\ power[k] \in {"awake", "transferring"} => records[k][r].updateid # 0 \/ fate[r] # "none"
                    /\ power[k] = "off" /\ quiet[k] => fate[r] # "none"
    BY <2>1 DEF AskInv, AskedForAll
  <2>3. CASE k # m
    BY <1>2, <1>3, <1>5, <1>6, <2>2, <2>3
  <2>4. CASE k = m
    <3>1. st.lastId # lastId[m] => st.records[r].updateid > lastId[m] /\ lastId[m] \in Nat
      BY <1>1, <1>4, <2>1, <2>4 DEF Sends
    <3>2. st.lastId = lastId[m] => asked[m] /\ st.records[r] = records[m][r]
      <4> HAVE st.lastId = lastId[m]
      <4>1. asked[m]
        BY <1>5, <2>4
      <4>2. st.records[r] = records[m][r] \/ st.records[r].updateid \in lastId[m] + 1 .. st.lastId
        BY <1>1, <2>1 DEF Sends, HandsOver
      <4> QED
        BY <1>4, <4>1, <4>2
    <3>3. power'[m] \in {"awake", "transferring"} => power'[m] = power[m] /\ recs = st.records
      BY <1>1 DEF Sends, HandsItsOver
    <3>4. power'[m] = "off" /\ quiet'[m] => power[m] = "transferring" /\ recs = st.records /\ recs[r].updateid = 0
      BY <1>1, <2>1 DEF Sends
    <3> QED
      BY <1>2, <1>3, <2>2, <2>4, <3>1, <3>2, <3>3, <3>4
  <2> QED
    BY <2>3, <2>4
<1> QED
  BY <1>14, <1>15, <1>16, <1>17, <1>18, <1>19, <1>20, <1>21 DEF AskInv

LEMMA QuietHandsOver ==
  ASSUME AskInv, NEW m \in Machines, NEW st \in Working,
         st.lastId = lastId[m], st.records = records[m], st.sent = {}
  PROVE  HandsOver(m, st)
<1>1. lastId[m] \in Nat /\ \A r \in Records : records[m][r].updateid \in Nat /\ records[m][r].updateid <= lastId[m]
  BY RecordsTyped DEF AskInv, Typed, SleepTypeOK, AuthRecord
<1> QED
  BY <1>1 DEF HandsOver

\* A machine that sends, or only changes its slots, keeps its power and records.
LEMMA AppliesAndStays ==
  ASSUME AskInv, NEW m \in Machines, NEW st \in Working, HandsOver(m, st),
         m \notin Servers /\ st.lastId # lastId[m] => \A r \in Own(m) : st.records[r].updateid > lastId[m],
         Apply(m, st), records' = [records EXCEPT ![m] = st.records], net' \subseteq net \cup st.sent,
         UNCHANGED <<link, SleepSeqNum, DelaySleep, SleepLimit, NetWake, power, quiet, server, leaving, fate, woken>>,
         power[m] # "off", power[m] = "awake" => \E i \in 0 .. Slots - 1 : slots[m][i] # NoSlot
  PROVE  HandsItsOver(m)
<1>1. Sends(m, st, st.records)
  BY DEF Sends, Apply
<1>2. st.records \in [Records -> AuthRecord] /\ st.attempt \in -1 .. Slots * Tries - 1
      /\ st.slots \in [0 .. Slots - 1 -> Slot]
  BY DEF Working
<1>3. SendTyped /\ \A k \in Machines \ {m} : slots'[k] = slots[k]
  BY <1>2 DEF SendTyped, Apply, AskInv, Typed, SleepTypeOK
<1> QED
  BY <1>1, <1>2, <1>3 DEF HandsItsOver

LEMMA NetWakeResolveHandsItsOver ==
  ASSUME AskInv, NEW m \in Machines, NEW i \in 0 .. Slots - 1, NetWakeResolve(m, i) PROVE HandsItsOver(m)
<1> DEFINE slot == slots[m][i]
           asks(q) == [Now(m) EXCEPT !.slots[i].ask = q]
           has(addr) == [Now(m) EXCEPT !.slots[i].ask = "no", !.slots[i].addr = addr]
           knows(addr) == IF i = SlotOf(has(addr).attempt) THEN SendSPSRegistration(m, has(addr)) ELSE has(addr)
<1>1. PICK st \in {asks("aaaa"), asks("a"), knows("v6"), knows("v4")} :
        Apply(m, st) /\ records' = [records EXCEPT ![m] = st.records] /\ net' = net \cup st.sent
  BY ZenonT(60) DEF NetWakeResolve
<1>2. slot.ask # "no"
  BY DEF NetWakeResolve
<1>3. slot # NoSlot
  BY <1>2 DEF NoSlot
<1>4. Now(m) \in Working /\ Now(m).slots = slots[m] /\ Now(m).lastId = lastId[m] /\ Now(m).records = records[m]
      /\ Now(m).sent = {}
  BY NowTyped DEF Now
<1>5. slots[m] \in [0 .. Slots - 1 -> Slot]
  BY <1>4 DEF Working
<1>6. ASSUME NEW q \in {"no", "srv", "aaaa", "a"}
      PROVE  /\ asks(q) \in Working /\ asks(q).lastId = lastId[m] /\ asks(q).records = records[m] /\ asks(q).sent = {}
  <2>1. [slots[m] EXCEPT ![i].ask = q] \in [0 .. Slots - 1 -> Slot]
    BY <1>5 DEF Slot
  <2> QED
    BY <1>4, <2>1 DEF Working
<1>7. ASSUME NEW addr \in {"v4", "v6"}
      PROVE  /\ has(addr) \in Working /\ has(addr).lastId = lastId[m] /\ has(addr).records = records[m] /\ has(addr).sent = {}
  <2>1. [[slots[m] EXCEPT ![i].ask = "no"] EXCEPT ![i].addr = addr] \in [0 .. Slots - 1 -> Slot]
    BY <1>5 DEF Slot
  <2> QED
    BY <1>4, <2>1 DEF Working
<1> DEFINE Good(x) == /\ x \in Working /\ HandsOver(m, x)
                      /\ m \notin Servers /\ x.lastId # lastId[m] => \A r \in Own(m) : x.records[r].updateid > lastId[m]
<1>8. Good(asks("aaaa")) /\ Good(asks("a"))
  BY <1>6, QuietHandsOver
<1>9. ASSUME NEW addr \in {"v4", "v6"} PROVE Good(knows(addr))
  <2> HIDE DEF has
  <2>1. HandsOver(m, has(addr))
    BY <1>7, QuietHandsOver
  <2>2. CASE i = SlotOf(has(addr).attempt)
    BY <1>7, <2>1, <2>2, SendSPSRegistrationHandsOver
  <2>3. CASE i # SlotOf(has(addr).attempt)
    BY <1>7, <2>1, <2>3
  <2> QED
    BY <2>2, <2>3
<1> HIDE DEF asks, knows
<1>10. Good(st)
  BY <1>8, <1>9
<1> QED
  BY <1>1, <1>3, <1>10, AppliesAndStays DEF NetWakeResolve

LEMMA ReadyForSleepHandsItsOver ==
  ASSUME AskInv, NEW m \in Machines, mDNSCoreReadyForSleep(m) PROVE HandsItsOver(m)
<1>1. PICK due \in BOOLEAN :
        LET st == IF due /\ NextSPSAttempt[m] >= 0 THEN SendSPSRegistration(m, Now(m)) ELSE Now(m)
        IN  IF ~Waiting(st) THEN Leave(m, st)
            ELSE IF SleepLimit[m] = "passed" THEN GiveUp(m, st)
            ELSE /\ Apply(m, st) /\ records' = [records EXCEPT ![m] = st.records] /\ net' = net \cup st.sent
                 /\ UNCHANGED <<link, power, SleepLimit, NetWake, quiet>>
  BY DEF mDNSCoreReadyForSleep
<1> DEFINE st == IF due /\ NextSPSAttempt[m] >= 0 THEN SendSPSRegistration(m, Now(m)) ELSE Now(m)
<1>2. /\ ~Waiting(st) => Leave(m, st)
      /\ Waiting(st) => \/ GiveUp(m, st)
                        \/ /\ Apply(m, st) /\ records' = [records EXCEPT ![m] = st.records] /\ net' = net \cup st.sent
                           /\ UNCHANGED <<link, power, SleepLimit, NetWake, quiet>>
  BY <1>1
<1>3. /\ st \in Working /\ HandsOver(m, st)
      /\ m \notin Servers /\ st.lastId # lastId[m] => \A r \in Own(m) : st.records[r].updateid > lastId[m]
  <2>1. Now(m) \in Working /\ HandsOver(m, Now(m)) /\ Now(m).lastId = lastId[m]
    BY NowTyped DEF Now
  <2>2. LET new == SendSPSRegistration(m, Now(m)) IN
          /\ new \in Working /\ HandsOver(m, new)
          /\ m \notin Servers /\ new.lastId # lastId[m] => \A r \in Own(m) : new.records[r].updateid > lastId[m]
    BY <2>1, SendSPSRegistrationHandsOver
  <2> QED
    BY <2>1, <2>2
<1>4. /\ power[m] \in {"transferring", "sleeping"}
      /\ UNCHANGED <<link, SleepSeqNum, DelaySleep, server, leaving, fate, woken>>
  BY DEF mDNSCoreReadyForSleep
<1> HIDE DEF st
<1>5. /\ st.records \in [Records -> AuthRecord] /\ st.attempt \in -1 .. Slots * Tries - 1
      /\ st.slots \in [0 .. Slots - 1 -> Slot]
  BY <1>3 DEF Working
<1>6. /\ NextSPSAttempt \in [Machines -> -1 .. Slots * Tries - 1] /\ slots \in [Machines -> [0 .. Slots - 1 -> Slot]]
      /\ power \in [Machines -> {"awake", "transferring", "sleeping", "off"}] /\ quiet \in [Machines -> BOOLEAN]
      /\ SleepLimit \in [Machines -> {"none", "ahead", "passed"}] /\ NetWake \in [Machines -> BOOLEAN]
  BY DEF AskInv, Typed, SleepTypeOK
<1>7. CASE Leave(m, st) /\ ~Waiting(st)
  <2>1. power' = [power EXCEPT ![m] = "off"] /\ quiet' = [quiet EXCEPT ![m] = (power[m] = "transferring")]
        /\ Apply(m, st) /\ records' = [records EXCEPT ![m] = st.records] /\ UNCHANGED <<SleepLimit, NetWake>>
        /\ net' \subseteq net \cup st.sent
    BY <1>7 DEF Leave
  <2>2. power'[m] = "off" /\ quiet'[m] = (power[m] = "transferring")
        /\ \A k \in Machines \ {m} : power'[k] = power[k] /\ quiet'[k] = quiet[k]
    BY <1>6, <2>1
  <2>3. \A r \in Records : st.records[r].updateid = 0
    BY <1>7 DEF Waiting
  <2>4. Sends(m, st, st.records)
    BY <1>3, <2>1, <2>2, <2>3 DEF Sends, Apply
  <2>5. quiet' \in [Machines -> BOOLEAN] /\ power' \in [Machines -> {"awake", "transferring", "sleeping", "off"}]
    BY <1>6, <2>1
  <2>6. SendTyped /\ \A k \in Machines \ {m} : slots'[k] = slots[k]
    BY <1>4, <1>5, <1>6, <2>1, <2>5 DEF SendTyped, Apply
  <2> QED
    BY <1>3, <1>4, <1>5, <2>2, <2>4, <2>6 DEF HandsItsOver
<1>8. CASE GiveUp(m, st)
  <2> DEFINE to == IF NetWake[m] THEN [st EXCEPT !.attempt = -1, !.slots = [i \in 0 .. Slots - 1 |-> NoSlot]] ELSE st
  <2>1. power' = [power EXCEPT ![m] = "sleeping"] /\ SleepLimit' = [SleepLimit EXCEPT ![m] = "ahead"]
        /\ NetWake' = [NetWake EXCEPT ![m] = FALSE] /\ Apply(m, to)
        /\ records' = [records EXCEPT ![m] = NoUpdates(st.records)] /\ net' = net \cup st.sent /\ quiet' = quiet
    BY <1>8 DEF GiveUp
  <2>2. power'[m] = "sleeping" /\ \A k \in Machines \ {m} : power'[k] = power[k] /\ quiet'[k] = quiet[k]
    BY <1>6, <2>1
  <2>3. to.lastId = st.lastId
    BY <1>3 DEF Working
  <2>4. [i \in 0 .. Slots - 1 |-> NoSlot] \in [0 .. Slots - 1 -> Slot]
    BY DEF NoSlot, Slot
  <2>5. to.attempt \in -1 .. Slots * Tries - 1 /\ to.slots \in [0 .. Slots - 1 -> Slot]
    <3>1. Slots * Tries \in Nat
      BY SleepProxyAssumption
    <3> QED
      BY <1>3, <1>5, <2>4, <3>1 DEF Working
  <2> HIDE DEF to
  <2>6. NoUpdates(st.records) \in [Records -> AuthRecord]
        /\ \A r \in Records : NoUpdates(st.records)[r] = [st.records[r] EXCEPT !.updateid = 0]
    BY <1>5 DEF NoUpdates, AuthRecord
  <2>7. Sends(m, st, NoUpdates(st.records))
    BY <1>3, <2>1, <2>2, <2>3, <2>6 DEF Sends, Apply
  <2>8. power' \in [Machines -> {"awake", "transferring", "sleeping", "off"}]
        /\ SleepLimit' \in [Machines -> {"none", "ahead", "passed"}] /\ NetWake' \in [Machines -> BOOLEAN]
    BY <1>6, <2>1
  <2>9. NextSPSAttempt' = [NextSPSAttempt EXCEPT ![m] = to.attempt] /\ slots' = [slots EXCEPT ![m] = to.slots]
    BY <2>1 DEF Apply
  <2>10. SendTyped /\ \A k \in Machines \ {m} : slots'[k] = slots[k]
    BY <1>4, <1>6, <2>1, <2>5, <2>8, <2>9 DEF SendTyped
  <2> QED
    BY <1>3, <1>4, <2>2, <2>6, <2>7, <2>10 DEF HandsItsOver
<1>9. CASE /\ Apply(m, st) /\ records' = [records EXCEPT ![m] = st.records] /\ net' = net \cup st.sent
           /\ UNCHANGED <<link, power, SleepLimit, NetWake, quiet>>
  BY <1>3, <1>4, <1>9, AppliesAndStays
<1> QED
  BY <1>2, <1>7, <1>8, <1>9

------------------------------------------------------------------------------
(* What only touches how far a machine is on its way to sleep.                *)

Drowses ==
  /\ power' \in [Machines -> {"awake", "transferring", "sleeping", "off"}]
  /\ DelaySleep' \in [Machines -> BOOLEAN] /\ NetWake' \in [Machines -> BOOLEAN]
  /\ SleepLimit' \in [Machines -> {"none", "ahead", "passed"}] /\ SPSState' \in [Machines -> 0 .. 3]
  /\ NextSPSAttempt' \in [Machines -> -1 .. Slots * Tries - 1] /\ slots' \in [Machines -> [0 .. Slots - 1 -> Slot]]
  /\ \A k \in Machines :
       /\ \/ power'[k] = power[k]
          \/ power[k] = "transferring" /\ power'[k] \in {"transferring", "sleeping"}
          \/ power[k] = "awake" /\ power'[k] \in {"transferring", "sleeping"} /\ SleepSeqNum[k] < link.sleeps
       /\ power'[k] = "awake" => slots'[k] = slots[k]
  /\ \/ UNCHANGED <<asked, fate, woken>>
     \/ \E m \in Machines : power[m] = "awake" /\ power'[m] # "awake" /\ AnotherSleep(m)
  /\ UNCHANGED <<link, SleepSeqNum, SPSSocket, SPSType, records, leaving, lastId, net, quiet>>

LEMMA MessageIds ==
  ASSUME AskInv
  PROVE  /\ \A u \in Updates : u.from \in Machines /\ u.id # 0
         /\ \A u \in Answers : u.to \in Machines /\ u.id # 0 /\ u.id \in 1 .. lastId[u.to]
BY DEF AskInv, Typed, NetTyped, IdsAreOld, Updates, Answers, UpdateMsg, AnswerMsg

LEMMA SleeperTyped ==
  ASSUME AskInv
  PROVE  /\ power \in [Machines -> {"awake", "transferring", "sleeping", "off"}]
         /\ DelaySleep \in [Machines -> BOOLEAN] /\ NetWake \in [Machines -> BOOLEAN]
         /\ SleepLimit \in [Machines -> {"none", "ahead", "passed"}] /\ SPSState \in [Machines -> 0 .. 3]
         /\ NextSPSAttempt \in [Machines -> -1 .. Slots * Tries - 1] /\ slots \in [Machines -> [0 .. Slots - 1 -> Slot]]
BY DEF AskInv, Typed, SleepTypeOK

LEMMA BeginsSleepProcessing ==
  ASSUME AskInv, NEW m \in Machines, BeginSleepProcessing(m)
  PROVE  /\ power' \in [Machines -> {"awake", "transferring", "sleeping", "off"}]
         /\ NextSPSAttempt' \in [Machines -> -1 .. Slots * Tries - 1] /\ slots' \in [Machines -> [0 .. Slots - 1 -> Slot]]
         /\ power'[m] \in {"transferring", "sleeping"}
         /\ \A k \in Machines : k # m => power'[k] = power[k] /\ slots'[k] = slots[k]
<1>1. PICK sps \in link.known[m] :
        IF sps = <<>> \/ ~HaveAdvertisedMulticastServices(m)
          THEN power' = [power EXCEPT ![m] = "sleeping"] /\ UNCHANGED <<NextSPSAttempt, slots>>
          ELSE /\ power' = [power EXCEPT ![m] = "transferring"]
               /\ NextSPSAttempt' = [NextSPSAttempt EXCEPT ![m] = 0]
               /\ slots' = [slots EXCEPT ![m] = [i \in 0 .. Slots - 1 |->
                              IF i < Len(sps) THEN [ask |-> "srv", who |-> sps[i + 1], addr |-> "none"] ELSE NoSlot]]
  BY DEF BeginSleepProcessing
<1> DEFINE asked3 == [i \in 0 .. Slots - 1 |->
                        IF i < Len(sps) THEN [ask |-> "srv", who |-> sps[i + 1], addr |-> "none"] ELSE NoSlot]
<1>2. asked3 \in [0 .. Slots - 1 -> Slot]
  <2>1. PICK n \in 0 .. Slots : sps \in [1 .. n -> Servers]
    BY SleepProxyAssumption DEF AskInv, Typed, Link
  <2>2. Slots \in Nat
    BY SleepProxyAssumption
  <2>3. Len(sps) = n
    BY <2>1, <2>2
  <2>4. \A i \in 0 .. Slots - 1 : i < Len(sps) => sps[i + 1] \in Machines
    BY <2>1, <2>2, <2>3, SleepProxyAssumption
  <2> QED
    BY <2>4 DEF Slot, NoSlot
<1>3. 0 \in -1 .. Slots * Tries - 1
  BY SleepProxyAssumption
<1> HIDE DEF asked3
<1>4. CASE power' = [power EXCEPT ![m] = "sleeping"] /\ UNCHANGED <<NextSPSAttempt, slots>>
  BY <1>4, SleeperTyped
<1>5. CASE /\ power' = [power EXCEPT ![m] = "transferring"] /\ NextSPSAttempt' = [NextSPSAttempt EXCEPT ![m] = 0]
           /\ slots' = [slots EXCEPT ![m] = asked3]
  BY <1>2, <1>3, <1>5, SleeperTyped
<1> QED
  BY <1>1, <1>4, <1>5 DEF asked3

LEMMA GoesToSleep ==
  ASSUME AskInv, NEW m \in Machines, Sleep(m) \/ DelayOver(m) \/ LimitPasses(m) \/ ActivateNetWake(m) PROVE Drowses
<1>1. CASE Sleep(m)
  <2>1. SPSState' \in [Machines -> 0 .. 3] /\ SleepLimit' \in [Machines -> {"none", "ahead", "passed"}]
    BY <1>1, SleeperTyped DEF Sleep
  <2>2. CASE power' = [power EXCEPT ![m] = "transferring"] /\ UNCHANGED <<NextSPSAttempt, slots>>
    <3>1. power' \in [Machines -> {"awake", "transferring", "sleeping", "off"}] /\ power'[m] = "transferring"
          /\ \A k \in Machines : k # m => power'[k] = power[k]
      BY <2>2, SleeperTyped
    <3> QED
      BY <1>1, <2>1, <2>2, <3>1, SleeperTyped DEF Sleep, Drowses
  <2>3. CASE BeginSleepProcessing(m)
    BY <1>1, <2>1, <2>3, BeginsSleepProcessing, SleeperTyped DEF Sleep, Drowses
  <2> QED
    BY <1>1, <2>2, <2>3 DEF Sleep
<1>2. CASE DelayOver(m)
  <2>1. DelaySleep' \in [Machines -> BOOLEAN]
    BY <1>2, SleeperTyped DEF DelayOver
  <2>2. CASE power[m] = "transferring" /\ BeginSleepProcessing(m)
    BY <1>2, <2>1, <2>2, BeginsSleepProcessing, SleeperTyped DEF DelayOver, Drowses, server
  <2>3. CASE UNCHANGED <<link, power, NextSPSAttempt, slots>>
    BY <1>2, <2>1, <2>3, SleeperTyped DEF DelayOver, Drowses, server
  <2> QED
    BY <1>2, <2>2, <2>3 DEF DelayOver
<1>3. CASE LimitPasses(m)
  <2>1. SleepLimit' \in [Machines -> {"none", "ahead", "passed"}]
    BY <1>3, SleeperTyped DEF LimitPasses
  <2> QED
    BY <1>3, <2>1, SleeperTyped DEF LimitPasses, Drowses, server
<1>4. CASE ActivateNetWake(m)
  <2>1. NetWake' \in [Machines -> BOOLEAN]
    BY <1>4, SleeperTyped DEF ActivateNetWake
  <2> QED
    BY <1>4, <2>1, SleeperTyped DEF ActivateNetWake, Drowses, server
<1> QED
  BY <1>1, <1>2, <1>3, <1>4

\* What is told of a sleep may be told anew, of a machine that begins one.
LEMMA DrowsesTells ==
  ASSUME AskInv, Drowses
  PROVE  /\ asked' \in [Machines -> BOOLEAN] /\ fate' \in [Records -> {"none", "accepted", "refused"}]
         /\ woken' \subseteq woken
         /\ \A k \in Machines : asked'[k] => asked[k] /\ (\A r \in Records : OwnerOf[r] = k => fate'[r] = fate[r])
         /\ \A r \in Records :
              \/ fate'[r] = fate[r] /\ (OwnerOf[r] \in woken => OwnerOf[r] \in woken')
              \/ fate'[r] = "none" /\ power[OwnerOf[r]] = "awake"
<1>1. /\ asked \in [Machines -> BOOLEAN] /\ fate \in [Records -> {"none", "accepted", "refused"}]
  BY DEF AskInv, Typed, SleepTypeOK
<1>2. CASE UNCHANGED <<asked, fate, woken>>
  BY <1>1, <1>2
<1>3. ASSUME NEW m \in Machines, power[m] = "awake", AnotherSleep(m)
      PROVE  /\ asked' \in [Machines -> BOOLEAN] /\ fate' \in [Records -> {"none", "accepted", "refused"}]
             /\ woken' \subseteq woken
             /\ \A k \in Machines : asked'[k] => asked[k] /\ k # m
             /\ \A r \in Records : IF OwnerOf[r] = m THEN fate'[r] = "none"
                                    ELSE fate'[r] = fate[r] /\ (OwnerOf[r] \in woken => OwnerOf[r] \in woken')
  BY <1>1, <1>3 DEF AnotherSleep
<1> QED
  BY <1>2, <1>3 DEF Drowses

LEMMA DrowsesAskInv ==
  ASSUME AskInv, Drowses PROVE AskInv'
<1>1. /\ link' = link /\ SleepSeqNum' = SleepSeqNum /\ SPSSocket' = SPSSocket /\ SPSType' = SPSType /\ records' = records
      /\ leaving' = leaving /\ lastId' = lastId /\ net' = net /\ quiet' = quiet
  BY DEF Drowses
<1>2. \A k \in Machines : Own(k)' = Own(k)
  BY <1>1 DEF Own
<1>t. /\ asked' \in [Machines -> BOOLEAN] /\ fate' \in [Records -> {"none", "accepted", "refused"}]
      /\ woken' \subseteq woken
      /\ \A k \in Machines : asked'[k] => asked[k] /\ \A r \in Own(k) : fate'[r] = fate[r]
  BY DrowsesTells, OwnRecords
<1>3. Typed'
  BY <1>1, <1>t DEF Drowses, AskInv, Typed, SleepTypeOK, NetTyped
<1>4. WellFormed' /\ IdsAreOld' /\ UpdatesHaveIt'
  BY <1>1 DEF AskInv, WellFormed, IdsAreOld, UpdatesHaveIt, Updates, Answers, Own
<1>a. AnswersSawIt'
  BY <1>1, <1>2, <1>t, MessageIds DEF AskInv, AnswersSawIt, Answers
<1>5. SleptLess'
  BY <1>1 DEF AskInv, SleptLess, Drowses
<1>6. OnlyItsOwn'
  BY <1>1, <1>2 DEF AskInv, OnlyItsOwn
<1>7. AskedForAll'
  <2>1. \A k \in Machines : /\ power'[k] \in {"awake", "transferring"} => power[k] \in {"awake", "transferring"}
                            /\ power'[k] = "off" => power[k] = "off"
    BY DEF Drowses
  <2> QED
    BY <1>1, <1>2, <1>t, <2>1 DEF AskInv, AskedForAll
<1> QED
  BY <1>3, <1>4, <1>a, <1>5, <1>6, <1>7 DEF AskInv

------------------------------------------------------------------------------
(* Updates sent again, and their answers.                                     *)

\* The records that wait for an answer to an id, in an update of it.
SentAgain(m, msg) ==
  /\ msg \in UpdateMsg /\ msg.from = m /\ msg.id # 0
  /\ msg.recs = {r \in Records : records[m][r].updateid = msg.id}
  /\ \E q \in msg.recs : /\ msg.owner = IF records[m][q].hmac = None THEN m ELSE records[m][q].hmac
                         /\ msg.seq = IF records[m][q].hmac = None THEN SleepSeqNum[m] ELSE records[m][q].seq

LEMMA RetrySendsAgain ==
  ASSUME AskInv, NEW m \in Machines, RetrySPSRegistrations(m)
  PROVE  /\ NextSPSAttempt' \in [Machines -> -1 .. Slots * Tries - 1]
         /\ slots' \in [Machines -> [0 .. Slots - 1 -> Slot]] /\ \A k \in Machines : k # m => slots'[k] = slots[k]
         /\ net \subseteq net' /\ \A msg \in net' : msg \in net \/ SentAgain(m, msg)
         /\ UNCHANGED <<link, power, SleepSeqNum, DelaySleep, SleepLimit, NetWake, quiet, lastId, asked, server,
                        records, ProxyRecords, leaving, fate, woken>>
<1> DEFINE i == SlotOf(NextSPSAttempt[m])
           slot == slots[m][i]
           lost == m \in link.noIPv6 /\ slot.addr = "v6"
           waits(id) == {r \in Records : records[m][r].updateid = id}
           first(id) == CHOOSE r \in waits(id) : TRUE
           again(id) == Update(m, slot.who, id, [hmac |-> records[m][first(id)].hmac, seq |-> records[m][first(id)].seq],
                               waits(id))
<1>1. PICK due \in SUBSET Outstanding(m) :
        /\ net' = IF lost THEN net ELSE net \cup {again(id) : id \in due}
        /\ slots' = IF lost /\ slot.ask = "no" THEN [slots EXCEPT ![m][i].ask = "a"] ELSE slots
        /\ NextSPSAttempt' = [NextSPSAttempt EXCEPT ![m] =
             IF @ = 0 \/ (lost /\ slot.ask = "no" /\ Cardinality(due) = 1 /\ OwnersOf(m) = {}) THEN @ ELSE Further(@)]
  BY DEF RetrySPSRegistrations
<1>s. i \in 0 .. Slots - 1 /\ slots[m] \in [0 .. Slots - 1 -> Slot] /\ slot \in Slot
  BY SlotOfAttempt, SleeperTyped
<1>2. slot.who \in Machines \cup {None}
  BY <1>s DEF Slot
<1>a. slots' \in [Machines -> [0 .. Slots - 1 -> Slot]] /\ \A k \in Machines : k # m => slots'[k] = slots[k]
  <2>1. [slot EXCEPT !.ask = "a"] \in Slot
    BY <1>s DEF Slot
  <2> DEFINE asking == [slots[m] EXCEPT ![i] = [slot EXCEPT !.ask = "a"]]
  <2>2. asking \in [0 .. Slots - 1 -> Slot]
    <3> HIDE DEF slot
    <3> QED
      BY <1>s, <2>1
  <2>3. slots' = slots \/ slots' = [slots EXCEPT ![m] = asking]
    BY <1>1
  <2> HIDE DEF asking
  <2> QED
    BY <2>2, <2>3, SleeperTyped
<1>3. SleepSeqNum[m] \in Nat
  <2>1. link.sleeps \in Nat
    BY SleepProxyAssumption DEF AskInv, Typed, Link
  <2> QED
    BY <2>1 DEF AskInv, Typed, SleepTypeOK
<1>4. ASSUME NEW id \in due PROVE SentAgain(m, again(id))
  <2> DEFINE q == first(id)
             who == slot.who
             recs == waits(id)
  <2>1. id \in Nat /\ id # 0 /\ waits(id) # {}
    BY RecordsTyped DEF Outstanding, AuthRecord
  <2>2. q \in waits(id)
    BY <2>1
  <2>3. recs \subseteq Records /\ q \in recs /\ q \in Records /\ records[m][q] \in AuthRecord /\ who \in Machines \cup {None}
    BY <1>2, <2>2, RecordsTyped
  <2>4. /\ again(id).type = "update" /\ again(id).from = m /\ again(id).to = who /\ again(id).id = id
        /\ again(id).recs = recs
        /\ again(id).owner = IF records[m][q].hmac = None THEN m ELSE records[m][q].hmac
        /\ again(id).seq = IF records[m][q].hmac = None THEN SleepSeqNum[m] ELSE records[m][q].seq
        /\ again(id) = [type |-> "update", from |-> m, to |-> who, id |-> id, recs |-> recs,
                        owner |-> IF records[m][q].hmac = None THEN m ELSE records[m][q].hmac,
                        seq |-> IF records[m][q].hmac = None THEN SleepSeqNum[m] ELSE records[m][q].seq]
    BY DEF Update
  <2> HIDE DEF q, again, who, recs
  <2>5. again(id) \in UpdateMsg
    BY <1>3, <2>1, <2>3, <2>4 DEF UpdateMsg, AuthRecord
  <2>6. again(id).recs = {r \in Records : records[m][r].updateid = again(id).id}
    BY <2>4 DEF recs
  <2> QED
    BY <2>1, <2>3, <2>4, <2>5, <2>6 DEF SentAgain
<1>5. NextSPSAttempt' \in [Machines -> -1 .. Slots * Tries - 1]
  <2>1. Further(NextSPSAttempt[m]) \in -1 .. Slots * Tries - 1 /\ NextSPSAttempt[m] \in -1 .. Slots * Tries - 1
    BY FurtherTyped, SleeperTyped
  <2> QED
    BY <1>1, <2>1, SleeperTyped
<1>6. net \subseteq net' /\ \A msg \in net' : msg \in net \/ \E id \in due : msg = again(id)
  BY <1>1
<1> HIDE DEF again
<1>7. net \subseteq net' /\ \A msg \in net' : msg \in net \/ SentAgain(m, msg)
  BY <1>4, <1>6
<1> QED
  BY <1>5, <1>7, <1>a DEF RetrySPSRegistrations

LEMMA RetryAskInv ==
  ASSUME AskInv, NEW m \in Machines, RetrySPSRegistrations(m) PROVE AskInv'
<1>1. /\ NextSPSAttempt' \in [Machines -> -1 .. Slots * Tries - 1]
      /\ \A msg \in net' : msg \in net \/ SentAgain(m, msg)
      /\ link' = link /\ power' = power /\ SleepSeqNum' = SleepSeqNum /\ DelaySleep' = DelaySleep
      /\ SleepLimit' = SleepLimit /\ NetWake' = NetWake /\ slots' \in [Machines -> [0 .. Slots - 1 -> Slot]]
      /\ quiet' = quiet /\ lastId' = lastId
      /\ asked' = asked /\ SPSSocket' = SPSSocket /\ SPSState' = SPSState /\ SPSType' = SPSType /\ records' = records
      /\ leaving' = leaving /\ fate' = fate /\ woken' = woken
  BY RetrySendsAgain DEF server
<1>2. \A msg \in net' : msg \in net \/ msg \in UpdateMsg
  BY <1>1 DEF SentAgain
<1>3. \A msg \in UpdateMsg : msg.type = "update"
  BY DEF UpdateMsg
<1>4. Answers' \subseteq Answers /\ \A msg \in Updates' : msg \in Updates \/ SentAgain(m, msg)
  BY <1>1, <1>2, <1>3 DEF Answers, Updates
<1>5. Typed'
  BY <1>1, <1>2 DEF AskInv, Typed, SleepTypeOK, NetTyped
<1>6. WellFormed' /\ SleptLess' /\ OnlyItsOwn' /\ AskedForAll'
  BY <1>1 DEF AskInv, WellFormed, SleptLess, OnlyItsOwn, AskedForAll, Own
<1>7. IdsAreOld'
  <2>1. ASSUME NEW msg, SentAgain(m, msg) PROVE msg.id \in 1 .. lastId[msg.from]
    <3>1. msg.from = m /\ msg.id # 0 /\ \E q \in Records : records[m][q].updateid = msg.id
      BY <2>1 DEF SentAgain
    <3>2. \A q \in Records : records[m][q].updateid \in Nat /\ records[m][q].updateid <= lastId[m] /\ lastId[m] \in Nat
      BY RecordsTyped DEF AskInv, Typed, SleepTypeOK, AuthRecord
    <3> QED
      BY <3>1, <3>2
  <2> QED
    BY <1>1, <1>4, <2>1 DEF AskInv, IdsAreOld
<1>8. UpdatesHaveIt'
  <2> SUFFICES ASSUME NEW msg \in Updates', NEW r \in Records, records'[msg.from][r].updateid = msg.id
               PROVE  /\ r \in msg.recs
                      /\ r \in Own(msg.from)' => msg.owner = msg.from /\ msg.seq = SleepSeqNum'[msg.from]
    BY DEF UpdatesHaveIt
  <2>1. CASE msg \in Updates
    BY <1>1, <2>1 DEF AskInv, UpdatesHaveIt, Own
  <2>2. CASE SentAgain(m, msg)
    <3>1. msg.from = m /\ msg.id # 0 /\ msg.recs = {q \in Records : records[m][q].updateid = msg.id}
      BY <2>2 DEF SentAgain
    <3>2. PICK q \in msg.recs : /\ msg.owner = IF records[m][q].hmac = None THEN m ELSE records[m][q].hmac
                                /\ msg.seq = IF records[m][q].hmac = None THEN SleepSeqNum[m] ELSE records[m][q].seq
      BY <2>2 DEF SentAgain
    <3>3. ASSUME r \in Own(m) PROVE records[m][q].hmac = None
      <4>1. m \notin Servers
        BY <3>3, OwnRecords
      <4>2. q \in Own(m)
        <5>1. q \in Records /\ records[m][q].updateid # 0
          BY <3>1
        <5>2. q \notin Own(m) => records[m][q] = NoRecord
          BY <4>1, <5>1 DEF AskInv, OnlyItsOwn
        <5> QED
          BY <5>1, <5>2, NoRecordTyped
      <4> QED
        BY <4>2, OwnRecords
    <3> QED
      BY <1>1, <3>1, <3>2, <3>3 DEF Own
  <2> QED
    BY <1>4, <2>1, <2>2
<1>9. AnswersSawIt'
  BY <1>1, <1>4 DEF AskInv, AnswersSawIt, Own
<1> QED
  BY <1>5, <1>6, <1>7, <1>8, <1>9 DEF AskInv

\* An update is taken in whole, or refused: then some of it may have been taken
\* in, and some of what the owner had there thrown away.
LEMMA ReceiveUpdateEffect ==
  ASSUME AskInv, NEW s \in Machines, NEW msg, mDNSCoreReceiveUpdate(s, msg)
  PROVE  /\ s \in Servers /\ msg \in UpdateMsg /\ msg \in Updates
         /\ \E got \in SUBSET msg.recs, gone \in SUBSET Records :
              /\ \A k \in Machines : k # s => records'[k] = records[k]
              /\ \A r \in Records : records'[s][r] =
                   IF r \in got THEN [state |-> "registered", hmac |-> msg.owner, seq |-> msg.seq, updateid |-> 0]
                   ELSE IF r \in gone THEN NoRecord ELSE records[s][r]
              /\ records' \in [Machines -> [Records -> AuthRecord]]
              /\ \/ got = msg.recs /\ gone = {} /\ fate' = Seen(msg, "accepted")
                 \/ fate' = Refused(msg, gone)
         /\ leaving' \in [Machines -> Nat]
         /\ net' = (net \ {msg}) \cup {[type |-> "answer", from |-> s, to |-> msg.from, id |-> msg.id]}
         /\ UNCHANGED <<sleeper, server, woken>>
<1>1. s \in Servers
  BY DEF mDNSCoreReceiveUpdate, AskInv, OnlyItsOwn
<1>2. msg \in UpdateMsg /\ msg \in Updates
  BY DEF mDNSCoreReceiveUpdate, AskInv, Typed, NetTyped, AnswerMsg, Updates
<1>3. msg.recs \subseteq Records /\ msg.owner \in Machines /\ msg.seq \in Nat
  BY <1>2 DEF UpdateMsg
<1> DEFINE new == [state |-> "registered", hmac |-> msg.owner, seq |-> msg.seq, updateid |-> 0]
<1>4. ASSUME NEW got \in SUBSET msg.recs, NEW gone, Register(s, msg, got, gone)
      PROVE  /\ \A k \in Machines : k # s => records'[k] = records[k]
             /\ \A r \in Records : records'[s][r] =
                  IF r \in got THEN new ELSE IF r \in gone THEN NoRecord ELSE records[s][r]
             /\ records' \in [Machines -> [Records -> AuthRecord]] /\ leaving' \in [Machines -> Nat]
  <2> DEFINE other == {r \in got : records[s][r].state # "none"} \
                      {r \in got : records[s][r].state = "registered" /\ records[s][r].hmac = msg.owner}
  <2>1. records' = [records EXCEPT ![s] = [r \in Records |->
                      IF r \in got THEN new ELSE IF r \in gone THEN NoRecord ELSE @[r]]]
        /\ leaving' = [leaving EXCEPT ![s] = @ + Cardinality(other)]
    BY <1>4 DEF Register
  <2>2. new \in AuthRecord
    BY <1>3 DEF AuthRecord
  <2>3. Cardinality(other) \in Nat
    <3>1. other \subseteq Records
      BY <1>3
    <3> QED
      BY <3>1, SleepProxyAssumption, FS_Subset, FS_CardinalityType
  <2> HIDE DEF new, other
  <2>4. leaving' \in [Machines -> Nat]
    BY <2>1, <2>3, StaysServer
  <2>5. records' \in [Machines -> [Records -> AuthRecord]] /\ \A k \in Machines : k # s => records'[k] = records[k]
    BY <2>1, <2>2, RecordsTyped, NoRecordTyped
  <2>6. \A r \in Records : records'[s][r] = IF r \in got THEN new ELSE IF r \in gone THEN NoRecord ELSE records[s][r]
    BY <2>1, RecordsTyped
  <2> QED
    BY <2>4, <2>5, <2>6
<1> HIDE DEF new
<1>5. CASE Register(s, msg, msg.recs, {}) /\ fate' = Seen(msg, "accepted")
  <2> DEFINE none == {}
             all == msg.recs
  <2>1. all \in SUBSET msg.recs /\ none \in SUBSET Records
    OBVIOUS
  <2>2. /\ \A k \in Machines : k # s => records'[k] = records[k]
        /\ \A r \in Records : records'[s][r] = IF r \in all THEN new ELSE IF r \in none THEN NoRecord ELSE records[s][r]
        /\ records' \in [Machines -> [Records -> AuthRecord]] /\ leaving' \in [Machines -> Nat]
    BY <1>4, <1>5
  <2>3. all = msg.recs /\ none = {} /\ fate' = Seen(msg, "accepted")
    BY <1>5
  <2>4. net' = (net \ {msg}) \cup {[type |-> "answer", from |-> s, to |-> msg.from, id |-> msg.id]}
        /\ UNCHANGED <<sleeper, server, woken>>
    BY DEF mDNSCoreReceiveUpdate
  <2> HIDE DEF none, all
  <2> QED
    BY <1>1, <1>2, <2>1, <2>2, <2>3, <2>4 DEF new
<1>6. CASE OutOfMemory(s, msg)
  <2>1. PICK got \in SUBSET msg.recs, old \in SUBSET Held(s) :
          LET gone == ClearProxyRecords(s, msg.owner, msg.seq, old) \ got
          IN  Register(s, msg, got, gone) /\ fate' = Refused(msg, gone)
    BY <1>6 DEF OutOfMemory
  <2> DEFINE gone == ClearProxyRecords(s, msg.owner, msg.seq, old) \ got
  <2>2. gone \subseteq Records
    BY DEF ClearProxyRecords, Held, Woken
  <2> HIDE DEF gone
  <2>3. Register(s, msg, got, gone) /\ fate' = Refused(msg, gone)
    BY <2>1 DEF gone
  <2> QED
    BY <1>1, <1>2, <1>4, <2>2, <2>3 DEF mDNSCoreReceiveUpdate, new
<1>7. CASE fate' = Refused(msg, {}) /\ UNCHANGED <<records, ProxyRecords, leaving>>
  <2> DEFINE none == {}
  <2>1. none \in SUBSET msg.recs /\ none \in SUBSET Records
    OBVIOUS
  <2>2. \A r \in Records : records'[s][r] = IF r \in none THEN new ELSE IF r \in none THEN NoRecord ELSE records[s][r]
    BY <1>7
  <2>3. records' \in [Machines -> [Records -> AuthRecord]] /\ leaving' \in [Machines -> Nat]
    BY <1>7, StaysServer, RecordsTyped
  <2>4. records' = records /\ fate' = Refused(msg, none)
    BY <1>7
  <2>5. net' = (net \ {msg}) \cup {[type |-> "answer", from |-> s, to |-> msg.from, id |-> msg.id]}
        /\ UNCHANGED <<sleeper, server, woken>>
    BY DEF mDNSCoreReceiveUpdate
  <2> HIDE DEF none
  <2> QED
    BY <1>1, <1>2, <2>1, <2>2, <2>3, <2>4, <2>5 DEF new
<1>8. \/ Register(s, msg, msg.recs, {}) /\ fate' = Seen(msg, "accepted")
      \/ OutOfMemory(s, msg)
      \/ fate' = Refused(msg, {}) /\ UNCHANGED <<records, ProxyRecords, leaving>>
  BY Zenon DEF mDNSCoreReceiveUpdate
<1> QED
  BY <1>5, <1>6, <1>7, <1>8

LEMMA ReceiveUpdateAskInv ==
  ASSUME AskInv, NEW s \in Machines, NEW msg, mDNSCoreReceiveUpdate(s, msg) PROVE AskInv'
<1> DEFINE answer == [type |-> "answer", from |-> s, to |-> msg.from, id |-> msg.id]
           new == [state |-> "registered", hmac |-> msg.owner, seq |-> msg.seq, updateid |-> 0]
<1>1. /\ s \in Servers /\ msg \in UpdateMsg /\ msg \in Updates /\ leaving' \in [Machines -> Nat]
      /\ net' = (net \ {msg}) \cup {answer}
      /\ link' = link /\ power' = power /\ SleepSeqNum' = SleepSeqNum /\ DelaySleep' = DelaySleep
      /\ SleepLimit' = SleepLimit /\ NetWake' = NetWake /\ slots' = slots /\ quiet' = quiet /\ lastId' = lastId
      /\ NextSPSAttempt' = NextSPSAttempt /\ woken' = woken
      /\ asked' = asked /\ SPSSocket' = SPSSocket /\ SPSState' = SPSState /\ SPSType' = SPSType
  BY ReceiveUpdateEffect DEF server, sleeper
<1>2. /\ \A k \in Machines : k # s => records'[k] = records[k]
      /\ \A r \in Records : records'[s][r] \in {records[s][r], new, NoRecord}
      /\ records' \in [Machines -> [Records -> AuthRecord]]
  BY ReceiveUpdateEffect, RecordsTyped
<1>3. fate' = Seen(msg, "accepted") \/ \E gone : fate' = Refused(msg, gone)
  BY ReceiveUpdateEffect
<1>4. msg.from \in Machines /\ msg.id \in Nat /\ msg.owner \in Machines /\ msg.type = "update" /\ msg.id \in 1 .. lastId[msg.from]
  BY <1>1 DEF UpdateMsg, AskInv, IdsAreOld
<1>5. answer \in AnswerMsg /\ answer.type = "answer" /\ answer.to = msg.from /\ answer.id = msg.id
  BY <1>4 DEF AnswerMsg
<1>6. new.state = "registered" /\ new.hmac = msg.owner /\ new.updateid = 0
  OBVIOUS
<1>7. fate' \in [Records -> {"none", "accepted", "refused"}] /\ \A r \in Records : fate[r] # "none" => fate'[r] # "none"
  BY <1>3 DEF Seen, Refused, AskInv, Typed, SleepTypeOK
<1> HIDE DEF answer, new
<1>8. \A k \in Machines, r \in Records : records'[k][r].updateid \in {0, records[k][r].updateid}
  BY <1>2, <1>6, NoRecordTyped
<1>9. Updates' \subseteq Updates /\ Answers' \subseteq Answers \cup {answer}
  BY <1>1, <1>5 DEF Updates, Answers
<1>10. \A k \in Machines : Own(k)' = Own(k)
  BY <1>1 DEF Own
<1>11. \A u \in Updates : u.from \in Machines /\ u.id # 0
  BY DEF AskInv, Typed, NetTyped, IdsAreOld, Updates, UpdateMsg, AnswerMsg
<1>12. \A u \in Answers : u.to \in Machines /\ u.id # 0
  BY DEF AskInv, Typed, NetTyped, IdsAreOld, Answers, UpdateMsg, AnswerMsg
<1>13. Typed'
  <2>1. \A k \in Machines, r \in Records :
          /\ records'[k][r] \in AuthRecord /\ records'[k][r].updateid <= lastId'[k]
          /\ OwnerOf[r] = k /\ r \in link'.records => records'[k][r].state = "registered" /\ records'[k][r].hmac = None
    <3> TAKE k \in Machines, r \in Records
    <3>1. OwnerOf[r] # s
      BY <1>1, SleepProxyAssumption
    <3>2. lastId[k] \in Nat /\ records[k][r].updateid <= lastId[k]
          /\ (OwnerOf[r] = k /\ r \in link.records => records[k][r].state = "registered" /\ records[k][r].hmac = None)
      BY DEF AskInv, Typed, SleepTypeOK
    <3>3. records'[k][r].updateid <= lastId[k]
      BY <1>8, <3>2
    <3> QED
      BY <1>1, <1>2, <3>1, <3>2, <3>3
  <2>2. NetTyped'
    BY <1>1, <1>5 DEF AskInv, Typed, NetTyped
  <2> QED
    BY <1>1, <1>2, <1>7, <2>1, <2>2 DEF AskInv, Typed, SleepTypeOK
<1>14. WellFormed'
  BY <1>2, <1>6, NoRecordTyped DEF AskInv, WellFormed
<1>15. SleptLess'
  BY <1>1 DEF AskInv, SleptLess
<1>16. OnlyItsOwn'
  BY <1>1, <1>2, <1>10 DEF AskInv, OnlyItsOwn
<1>17. IdsAreOld'
  BY <1>1, <1>4, <1>5, <1>9 DEF AskInv, IdsAreOld
<1>18. UpdatesHaveIt'
  BY <1>1, <1>8, <1>9, <1>10, <1>11 DEF AskInv, UpdatesHaveIt
<1>19. AnswersSawIt'
  <2> SUFFICES ASSUME NEW u \in Answers', asked'[u.to], NEW r \in Own(u.to)', records'[u.to][r].updateid = u.id
               PROVE  fate'[r] # "none"
    BY DEF AnswersSawIt
  <2>1. u.to \in Machines /\ u.id # 0
    BY <1>4, <1>5, <1>9, <1>12
  <2>2. r \in Own(u.to) /\ r \in Records /\ records[u.to][r].updateid = u.id /\ OwnerOf[r] = u.to
    BY <1>8, <1>10, <2>1, OwnRecords
  <2>3. CASE u \in Answers
    BY <1>1, <1>7, <2>2, <2>3 DEF AskInv, AnswersSawIt
  <2>4. CASE u = answer
    <3>1. r \in msg.recs /\ msg.owner = OwnerOf[r] /\ msg.seq = SleepSeqNum[OwnerOf[r]]
      BY <1>1, <1>5, <2>2, <2>4 DEF AskInv, UpdatesHaveIt
    <3> QED
      BY <1>3, <2>2, <3>1 DEF Seen, Refused
  <2> QED
    BY <1>9, <2>3, <2>4
<1>20. AskedForAll'
  <2> SUFFICES ASSUME NEW k \in Machines, asked'[k], NEW r \in Own(k)'
               PROVE  /\ power'[k] \in {"awake", "transferring"} => records'[k][r].updateid # 0 \/ fate'[r] # "none"
                      /\ power'[k] = "off" /\ quiet'[k] => fate'[r] # "none"
    BY DEF AskedForAll
  <2>1. r \in Own(k) /\ r \in Records /\ k # s
    BY <1>1, <1>10, OwnRecords
  <2> QED
    BY <1>1, <1>2, <1>7, <2>1 DEF AskInv, AskedForAll
<1> QED
  BY <1>13, <1>14, <1>15, <1>16, <1>17, <1>18, <1>19, <1>20 DEF AskInv

LEMMA ReceiveUpdateREffect ==
  ASSUME AskInv, NEW m \in Machines, NEW msg, mDNSCoreReceiveUpdateR(m, msg)
  PROVE  /\ msg \in Answers /\ msg.to = m /\ msg.id # 0 /\ net' = net \ {msg}
         /\ \A k \in Machines : k # m => records'[k] = records[k]
         /\ \A r \in Records :
              \/ records'[m][r] = records[m][r] /\ records[m][r].updateid # msg.id
              \/ records'[m][r] = NoRecord /\ r \in Held(m) /\ records[m][r].updateid = msg.id
              \/ /\ records'[m][r] = [records[m][r] EXCEPT !.updateid = 0]
                 /\ r \notin Held(m) /\ records[m][r].updateid = msg.id
         /\ records' \in [Machines -> [Records -> AuthRecord]]
         /\ UNCHANGED <<sleeper, server, leaving, fate, woken>>
<1> DEFINE done == {r \in Records : records[m][r].updateid = msg.id}
           over == done \cap Held(m)
           R == [r \in Records |-> IF r \in over THEN NoRecord
                                   ELSE IF r \in done THEN [records[m][r] EXCEPT !.updateid = 0] ELSE records[m][r]]
<1>1. msg \in Answers /\ msg.to = m /\ net' = net \ {msg} /\ UNCHANGED <<sleeper, server, leaving, fate, woken>>
  BY DEF mDNSCoreReceiveUpdateR, Answers
<1>2. msg.id # 0
  BY <1>1 DEF AskInv, IdsAreOld
<1>3. records' = [records EXCEPT ![m] = R]
  BY RecordsTyped DEF mDNSCoreReceiveUpdateR
<1>4. R \in [Records -> AuthRecord]
  BY RecordsTyped, NoRecordTyped DEF AuthRecord
<1>5. \A r \in Records : R[r] = IF r \in over THEN NoRecord
                                ELSE IF r \in done THEN [records[m][r] EXCEPT !.updateid = 0] ELSE records[m][r]
  OBVIOUS
<1> HIDE DEF R
<1>6. records' \in [Machines -> [Records -> AuthRecord]] /\ records'[m] = R
      /\ \A k \in Machines : k # m => records'[k] = records[k]
  BY <1>3, <1>4, RecordsTyped
<1> QED
  BY <1>1, <1>2, <1>5, <1>6

LEMMA ReceiveUpdateRAskInv ==
  ASSUME AskInv, NEW m \in Machines, NEW msg, mDNSCoreReceiveUpdateR(m, msg) PROVE AskInv'
<1>1. /\ msg \in Answers /\ msg.to = m /\ msg.id # 0 /\ net' = net \ {msg}
      /\ link' = link /\ power' = power /\ SleepSeqNum' = SleepSeqNum /\ DelaySleep' = DelaySleep
      /\ SleepLimit' = SleepLimit /\ NetWake' = NetWake /\ slots' = slots /\ quiet' = quiet /\ lastId' = lastId
      /\ NextSPSAttempt' = NextSPSAttempt /\ woken' = woken /\ leaving' = leaving /\ fate' = fate
      /\ asked' = asked /\ SPSSocket' = SPSSocket /\ SPSState' = SPSState /\ SPSType' = SPSType
  BY ReceiveUpdateREffect DEF server, sleeper
<1>2. /\ \A k \in Machines : k # m => records'[k] = records[k]
      /\ \A r \in Records :
              \/ records'[m][r] = records[m][r] /\ records[m][r].updateid # msg.id
              \/ records'[m][r] = NoRecord /\ r \in Held(m) /\ records[m][r].updateid = msg.id
              \/ /\ records'[m][r] = [records[m][r] EXCEPT !.updateid = 0]
                 /\ r \notin Held(m) /\ records[m][r].updateid = msg.id
      /\ records' \in [Machines -> [Records -> AuthRecord]]
  BY ReceiveUpdateREffect
<1>3. \A k \in Machines, r \in Records : records'[k][r].updateid \in {0, records[k][r].updateid}
  <2> TAKE k \in Machines, r \in Records
  <2>1. records[k][r] \in AuthRecord
    BY RecordsTyped
  <2>2. [records[k][r] EXCEPT !.updateid = 0].updateid = 0
    BY <2>1 DEF AuthRecord
  <2> QED
    BY <1>2, <2>2, NoRecordTyped
<1>a. \A r \in Records : r \notin Held(m) =>
        /\ records'[m][r].state = records[m][r].state /\ records'[m][r].hmac = records[m][r].hmac
        /\ records'[m][r] = [records[m][r] EXCEPT !.updateid = records'[m][r].updateid]
  <2> TAKE r \in Records
  <2> HAVE r \notin Held(m)
  <2>1. records[m][r] \in AuthRecord
    BY RecordsTyped
  <2>2. \A n : /\ [records[m][r] EXCEPT !.updateid = n].updateid = n /\ [records[m][r] EXCEPT !.updateid = n].state = records[m][r].state
               /\ [records[m][r] EXCEPT !.updateid = n].hmac = records[m][r].hmac
    BY <2>1 DEF AuthRecord
  <2>3. records[m][r] = [records[m][r] EXCEPT !.updateid = records[m][r].updateid]
    BY <2>1 DEF AuthRecord
  <2>4. records'[m][r] = records[m][r] \/ records'[m][r] = [records[m][r] EXCEPT !.updateid = 0]
    BY <1>2
  <2> QED
    BY <2>2, <2>3, <2>4
<1>b. \A r \in Records : r \in Held(m) => records'[m][r] = NoRecord \/ records'[m][r] = records[m][r]
  BY <1>2
<1>4. Updates' = Updates /\ Answers' \subseteq Answers
  <2>1. msg.type = "answer"
    BY <1>1 DEF Answers
  <2> QED
    BY <1>1, <2>1 DEF Updates, Answers
<1>5. \A k \in Machines : Own(k)' = Own(k)
  BY <1>1 DEF Own
<1>6. \A k \in Machines : \A r \in Own(k) : r \in Records /\ (k = m => r \notin Held(m))
  BY OwnRecords DEF Held
<1>7. \A u \in Updates : u.from \in Machines /\ u.id # 0
  BY DEF AskInv, Typed, NetTyped, IdsAreOld, Updates, UpdateMsg, AnswerMsg
<1>8. \A u \in Answers : u.to \in Machines /\ u.id # 0
  BY DEF AskInv, Typed, NetTyped, IdsAreOld, Answers, UpdateMsg, AnswerMsg
<1>9. Typed'
  <2>1. \A k \in Machines, r \in Records :
          /\ records'[k][r] \in AuthRecord /\ records'[k][r].updateid <= lastId'[k]
          /\ OwnerOf[r] = k /\ r \in link'.records => records'[k][r].state = "registered" /\ records'[k][r].hmac = None
    <3> TAKE k \in Machines, r \in Records
    <3>1. OwnerOf[r] = k /\ r \in link.records => r \in Own(k)
      BY DEF Own
    <3>2. lastId[k] \in Nat /\ records[k][r].updateid <= lastId[k]
          /\ (OwnerOf[r] = k /\ r \in link.records => records[k][r].state = "registered" /\ records[k][r].hmac = None)
      BY DEF AskInv, Typed, SleepTypeOK
    <3>3. records'[k][r].updateid <= lastId[k]
      BY <1>3, <3>2
    <3>4. r \in Own(k) => records'[k][r].state = records[k][r].state /\ records'[k][r].hmac = records[k][r].hmac
      <4>1. CASE k # m
        BY <1>2, <4>1
      <4>2. CASE k = m
        BY <1>a, <1>6, <4>2
      <4> QED
        BY <4>1, <4>2
    <3>5. records'[k][r] \in AuthRecord
      BY <1>2
    <3> QED
      BY <1>1, <3>1, <3>2, <3>3, <3>4, <3>5
  <2>2. NetTyped'
    BY <1>1 DEF AskInv, Typed, NetTyped
  <2> QED
    BY <1>1, <1>2, <2>1, <2>2 DEF AskInv, Typed, SleepTypeOK
<1>10. WellFormed'
  <2> SUFFICES ASSUME NEW k \in Machines, NEW r \in Records
               PROVE  /\ records'[k][r].state = "none" => records'[k][r] = NoRecord
                      /\ records'[k][r].state = "waking" => records'[k][r].hmac # None
    BY DEF WellFormed
  <2>1. /\ records[k][r].state = "none" => records[k][r] = NoRecord
        /\ records[k][r].state = "waking" => records[k][r].hmac # None
    BY DEF AskInv, WellFormed
  <2>2. records[k][r].state = "none" /\ k = m => records'[k][r] = records[k][r]
    BY ZenonT(60), <1>1, <1>2, <2>1, NoRecordTyped
  <2>3. CASE k # m
    BY <1>2, <2>1, <2>3
  <2>4. CASE k = m /\ r \in Held(m)
    BY <1>b, <2>1, <2>2, <2>4, NoRecordTyped
  <2>5. CASE k = m /\ r \notin Held(m)
    BY <1>a, <2>1, <2>2, <2>5
  <2> QED
    BY <2>3, <2>4, <2>5
<1>11. SleptLess'
  BY <1>1 DEF AskInv, SleptLess
<1>12. OnlyItsOwn'
  <2>a. \A k \in Machines \ Servers : ~SPSSocket'[k]
    BY <1>1 DEF AskInv, OnlyItsOwn
  <2> SUFFICES ASSUME NEW k \in Machines \ Servers, NEW r \in Records
               PROVE  /\ r \in Own(k)' => records'[k][r] = [OwnRecord EXCEPT !.updateid = records'[k][r].updateid]
                      /\ r \notin Own(k)' => records'[k][r] = NoRecord
    BY <2>a DEF OnlyItsOwn
  <2>1. /\ r \in Own(k) => records[k][r] = [OwnRecord EXCEPT !.updateid = records[k][r].updateid]
        /\ r \notin Own(k) => records[k][r] = NoRecord
    BY DEF AskInv, OnlyItsOwn
  <2>2. CASE k # m
    BY <1>2, <1>5, <2>1, <2>2
  <2>3. CASE k = m /\ r \in Own(k)
    <3>1. \A n, l : [[OwnRecord EXCEPT !.updateid = n] EXCEPT !.updateid = l] = [OwnRecord EXCEPT !.updateid = l]
      BY DEF OwnRecord, NoRecord
    <3> QED
      BY ZenonT(60), <1>a, <1>5, <1>6, <2>1, <2>3, <3>1
  <2>4. CASE k = m /\ r \notin Own(k)
    BY <1>1, <1>2, <1>5, <2>1, <2>4, NoRecordTyped
  <2> QED
    BY <2>2, <2>3, <2>4
<1>13. IdsAreOld'
  BY <1>1, <1>4 DEF AskInv, IdsAreOld
<1>14. UpdatesHaveIt'
  BY <1>1, <1>3, <1>4, <1>5, <1>7 DEF AskInv, UpdatesHaveIt
<1>15. AnswersSawIt'
  BY <1>1, <1>3, <1>4, <1>5, <1>6, <1>8 DEF AskInv, AnswersSawIt
<1>16. AskedForAll'
  <2> SUFFICES ASSUME NEW k \in Machines, asked'[k], NEW r \in Own(k)'
               PROVE  /\ power'[k] \in {"awake", "transferring"} => records'[k][r].updateid # 0 \/ fate'[r] # "none"
                      /\ power'[k] = "off" /\ quiet'[k] => fate'[r] # "none"
    BY DEF AskedForAll
  <2>1. r \in Own(k) /\ r \in Records
    BY <1>5, <1>6
  <2>2. /\ power[k] \in {"awake", "transferring"} => records[k][r].updateid # 0 \/ fate[r] # "none"
        /\ power[k] = "off" /\ quiet[k] => fate[r] # "none"
    BY <1>1, <2>1 DEF AskInv, AskedForAll
  <2>3. k = m /\ records[k][r].updateid = msg.id => fate[r] # "none"
    BY <1>1, <2>1 DEF AskInv, AnswersSawIt
  <2> QED
    BY <1>1, <1>2, <2>1, <2>2, <2>3
<1> QED
  BY <1>9, <1>10, <1>11, <1>12, <1>13, <1>14, <1>15, <1>16 DEF AskInv

------------------------------------------------------------------------------
(* Waking.                                                                    *)

LEMMA NoUpdatesTyped ==
  ASSUME NEW recs \in [Records -> AuthRecord]
  PROVE  /\ NoUpdates(recs) \in [Records -> AuthRecord]
         /\ \A r \in Records :
              /\ NoUpdates(recs)[r] = [recs[r] EXCEPT !.updateid = 0]
              /\ NoUpdates(recs)[r].updateid = 0 /\ NoUpdates(recs)[r].state = recs[r].state
              /\ NoUpdates(recs)[r].hmac = recs[r].hmac /\ NoUpdates(recs)[r].seq = recs[r].seq
BY DEF NoUpdates, AuthRecord

LEMMA WakeEffect ==
  ASSUME AskInv, NEW m \in Machines, Wake(m)
  PROVE  /\ power[m] # "awake" /\ power' \in [Machines -> {"awake", "transferring", "sleeping", "off"}] /\ power'[m] = "awake"
         /\ SleepSeqNum' \in [Machines -> 0 .. link.sleeps] /\ SleepSeqNum'[m] = SleepSeqNum[m] + 1 /\ SleepSeqNum[m] \in Nat
         /\ \A k \in Machines : k # m => /\ power'[k] = power[k] /\ SleepSeqNum'[k] = SleepSeqNum[k] /\ quiet'[k] = quiet[k]
                                         /\ asked'[k] = asked[k] /\ records'[k] = records[k]
         /\ quiet' \in [Machines -> BOOLEAN] /\ asked' \in [Machines -> BOOLEAN] /\ ~asked'[m]
         /\ SleepLimit' \in [Machines -> {"none", "ahead", "passed"}] /\ DelaySleep' \in [Machines -> BOOLEAN]
         /\ SPSState' \in [Machines -> 0 .. 3] /\ NextSPSAttempt' \in [Machines -> -1 .. Slots * Tries - 1]
         /\ records' \in [Machines -> [Records -> AuthRecord]] /\ records'[m] = NoUpdates(records[m])
         /\ fate' \in [Records -> {"none", "accepted", "refused"}]
         /\ \A r \in Records : OwnerOf[r] # m => fate'[r] = fate[r]
         /\ woken' = woken \ {m} /\ net' \subseteq net
         /\ UNCHANGED <<link, NetWake, slots, lastId, SPSSocket, SPSType, leaving>>
<1>1. power[m] # "awake" /\ power' = [power EXCEPT ![m] = "awake"]
  BY DEF Wake
<1>2. power' \in [Machines -> {"awake", "transferring", "sleeping", "off"}] /\ power'[m] = "awake"
      /\ \A k \in Machines : k # m => power'[k] = power[k]
  BY <1>1, SleeperTyped
<1>3. SleepSeqNum' \in [Machines -> 0 .. link.sleeps] /\ SleepSeqNum'[m] = SleepSeqNum[m] + 1 /\ SleepSeqNum[m] \in Nat
      /\ \A k \in Machines : k # m => SleepSeqNum'[k] = SleepSeqNum[k]
  <2>1. link.sleeps \in Nat
    BY SleepProxyAssumption DEF AskInv, Typed, Link
  <2>2. SleepSeqNum \in [Machines -> 0 .. link.sleeps] /\ SleepSeqNum[m] < link.sleeps
    BY <1>1 DEF AskInv, Typed, SleepTypeOK, SleptLess
  <2> QED
    BY <2>1, <2>2 DEF Wake
<1>4. quiet' \in [Machines -> BOOLEAN] /\ asked' \in [Machines -> BOOLEAN] /\ ~asked'[m]
      /\ \A k \in Machines : k # m => quiet'[k] = quiet[k] /\ asked'[k] = asked[k]
  BY DEF Wake, AnotherSleep, AskInv, Typed, SleepTypeOK
<1>5. SleepLimit' \in [Machines -> {"none", "ahead", "passed"}] /\ DelaySleep' \in [Machines -> BOOLEAN]
  BY SleeperTyped DEF Wake
<1>6. SPSState' \in [Machines -> 0 .. 3]
  BY SleeperTyped, StaysServer DEF Wake
<1>7. NextSPSAttempt' \in [Machines -> -1 .. Slots * Tries - 1]
  BY SleeperTyped, SleepProxyAssumption DEF Wake
<1>8. records' \in [Machines -> [Records -> AuthRecord]] /\ records'[m] = NoUpdates(records[m])
      /\ \A k \in Machines : k # m => records'[k] = records[k]
  <2>1. records' = [records EXCEPT ![m] = NoUpdates(records[m])]
    BY RecordsTyped DEF Wake
  <2> QED
    BY <2>1, RecordsTyped, NoUpdatesTyped
<1>9. fate' \in [Records -> {"none", "accepted", "refused"}] /\ \A r \in Records : OwnerOf[r] # m => fate'[r] = fate[r]
  BY DEF Wake, AnotherSleep, AskInv, Typed, SleepTypeOK
<1>10. woken' = woken \ {m} /\ net' \subseteq net /\ UNCHANGED <<link, NetWake, slots, lastId, SPSSocket, SPSType, leaving>>
  BY DEF Wake, AnotherSleep
<1> QED
  BY <1>1, <1>2, <1>3, <1>4, <1>5, <1>6, <1>7, <1>8, <1>9, <1>10

LEMMA WakeAskInv ==
  ASSUME AskInv, NEW m \in Machines, Wake(m) PROVE AskInv'
<1>1. /\ power[m] # "awake" /\ power' \in [Machines -> {"awake", "transferring", "sleeping", "off"}] /\ power'[m] = "awake"
      /\ SleepSeqNum' \in [Machines -> 0 .. link.sleeps]
      /\ quiet' \in [Machines -> BOOLEAN] /\ asked' \in [Machines -> BOOLEAN] /\ ~asked'[m]
      /\ SleepLimit' \in [Machines -> {"none", "ahead", "passed"}] /\ DelaySleep' \in [Machines -> BOOLEAN]
      /\ SPSState' \in [Machines -> 0 .. 3] /\ NextSPSAttempt' \in [Machines -> -1 .. Slots * Tries - 1]
      /\ fate' \in [Records -> {"none", "accepted", "refused"}]
      /\ woken' = woken \ {m} /\ net' \subseteq net
      /\ link' = link /\ NetWake' = NetWake /\ slots' = slots /\ lastId' = lastId /\ SPSSocket' = SPSSocket
      /\ SPSType' = SPSType /\ leaving' = leaving
  BY WakeEffect
<1>2. /\ \A k \in Machines : k # m => /\ power'[k] = power[k] /\ SleepSeqNum'[k] = SleepSeqNum[k] /\ quiet'[k] = quiet[k]
                                      /\ asked'[k] = asked[k]
      /\ \A r \in Records : OwnerOf[r] # m => fate'[r] = fate[r]
  BY WakeEffect
<1>3. /\ \A k \in Machines : k # m => records'[k] = records[k]
      /\ records' \in [Machines -> [Records -> AuthRecord]] /\ records'[m] = NoUpdates(records[m])
  BY WakeEffect
<1>a. records[m] \in [Records -> AuthRecord]
  BY RecordsTyped
<1>b. \A r \in Records :
        /\ NoUpdates(records[m])[r] = [records[m][r] EXCEPT !.updateid = 0]
        /\ NoUpdates(records[m])[r].updateid = 0 /\ NoUpdates(records[m])[r].state = records[m][r].state
        /\ NoUpdates(records[m])[r].hmac = records[m][r].hmac
  BY <1>a, NoUpdatesTyped
<1>4. \A r \in Records : /\ records'[m][r].updateid = 0 /\ records'[m][r].state = records[m][r].state
                         /\ records'[m][r].hmac = records[m][r].hmac
  BY <1>3, <1>b
<1>5. \A r \in Records : records'[m][r] = [records[m][r] EXCEPT !.updateid = 0]
  BY <1>3, <1>b
<1>6. Updates' \subseteq Updates /\ Answers' \subseteq Answers
  BY <1>1 DEF Updates, Answers
<1>7. \A k \in Machines : Own(k)' = Own(k)
  BY <1>1 DEF Own
<1>8. \A u \in Updates : u.from \in Machines /\ u.id # 0
  BY DEF AskInv, Typed, NetTyped, IdsAreOld, Updates, UpdateMsg, AnswerMsg
<1>9. \A u \in Answers : u.to \in Machines /\ u.id # 0
  BY DEF AskInv, Typed, NetTyped, IdsAreOld, Answers, UpdateMsg, AnswerMsg
<1>10. Typed'
  <2>1. \A k \in Machines, r \in Records :
          /\ records'[k][r] \in AuthRecord /\ records'[k][r].updateid <= lastId'[k]
          /\ OwnerOf[r] = k /\ r \in link'.records => records'[k][r].state = "registered" /\ records'[k][r].hmac = None
    <3> TAKE k \in Machines, r \in Records
    <3>1. lastId[k] \in Nat /\ records[k][r].updateid <= lastId[k]
          /\ (OwnerOf[r] = k /\ r \in link.records => records[k][r].state = "registered" /\ records[k][r].hmac = None)
      BY DEF AskInv, Typed, SleepTypeOK
    <3>2. records'[k][r] \in AuthRecord
      BY <1>3
    <3>3. CASE k # m
      BY <1>1, <1>3, <3>1, <3>2, <3>3
    <3>4. CASE k = m
      BY <1>1, <1>4, <3>1, <3>2, <3>4
    <3> QED
      BY <3>3, <3>4
  <2>2. NetTyped' /\ woken' \subseteq Machines
    BY <1>1 DEF AskInv, Typed, NetTyped, SleepTypeOK
  <2> QED
    BY <1>1, <1>3, <2>1, <2>2 DEF AskInv, Typed, SleepTypeOK
<1>11. WellFormed'
  <2> SUFFICES ASSUME NEW k \in Machines, NEW r \in Records
               PROVE  /\ records'[k][r].state = "none" => records'[k][r] = NoRecord
                      /\ records'[k][r].state = "waking" => records'[k][r].hmac # None
    BY DEF WellFormed
  <2>1. /\ records[k][r].state = "none" => records[k][r] = NoRecord
        /\ records[k][r].state = "waking" => records[k][r].hmac # None
    BY DEF AskInv, WellFormed
  <2>2. [NoRecord EXCEPT !.updateid = 0] = NoRecord
    BY DEF NoRecord
  <2>3. CASE k # m
    BY <1>3, <2>1, <2>3
  <2>4. CASE k = m
    BY <1>4, <1>5, <2>1, <2>2, <2>4
  <2> QED
    BY <2>3, <2>4
<1>12. SleptLess'
  BY <1>1, <1>2 DEF AskInv, SleptLess
<1>13. OnlyItsOwn'
  <2>a. \A k \in Machines \ Servers : ~SPSSocket'[k]
    BY <1>1 DEF AskInv, OnlyItsOwn
  <2> SUFFICES ASSUME NEW k \in Machines \ Servers, NEW r \in Records
               PROVE  /\ r \in Own(k)' => records'[k][r] = [OwnRecord EXCEPT !.updateid = records'[k][r].updateid]
                      /\ r \notin Own(k)' => records'[k][r] = NoRecord
    BY <2>a DEF OnlyItsOwn
  <2>1. /\ r \in Own(k) => records[k][r] = [OwnRecord EXCEPT !.updateid = records[k][r].updateid]
        /\ r \notin Own(k) => records[k][r] = NoRecord
    BY DEF AskInv, OnlyItsOwn
  <2>2. CASE k # m
    BY <1>3, <1>7, <2>1, <2>2
  <2>3. CASE k = m
    <3>1. \A n : [[OwnRecord EXCEPT !.updateid = n] EXCEPT !.updateid = 0] = [OwnRecord EXCEPT !.updateid = 0]
      BY DEF OwnRecord, NoRecord
    <3>2. [NoRecord EXCEPT !.updateid = 0] = NoRecord
      BY DEF NoRecord
    <3>3. records'[k][r] = [records[k][r] EXCEPT !.updateid = 0] /\ records'[k][r].updateid = 0
      BY <1>4, <1>5, <2>3
    <3> QED
      BY <1>7, <2>1, <3>1, <3>2, <3>3
  <2> QED
    BY <2>2, <2>3
<1>14. IdsAreOld'
  BY <1>1, <1>6 DEF AskInv, IdsAreOld
<1>15. UpdatesHaveIt'
  <2> SUFFICES ASSUME NEW msg \in Updates', NEW r \in Records, records'[msg.from][r].updateid = msg.id
               PROVE  /\ r \in msg.recs
                      /\ r \in Own(msg.from)' => msg.owner = msg.from /\ msg.seq = SleepSeqNum'[msg.from]
    BY DEF UpdatesHaveIt
  <2>1. msg \in Updates /\ msg.from \in Machines /\ msg.from # m
    BY <1>4, <1>6, <1>8
  <2> QED
    BY <1>2, <1>3, <1>7, <2>1 DEF AskInv, UpdatesHaveIt
<1>16. AnswersSawIt'
  <2> SUFFICES ASSUME NEW u \in Answers', asked'[u.to], NEW r \in Own(u.to)', records'[u.to][r].updateid = u.id
               PROVE  fate'[r] # "none"
    BY DEF AnswersSawIt
  <2>1. u \in Answers /\ u.to \in Machines /\ r \in Own(u.to) /\ r \in Records /\ OwnerOf[r] = u.to
    BY <1>6, <1>7, <1>9, OwnRecords
  <2>2. u.to # m
    BY <1>4, <1>9, <2>1
  <2> QED
    BY <1>2, <1>3, <2>1, <2>2 DEF AskInv, AnswersSawIt
<1>17. AskedForAll'
  <2> SUFFICES ASSUME NEW k \in Machines, asked'[k], NEW r \in Own(k)'
               PROVE  /\ power'[k] \in {"awake", "transferring"} => records'[k][r].updateid # 0 \/ fate'[r] # "none"
                      /\ power'[k] = "off" /\ quiet'[k] => fate'[r] # "none"
    BY DEF AskedForAll
  <2>1. k # m /\ r \in Own(k) /\ r \in Records /\ OwnerOf[r] = k
    BY <1>1, <1>7, OwnRecords
  <2> QED
    BY <1>2, <1>3, <2>1 DEF AskInv, AskedForAll
<1> QED
  BY <1>10, <1>11, <1>12, <1>13, <1>14, <1>15, <1>16, <1>17 DEF AskInv

------------------------------------------------------------------------------
(* The first invariant holds.                                                 *)

LEMMA InitAskInv == SleepInit => AskInv
<1> HAVE SleepInit
<1>1. /\ link \in Links /\ power = [m \in Machines |-> "awake"] /\ SleepSeqNum = [m \in Machines |-> 0]
      /\ SPSSocket = [m \in Machines |-> m \in Servers] /\ lastId = [m \in Machines |-> 0] /\ net = {}
      /\ records = [m \in Machines |-> [r \in Records |->
                      IF OwnerOf[r] = m /\ r \in link.records THEN OwnRecord ELSE NoRecord]]
      /\ asked = [m \in Machines |-> FALSE]
  BY DEF SleepInit
<1>2. OwnRecord \in AuthRecord /\ OwnRecord.state = "registered" /\ OwnRecord.hmac = None /\ OwnRecord.updateid = 0
      /\ OwnRecord = [OwnRecord EXCEPT !.updateid = 0]
  <2>1. OwnRecord = [state |-> "registered", hmac |-> None, seq |-> 0, updateid |-> 0]
    BY DEF OwnRecord, NoRecord
  <2> QED
    BY <2>1 DEF AuthRecord
<1>3. link.sleeps \in Nat
  BY <1>1, SleepProxyAssumption DEF Link
<1>4. records \in [Machines -> [Records -> AuthRecord]]
  BY <1>1, <1>2, NoRecordTyped
<1>5. \A m \in Machines, r \in Records :
        records[m][r] = IF OwnerOf[r] = m /\ r \in link.records THEN OwnRecord ELSE NoRecord
  BY <1>1
<1>6. Typed
  <2>1. Slots * Tries \in Nat /\ -1 \in -1 .. Slots * Tries - 1
    BY SleepProxyAssumption
  <2>2. [i \in 0 .. Slots - 1 |-> NoSlot] \in [0 .. Slots - 1 -> Slot]
    BY DEF NoSlot, Slot
  <2>3. SPSState = [m \in Machines |-> IF m \in Servers THEN 1 ELSE 0] /\ SPSType = SPSState
        /\ SPSState \in [Machines -> 0 .. 3] /\ SPSType \in [Machines -> 0 .. 1]
    BY DEF SleepInit
  <2>4. \A m \in Machines, r \in Records :
       /\ records[m][r] \in AuthRecord /\ records[m][r].updateid <= lastId[m]
       /\ OwnerOf[r] = m /\ r \in link.records => records[m][r].state = "registered" /\ records[m][r].hmac = None
    BY <1>1, <1>2, <1>5, NoRecordTyped
  <2>5. NextSPSAttempt \in [Machines -> -1 .. Slots * Tries - 1] /\ slots \in [Machines -> [0 .. Slots - 1 -> Slot]]
    BY <2>1, <2>2 DEF SleepInit
  <2>6. SleepSeqNum \in [Machines -> 0 .. link.sleeps] /\ SPSSocket \in [Machines -> BOOLEAN]
        /\ lastId \in [Machines -> Nat]
    BY <1>1, <1>3
  <2> QED
    BY <1>1, <1>4, <2>3, <2>4, <2>5, <2>6 DEF SleepInit, Typed, SleepTypeOK, NetTyped
<1>7. WellFormed
  BY <1>2, <1>5, NoRecordTyped DEF WellFormed
<1>8. SleptLess
  BY <1>1 DEF SleptLess
<1>9. OnlyItsOwn
  <2>1. \A m \in Machines \ Servers : ~SPSSocket[m]
    BY <1>1
  <2>2. \A m \in Machines, r \in Records : r \in Own(m) <=> OwnerOf[r] = m /\ r \in link.records
    BY DEF Own
  <2> QED
    BY <1>2, <1>5, <2>1, <2>2 DEF OnlyItsOwn
<1>10. IdsAreOld /\ UpdatesHaveIt /\ AnswersSawIt
  BY <1>1 DEF IdsAreOld, UpdatesHaveIt, AnswersSawIt, Updates, Answers
<1>11. AskedForAll
  BY <1>1 DEF AskedForAll
<1> QED
  BY <1>6, <1>7, <1>8, <1>9, <1>10, <1>11 DEF AskInv

LEMMA StutterAskInv ==
  ASSUME AskInv, UNCHANGED sleepVars PROVE AskInv'
BY DEF sleepVars, AskInv, Typed, SleepTypeOK, NetTyped, WellFormed, SleptLess, OnlyItsOwn, IdsAreOld, UpdatesHaveIt, AnswersSawIt,
       AskedForAll, Updates, Answers, Own

\* What every step is.
LEMMA StepCases ==
  ASSUME SleepNext
  PROVE  \/ \E s \in Servers : ByProxy(s)
         \/ \E m \in Machines :
              \/ Sleep(m) \/ DelayOver(m) \/ LimitPasses(m) \/ ActivateNetWake(m)
              \/ mDNSCoreReadyForSleep(m) \/ Wake(m) \/ RetrySPSRegistrations(m)
              \/ \E i \in 0 .. Slots - 1 : NetWakeResolve(m, i)
              \/ \E msg \in net : mDNSCoreReceiveUpdate(m, msg) \/ mDNSCoreReceiveUpdateR(m, msg)
BY DEF SleepNext, ByProxy

LEMMA StepAskInv == AskInv /\ [SleepNext]_sleepVars => AskInv'
<1> SUFFICES ASSUME AskInv, SleepNext PROVE AskInv'
  BY StutterAskInv
<1>1. ASSUME NEW s \in Servers, ByProxy(s) PROVE AskInv'
  BY <1>1, ByProxyChangesHeld, ChangesHeldAskInv
<1>2. ASSUME NEW m \in Machines, Sleep(m) \/ DelayOver(m) \/ LimitPasses(m) \/ ActivateNetWake(m) PROVE AskInv'
  BY <1>2, GoesToSleep, DrowsesAskInv
<1>3. ASSUME NEW m \in Machines, mDNSCoreReadyForSleep(m) PROVE AskInv'
  BY <1>3, ReadyForSleepHandsItsOver, HandsItsOverAskInv
<1>4. ASSUME NEW m \in Machines, NEW i \in 0 .. Slots - 1, NetWakeResolve(m, i) PROVE AskInv'
  BY <1>4, NetWakeResolveHandsItsOver, HandsItsOverAskInv
<1>5. ASSUME NEW m \in Machines, Wake(m) PROVE AskInv'
  BY <1>5, WakeAskInv
<1>6. ASSUME NEW m \in Machines, RetrySPSRegistrations(m) PROVE AskInv'
  BY <1>6, RetryAskInv
<1>7. ASSUME NEW m \in Machines, NEW msg \in net, mDNSCoreReceiveUpdate(m, msg) PROVE AskInv'
  BY <1>7, ReceiveUpdateAskInv
<1>8. ASSUME NEW m \in Machines, NEW msg \in net, mDNSCoreReceiveUpdateR(m, msg) PROVE AskInv'
  BY <1>8, ReceiveUpdateRAskInv
<1> QED
  BY <1>1, <1>2, <1>3, <1>4, <1>5, <1>6, <1>7, <1>8, StepCases

\* What is known of asking a sleep proxy holds in every state.
THEOREM AskInvHolds == SleepSpec => []AskInv
<1>1. SleepInit => AskInv
  BY InitAskInv
<1>2. AskInv /\ [SleepNext]_sleepVars => AskInv'
  BY StepAskInv
<1> QED
  BY <1>1, <1>2, PTL DEF SleepSpec

\* A machine that asked a sleep proxy and leaves without goodbyes has had every
\* record looked at by one in this sleep: mDNSCoreReadyForSleep waits for all the
\* answers, whatever is lost, overtakes or is sent again.
THEOREM AskedAndAnswered == SleepSpec => []SilentOnlyIfAnswered
<1>1. AskInv => SilentOnlyIfAnswered
  BY OwnRecords DEF AskInv, AskedForAll, SilentOnlyIfAnswered, Own
<1> QED
  BY <1>1, AskInvHolds, PTL

------------------------------------------------------------------------------
(* The second invariant: what becomes of a record in its owner's first sleep. *)

\* What is used of the first invariant.
LEMMA BlankIfNone ==
  ASSUME AskInv, NEW m \in Machines, NEW r \in Records
  PROVE  /\ records[m][r].state = "none" => records[m][r] = NoRecord
         /\ records[m][r].updateid # 0 => records[m][r].state # "none"
         /\ OwnerOf[r] \in Machines /\ OwnerOf[r] \notin Servers /\ OwnerOf[r] # None
         /\ m = OwnerOf[r] /\ records[m][r].state # "none" => records[m][r].hmac = None
<1>1. OwnerOf[r] \in Machines /\ OwnerOf[r] \notin Servers /\ OwnerOf[r] # None
  BY SleepProxyAssumption
<1>2. records[m][r].state = "none" => records[m][r] = NoRecord
  BY DEF AskInv, WellFormed
<1>3. ASSUME m = OwnerOf[r], records[m][r].state # "none" PROVE records[m][r].hmac = None
  <2>1. r \notin Own(m) => records[m][r] = NoRecord
    BY <1>1, <1>3 DEF AskInv, OnlyItsOwn
  <2>2. r \in Own(m)
    BY <1>3, <2>1, NoRecordTyped
  <2> QED
    BY <2>2, OwnRecords
<1> QED
  BY <1>1, <1>2, <1>3, NoRecordTyped

LEMMA ChangesHeldKeepInv ==
  ASSUME AskInv, KeepInv, NEW s \in Servers, ChangesHeld(s) PROVE KeepInv'
<1>1. PICK R \in [Records -> AuthRecord] : records' = [records EXCEPT ![s] = R] /\ \A q \in Records : HeldChange(s, q, R[q])
  BY DEF ChangesHeld
<1>2. /\ power' = power /\ SleepSeqNum' = SleepSeqNum /\ net' = net /\ fate' = fate /\ slots' = slots
      /\ woken \subseteq woken'
  BY DEF ChangesHeld, sleeper
<1>3. s \in Machines
  BY SleepProxyAssumption
<1>4. records'[s] = R /\ \A m \in Machines : m # s => records'[m] = records[m]
  BY <1>1, <1>3, RecordsTyped
<1>5. Updates' = Updates /\ Answers' = Answers
  BY <1>2 DEF Updates, Answers
<1> SUFFICES ASSUME NEW r \in Records
             PROVE  /\ Unstirred(r)' => HeldForOwner(r)' /\ SentForOwner(r)' /\ SentTogether(r)' /\ Kept(r)'
                    /\ NotYet(r)' => UnknownYet(r)'
  BY DEF KeepInv
<1> DEFINE o == OwnerOf[r]
           old == records[s][r]
<1>6. o \in Machines /\ o # s /\ o # None /\ (old.state = "none" => old = NoRecord) /\ (old.updateid # 0 => old.state # "none")
  BY <1>3, BlankIfNone
<1>7. HeldChange(s, r, R[r])
  BY <1>1
<1>8. old.state = "none" => R[r] = old
  BY <1>6, <1>7 DEF HeldChange
<1>9. ASSUME Unstirred(r)' PROVE HeldForOwner(r)' /\ SentForOwner(r)' /\ SentTogether(r)' /\ Kept(r)'
  <2>1. o \notin woken' /\ Unstirred(r)
    BY <1>2, <1>9 DEF Unstirred
  <2>2. HeldForOwner(r) /\ SentForOwner(r) /\ SentTogether(r) /\ Kept(r)
    BY <2>1 DEF KeepInv
  <2>3. old.state # "none" => old.hmac = o /\ old.seq = 0
    BY <1>3, <1>6, <2>2 DEF HeldForOwner
  <2>4. \/ R[r] = old
        \/ R[r] = NoRecord /\ old.state # "none" /\ power[o] = "awake"
        \/ /\ R[r].state # "none" /\ old.state # "none" /\ R[r].updateid = old.updateid
           /\ R[r].seq = old.seq /\ R[r].hmac = old.hmac
    BY <1>6, <1>7, <1>8, <2>1, <2>3 DEF HeldChange
  <2>5. HeldForOwner(r)'
    BY <1>4, <2>2, <2>3, <2>4, NoRecordTyped DEF HeldForOwner
  <2>6. SentForOwner(r)'
    BY <1>5, <2>2 DEF SentForOwner
  <2>7. SentTogether(r)'
    <3> SUFFICES ASSUME NEW m \in Machines, NEW q \in Records,
                        records'[m][r].updateid # 0, records'[m][q].updateid = records'[m][r].updateid
                 PROVE  records'[m][q].hmac = records'[m][r].hmac /\ records'[m][q].seq = records'[m][r].seq
      BY DEF SentTogether
    <3>1. CASE m # s
      BY <1>4, <2>2, <3>1 DEF SentTogether
    <3>2. CASE m = s
      <4>1. R[r].updateid = old.updateid /\ R[r].hmac = old.hmac /\ R[r].seq = old.seq /\ old.hmac = o /\ old.updateid # 0
        BY <1>4, <1>6, <2>3, <2>4, <3>2, NoRecordTyped
      <4>2. HeldChange(s, q, R[q]) /\ R[q].updateid = old.updateid
        BY <1>1, <1>4, <3>2, <4>1
      <4>3. records[s][q].updateid = old.updateid
        BY <4>1, <4>2, NoRecordTyped DEF HeldChange
      <4>4. records[s][q].hmac = o /\ records[s][q].seq = old.seq
        BY <1>3, <2>2, <4>1, <4>3 DEF SentTogether
      <4>5. R[q].hmac = o /\ R[q].seq = old.seq
        BY <2>1, <4>1, <4>2, <4>4, NoRecordTyped DEF HeldChange
      <4> QED
        BY <1>4, <3>2, <4>1, <4>5
    <3> QED
      BY <3>1, <3>2
  <2>8. Kept(r)'
    <3> SUFFICES ASSUME power'[o] # "awake", fate'[r] = "accepted" PROVE \E m \in Machines : Keeps(m, r)'
      BY DEF Kept
    <3>1. PICK m \in Machines : Keeps(m, r)
      BY <1>2, <2>2 DEF Kept
    <3>2. CASE m # s
      BY <1>4, <1>5, <3>1, <3>2 DEF Keeps
    <3>3. CASE m = s
      <4>1. R[r].state # "none" /\ R[r].updateid = old.updateid
        BY <1>2, <2>4, <3>1, <3>3 DEF Keeps
      <4> QED
        BY <1>3, <1>4, <1>5, <3>1, <3>3, <4>1 DEF Keeps
    <3> QED
      BY <3>2, <3>3
  <2> QED
    BY <2>5, <2>6, <2>7, <2>8
<1>10. ASSUME NotYet(r)' PROVE UnknownYet(r)'
  <2>1. UnknownYet(r)
    BY <1>2, <1>10 DEF NotYet, KeepInv
  <2>2. \A m \in Machines \ {o} : records'[m][r].state = "none"
    BY <1>3, <1>4, <1>6, <1>8, <2>1 DEF UnknownYet
  <2> QED
    BY <1>2, <1>5, <2>1, <2>2 DEF UnknownYet
<1> QED
  BY <1>9, <1>10

LEMMA HandsItsOverKeepInv ==
  ASSUME AskInv, KeepInv, NEW m \in Machines, HandsItsOver(m) PROVE KeepInv'
<1>1. PICK st \in Working, recs \in [Records -> AuthRecord] : Sends(m, st, recs)
  BY DEF HandsItsOver
<1>o. OnlyIds(m, st, recs)
  BY <1>1, SentKeepRecords
<1>2. SleepSeqNum' = SleepSeqNum /\ fate' = fate /\ woken' = woken
  BY DEF HandsItsOver, SendTyped
<1>3. records'[m] = recs /\ \A k \in Machines : k # m => records'[k] = records[k]
  BY <1>1, RecordsTyped DEF Sends
<1>4. \A k \in Machines : /\ k # m => power'[k] = power[k] /\ slots'[k] = slots[k]
                          /\ power'[k] # "awake" => power[k] # "awake"
                          /\ power'[k] = "awake" => power[k] = "awake"
  BY DEF HandsItsOver
<1>5. Updates' \subseteq Updates \cup st.sent /\ Answers' \subseteq Answers
  <2>1. st.sent \subseteq UpdateMsg /\ net' \subseteq net \cup st.sent
    BY <1>1 DEF Working, Sends
  <2>2. \A msg \in UpdateMsg : msg.type = "update"
    BY DEF UpdateMsg
  <2> QED
    BY <2>1, <2>2 DEF Updates, Answers
<1>6. \A msg \in st.sent : \A q \in msg.recs :
        /\ q \in Records /\ records[m][q].state = "registered"
        /\ msg.owner = IF records[m][q].hmac = None THEN m ELSE records[m][q].hmac
        /\ msg.seq = IF records[m][q].hmac = None THEN SleepSeqNum[m] ELSE records[m][q].seq
  <2>1. \A msg \in st.sent : msg.recs \subseteq Records
    BY DEF Working, UpdateMsg
  <2> QED
    BY <1>1, <2>1 DEF Sends, HandsOver
<1> SUFFICES ASSUME NEW r \in Records
             PROVE  /\ Unstirred(r)' => HeldForOwner(r)' /\ SentForOwner(r)' /\ SentTogether(r)' /\ Kept(r)'
                    /\ NotYet(r)' => UnknownYet(r)'
  BY DEF KeepInv
<1> DEFINE o == OwnerOf[r]
           old == records[m][r]
<1>7. o \in Machines /\ o # None /\ (old.updateid # 0 => old.state # "none") /\ (m = o /\ old.state # "none" => old.hmac = None)
  BY BlankIfNone
<1>8. recs[r].state = old.state /\ recs[r].hmac = old.hmac /\ recs[r].seq = old.seq
  BY <1>o DEF OnlyIds
<1>9. ASSUME Unstirred(r)' PROVE HeldForOwner(r)' /\ SentForOwner(r)' /\ SentTogether(r)' /\ Kept(r)'
  <2>1. Unstirred(r) /\ SleepSeqNum[o] = 0
    BY <1>2, <1>9 DEF Unstirred
  <2>2. HeldForOwner(r) /\ SentForOwner(r) /\ SentTogether(r) /\ Kept(r)
    BY <2>1 DEF KeepInv
  <2>3. HeldForOwner(r)'
    BY <1>3, <1>8, <2>2 DEF HeldForOwner
  <2>4. SentForOwner(r)'
    <3> SUFFICES ASSUME NEW msg \in Updates', r \in msg.recs PROVE msg.owner = o /\ msg.seq = 0
      BY DEF SentForOwner
    <3>1. CASE msg \in Updates
      BY <2>2, <3>1 DEF SentForOwner
    <3>2. CASE msg \in st.sent
      <4>1. /\ old.state = "registered"
            /\ msg.owner = IF old.hmac = None THEN m ELSE old.hmac
            /\ msg.seq = IF old.hmac = None THEN SleepSeqNum[m] ELSE old.seq
        BY <1>6, <3>2
      <4>2. CASE m = o
        BY <1>7, <2>1, <4>1, <4>2
      <4>3. CASE m # o
        BY <1>7, <2>2, <4>1, <4>3 DEF HeldForOwner
      <4> QED
        BY <4>2, <4>3
    <3> QED
      BY <1>5, <3>1, <3>2
  <2>5. SentTogether(r)'
    <3> SUFFICES ASSUME NEW k \in Machines, NEW q \in Records,
                        records'[k][r].updateid # 0, records'[k][q].updateid = records'[k][r].updateid
                 PROVE  records'[k][q].hmac = records'[k][r].hmac /\ records'[k][q].seq = records'[k][r].seq
      BY DEF SentTogether
    <3>1. CASE k # m
      BY <1>3, <2>2, <3>1 DEF SentTogether
    <3>2. CASE k = m
      <4>1. recs[r].updateid # 0 /\ recs[q].updateid = recs[r].updateid
        BY <1>3, <3>2
      <4>2. recs[q].hmac = records[m][q].hmac /\ recs[q].seq = records[m][q].seq
        BY <1>o DEF OnlyIds
      <4>3. CASE recs[r].updateid > lastId[m]
        <5>1. st.records[r].updateid = recs[r].updateid /\ st.records[q].updateid = recs[q].updateid
          BY <1>o, <4>1 DEF OnlyIds
        <5> QED
          BY <1>1, <1>3, <1>8, <3>2, <4>1, <4>2, <4>3, <5>1 DEF Sends, HandsOver
      <4>4. CASE ~(recs[r].updateid > lastId[m])
        <5>1. old.updateid = recs[r].updateid /\ records[m][q].updateid = recs[q].updateid
          BY <1>o, <4>1, <4>4 DEF OnlyIds
        <5> QED
          BY <1>3, <1>8, <2>2, <3>2, <4>1, <4>2, <5>1 DEF SentTogether
      <4> QED
        BY <4>3, <4>4
    <3> QED
      BY <3>1, <3>2
  <2>6. Kept(r)'
    <3> SUFFICES ASSUME power'[o] # "awake", fate'[r] = "accepted" PROVE \E k \in Machines : Keeps(k, r)'
      BY DEF Kept
    <3>1. PICK k \in Machines : Keeps(k, r)
      BY <1>2, <1>4, <1>7, <2>2 DEF Kept
    <3>2. CASE k # m
      BY <1>3, <1>5, <3>1, <3>2 DEF Keeps
    <3>3. CASE k = m
      <4>1. \A msg \in Answers : msg.to = m => msg.id # recs[r].updateid
        <5> TAKE msg \in Answers
        <5> HAVE msg.to = m
        <5>1. msg.id # 0 /\ msg.id \in 1 .. lastId[m] /\ msg.id # old.updateid
          BY <3>1, <3>3, MessageIds DEF Keeps
        <5> QED
          BY <1>o, <5>1 DEF OnlyIds
      <4> QED
        BY <1>3, <1>5, <1>8, <3>1, <3>3, <4>1 DEF Keeps
    <3> QED
      BY <3>2, <3>3
  <2> QED
    BY <2>3, <2>4, <2>5, <2>6
<1>10. ASSUME NotYet(r)' PROVE UnknownYet(r)'
  <2>1. NotYet(r) /\ UnknownYet(r)
    BY <1>2, <1>4, <1>7, <1>10 DEF NotYet, KeepInv
  <2>2. o # m
    BY <2>1 DEF HandsItsOver, UnknownYet, NotYet
  <2>3. \A msg \in Updates' : r \notin msg.recs
    <3> TAKE msg \in Updates'
    <3>1. msg \in st.sent => r \notin msg.recs
      BY <1>6, <2>1, <2>2 DEF UnknownYet
    <3> QED
      BY <1>5, <2>1, <3>1 DEF UnknownYet
  <2>4. \A k \in Machines \ {o} : records'[k][r].state = "none"
    BY <1>3, <1>8, <2>1 DEF UnknownYet
  <2> QED
    BY <1>2, <1>4, <1>7, <2>1, <2>2, <2>3, <2>4 DEF UnknownYet
<1> QED
  BY <1>9, <1>10

\* What nobody knows of is nowhere, nor under way.
LEMMA UnknownIsUnstirred ==
  ASSUME AskInv, NEW r \in Records, UnknownYet(r)
  PROVE  HeldForOwner(r) /\ SentForOwner(r) /\ SentTogether(r)
<1>1. OwnerOf[r] \in Machines \ Servers
  BY SleepProxyAssumption
<1>2. \A q \in Records : records[OwnerOf[r]][q].hmac = None /\ records[OwnerOf[r]][q].seq = 0
  <2> TAKE q \in Records
  <2>1. records[OwnerOf[r]][q] = NoRecord
        \/ records[OwnerOf[r]][q] = [OwnRecord EXCEPT !.updateid = records[OwnerOf[r]][q].updateid]
    BY <1>1 DEF AskInv, OnlyItsOwn
  <2>2. NoRecord.hmac = None /\ NoRecord.seq = 0
        /\ \A n : [OwnRecord EXCEPT !.updateid = n].hmac = None /\ [OwnRecord EXCEPT !.updateid = n].seq = 0
    BY DEF OwnRecord, NoRecord
  <2> QED
    BY <2>1, <2>2
<1>3. \A k \in Machines \ {OwnerOf[r]} : records[k][r].updateid = 0
  <2> TAKE k \in Machines \ {OwnerOf[r]}
  <2>1. records[k][r] = NoRecord
    BY DEF UnknownYet, AskInv, WellFormed
  <2> QED
    BY <2>1 DEF NoRecord
<1> QED
  BY <1>2, <1>3 DEF UnknownYet, HeldForOwner, SentForOwner, SentTogether

LEMMA DrowsesKeepInv ==
  ASSUME AskInv, KeepInv, Drowses PROVE KeepInv'
<1>1. /\ SleepSeqNum' = SleepSeqNum /\ records' = records /\ net' = net
  BY DEF Drowses
<1>2. Updates' = Updates /\ Answers' = Answers
  BY <1>1 DEF Updates, Answers
<1>3. \A k \in Machines : /\ power'[k] = "awake" => power[k] = "awake" /\ slots'[k] = slots[k]
  BY DEF Drowses
<1> SUFFICES ASSUME NEW r \in Records
             PROVE  /\ Unstirred(r)' => HeldForOwner(r)' /\ SentForOwner(r)' /\ SentTogether(r)' /\ Kept(r)'
                    /\ NotYet(r)' => UnknownYet(r)'
  BY DEF KeepInv
<1>4. OwnerOf[r] \in Machines
  BY SleepProxyAssumption
<1>t. \/ fate'[r] = fate[r] /\ (OwnerOf[r] \in woken => OwnerOf[r] \in woken')
      \/ fate'[r] = "none" /\ power[OwnerOf[r]] = "awake"
  BY DrowsesTells
<1>5. ASSUME Unstirred(r)' PROVE HeldForOwner(r)' /\ SentForOwner(r)' /\ SentTogether(r)' /\ Kept(r)'
  <2>1. SleepSeqNum[OwnerOf[r]] = 0
    BY <1>1, <1>5 DEF Unstirred
  <2>2. CASE power[OwnerOf[r]] = "awake"
    <3>1. UnknownYet(r)
      BY <2>1, <2>2 DEF KeepInv, NotYet
    <3>2. fate'[r] = "none"
      BY <1>t, <3>1 DEF UnknownYet
    <3> QED
      BY <1>1, <1>2, <3>1, <3>2, UnknownIsUnstirred DEF HeldForOwner, SentForOwner, SentTogether, Kept
  <2>3. CASE power[OwnerOf[r]] # "awake"
    <3>1. Unstirred(r) /\ fate'[r] = fate[r]
      BY <1>t, <1>5, <2>1, <2>3 DEF Unstirred
    <3>2. HeldForOwner(r) /\ SentForOwner(r) /\ SentTogether(r) /\ Kept(r)
      BY <3>1 DEF KeepInv
    <3> QED
      BY <1>1, <1>2, <2>3, <3>1, <3>2 DEF HeldForOwner, SentForOwner, SentTogether, Kept, Keeps
  <2> QED
    BY <2>2, <2>3
<1>6. ASSUME NotYet(r)' PROVE UnknownYet(r)'
  <2>1. UnknownYet(r)
    BY <1>1, <1>3, <1>4, <1>6 DEF NotYet, KeepInv
  <2>2. fate'[r] = "none"
    BY <1>t, <2>1 DEF UnknownYet
  <2> QED
    BY <1>1, <1>2, <1>3, <1>4, <1>6, <2>1, <2>2 DEF UnknownYet, NotYet
<1> QED
  BY <1>5, <1>6

LEMMA RetryKeepInv ==
  ASSUME AskInv, KeepInv, NEW m \in Machines, RetrySPSRegistrations(m) PROVE KeepInv'
<1>1. /\ \A msg \in net' : msg \in net \/ SentAgain(m, msg)
      /\ power' = power /\ SleepSeqNum' = SleepSeqNum /\ records' = records
      /\ fate' = fate /\ woken' = woken /\ \A k \in Machines : k # m => slots'[k] = slots[k]
  BY RetrySendsAgain
<1>2. power[m] = "transferring"
  BY DEF RetrySPSRegistrations
<1>3. Answers' \subseteq Answers /\ \A msg \in Updates' : msg \in Updates \/ SentAgain(m, msg)
  <2>1. \A msg : SentAgain(m, msg) => msg.type = "update"
    BY DEF SentAgain, UpdateMsg
  <2> QED
    BY <1>1, <2>1 DEF Answers, Updates
<1> SUFFICES ASSUME NEW r \in Records
             PROVE  /\ Unstirred(r)' => HeldForOwner(r)' /\ SentForOwner(r)' /\ SentTogether(r)' /\ Kept(r)'
                    /\ NotYet(r)' => UnknownYet(r)'
  BY DEF KeepInv
<1> DEFINE o == OwnerOf[r]
           old == records[m][r]
<1>4. o \in Machines /\ o # None /\ (old.updateid # 0 => old.state # "none") /\ (m = o /\ old.state # "none" => old.hmac = None)
  BY BlankIfNone
<1>5. ASSUME NEW msg, SentAgain(m, msg), r \in msg.recs PROVE old.updateid # 0 /\ old.updateid = msg.id
  BY <1>5 DEF SentAgain
<1>6. ASSUME Unstirred(r)' PROVE HeldForOwner(r)' /\ SentForOwner(r)' /\ SentTogether(r)' /\ Kept(r)'
  <2>1. Unstirred(r) /\ SleepSeqNum[o] = 0
    BY <1>1, <1>6 DEF Unstirred
  <2>2. HeldForOwner(r) /\ SentForOwner(r) /\ SentTogether(r) /\ Kept(r)
    BY <2>1 DEF KeepInv
  <2>3. HeldForOwner(r)' /\ SentTogether(r)' /\ Kept(r)'
    BY <1>1, <1>3, <2>2 DEF HeldForOwner, SentTogether, Kept, Keeps
  <2>4. SentForOwner(r)'
    <3> SUFFICES ASSUME NEW msg \in Updates', r \in msg.recs PROVE msg.owner = o /\ msg.seq = 0
      BY DEF SentForOwner
    <3>1. CASE msg \in Updates
      BY <2>2, <3>1 DEF SentForOwner
    <3>2. CASE SentAgain(m, msg)
      <4>1. PICK q \in msg.recs : /\ msg.owner = IF records[m][q].hmac = None THEN m ELSE records[m][q].hmac
                                  /\ msg.seq = IF records[m][q].hmac = None THEN SleepSeqNum[m] ELSE records[m][q].seq
        BY <3>2 DEF SentAgain
      <4>2. q \in Records /\ records[m][q].updateid = msg.id
        BY <3>2, <4>1 DEF SentAgain
      <4>3. records[m][q].hmac = old.hmac /\ records[m][q].seq = old.seq
        BY <1>5, <2>2, <3>2, <4>2 DEF SentTogether
      <4>4. old.state # "none"
        BY <1>4, <1>5, <3>2
      <4>5. CASE m = o
        BY <1>4, <2>1, <4>1, <4>3, <4>4, <4>5
      <4>6. CASE m # o
        BY <1>4, <2>2, <4>1, <4>3, <4>4, <4>6 DEF HeldForOwner
      <4> QED
        BY <4>5, <4>6
    <3> QED
      BY <1>3, <3>1, <3>2
  <2> QED
    BY <2>3, <2>4
<1>7. ASSUME NotYet(r)' PROVE UnknownYet(r)'
  <2>1. NotYet(r) /\ UnknownYet(r)
    BY <1>1, <1>7 DEF NotYet, KeepInv
  <2>2. old.updateid = 0 /\ o # m
    BY <1>2, <1>4, <2>1 DEF NotYet, UnknownYet
  <2>3. \A msg \in Updates' : r \notin msg.recs
    BY <1>3, <1>5, <2>1, <2>2 DEF UnknownYet
  <2> QED
    BY <1>1, <1>4, <2>1, <2>2, <2>3 DEF UnknownYet
<1> QED
  BY <1>6, <1>7

LEMMA ReceiveUpdateKeepInv ==
  ASSUME AskInv, KeepInv, NEW s \in Machines, NEW msg, mDNSCoreReceiveUpdate(s, msg) PROVE KeepInv'
<1> DEFINE answer == [type |-> "answer", from |-> s, to |-> msg.from, id |-> msg.id]
           new == [state |-> "registered", hmac |-> msg.owner, seq |-> msg.seq, updateid |-> 0]
<1>1. /\ s \in Servers /\ msg \in UpdateMsg /\ msg \in Updates
      /\ net' = (net \ {msg}) \cup {answer}
      /\ power' = power /\ SleepSeqNum' = SleepSeqNum /\ slots' = slots /\ woken' = woken
  BY ReceiveUpdateEffect DEF server, sleeper
<1>2. PICK got \in SUBSET msg.recs, gone \in SUBSET Records :
        /\ \A k \in Machines : k # s => records'[k] = records[k]
        /\ \A r \in Records : records'[s][r] = IF r \in got THEN new ELSE IF r \in gone THEN NoRecord ELSE records[s][r]
        /\ records' \in [Machines -> [Records -> AuthRecord]]
        /\ \/ got = msg.recs /\ gone = {} /\ fate' = Seen(msg, "accepted")
           \/ fate' = Refused(msg, gone)
  BY ReceiveUpdateEffect, Zenon
<1>3. msg.type = "update" /\ msg.from \in Machines
  BY <1>1 DEF UpdateMsg
<1>4. answer.type = "answer" /\ answer.to = msg.from /\ answer.id = msg.id
      /\ new.state = "registered" /\ new.hmac = msg.owner /\ new.seq = msg.seq /\ new.updateid = 0
  OBVIOUS
<1> HIDE DEF answer, new
<1>5. Updates' \subseteq Updates /\ Answers' \subseteq Answers \cup {answer}
  BY <1>1, <1>4 DEF Updates, Answers
<1>6. \A u \in Answers' : u.id # 0
  BY <1>1, <1>4, <1>5, MessageIds
<1> SUFFICES ASSUME NEW r \in Records
             PROVE  /\ Unstirred(r)' => HeldForOwner(r)' /\ SentForOwner(r)' /\ SentTogether(r)' /\ Kept(r)'
                    /\ NotYet(r)' => UnknownYet(r)'
  BY DEF KeepInv
<1> DEFINE o == OwnerOf[r]
<1>7. o \in Machines /\ o # s
  BY <1>1, SleepProxyAssumption
<1>8. \A k \in Machines : \A q \in Records :
        \/ records'[k][q] = records[k][q] \/ (k = s /\ q \in msg.recs /\ records'[k][q] = new)
        \/ k = s /\ q \in gone /\ records'[k][q] = NoRecord
  <2> TAKE k \in Machines
  <2> TAKE q \in Records
  <2>1. CASE k # s
    BY <1>2, <2>1
  <2>2. CASE k = s
    BY <1>2, <2>2
  <2> QED
    BY <2>1, <2>2
<1>f. fate \in [Records -> {"none", "accepted", "refused"}]
  BY DEF AskInv, Typed, SleepTypeOK
<1>9. /\ r \notin msg.recs /\ fate'[r] = "accepted" => fate[r] = "accepted" /\ r \notin gone
      /\ r \notin msg.recs /\ fate[r] = "none" => fate'[r] = "none"
      /\ r \notin msg.recs => \A k \in Machines : records'[k][r] = records[k][r] \/ (r \in gone /\ records'[k][r] = NoRecord)
  BY <1>2, <1>8, <1>f DEF Seen, Refused
<1>10. ASSUME Unstirred(r)' PROVE HeldForOwner(r)' /\ SentForOwner(r)' /\ SentTogether(r)' /\ Kept(r)'
  <2>1. Unstirred(r) /\ SleepSeqNum[o] = 0
    BY <1>1, <1>10 DEF Unstirred
  <2>2. HeldForOwner(r) /\ SentForOwner(r) /\ SentTogether(r) /\ Kept(r)
    BY <2>1 DEF KeepInv
  <2>3. r \in msg.recs => msg.owner = o /\ msg.seq = 0
    BY <1>1, <2>2 DEF SentForOwner
  <2>4. HeldForOwner(r)'
    BY <1>4, <1>8, <2>2, <2>3, NoRecordTyped DEF HeldForOwner
  <2>5. SentForOwner(r)'
    BY <1>5, <2>2 DEF SentForOwner
  <2>6. SentTogether(r)'
    <3> SUFFICES ASSUME NEW k \in Machines, NEW q \in Records,
                        records'[k][r].updateid # 0, records'[k][q].updateid = records'[k][r].updateid
                 PROVE  records'[k][q].hmac = records'[k][r].hmac /\ records'[k][q].seq = records'[k][r].seq
      BY DEF SentTogether
    <3>1. records'[k][r] = records[k][r] /\ records'[k][q] = records[k][q]
      BY <1>4, <1>8, NoRecordTyped
    <3> QED
      BY <2>2, <3>1 DEF SentTogether
  <2>7. Kept(r)'
    <3> SUFFICES ASSUME power'[o] # "awake", fate'[r] = "accepted" PROVE \E k \in Machines : Keeps(k, r)'
      BY DEF Kept
    <3>1. CASE r \in msg.recs
      <4>1. fate' # Refused(msg, gone)
        BY <2>1, <2>3, <3>1 DEF Seen, Refused
      <4>2. records'[s][r] = new
        BY <1>2, <3>1, <4>1
      <4> QED
        BY <1>4, <1>6, <1>7, <4>2 DEF Keeps
    <3>2. CASE r \notin msg.recs
      <4>1. PICK k \in Machines : Keeps(k, r)
        BY <1>1, <1>9, <2>2, <3>2 DEF Kept
      <4>2. msg.from = k => msg.id # records[k][r].updateid
        BY <1>1, <3>2 DEF AskInv, UpdatesHaveIt
      <4>3. records'[k][r] = records[k][r]
        BY <1>9, <3>2
      <4> QED
        BY <1>4, <1>5, <3>2, <4>1, <4>2, <4>3 DEF Keeps
    <3> QED
      BY <3>1, <3>2
  <2> QED
    BY <2>4, <2>5, <2>6, <2>7
<1>11. ASSUME NotYet(r)' PROVE UnknownYet(r)'
  <2>1. UnknownYet(r)
    BY <1>1, <1>11 DEF NotYet, KeepInv
  <2>2. r \notin msg.recs
    BY <1>1, <2>1 DEF UnknownYet
  <2> QED
    BY <1>1, <1>5, <1>9, <2>1, <2>2, NoRecordTyped DEF UnknownYet
<1> QED
  BY <1>10, <1>11

LEMMA ReceiveUpdateRKeepInv ==
  ASSUME AskInv, KeepInv, NEW m \in Machines, NEW msg, mDNSCoreReceiveUpdateR(m, msg) PROVE KeepInv'
<1>1. /\ msg \in Answers /\ msg.to = m /\ msg.id # 0 /\ net' = net \ {msg}
      /\ power' = power /\ SleepSeqNum' = SleepSeqNum /\ slots' = slots /\ woken' = woken /\ fate' = fate
  BY ReceiveUpdateREffect DEF server, sleeper
<1>2. /\ \A k \in Machines : k # m => records'[k] = records[k]
      /\ \A q \in Records :
              \/ records'[m][q] = records[m][q] /\ records[m][q].updateid # msg.id
              \/ records'[m][q] = NoRecord /\ q \in Held(m) /\ records[m][q].updateid = msg.id
              \/ /\ records'[m][q] = [records[m][q] EXCEPT !.updateid = 0]
                 /\ q \notin Held(m) /\ records[m][q].updateid = msg.id
  BY ReceiveUpdateREffect
<1>3. Updates' \subseteq Updates /\ Answers' \subseteq Answers
  BY <1>1 DEF Updates, Answers
<1>4. \A k \in Machines : \A q \in Records :
        /\ records'[k][q].updateid # 0 => records'[k][q] = records[k][q]
        /\ \/ records'[k][q] = NoRecord
           \/ /\ records'[k][q].state = records[k][q].state /\ records'[k][q].hmac = records[k][q].hmac
              /\ records'[k][q].seq = records[k][q].seq
  <2> TAKE k \in Machines
  <2> TAKE q \in Records
  <2> DEFINE x == [records[k][q] EXCEPT !.updateid = 0]
  <2>1. x.updateid = 0 /\ x.state = records[k][q].state /\ x.hmac = records[k][q].hmac /\ x.seq = records[k][q].seq
    BY RecordsTyped DEF AuthRecord
  <2> HIDE DEF x
  <2>2. records'[k][q] \in {records[k][q], NoRecord, x}
    BY <1>2 DEF x
  <2> QED
    BY <2>1, <2>2, NoRecordTyped
<1> SUFFICES ASSUME NEW r \in Records
             PROVE  /\ Unstirred(r)' => HeldForOwner(r)' /\ SentForOwner(r)' /\ SentTogether(r)' /\ Kept(r)'
                    /\ NotYet(r)' => UnknownYet(r)'
  BY DEF KeepInv
<1> DEFINE o == OwnerOf[r]
<1>5. ASSUME Unstirred(r)' PROVE HeldForOwner(r)' /\ SentForOwner(r)' /\ SentTogether(r)' /\ Kept(r)'
  <2>1. Unstirred(r)
    BY <1>1, <1>5 DEF Unstirred
  <2>2. HeldForOwner(r) /\ SentForOwner(r) /\ SentTogether(r) /\ Kept(r)
    BY <2>1 DEF KeepInv
  <2>3. HeldForOwner(r)'
    BY <1>4, <2>2, NoRecordTyped DEF HeldForOwner
  <2>4. SentForOwner(r)'
    BY <1>3, <2>2 DEF SentForOwner
  <2>5. SentTogether(r)'
    BY <1>4, <2>2 DEF SentTogether
  <2>6. Kept(r)'
    <3> SUFFICES ASSUME power'[o] # "awake", fate'[r] = "accepted" PROVE \E k \in Machines : Keeps(k, r)'
      BY DEF Kept
    <3>1. PICK k \in Machines : Keeps(k, r)
      BY <1>1, <2>2 DEF Kept
    <3>2. records'[k][r] = records[k][r]
      BY <1>1, <1>2, <3>1 DEF Keeps
    <3> QED
      BY <1>3, <3>1, <3>2 DEF Keeps
  <2> QED
    BY <2>3, <2>4, <2>5, <2>6
<1>6. ASSUME NotYet(r)' PROVE UnknownYet(r)'
  <2>1. UnknownYet(r)
    BY <1>1, <1>6 DEF NotYet, KeepInv
  <2> QED
    BY <1>1, <1>3, <1>4, <2>1, NoRecordTyped DEF UnknownYet
<1> QED
  BY <1>5, <1>6

LEMMA WakeKeepInv ==
  ASSUME AskInv, KeepInv, NEW m \in Machines, Wake(m) PROVE KeepInv'
<1>1. /\ power'[m] = "awake" /\ SleepSeqNum'[m] = SleepSeqNum[m] + 1 /\ SleepSeqNum[m] \in Nat
      /\ woken' = woken \ {m} /\ net' \subseteq net /\ slots' = slots
  BY WakeEffect
<1>2. /\ \A k \in Machines : k # m => power'[k] = power[k] /\ SleepSeqNum'[k] = SleepSeqNum[k]
      /\ \A r \in Records : OwnerOf[r] # m => fate'[r] = fate[r]
  BY WakeEffect
<1>3. records'[m] = NoUpdates(records[m]) /\ \A k \in Machines : k # m => records'[k] = records[k]
  BY WakeEffect
<1>4. \A k \in Machines : \A q \in Records :
        /\ records'[k][q].updateid # 0 => records'[k][q] = records[k][q]
        /\ records'[k][q].updateid \in {0, records[k][q].updateid}
        /\ records'[k][q].state = records[k][q].state /\ records'[k][q].hmac = records[k][q].hmac
        /\ records'[k][q].seq = records[k][q].seq
  <2>1. records[m] \in [Records -> AuthRecord]
    BY RecordsTyped
  <2>2. \A q \in Records :
          /\ NoUpdates(records[m])[q].updateid = 0 /\ NoUpdates(records[m])[q].state = records[m][q].state
          /\ NoUpdates(records[m])[q].hmac = records[m][q].hmac /\ NoUpdates(records[m])[q].seq = records[m][q].seq
    BY <2>1, NoUpdatesTyped
  <2> QED
    BY <1>3, <2>2
<1>5. Updates' \subseteq Updates /\ Answers' \subseteq Answers
  BY <1>1 DEF Updates, Answers
<1> SUFFICES ASSUME NEW r \in Records
             PROVE  /\ Unstirred(r)' => HeldForOwner(r)' /\ SentForOwner(r)' /\ SentTogether(r)' /\ Kept(r)'
                    /\ NotYet(r)' => UnknownYet(r)'
  BY DEF KeepInv
<1> DEFINE o == OwnerOf[r]
<1>6. o \in Machines /\ (SleepSeqNum'[o] = 0 => o # m)
  BY <1>1, SleepProxyAssumption
<1>7. ASSUME Unstirred(r)' PROVE HeldForOwner(r)' /\ SentForOwner(r)' /\ SentTogether(r)' /\ Kept(r)'
  <2>1. Unstirred(r) /\ o # m
    BY <1>1, <1>2, <1>6, <1>7 DEF Unstirred
  <2>2. HeldForOwner(r) /\ SentForOwner(r) /\ SentTogether(r) /\ Kept(r)
    BY <2>1 DEF KeepInv
  <2>3. HeldForOwner(r)'
    BY <1>4, <2>2 DEF HeldForOwner
  <2>4. SentForOwner(r)'
    BY <1>5, <2>2 DEF SentForOwner
  <2>5. SentTogether(r)'
    BY <1>4, <2>2 DEF SentTogether
  <2>6. Kept(r)'
    <3> SUFFICES ASSUME power'[o] # "awake", fate'[r] = "accepted" PROVE \E k \in Machines : Keeps(k, r)'
      BY DEF Kept
    <3>1. PICK k \in Machines : Keeps(k, r)
      BY <1>2, <1>6, <2>1, <2>2 DEF Kept
    <3> QED
      BY <1>4, <1>5, <3>1, MessageIds DEF Keeps
  <2> QED
    BY <2>3, <2>4, <2>5, <2>6
<1>8. ASSUME NotYet(r)' PROVE UnknownYet(r)'
  <2>1. UnknownYet(r) /\ o # m
    BY <1>2, <1>6, <1>8 DEF NotYet, KeepInv
  <2> QED
    BY <1>1, <1>2, <1>4, <1>5, <2>1 DEF UnknownYet
<1> QED
  BY <1>7, <1>8

LEMMA InitKeepInv == SleepInit => KeepInv
<1> HAVE SleepInit
<1>1. /\ power = [m \in Machines |-> "awake"] /\ net = {} /\ fate = [r \in Records |-> "none"]
      /\ slots = [m \in Machines |-> [i \in 0 .. Slots - 1 |-> NoSlot]]
      /\ records = [m \in Machines |-> [r \in Records |->
                      IF OwnerOf[r] = m /\ r \in link.records THEN OwnRecord ELSE NoRecord]]
  BY DEF SleepInit
<1>2. OwnRecord.updateid = 0
  BY DEF OwnRecord, NoRecord
<1> SUFFICES ASSUME NEW r \in Records
             PROVE  /\ Unstirred(r) => HeldForOwner(r) /\ SentForOwner(r) /\ SentTogether(r) /\ Kept(r)
                    /\ NotYet(r) => UnknownYet(r)
  BY DEF KeepInv
<1>3. OwnerOf[r] \in Machines
  BY SleepProxyAssumption
<1>4. \A m \in Machines \ {OwnerOf[r]} : records[m][r].state = "none"
  BY <1>1, NoRecordTyped
<1>5. \A m \in Machines : records[m][r].updateid = 0
  BY <1>1, <1>2, NoRecordTyped
<1>6. HeldForOwner(r) /\ SentForOwner(r) /\ SentTogether(r) /\ Kept(r)
  BY <1>1, <1>3, <1>4, <1>5 DEF HeldForOwner, SentForOwner, SentTogether, Kept, Updates
<1>7. UnknownYet(r)
  BY <1>1, <1>3, <1>4 DEF UnknownYet, Updates
<1> QED
  BY <1>6, <1>7

LEMMA StutterKeepInv ==
  ASSUME KeepInv, UNCHANGED sleepVars PROVE KeepInv'
BY DEF sleepVars, KeepInv, Unstirred, NotYet, HeldForOwner, SentForOwner, SentTogether, Kept, Keeps, UnknownYet, Updates, Answers

LEMMA StepKeepInv == AskInv /\ KeepInv /\ [SleepNext]_sleepVars => KeepInv'
<1> SUFFICES ASSUME AskInv, KeepInv, SleepNext PROVE KeepInv'
  BY StutterKeepInv
<1>1. ASSUME NEW s \in Servers, ByProxy(s) PROVE KeepInv'
  BY <1>1, ByProxyChangesHeld, ChangesHeldKeepInv
<1>2. ASSUME NEW m \in Machines, Sleep(m) \/ DelayOver(m) \/ LimitPasses(m) \/ ActivateNetWake(m) PROVE KeepInv'
  BY <1>2, GoesToSleep, DrowsesKeepInv
<1>3. ASSUME NEW m \in Machines, mDNSCoreReadyForSleep(m) PROVE KeepInv'
  BY <1>3, ReadyForSleepHandsItsOver, HandsItsOverKeepInv
<1>4. ASSUME NEW m \in Machines, NEW i \in 0 .. Slots - 1, NetWakeResolve(m, i) PROVE KeepInv'
  BY <1>4, NetWakeResolveHandsItsOver, HandsItsOverKeepInv
<1>5. ASSUME NEW m \in Machines, Wake(m) PROVE KeepInv'
  BY <1>5, WakeKeepInv
<1>6. ASSUME NEW m \in Machines, RetrySPSRegistrations(m) PROVE KeepInv'
  BY <1>6, RetryKeepInv
<1>7. ASSUME NEW m \in Machines, NEW msg \in net, mDNSCoreReceiveUpdate(m, msg) PROVE KeepInv'
  BY <1>7, ReceiveUpdateKeepInv
<1>8. ASSUME NEW m \in Machines, NEW msg \in net, mDNSCoreReceiveUpdateR(m, msg) PROVE KeepInv'
  BY <1>8, ReceiveUpdateRKeepInv
<1> QED
  BY <1>1, <1>2, <1>3, <1>4, <1>5, <1>6, <1>7, <1>8, StepCases

\* In its owner's first sleep, a record that was accepted is held by some proxy
\* until the owner is sent for, across the sleep of proxies, updates sent again,
\* refusals and answers that overtake one another.
HeldInFirstSleep ==
  \A r \in Records : LET o == OwnerOf[r] IN
    SleepSeqNum[o] = 0 /\ power[o] # "awake" /\ fate[r] = "accepted" =>
      o \in woken \/ \E m \in Machines \ {o} : records[m][r].state # "none"

\* Every record a proxy accepted in its owner's first sleep is so covered:
\* mDNSCoreReceiveUpdate, and what becomes of the copies after it.
THEOREM FirstSleepIsCovered == SleepSpec => []HeldInFirstSleep
<1>1. KeepInv => HeldInFirstSleep
  BY DEF KeepInv, Unstirred, Kept, Keeps, HeldInFirstSleep
<1>2. SleepInit => AskInv /\ KeepInv
  BY InitAskInv, InitKeepInv
<1>3. (AskInv /\ KeepInv) /\ [SleepNext]_sleepVars => (AskInv /\ KeepInv)'
  BY StepAskInv, StepKeepInv
<1> QED
  BY <1>1, <1>2, <1>3, PTL DEF SleepSpec

===============================================================================

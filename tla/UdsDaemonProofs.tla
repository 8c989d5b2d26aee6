--------------------------- MODULE UdsDaemonProofs ---------------------------
(* Proofs about UdsDaemon: what clients have in the core is theirs, for any  *)
(* clients, requests, services and domains.                                  *)
EXTENDS UdsDaemon, FiniteSetTheorems, WellFoundedInduction, TLAPS

-----------------------------------------------------------------------------
(* Folds over finite sets.                                                    *)

LEMMA LeastExists ==
  ASSUME NEW T, T \subseteq Nat, T # {} PROVE \E x \in T : \A y \in T : x <= y
<1>1. PICK x \in T : \A y \in T : ~(<<y, x>> \in OpToRel(<, Nat))
  BY NatLessThanWellFounded, WFMin
<1>2. \A y \in T : ~(y < x)
  BY <1>1 DEF OpToRel
<1> QED
  BY <1>2

(* A fold takes a set apart: what is chosen from it, and the rest.            *)
IsChoice(ch, T) == \A s \in SUBSET T : s # {} => ch[s] \in s
Rest(ch, s) == s \ {ch[s]}

LEMMA RestIsSmaller ==
  ASSUME NEW T, IsFiniteSet(T), NEW ch, IsChoice(ch, T), NEW s \in SUBSET T, s # {}
  PROVE  /\ ch[s] \in s /\ Rest(ch, s) \in SUBSET T
         /\ Cardinality(s) \in Nat /\ Cardinality(Rest(ch, s)) \in Nat
         /\ Cardinality(Rest(ch, s)) + 1 = Cardinality(s)
<1>1. ch[s] \in s
  BY DEF IsChoice
<1>2. IsFiniteSet(s)
  BY FS_Subset
<1>3. Cardinality(Rest(ch, s)) = Cardinality(s) - 1 /\ IsFiniteSet(Rest(ch, s))
  BY <1>1, <1>2, FS_RemoveElement DEF Rest
<1>4. Cardinality(Rest(ch, s)) \in Nat /\ Cardinality(s) \in Nat
  BY <1>2, <1>3, FS_CardinalityType
<1> QED
  BY <1>1, <1>3, <1>4 DEF Rest

(* A property of sets that comes from the rest of a set to the set holds of   *)
(* all of a finite set.                                                       *)
LEMMA RestInduction ==
  ASSUME NEW T, IsFiniteSet(T), NEW ch, IsChoice(ch, T), NEW Q \in SUBSET (SUBSET T), {} \in Q,
         \A s \in SUBSET T : s # {} /\ Rest(ch, s) \in Q => s \in Q
  PROVE  T \in Q
<1> DEFINE Sizes == {n \in Nat : \E s \in SUBSET T : s \notin Q /\ Cardinality(s) = n}
<1>1. SUFFICES ASSUME T \notin Q PROVE FALSE
  OBVIOUS
<1>2. Cardinality(T) \in Sizes
  BY <1>1, FS_CardinalityType
<1>3. PICK n \in Sizes : \A k \in Sizes : n <= k
  <2>1. Sizes \subseteq Nat /\ Sizes # {}
    BY <1>2
  <2> HIDE DEF Sizes
  <2> QED
    BY <2>1, LeastExists
<1>4. PICK s \in SUBSET T : s \notin Q /\ Cardinality(s) = n
  OBVIOUS
<1>5. s # {}
  BY <1>4
<1>6. Rest(ch, s) \in SUBSET T /\ Cardinality(Rest(ch, s)) \in Nat /\ Cardinality(Rest(ch, s)) + 1 = n
  BY <1>4, <1>5, RestIsSmaller
<1>7. Rest(ch, s) \notin Q
  BY <1>4, <1>5
<1>8. Cardinality(Rest(ch, s)) \in Sizes
  BY <1>6, <1>7
<1> QED
  BY <1>3, <1>6, <1>8

(* What a fold with the step G makes of each part of a finite set.            *)
FoldsAs(f, T, ch, b, G) ==
  \A s \in SUBSET T : f[s] = IF s = {} THEN b ELSE G[<<ch[s], f[Rest(ch, s)]>>]

LEMMA FoldExists ==
  ASSUME NEW T, IsFiniteSet(T), NEW ch, IsChoice(ch, T), NEW D, NEW b \in D, NEW G \in [T \X D -> D]
  PROVE  \E f \in [SUBSET T -> D] : FoldsAs(f, T, ch, b, G)
<1> DEFINE Small(n) == {s \in SUBSET T : Cardinality(s) <= n}
           Right(n, f) == \A s \in Small(n) : f[s] = IF s = {} THEN b ELSE G[<<ch[s], f[Rest(ch, s)]>>]
           Bad == {n \in Nat : ~ \E f \in [Small(n) -> D] : Right(n, f)}
<1>1. Bad = {}
  <2>1. SUFFICES ASSUME Bad # {} PROVE FALSE
    OBVIOUS
  <2>2. PICK n \in Bad : \A k \in Bad : n <= k
    <3>1. Bad \subseteq Nat
      OBVIOUS
    <3> HIDE DEF Bad
    <3> QED
      BY <2>1, <3>1, LeastExists
  <2>3. n \in Nat
    BY <2>2
  <2>6. \A s \in SUBSET T : Cardinality(s) <= 0 => s = {}
    <3> SUFFICES ASSUME NEW s \in SUBSET T, s # {} PROVE ~(Cardinality(s) <= 0)
      OBVIOUS
    <3>1. Cardinality(s) \in Nat /\ Cardinality(Rest(ch, s)) \in Nat /\ Cardinality(Rest(ch, s)) + 1 = Cardinality(s)
      BY RestIsSmaller
    <3> QED
      BY <3>1
  <2>4. CASE n = 0
    <3> DEFINE f == [s \in Small(0) |-> b]
    <3>1. f \in [Small(0) -> D] /\ Right(0, f)
      BY <2>6
    <3> QED
      BY <2>4, <3>1
  <2>5. CASE n # 0
    <3>1. n - 1 \in Nat /\ n - 1 \notin Bad
      <4>1. n - 1 \in Nat /\ ~(n <= n - 1)
        BY <2>3, <2>5
      <4>2. \A k \in Bad : n <= k
        BY <2>2
      <4> HIDE DEF Bad
      <4> QED
        BY <4>1, <4>2
    <3>2. PICK f \in [Small(n - 1) -> D] : Right(n - 1, f)
      BY <3>1
    <3> DEFINE g == [s \in Small(n) |-> IF s = {} THEN b ELSE G[<<ch[s], f[Rest(ch, s)]>>]]
    <3>3. \A s \in Small(n) : s # {} => ch[s] \in T /\ Rest(ch, s) \in Small(n - 1)
      <4> TAKE s \in Small(n)
      <4> HAVE s # {}
      <4>1. ch[s] \in s /\ Rest(ch, s) \in SUBSET T /\ Cardinality(s) \in Nat /\ Cardinality(Rest(ch, s)) \in Nat
            /\ Cardinality(Rest(ch, s)) + 1 = Cardinality(s)
        BY RestIsSmaller
      <4> QED
        BY <2>3, <4>1
    <3>4. g \in [Small(n) -> D]
      BY <3>3
    <3>5. \A s \in Small(n - 1) : s \in Small(n) /\ g[s] = f[s]
      <4>1. \A s \in Small(n - 1) : s \in Small(n)
        <5> TAKE s \in Small(n - 1)
        <5>1. Cardinality(s) \in Nat
          BY FS_Subset, FS_CardinalityType
        <5> QED
          BY <2>3, <5>1
      <4> QED
        BY <3>2, <4>1
    <3>6. Right(n, g)
      BY <3>3, <3>5
    <3> QED
      BY <2>3, <3>4, <3>6
  <2> QED
    BY <2>4, <2>5
<1>2. Cardinality(T) \in Nat
  BY FS_CardinalityType
<1>3. \A s \in SUBSET T : s \in Small(Cardinality(T))
  BY FS_Subset
<1>4. Small(Cardinality(T)) = SUBSET T
  BY <1>3
<1>5. PICK f \in [Small(Cardinality(T)) -> D] : Right(Cardinality(T), f)
  BY <1>1, <1>2
<1> QED
  BY <1>4, <1>5 DEF FoldsAs

(* What each step of a fold keeps within DD, for the set it has come to, the  *)
(* whole does.                                                                *)
LEMMA FoldWithin ==
  ASSUME NEW T, IsFiniteSet(T), NEW ch, IsChoice(ch, T), NEW DD, NEW fold, fold[{}] \in DD[{}],
         \A s \in SUBSET T : s # {} /\ fold[Rest(ch, s)] \in DD[Rest(ch, s)] => fold[s] \in DD[s]
  PROVE  fold[T] \in DD[T]
<1> DEFINE Q == {s \in SUBSET T : fold[s] \in DD[s]}
<1>1. Q \in SUBSET (SUBSET T) /\ {} \in Q
  OBVIOUS
<1>2. \A s \in SUBSET T : s # {} /\ Rest(ch, s) \in Q => s \in Q
  BY RestIsSmaller
<1> HIDE DEF Q
<1>3. T \in Q
  BY <1>1, <1>2, RestInduction
<1> QED
  BY <1>3 DEF Q

(* A fold over a sequence takes the positions from the last.                  *)
LEMMA GreatestChosen ==
  ASSUME NEW n \in Nat
  PROVE  IsFiniteSet(1 .. n) /\ IsChoice([s \in SUBSET (1 .. n) |-> Max(s)], 1 .. n)
<1>1. IsFiniteSet(1 .. n)
  BY FS_Interval
<1>2. ASSUME NEW s \in SUBSET (1 .. n), s # {} PROVE Max(s) \in s
  <2> DEFINE T == {n - x : x \in s}
  <2>0. \A x \in s : x \in 1 .. n /\ n - x \in Nat /\ n - x \in T
    OBVIOUS
  <2>1. T \subseteq Nat /\ T # {}
    <3>1. \E x : x \in s
      BY <1>2
    <3>2. \A t \in T : \E x \in s : t = n - x
      OBVIOUS
    <3> HIDE DEF T
    <3> QED
      BY <2>0, <3>1, <3>2
  <2>2. PICK t \in T : \A y \in T : t <= y
    <3> HIDE DEF T
    <3> QED
      BY <2>1, LeastExists
  <2>3. PICK x \in s : t = n - x
    BY <2>2
  <2>4. \A y \in s : x >= y
    <3> TAKE y \in s
    <3>1. n - y \in T /\ n - y \in Nat /\ n - x \in Nat /\ x \in 1 .. n /\ y \in 1 .. n
      BY <2>0
    <3>2. n - x <= n - y
      BY <2>2, <2>3, <3>1
    <3> HIDE DEF T
    <3> QED
      BY <3>1, <3>2
  <2> QED
    BY <2>4 DEF Max
<1> QED
  BY <1>1, <1>2 DEF IsChoice
-----------------------------------------------------------------------------
(* The list of requests.                                                     *)

LEMMA RemoveIs ==
  ASSUME NEW T \in Seq(Requests), NEW i \in DOMAIN T
  PROVE  /\ RemoveAt(T, i) \in Seq(Requests) /\ Len(RemoveAt(T, i)) = Len(T) - 1
         /\ \A j \in 1 .. Len(T) - 1 : RemoveAt(T, i)[j] = IF j < i THEN T[j] ELSE T[j + 1]
<1> DEFINE a == SubSeq(T, 1, i - 1)
           b == SubSeq(T, i + 1, Len(T))
<1>1. Len(T) \in Nat /\ i \in 1 .. Len(T)
  OBVIOUS
<1>2. a \in Seq(Requests) /\ Len(a) = i - 1 /\ \A j \in 1 .. i - 1 : a[j] = T[j]
  BY <1>1
<1>3. b \in Seq(Requests) /\ Len(b) = Len(T) - i /\ \A j \in 1 .. Len(T) - i : b[j] = T[i + j]
  BY <1>1
<1>4. RemoveAt(T, i) = a \o b
  BY DEF RemoveAt
<1> HIDE DEF a, b
<1>5. a \o b \in Seq(Requests) /\ Len(a \o b) = Len(T) - 1
  BY <1>1, <1>2, <1>3
<1>6. ASSUME NEW j \in 1 .. Len(T) - 1 PROVE (a \o b)[j] = IF j < i THEN T[j] ELSE T[j + 1]
  <2>1. CASE j < i
    BY <1>1, <1>2, <1>3, <2>1
  <2>2. CASE ~(j < i)
    <3>1. j - (i - 1) \in 1 .. Len(T) - i /\ i + (j - (i - 1)) = j + 1
      BY <1>1, <2>2
    <3>2. (a \o b)[j] = b[j - (i - 1)]
      BY SMTT(30), <1>1, <1>2, <1>3, <2>2
    <3> QED
      BY <1>3, <2>2, <3>1, <3>2
  <2> QED
    BY <2>1, <2>2
<1> QED
  BY <1>4, <1>5, <1>6

LEMMA RemoveFirstIs ==
  ASSUME NEW T \in Seq(Requests), IsInjective(T), NEW r
  PROVE  /\ RemoveFirst(T, r) \in Seq(Requests) /\ IsInjective(RemoveFirst(T, r))
         /\ Range(RemoveFirst(T, r)) = Range(T) \ {r}
<1> DEFINE I == {i \in 1 .. Len(T) : T[i] = r}
<1>1. CASE I = {}
  <2>1. RemoveFirst(T, r) = T /\ r \notin Range(T)
    BY <1>1 DEF RemoveFirst, Range
  <2> QED
    BY <2>1
<1>2. CASE I # {}
  <2> DEFINE i == Min(I)
             U == RemoveAt(T, i)
  <2>1. i \in I
    <3>1. PICK x \in I : \A y \in I : x <= y
      <4>1. I \subseteq Nat
        OBVIOUS
      <4> HIDE DEF I
      <4> QED
        BY <1>2, <4>1, LeastExists
    <3> QED
      BY <3>1 DEF Min
  <2>2. RemoveFirst(T, r) = U
    BY <1>2 DEF RemoveFirst, SelectInSeq
  <2>3. i \in DOMAIN T /\ T[i] = r /\ Len(T) \in Nat /\ DOMAIN T = 1 .. Len(T)
    BY <2>1
  <2> HIDE DEF I, i
  <2>4. U \in Seq(Requests) /\ Len(U) = Len(T) - 1
        /\ \A j \in 1 .. Len(T) - 1 : U[j] = IF j < i THEN T[j] ELSE T[j + 1]
    BY <2>3, RemoveIs
  <2> HIDE DEF U
  <2>5. DOMAIN U = 1 .. Len(T) - 1
    BY <2>4
  <2>6. \A j \in 1 .. Len(T) - 1 : (IF j < i THEN j ELSE j + 1) \in (1 .. Len(T)) \ {i}
    BY <2>3
  <2>7. IsInjective(U)
    <3> SUFFICES ASSUME NEW x \in 1 .. Len(T) - 1, NEW y \in 1 .. Len(T) - 1, U[x] = U[y] PROVE x = y
      BY <2>5 DEF IsInjective
    <3>1. T[IF x < i THEN x ELSE x + 1] = T[IF y < i THEN y ELSE y + 1]
      BY <2>4
    <3>2. (IF x < i THEN x ELSE x + 1) = (IF y < i THEN y ELSE y + 1)
      BY <2>3, <2>6, <3>1 DEF IsInjective
    <3> QED
      BY <2>3, <3>2
  <2>8. ASSUME NEW j \in 1 .. Len(T) - 1 PROVE U[j] \in Range(T) \ {r}
    <3>1. U[j] = T[IF j < i THEN j ELSE j + 1]
      BY <2>4
    <3> QED
      BY <2>3, <2>6, <3>1 DEF IsInjective, Range
  <2>9. ASSUME NEW k \in (1 .. Len(T)) \ {i} PROVE T[k] \in Range(U)
    <3> DEFINE j == IF k < i THEN k ELSE k - 1
    <3>1. j \in 1 .. Len(T) - 1 /\ k = IF j < i THEN j ELSE j + 1
      BY <2>3
    <3>2. U[j] = T[k]
      BY <2>4, <3>1
    <3> QED
      BY <2>5, <3>1, <3>2 DEF Range
  <2>10. Range(U) = Range(T) \ {r}
    BY <2>3, <2>5, <2>8, <2>9 DEF Range
  <2> QED
    BY <2>2, <2>4, <2>7, <2>10
<1> QED
  BY <1>1, <1>2

LEMMA AppendIs ==
  ASSUME NEW T \in Seq(Requests), IsInjective(T), NEW r \in Requests, r \notin Range(T)
  PROVE  /\ Append(T, r) \in Seq(Requests) /\ IsInjective(Append(T, r))
         /\ Range(Append(T, r)) = Range(T) \cup {r}
<1> DEFINE U == Append(T, r)
<1>1. /\ U \in Seq(Requests) /\ Len(T) \in Nat /\ DOMAIN T = 1 .. Len(T) /\ DOMAIN U = 1 .. Len(T) + 1
      /\ U[Len(T) + 1] = r /\ \A j \in 1 .. Len(T) : U[j] = T[j]
  OBVIOUS
<1> HIDE DEF U
<1>2. \A j \in 1 .. Len(T) + 1 : j = Len(T) + 1 \/ j \in 1 .. Len(T)
  BY <1>1
<1>3. \A j \in 1 .. Len(T) : U[j] # r
  BY <1>1 DEF Range
<1>4. IsInjective(U)
  BY <1>1, <1>2, <1>3 DEF IsInjective
<1>5. Range(U) = Range(T) \cup {r}
  BY <1>1, <1>2 DEF Range
<1> QED
  BY <1>1, <1>4, <1>5 DEF U

-----------------------------------------------------------------------------
(* What the daemon keeps to.                                                 *)

HoldsIn(n, r) ==
  LET q == n.req[r] IN
  CASE q.op = "browse" -> q.browsers
    [] q.op = "resolve" -> {"srv", "txt"}
    [] q.op \in {"query", "addrinfo"} -> q.context
    [] q.op = "enum" -> {"all", "default"}
    [] q.op = "map" -> {"map"}
    [] OTHER -> {}

(* A service that is there has a request, and one with a request has a       *)
(* request that registers services.                                          *)
Owned(s) ==
  /\ s.state \in {"probing", "registered"} \/ s.Conflict => s.request # Nobody
  /\ s.state = "free" => s.request = Nobody

ServicesAreOwned(n) ==
  /\ \A i \in Instances : n.inst[i].request # Nobody => n.inst[i].request \in OfOp(n, "register")
  /\ \A i \in Instances : Owned(n.inst[i])

ProperRequest(q) ==
  /\ q.op # "connection" => q.reg_recs = {}
  /\ q.op = "connection" => q.primary = Nobody
  /\ q.op = "query" => q.context \subseteq {"q"}
  /\ q.op = "addrinfo" => q.context \subseteq {"q4", "q6"}

RequestsAreProper(n) ==
  /\ IsInjective(n.all_requests)
  /\ \A r \in Requests \ Live(n) : n.req[r].op = "none"
  /\ \A r \in Requests : ProperRequest(n.req[r])

CoreIsTheirs(n) ==
  /\ \A r \in Requests, k \in Kinds : <<r, k>> \in n.core <=> r \in Live(n) /\ k \in HoldsIn(n, r)
  /\ \A r \in Requests, k \in Keys : <<r, k>> \in n.records <=> r \in Live(n) /\ k \in n.req[r].reg_recs

Good(n) == RequestsAreProper(n) /\ ServicesAreOwned(n) /\ CoreIsTheirs(n)

(* The inductive invariant.                                                  *)
DaemonInv == TypeOK /\ Good(d)

-----------------------------------------------------------------------------
(* Steps that leave alone what requests have in the core.                    *)

Alike(p, q) ==
  /\ q.op = p.op /\ q.primary = p.primary /\ q.context = p.context /\ q.browsers = p.browsers
  /\ q.reg_recs = p.reg_recs

Still(n, m) ==
  /\ m \in Daemon
  /\ m.all_requests = n.all_requests /\ m.core = n.core /\ m.records = n.records
  /\ \A r \in Requests : Alike(n.req[r], m.req[r])

LEMMA StillIsTransitive ==
  ASSUME NEW n, NEW m, NEW k, Still(n, m), Still(m, k) PROVE Still(n, k)
  BY DEF Still, Alike

LEMMA LiveAreRequests ==
  ASSUME NEW n \in Daemon
  PROVE  Live(n) \subseteq Requests /\ n.all_requests \in Seq(Requests)
<1>1. n.all_requests \in Seq(Requests)
  BY DEF Daemon
<1> QED
  BY <1>1 DEF Live, Range

LEMMA StillKeeps ==
  ASSUME NEW n \in Daemon, NEW m, Still(n, m)
  PROVE  /\ Live(m) = Live(n) /\ \A op : OfOp(m, op) = OfOp(n, op)
         /\ \A r \in Requests : HoldsIn(m, r) = HoldsIn(n, r)
<1>1. Live(m) = Live(n)
  BY DEF Still, Live
<1>2. \A op : OfOp(m, op) = OfOp(n, op)
  BY <1>1, LiveAreRequests DEF Still, Alike, OfOp
<1>3. \A r \in Requests : HoldsIn(m, r) = HoldsIn(n, r)
  BY DEF Still, Alike, HoldsIn
<1> QED
  BY <1>1, <1>2, <1>3

LEMMA StillIsGood ==
  ASSUME NEW n \in Daemon, NEW m, Still(n, m), Good(n), ServicesAreOwned(m)
  PROVE  Good(m)
<1>2. Live(m) = Live(n) /\ \A r \in Live(n) : r \in Requests
  BY StillKeeps, LiveAreRequests
<1>3. RequestsAreProper(m)
  BY <1>2 DEF Good, RequestsAreProper, ProperRequest, Still, Alike
<1>4. CoreIsTheirs(m)
  BY <1>2, StillKeeps DEF Good, CoreIsTheirs, Still, Alike
<1> QED
  BY <1>3, <1>4 DEF Good

LEMMA PutRequest ==
  ASSUME NEW n \in Daemon, NEW r, NEW q, r \in Requests => q \in RequestState
  PROVE  LET m == [n EXCEPT !.req[r] = q] IN
         /\ m \in Daemon /\ m.all_requests = n.all_requests /\ m.core = n.core /\ m.records = n.records
         /\ m.inst = n.inst /\ m.given = n.given /\ m.req = [n.req EXCEPT ![r] = q]
<1>1. [n.req EXCEPT ![r] = q] \in [Requests -> RequestState]
  BY DEF Daemon
<1> QED
  BY <1>1 DEF Daemon

LEMMA PutInstance ==
  ASSUME NEW n \in Daemon, NEW i, NEW s, i \in Instances => s \in ServiceInstance
  PROVE  LET m == [n EXCEPT !.inst[i] = s] IN
         /\ m \in Daemon /\ m.all_requests = n.all_requests /\ m.core = n.core /\ m.records = n.records
         /\ m.req = n.req /\ m.given = n.given /\ m.inst = [n.inst EXCEPT ![i] = s]
<1>1. [n.inst EXCEPT ![i] = s] \in [Instances -> ServiceInstance]
  BY DEF Daemon
<1> QED
  BY <1>1 DEF Daemon

-----------------------------------------------------------------------------
(* Replies, and what becomes of a service, are such steps.                   *)

Calm(n, m) == Still(n, m) /\ (ServicesAreOwned(n) => ServicesAreOwned(m))

LEMMA CalmIsTransitive ==
  ASSUME NEW n, NEW m, NEW k, Calm(n, m), Calm(m, k) PROVE Calm(n, k)
  BY StillIsTransitive DEF Calm

LEMMA CalmIsReflexive ==
  ASSUME NEW n \in Daemon PROVE Calm(n, n)
  BY DEF Calm, Still, Alike

LEMMA CalmIsGood ==
  ASSUME NEW n \in Daemon, NEW m, Calm(n, m), Good(n)
  PROVE  Good(m) /\ m \in Daemon
<1>1. ServicesAreOwned(m)
  BY DEF Good, Calm
<1> QED
  BY <1>1, StillIsGood DEF Calm, Still

(* A step that changes a request in what is said to its client only.         *)
LEMMA PutRequestIsCalm ==
  ASSUME NEW n \in Daemon, NEW r, NEW q, r \in Requests => q \in RequestState /\ Alike(n.req[r], q)
  PROVE  LET m == [n EXCEPT !.req[r] = q] IN Calm(n, m) /\ m.inst = n.inst
<1> DEFINE m == [n EXCEPT !.req[r] = q]
<1>1. /\ m \in Daemon /\ m.all_requests = n.all_requests /\ m.core = n.core /\ m.records = n.records
      /\ m.inst = n.inst /\ m.req = [n.req EXCEPT ![r] = q]
  BY PutRequest
<1>2. n.req \in [Requests -> RequestState]
  BY DEF Daemon
<1> HIDE DEF m
<1>3. Still(n, m)
  BY <1>1, <1>2 DEF Still, Alike
<1>4. \A op : OfOp(m, op) = OfOp(n, op)
  BY <1>3, StillKeeps
<1> QED
  BY <1>1, <1>3, <1>4 DEF Calm, ServicesAreOwned, m

(* One that changes a service: it keeps its request, or loses it.            *)
LEMMA PutInstanceIsCalm ==
  ASSUME NEW n \in Daemon, NEW i \in Instances, NEW s \in ServiceInstance,
         s.request \in {n.inst[i].request, Nobody} \/ s.request \in OfOp(n, "register"),
         Owned(n.inst[i]) => Owned(s)
  PROVE  LET m == [n EXCEPT !.inst[i] = s] IN Calm(n, m) /\ m.req = n.req /\ m.inst = [n.inst EXCEPT ![i] = s]
<1> DEFINE m == [n EXCEPT !.inst[i] = s]
<1>1. /\ m \in Daemon /\ m.all_requests = n.all_requests /\ m.core = n.core /\ m.records = n.records
      /\ m.req = n.req /\ m.inst = [n.inst EXCEPT ![i] = s]
  BY PutInstance
<1>2. n.inst \in [Instances -> ServiceInstance]
  BY DEF Daemon
<1> HIDE DEF m
<1>3. Still(n, m)
  BY <1>1 DEF Still, Alike
<1>4. OfOp(m, "register") = OfOp(n, "register")
  BY <1>3, StillKeeps
<1>5. ASSUME ServicesAreOwned(n) PROVE ServicesAreOwned(m)
  <2> SUFFICES ASSUME NEW j \in Instances
               PROVE  /\ m.inst[j].request # Nobody => m.inst[j].request \in OfOp(n, "register")
                      /\ Owned(m.inst[j])
    BY <1>4 DEF ServicesAreOwned
  <2>1. m.inst[j] = IF j = i THEN s ELSE n.inst[j]
    BY <1>1, <1>2
  <2> QED
    BY <1>5, <2>1 DEF ServicesAreOwned
<1> QED
  BY <1>1, <1>3, <1>5 DEF Calm, m

Sayings == Domains \X (Names \cup {Found})

LEMMA ReplyIsCalm ==
  ASSUME NEW n \in Daemon, NEW r
  PROVE  Calm(n, append_reply(n, r)) /\ append_reply(n, r).inst = n.inst
<1> DEFINE p == IF n.req[r].primary = Nobody THEN r ELSE n.req[r].primary
           q == [n.req[p] EXCEPT !.replies = IF @ = MaxReplies THEN @ ELSE @ + 1]
<1>1. append_reply(n, r) = [n EXCEPT !.req[p] = q]
  BY DEF append_reply
<1>2. ASSUME p \in Requests PROVE q \in RequestState /\ Alike(n.req[p], q)
  <2>1. n.req[p] \in RequestState
    BY <1>2 DEF Daemon
  <2> HIDE DEF p
  <2> QED
    BY <2>1, UdsAssumption DEF RequestState, Alike
<1> HIDE DEF p, q
<1> QED
  BY <1>1, <1>2, PutRequestIsCalm

LEMMA TellingIsCalm ==
  ASSUME NEW n \in Daemon, NEW r, NEW t, r \in Requests => t \subseteq Sayings
  PROVE  LET m == [n EXCEPT !.req[r].told = t]
         IN  Calm(n, append_reply(m, r)) /\ append_reply(m, r).inst = n.inst
<1> DEFINE q == [n.req[r] EXCEPT !.told = t]
           m == [n EXCEPT !.req[r] = q]
<1>1. ASSUME r \in Requests PROVE q \in RequestState /\ Alike(n.req[r], q)
  <2>1. n.req[r] \in RequestState
    BY <1>1 DEF Daemon
  <2> QED
    BY <1>1, <2>1 DEF RequestState, Alike, Sayings
<1> HIDE DEF q
<1>2. Calm(n, m) /\ m.inst = n.inst
  BY <1>1, PutRequestIsCalm
<1>3. m \in Daemon
  BY <1>2 DEF Calm, Still
<1>4. Calm(m, append_reply(m, r)) /\ append_reply(m, r).inst = m.inst
  BY <1>3, ReplyIsCalm
<1>5. m = [n EXCEPT !.req[r].told = t]
  BY DEF q
<1> HIDE DEF m
<1> QED
  BY <1>2, <1>4, <1>5, CalmIsTransitive

LEMMA TellAddIsCalm ==
  ASSUME NEW n \in Daemon, NEW r \in Requests, NEW what \in Sayings
  PROVE  Calm(n, TellAdd(n, r, what)) /\ TellAdd(n, r, what).inst = n.inst
<1> DEFINE t == n.req[r].told \cup {what}
<1>1. t \subseteq Sayings
  <2>1. n.req[r] \in RequestState
    BY DEF Daemon
  <2> QED
    BY <2>1 DEF RequestState, Sayings
<1>2. TellAdd(n, r, what) = append_reply([n EXCEPT !.req[r].told = t], r)
  BY DEF TellAdd
<1> HIDE DEF t
<1>3. Calm(n, append_reply([n EXCEPT !.req[r].told = t], r))
      /\ append_reply([n EXCEPT !.req[r].told = t], r).inst = n.inst
  BY <1>1, TellingIsCalm
<1> QED
  BY <1>2, <1>3

LEMMA TellRemoveIsCalm ==
  ASSUME NEW n \in Daemon, NEW r, NEW what
  PROVE  Calm(n, TellRemove(n, r, what)) /\ TellRemove(n, r, what).inst = n.inst
<1> DEFINE t == n.req[r].told \ {what}
<1>1. ASSUME r \in Requests PROVE t \subseteq Sayings
  <2>1. n.req[r] \in RequestState
    BY <1>1 DEF Daemon
  <2> QED
    BY <2>1 DEF RequestState, Sayings
<1>2. TellRemove(n, r, what) = append_reply([n EXCEPT !.req[r].told = t], r)
  BY DEF TellRemove
<1> HIDE DEF t
<1>3. Calm(n, append_reply([n EXCEPT !.req[r].told = t], r))
      /\ append_reply([n EXCEPT !.req[r].told = t], r).inst = n.inst
  BY <1>1, TellingIsCalm
<1> QED
  BY <1>2, <1>3

LEMMA InstancesTyped ==
  ASSUME NEW n \in Daemon, NEW i \in Instances
  PROVE  n.inst[i] \in ServiceInstance /\ NoInstance \in ServiceInstance
  BY UdsAssumption DEF Daemon, ServiceInstance, NoInstance, Names

(* What is told of a service leaves its request and its state alone.         *)
LEMMA RemovalIsCalm ==
  ASSUME NEW n \in Daemon, NEW i \in Instances
  PROVE  LET m == SendServiceRemovalNotification(n, i)
         IN  /\ Calm(n, m)
             /\ \A j \in Instances : /\ m.inst[j].request = n.inst[j].request
                                     /\ m.inst[j].state = n.inst[j].state
                                     /\ m.inst[j].Conflict = n.inst[j].Conflict
<1>1. CASE ~n.inst[i].clientnotified
  BY <1>1, CalmIsReflexive DEF SendServiceRemovalNotification
<1>2. CASE n.inst[i].clientnotified
  <2> DEFINE s == [n.inst[i] EXCEPT !.clientnotified = FALSE]
             x == [n EXCEPT !.inst[i] = s]
             what == <<n.inst[i].domain, n.inst[i].name>>
             r == n.inst[i].request
  <2>1. s \in ServiceInstance /\ s.request = n.inst[i].request /\ s.state = n.inst[i].state
        /\ s.Conflict = n.inst[i].Conflict /\ (Owned(n.inst[i]) => Owned(s))
    BY ZenonT(60), InstancesTyped DEF ServiceInstance, Owned
  <2>2. SendServiceRemovalNotification(n, i) = TellRemove(x, r, what)
    BY <1>2 DEF SendServiceRemovalNotification
  <2> HIDE DEF s, what, r
  <2>3. Calm(n, x) /\ x.inst = [n.inst EXCEPT ![i] = s]
    BY <2>1, PutInstanceIsCalm
  <2>4. x \in Daemon /\ n.inst \in [Instances -> ServiceInstance]
    BY <2>3 DEF Calm, Still, Daemon
  <2> HIDE DEF x
  <2>5. Calm(x, TellRemove(x, r, what)) /\ TellRemove(x, r, what).inst = x.inst
    BY <2>4, TellRemoveIsCalm
  <2> QED
    BY <2>1, <2>2, <2>3, <2>4, <2>5, CalmIsTransitive
<1> QED
  BY <1>1, <1>2

LEMMA FreeInstanceIsCalm ==
  ASSUME NEW n \in Daemon, NEW i \in Instances
  PROVE  LET m == FreeInstance(n, i)
         IN  Calm(n, m) /\ m.inst = [n.inst EXCEPT ![i] = NoInstance]
<1>1. NoInstance \in ServiceInstance /\ NoInstance.request = Nobody /\ Owned(NoInstance)
  BY InstancesTyped DEF NoInstance, Owned
<1>2. FreeInstance(n, i) = [n EXCEPT !.inst[i] = NoInstance]
  BY DEF FreeInstance
<1> QED
  BY <1>1, <1>2, PutInstanceIsCalm

LEMMA DeregisterIsCalm ==
  ASSUME NEW n \in Daemon, NEW i \in Instances
  PROVE  LET m == DeregisterService(n, i)
         IN  Calm(n, m) /\ m.inst = [n.inst EXCEPT ![i] = [n.inst[i] EXCEPT !.state = "dying", !.Conflict = FALSE]]
<1> DEFINE s == [n.inst[i] EXCEPT !.state = "dying", !.Conflict = FALSE]
<1>1. s \in ServiceInstance /\ s.request = n.inst[i].request /\ Owned(s)
  BY ZenonT(60), InstancesTyped DEF ServiceInstance, Owned
<1>2. DeregisterService(n, i) = [n EXCEPT !.inst[i] = s]
  BY DEF DeregisterService
<1> HIDE DEF s
<1>3. Calm(n, [n EXCEPT !.inst[i] = s]) /\ [n EXCEPT !.inst[i] = s].inst = [n.inst EXCEPT ![i] = s]
  BY <1>1, PutInstanceIsCalm
<1> QED
  BY <1>2, <1>3 DEF s

LEMMA ReregisterIsCalm ==
  ASSUME NEW n \in Daemon, NEW i \in Instances, NEW name \in Names, n.inst[i].request # Nobody
  PROVE  Calm(n, Reregister(n, i, name))
<1> DEFINE s == [n.inst[i] EXCEPT !.state = "probing", !.Conflict = FALSE, !.name = name]
<1>1. s \in ServiceInstance /\ s.request = n.inst[i].request /\ Owned(s)
  BY ZenonT(60), InstancesTyped DEF ServiceInstance, Owned
<1>2. Reregister(n, i, name) = [n EXCEPT !.inst[i] = s]
  BY DEF Reregister
<1> HIDE DEF s
<1> QED
  BY <1>1, <1>2, PutInstanceIsCalm

LEMMA AbandonIsCalm ==
  ASSUME NEW n \in Daemon, NEW i \in Instances
  PROVE  LET m == Abandon(n, i)
         IN  /\ Calm(n, m) /\ m.inst[i].request = Nobody
             /\ \A j \in Instances \ {i} : m.inst[j] = n.inst[j]
<1>1. n.inst \in [Instances -> ServiceInstance]
  BY DEF Daemon
<1>2. CASE n.inst[i].state = "unregistered"
  <2>1. Calm(n, FreeInstance(n, i)) /\ FreeInstance(n, i).inst = [n.inst EXCEPT ![i] = NoInstance]
    BY FreeInstanceIsCalm
  <2> QED
    BY <1>1, <1>2, <2>1 DEF Abandon, NoInstance
<1>3. CASE n.inst[i].state # "unregistered"
  <2> DEFINE s == [n.inst[i] EXCEPT !.request = Nobody, !.state = "dying", !.Conflict = FALSE]
  <2>1. s \in ServiceInstance /\ s.request = Nobody /\ Owned(s)
    BY ZenonT(60), InstancesTyped DEF ServiceInstance, Owned
  <2>2. Abandon(n, i) = [n EXCEPT !.inst[i] = s]
    BY ZenonT(60), <1>1, <1>3 DEF Abandon, DeregisterService, Daemon
  <2> HIDE DEF s
  <2>3. Calm(n, [n EXCEPT !.inst[i] = s]) /\ [n EXCEPT !.inst[i] = s].inst = [n.inst EXCEPT ![i] = s]
    BY <2>1, PutInstanceIsCalm
  <2> QED
    BY <1>1, <2>1, <2>2, <2>3
<1> QED
  BY <1>2, <1>3

LEMMA ServiceFreedIsCalm ==
  ASSUME NEW n \in Daemon, NEW i \in Instances
  PROVE  Calm(n, ServiceFreed(n, i))
<1>1. CASE ~(n.inst[i].request # Nobody /\ n.inst[i].renameonmemfree)
  <2>1. ServiceFreed(n, i) = FreeInstance(n, i)
    BY <1>1 DEF ServiceFreed
  <2> QED
    BY <2>1, FreeInstanceIsCalm
<1>2. CASE n.inst[i].request # Nobody /\ n.inst[i].renameonmemfree
  <2> DEFINE s == [n.inst[i] EXCEPT !.renameonmemfree = FALSE]
             x == [n EXCEPT !.inst[i] = s]
             name == n.req[n.inst[i].request].name
  <2>1. s \in ServiceInstance /\ s.request = n.inst[i].request /\ s.state = n.inst[i].state
        /\ s.Conflict = n.inst[i].Conflict /\ n.inst[i].request \in Requests
        /\ (Owned(n.inst[i]) => Owned(s))
    BY ZenonT(60), <1>2, InstancesTyped DEF ServiceInstance, Owned
  <2>2. name \in Names
    BY <2>1 DEF Daemon, RequestState
  <2>3. ServiceFreed(n, i) = Reregister(x, i, name)
    BY <1>2 DEF ServiceFreed
  <2> HIDE DEF s, name
  <2>4. Calm(n, x) /\ x.inst = [n.inst EXCEPT ![i] = s]
    BY <2>1, PutInstanceIsCalm
  <2>5. x \in Daemon /\ n.inst \in [Instances -> ServiceInstance]
    BY <2>4 DEF Calm, Still, Daemon
  <2> HIDE DEF x
  <2>6. x.inst[i].request # Nobody
    BY <1>2, <2>1, <2>4, <2>5
  <2>7. Calm(x, Reregister(x, i, name))
    BY <2>2, <2>5, <2>6, ReregisterIsCalm
  <2> QED
    BY <2>3, <2>4, <2>7, CalmIsTransitive
<1> QED
  BY <1>1, <1>2

LEMMA RenameInstanceIsCalm ==
  ASSUME NEW n \in Daemon, NEW i \in Instances
  PROVE  Calm(n, RenameInstance(n, i))
<1> DEFINE s == [n.inst[i] EXCEPT !.renameonmemfree = TRUE]
           x == [n EXCEPT !.inst[i] = s]
           n1 == SendServiceRemovalNotification(x, i)
<1>1. s \in ServiceInstance /\ s.request = n.inst[i].request /\ s.state = n.inst[i].state
      /\ s.Conflict = n.inst[i].Conflict /\ (Owned(n.inst[i]) => Owned(s))
  BY ZenonT(60), InstancesTyped DEF ServiceInstance, Owned
<1>2. RenameInstance(n, i) = IF n1.inst[i].state = "unregistered" THEN ServiceFreed(n1, i) ELSE DeregisterService(n1, i)
  BY DEF RenameInstance
<1> HIDE DEF s
<1>3. Calm(n, x)
  BY <1>1, PutInstanceIsCalm
<1>4. x \in Daemon
  BY <1>3 DEF Calm, Still
<1> HIDE DEF x
<1>5. Calm(x, n1)
  BY <1>4, RemovalIsCalm
<1>6. n1 \in Daemon
  BY <1>5 DEF Calm, Still
<1> HIDE DEF n1
<1>7. Calm(n1, ServiceFreed(n1, i)) /\ Calm(n1, DeregisterService(n1, i))
  BY <1>6, ServiceFreedIsCalm, DeregisterIsCalm
<1> QED
  BY <1>2, <1>3, <1>5, <1>7, CalmIsTransitive

LEMMA DeviceInfoIsCalm ==
  ASSUME NEW n \in Daemon
  PROVE  Calm(n, UpdateDeviceInfoRecord(n)) /\ UpdateDeviceInfoRecord(n).inst = n.inst
<1> DEFINE m == UpdateDeviceInfoRecord(n)
<1>1. m \in Daemon
  BY DEF Daemon, UpdateDeviceInfoRecord
<1>2. m.all_requests = n.all_requests /\ m.core = n.core /\ m.records = n.records /\ m.req = n.req
      /\ m.inst = n.inst
  BY DEF Daemon, UpdateDeviceInfoRecord
<1> HIDE DEF m
<1>3. Still(n, m)
  BY <1>1, <1>2 DEF Still, Alike
<1> QED
  BY <1>2, <1>3, StillKeeps DEF Calm, ServicesAreOwned, m

LEMMA RegisterInstanceIsCalm ==
  ASSUME NEW n \in Daemon, NEW r \in OfOp(n, "register"), NEW x \in Domains
  PROVE  Calm(n, register_service_instance(n, r, x))
<1> DEFINE free == {j \in Instances : n.inst[j].state = "free"}
           i == CHOOSE j \in free : TRUE
           s == [NoInstance EXCEPT !.state = "probing", !.request = r, !.domain = x,
                                   !.name = n.req[r].name, !.txt = n.req[r].txt]
<1>1. CASE free = {} \/ \E j \in InstancesOf(n, r) : n.inst[j].domain = x
  BY <1>1, CalmIsReflexive DEF register_service_instance
<1>2. CASE ~(free = {} \/ \E j \in InstancesOf(n, r) : n.inst[j].domain = x)
  <2>1. register_service_instance(n, r, x) = [n EXCEPT !.inst[i] = s]
    BY <1>2 DEF register_service_instance
  <2>2. r \in Requests /\ r # Nobody
    BY LiveAreRequests, UdsAssumption DEF OfOp
  <2>3. n.req[r].name \in Names /\ n.req[r].txt \in 0 .. 1
    BY <2>2 DEF Daemon, RequestState
  <2>4. i \in Instances
    BY <1>2
  <2>5. s \in ServiceInstance /\ s.request = r /\ Owned(s)
    <3>1. NoInstance \in ServiceInstance
      BY <2>4, InstancesTyped
    <3> QED
      BY <2>2, <2>3, <3>1 DEF ServiceInstance, Owned
  <2> HIDE DEF s, i, free
  <2> QED
    BY <2>1, <2>2, <2>4, <2>5, PutInstanceIsCalm
<1> QED
  BY <1>1, <1>2

-----------------------------------------------------------------------------
(* Steps that keep the requests and what they are for.                       *)

Along(n, m) ==
  /\ m \in Daemon /\ m.all_requests = n.all_requests
  /\ \A r \in Requests : m.req[r].op = n.req[r].op /\ m.req[r].primary = n.req[r].primary
  /\ Good(n) => Good(m)

LEMMA AlongIsTransitive ==
  ASSUME NEW n, NEW m, NEW k, Along(n, m), Along(m, k) PROVE Along(n, k)
  BY DEF Along

LEMMA AlongIsReflexive ==
  ASSUME NEW n \in Daemon PROVE Along(n, n)
  BY DEF Along

LEMMA CalmIsAlong ==
  ASSUME NEW n \in Daemon, NEW m, Calm(n, m) PROVE Along(n, m)
  BY CalmIsGood DEF Along, Calm, Still, Alike

LEMMA AlongKeeps ==
  ASSUME NEW n \in Daemon, NEW m, Along(n, m)
  PROVE  m \in Daemon /\ \A op : OfOp(m, op) = OfOp(n, op)
<1>1. Live(m) = Live(n)
  BY DEF Along, Live
<1> QED
  BY <1>1, LiveAreRequests DEF Along, OfOp

(* A request, and what it holds in the core, change together.                *)
LEMMA PutHolding ==
  ASSUME NEW n \in Daemon, Good(n), NEW r \in Live(n), NEW q \in RequestState, NEW m \in Daemon,
         m.all_requests = n.all_requests, m.req = [n.req EXCEPT ![r] = q], m.inst = n.inst,
         ProperRequest(q), n.req[r].op = "register" => q.op = "register",
         \A x \in Requests, k \in Kinds :
           <<x, k>> \in m.core <=> IF x = r THEN k \in HoldsIn(m, r) ELSE <<x, k>> \in n.core,
         \A x \in Requests, k \in Keys :
           <<x, k>> \in m.records <=> IF x = r THEN k \in q.reg_recs ELSE <<x, k>> \in n.records
  PROVE  Good(m)
<1>1. r \in Requests /\ n.req \in [Requests -> RequestState]
  BY LiveAreRequests DEF Daemon
<1>2. Live(m) = Live(n)
  BY DEF Live
<1>3. m.req[r] = q /\ \A x \in Requests \ {r} : m.req[x] = n.req[x]
  BY <1>1
<1>4. \A x \in Requests \ {r} : HoldsIn(m, x) = HoldsIn(n, x)
  BY <1>3 DEF HoldsIn
<1>5. CoreIsTheirs(m)
  BY <1>1, <1>2, <1>3, <1>4 DEF CoreIsTheirs, Good
<1>6. RequestsAreProper(m)
  BY <1>1, <1>2, <1>3 DEF RequestsAreProper, Good
<1>7. OfOp(n, "register") \subseteq OfOp(m, "register")
  BY <1>1, <1>2, <1>3, LiveAreRequests DEF OfOp
<1>8. ServicesAreOwned(m)
  BY <1>7 DEF ServicesAreOwned, Good
<1> QED
  BY <1>5, <1>6, <1>8 DEF Good

LEMMA RequestsTyped ==
  ASSUME NEW n \in Daemon, NEW r \in Requests
  PROVE  n.req[r] \in RequestState
  BY DEF Daemon

WithRequest(n, r, q) == [n EXCEPT !.req[r] = q]
WithCore(n, c, g) == [n EXCEPT !.core = c, !.given = g]

LEMMA WithRequestIs ==
  ASSUME NEW n \in Daemon, NEW r \in Requests, NEW q \in RequestState
  PROVE  LET m == WithRequest(n, r, q) IN
         /\ m \in Daemon /\ m.all_requests = n.all_requests /\ m.core = n.core /\ m.records = n.records
         /\ m.inst = n.inst /\ m.given = n.given /\ m.req = [n.req EXCEPT ![r] = q]
<1>1. [n.req EXCEPT ![r] = q] \in [Requests -> RequestState]
  BY DEF Daemon
<1> QED
  BY <1>1 DEF Daemon, WithRequest

LEMMA WithCoreIs ==
  ASSUME NEW n \in Daemon, NEW c \in SUBSET (Requests \X Kinds), NEW g \in SUBSET n.given
  PROVE  LET m == WithCore(n, c, g) IN
         /\ m \in Daemon /\ m.all_requests = n.all_requests /\ m.core = c /\ m.records = n.records
         /\ m.inst = n.inst /\ m.given = g /\ m.req = n.req
  BY DEF Daemon, WithCore

(* Questions of a request.                                                   *)
LEMMA StartIs ==
  ASSUME NEW n \in Daemon, NEW r \in Requests, NEW k \in Kinds
  PROVE  LET m == StartQuery(n, r, k) IN
         /\ m \in Daemon /\ m.all_requests = n.all_requests /\ m.core = n.core \cup {<<r, k>>}
         /\ m.records = n.records /\ m.inst = n.inst /\ m.given = n.given /\ m.req = n.req
<1> DEFINE c == n.core \cup {<<r, k>>}
<1>1. StartQuery(n, r, k) = [n EXCEPT !.core = c]
  BY DEF StartQuery
<1>2. c \in SUBSET (Requests \X Kinds)
  BY DEF Daemon
<1>3. c = n.core \cup {<<r, k>>}
  OBVIOUS
<1> HIDE DEF c
<1> QED
  BY ZenonT(60), <1>1, <1>2, <1>3 DEF Daemon

LEMMA StopIs ==
  ASSUME NEW n \in Daemon, NEW r, NEW k
  PROVE  LET m == StopQuery(n, r, k) IN
         /\ m \in Daemon /\ m.all_requests = n.all_requests /\ m.core = n.core \ {<<r, k>>}
         /\ m.records = n.records /\ m.inst = n.inst /\ m.req = n.req
<1> DEFINE g == {y \in n.given : <<y[1], y[2]>> # <<r, k>>}
           c == n.core \ {<<r, k>>}
           m == WithCore(n, c, g)
<1>1. StopQuery(n, r, k) = m
  BY DEF StopQuery, WithCore
<1>2. g \in SUBSET n.given /\ c \in SUBSET (Requests \X Kinds)
  BY DEF Daemon
<1>3. c = n.core \ {<<r, k>>}
  OBVIOUS
<1> HIDE DEF g, c
<1>4. /\ m \in Daemon /\ m.all_requests = n.all_requests /\ m.core = c /\ m.records = n.records
      /\ m.inst = n.inst /\ m.req = n.req
  BY <1>2, WithCoreIs
<1> HIDE DEF m
<1> QED
  BY <1>1, <1>3, <1>4

LEMMA AddDomainIsAlong ==
  ASSUME NEW n \in Daemon, NEW r \in OfOp(n, "browse"), NEW x \in Domains
  PROVE  Along(n, add_domain_to_browser(n, r, x))
<1>0. r \in Live(n) /\ r \in Requests /\ n.req[r].op = "browse"
  BY LiveAreRequests DEF OfOp
<1>1. CASE x \in n.req[r].browsers
  BY <1>1, AlongIsReflexive DEF add_domain_to_browser
<1>2. CASE x \notin n.req[r].browsers
  <2> DEFINE q == [n.req[r] EXCEPT !.browsers = @ \cup {x}]
             y == [n EXCEPT !.req[r] = q]
             m == StartQuery(y, r, x)
  <2>1. q \in RequestState /\ q.op = "browse" /\ q.primary = n.req[r].primary
        /\ q.browsers = n.req[r].browsers \cup {x} /\ q.reg_recs = n.req[r].reg_recs
    BY <1>0, RequestsTyped DEF RequestState
  <2>2. add_domain_to_browser(n, r, x) = m
    BY <1>2 DEF add_domain_to_browser
  <2> HIDE DEF q
  <2>3. /\ y \in Daemon /\ y.all_requests = n.all_requests /\ y.core = n.core /\ y.records = n.records
        /\ y.inst = n.inst /\ y.req = [n.req EXCEPT ![r] = q]
    BY <2>1, PutRequest
  <2> HIDE DEF y
  <2>4. x \in Kinds
    BY DEF Kinds
  <2>5. /\ m \in Daemon /\ m.all_requests = n.all_requests /\ m.core = n.core \cup {<<r, x>>}
        /\ m.records = n.records /\ m.inst = n.inst /\ m.req = [n.req EXCEPT ![r] = q]
    BY <1>0, <2>3, <2>4, StartIs
  <2> HIDE DEF m
  <2>6. n.req \in [Requests -> RequestState]
    BY DEF Daemon
  <2>7. m.req[r] = q /\ \A z \in Requests \ {r} : m.req[z] = n.req[z]
    BY <1>0, <2>5, <2>6
  <2>8. HoldsIn(m, r) = HoldsIn(n, r) \cup {x}
    BY <1>0, <2>1, <2>7 DEF HoldsIn
  <2>9. ASSUME Good(n) PROVE Good(m)
    <3>1. ProperRequest(q)
      BY <1>0, <2>1, <2>9 DEF ProperRequest, Good, RequestsAreProper
    <3>2. \A z \in Requests, k \in Kinds :
            <<z, k>> \in m.core <=> IF z = r THEN k \in HoldsIn(m, r) ELSE <<z, k>> \in n.core
      BY <1>0, <2>5, <2>8, <2>9 DEF Good, CoreIsTheirs
    <3>3. \A z \in Requests, k \in Keys :
            <<z, k>> \in m.records <=> IF z = r THEN k \in q.reg_recs ELSE <<z, k>> \in n.records
      BY <1>0, <2>1, <2>5, <2>9 DEF Good, CoreIsTheirs
    <3> QED
      BY <1>0, <2>1, <2>5, <2>9, <3>1, <3>2, <3>3, PutHolding
  <2> QED
    BY <1>0, <2>1, <2>2, <2>5, <2>7, <2>9 DEF Along
<1> QED
  BY <1>1, <1>2

LEMMA StopBrowseIsAlong ==
  ASSUME NEW n \in Daemon, NEW r \in OfOp(n, "browse"), NEW x
  PROVE  Along(n, StopBrowseWithRemoves(n, r, x))
<1>0. r \in Live(n) /\ r \in Requests
  BY LiveAreRequests DEF OfOp
<1> DEFINE n1 == IF <<r, x, 1>> \in n.given THEN TellRemove(n, r, <<x, Found>>) ELSE n
           q == [n1.req[r] EXCEPT !.browsers = @ \ {x}]
           y == WithRequest(n1, r, q)
           m == StopQuery(y, r, x)
<1>1. StopBrowseWithRemoves(n, r, x) = m
  BY DEF StopBrowseWithRemoves, WithRequest
<1>2. Calm(n, n1)
  BY TellRemoveIsCalm, CalmIsReflexive
<1>3. Along(n, n1) /\ n1 \in Daemon
  BY <1>2, CalmIsAlong DEF Along
<1>4. r \in OfOp(n1, "browse")
  BY <1>3, AlongKeeps
<1> HIDE DEF n1
<1>5. r \in Live(n1) /\ n1.req[r].op = "browse"
  BY <1>4 DEF OfOp
<1>6. q \in RequestState /\ q.op = "browse" /\ q.primary = n1.req[r].primary
      /\ q.browsers = n1.req[r].browsers \ {x} /\ q.reg_recs = n1.req[r].reg_recs
  BY <1>0, <1>3, <1>5, RequestsTyped DEF RequestState
<1> HIDE DEF q
<1>7. /\ y \in Daemon /\ y.all_requests = n1.all_requests /\ y.core = n1.core /\ y.records = n1.records
      /\ y.inst = n1.inst /\ y.req = [n1.req EXCEPT ![r] = q]
  BY <1>0, <1>3, <1>6, WithRequestIs
<1> HIDE DEF y
<1>8. /\ m \in Daemon /\ m.all_requests = n1.all_requests /\ m.core = n1.core \ {<<r, x>>}
      /\ m.records = n1.records /\ m.inst = n1.inst /\ m.req = [n1.req EXCEPT ![r] = q]
  BY <1>7, StopIs
<1> HIDE DEF m
<1>9. n1.req \in [Requests -> RequestState]
  BY <1>3 DEF Daemon
<1>10. m.req[r] = q /\ \A z \in Requests \ {r} : m.req[z] = n1.req[z]
  BY <1>0, <1>8, <1>9
<1>11. HoldsIn(m, r) = HoldsIn(n1, r) \ {x}
  BY <1>5, <1>6, <1>10 DEF HoldsIn
<1>12. ASSUME Good(n1) PROVE Good(m)
  <2>1. ProperRequest(q)
    BY <1>0, <1>5, <1>6, <1>12 DEF ProperRequest, Good, RequestsAreProper
  <2>2. \A z \in Requests, k \in Kinds :
          <<z, k>> \in m.core <=> IF z = r THEN k \in HoldsIn(m, r) ELSE <<z, k>> \in n1.core
    BY <1>5, <1>8, <1>11, <1>12 DEF Good, CoreIsTheirs
  <2>3. \A z \in Requests, k \in Keys :
          <<z, k>> \in m.records <=> IF z = r THEN k \in q.reg_recs ELSE <<z, k>> \in n1.records
    BY <1>5, <1>6, <1>8, <1>12 DEF Good, CoreIsTheirs
  <2> QED
    BY <1>3, <1>5, <1>6, <1>8, <1>12, <2>1, <2>2, <2>3, PutHolding
<1>13. Along(n1, m)
  BY <1>0, <1>5, <1>6, <1>8, <1>10, <1>12 DEF Along
<1> QED
  BY <1>1, <1>3, <1>13, AlongIsTransitive

-----------------------------------------------------------------------------
(* The daemon's walks over services and requests.                            *)

AlongFrom(n) == {m \in Daemon : Along(n, m)}

LEMMA Goes ==
  ASSUME NEW n \in Daemon
  PROVE  /\ n \in AlongFrom(n)
         /\ \A m \in AlongFrom(n) : \A k : Along(m, k) => k \in AlongFrom(n)
         /\ \A m \in AlongFrom(n) : m \in Daemon /\ Along(n, m) /\ \A op : OfOp(m, op) = OfOp(n, op)
<1>1. n \in AlongFrom(n)
  BY AlongIsReflexive DEF AlongFrom
<1>2. ASSUME NEW m \in AlongFrom(n), NEW k, Along(m, k) PROVE k \in AlongFrom(n)
  <2>1. Along(n, m)
    BY DEF AlongFrom
  <2>2. Along(n, k)
    BY <1>2, <2>1, AlongIsTransitive
  <2> QED
    BY <2>2 DEF Along, AlongFrom
<1>3. ASSUME NEW m \in AlongFrom(n) PROVE m \in Daemon /\ Along(n, m) /\ \A op : OfOp(m, op) = OfOp(n, op)
  BY AlongKeeps DEF AlongFrom
<1> QED
  BY <1>1, <1>2, <1>3

LEMMA PartsAreFinite ==
  /\ \A s \in SUBSET Instances : IsFiniteSet(s)
  /\ \A s \in SUBSET Requests : IsFiniteSet(s)
  /\ \A s \in SUBSET Domains : IsFiniteSet(s)
  BY FS_Subset, UdsAssumption

(* Services that get another name.                                           *)
RenamedAll(b, T) == FoldSet(LAMBDA i, n : RenameInstance(n, i), b, T)

LEMMA RenamedAllWithin ==
  ASSUME NEW T, IsFiniteSet(T), NEW D, NEW b \in D, \A i \in T, n \in D : RenameInstance(n, i) \in D
  PROVE  RenamedAll(b, T) \in D
<1> DEFINE ch == [s \in SUBSET T |-> CHOOSE e \in s : TRUE]
           G == [z \in T \X D |-> RenameInstance(z[2], z[1])]
           IsFold(g) == g = [s \in SUBSET T |->
             IF s = {} THEN b
             ELSE RenameInstance(g[s \ {CHOOSE e \in s : TRUE}], CHOOSE e \in s : TRUE)]
           fold == CHOOSE g : IsFold(g)
           EE == [s \in SUBSET T |-> D]
<1>1. RenamedAll(b, T) = fold[T]
  BY DEF RenamedAll, FoldSet, MapThenFoldSet
<1>2. G \in [T \X D -> D]
  OBVIOUS
<1>3. IsChoice(ch, T) /\ \A s \in SUBSET T : ch[s] = CHOOSE e \in s : TRUE
  BY DEF IsChoice
<1>4. \A e \in T, z \in D : G[<<e, z>>] = RenameInstance(z, e)
  OBVIOUS
<1>5. \A s \in SUBSET T : EE[s] = D
  OBVIOUS
<1> HIDE DEF G, IsFold, fold, ch, EE
<1>6. PICK f \in [SUBSET T -> D] : FoldsAs(f, T, ch, b, G)
  BY <1>2, <1>3, FoldExists
<1>7. \A s \in SUBSET T : s # {} => ch[s] \in s /\ ch[s] \in T /\ Rest(ch, s) \in SUBSET T
  BY <1>3, RestIsSmaller
<1>8. \A s \in SUBSET T : s # {} => G[<<ch[s], f[Rest(ch, s)]>>] = RenameInstance(f[Rest(ch, s)], ch[s])
  BY <1>4, <1>6, <1>7
<1>9. IsFold(f)
  BY <1>3, <1>6, <1>8 DEF IsFold, FoldsAs, Rest
<1>10. IsFold(fold)
  BY <1>9 DEF fold
<1>11. fold[{}] = b /\ \A s \in SUBSET T : s # {} => fold[s] = RenameInstance(fold[Rest(ch, s)], ch[s])
  BY <1>3, <1>10 DEF IsFold, Rest
<1>12. fold[{}] \in EE[{}]
  BY <1>5, <1>11
<1>13. \A s \in SUBSET T : s # {} /\ fold[Rest(ch, s)] \in EE[Rest(ch, s)] => fold[s] \in EE[s]
  BY <1>5, <1>7, <1>11
<1>14. fold[T] \in EE[T]
  BY <1>3, <1>12, <1>13, FoldWithin
<1> QED
  BY <1>1, <1>5, <1>14

RenamedFor(n, r, x) == RenamedAll([x EXCEPT !.req[r].name = n.nicelabel], InstancesOf(x, r))

LEMMA RenamedForIsAlong ==
  ASSUME NEW n \in Daemon, NEW m \in Daemon, NEW r
  PROVE  Along(m, RenamedFor(n, r, m))
<1> DEFINE q == [m.req[r] EXCEPT !.name = n.nicelabel]
           b == [m EXCEPT !.req[r] = q]
           T == InstancesOf(m, r)
<1>1. ASSUME r \in Requests PROVE q \in RequestState /\ Alike(m.req[r], q)
  <2>1. n.nicelabel \in Names /\ m.req[r] \in RequestState
    BY <1>1 DEF Daemon
  <2> QED
    BY <2>1 DEF RequestState, Alike
<1>2. RenamedFor(n, r, m) = RenamedAll(b, T)
  BY DEF RenamedFor
<1> HIDE DEF q
<1>3. Along(m, b)
  <2>1. Calm(m, b)
    BY <1>1, PutRequestIsCalm
  <2> QED
    BY <2>1, CalmIsAlong
<1>4. T \in SUBSET Instances /\ IsFiniteSet(T)
  BY PartsAreFinite DEF InstancesOf
<1>5. b \in AlongFrom(m)
  BY <1>3, Goes
<1>6. \A i \in T, x \in AlongFrom(m) : RenameInstance(x, i) \in AlongFrom(m)
  BY <1>4, Goes, RenameInstanceIsCalm, CalmIsAlong
<1> HIDE DEF b, T
<1>7. RenamedAll(b, T) \in AlongFrom(m)
  BY <1>4, <1>5, <1>6, RenamedAllWithin
<1> QED
  BY <1>2, <1>7, Goes

(* All services that have the name of the device.                            *)
RenamedServices(n, b, T) == FoldSet(LAMBDA r, x : RenamedFor(n, r, x), b, T)

LEMMA RenamedServicesWithin ==
  ASSUME NEW n, NEW T, IsFiniteSet(T), NEW D, NEW b \in D, \A r \in T, x \in D : RenamedFor(n, r, x) \in D
  PROVE  RenamedServices(n, b, T) \in D
<1> DEFINE ch == [s \in SUBSET T |-> CHOOSE e \in s : TRUE]
           G == [z \in T \X D |-> RenamedFor(n, z[1], z[2])]
           IsFold(g) == g = [s \in SUBSET T |->
             IF s = {} THEN b
             ELSE RenamedFor(n, CHOOSE e \in s : TRUE, g[s \ {CHOOSE e \in s : TRUE}])]
           fold == CHOOSE g : IsFold(g)
           EE == [s \in SUBSET T |-> D]
<1>1. RenamedServices(n, b, T) = fold[T]
  BY DEF RenamedServices, FoldSet, MapThenFoldSet
<1>2. G \in [T \X D -> D]
  OBVIOUS
<1>3. IsChoice(ch, T) /\ \A s \in SUBSET T : ch[s] = CHOOSE e \in s : TRUE
  BY DEF IsChoice
<1>4. \A e \in T, z \in D : G[<<e, z>>] = RenamedFor(n, e, z)
  OBVIOUS
<1>5. \A s \in SUBSET T : EE[s] = D
  OBVIOUS
<1> HIDE DEF G, IsFold, fold, ch, EE
<1>6. PICK f \in [SUBSET T -> D] : FoldsAs(f, T, ch, b, G)
  BY <1>2, <1>3, FoldExists
<1>7. \A s \in SUBSET T : s # {} => ch[s] \in s /\ ch[s] \in T /\ Rest(ch, s) \in SUBSET T
  BY <1>3, RestIsSmaller
<1>8. \A s \in SUBSET T : s # {} => G[<<ch[s], f[Rest(ch, s)]>>] = RenamedFor(n, ch[s], f[Rest(ch, s)])
  BY <1>4, <1>6, <1>7
<1>9. IsFold(f)
  BY <1>3, <1>6, <1>8 DEF IsFold, FoldsAs, Rest
<1>10. IsFold(fold)
  BY <1>9 DEF fold
<1>11. fold[{}] = b /\ \A s \in SUBSET T : s # {} => fold[s] = RenamedFor(n, ch[s], fold[Rest(ch, s)])
  BY <1>3, <1>10 DEF IsFold, Rest
<1>12. fold[{}] \in EE[{}]
  BY <1>5, <1>11
<1>13. \A s \in SUBSET T : s # {} /\ fold[Rest(ch, s)] \in EE[Rest(ch, s)] => fold[s] \in EE[s]
  BY <1>5, <1>7, <1>11
<1>14. fold[T] \in EE[T]
  BY <1>3, <1>12, <1>13, FoldWithin
<1> QED
  BY <1>1, <1>5, <1>14

LEMMA RenameServicesIsAlong ==
  ASSUME NEW n \in Daemon
  PROVE  Along(n, RenameServices(n))
<1> DEFINE b == UpdateDeviceInfoRecord(n)
           T == {r \in OfOp(n, "register") : n.req[r].autoname /\ n.req[r].name # n.nicelabel}
<1>1. RenameServices(n) = RenamedServices(n, b, T)
  BY DEF RenameServices, RenamedServices, RenamedFor, RenamedAll
<1>2. b \in AlongFrom(n)
  BY DeviceInfoIsCalm, CalmIsAlong, Goes
<1>3. T \in SUBSET Requests /\ IsFiniteSet(T)
  BY PartsAreFinite, LiveAreRequests DEF OfOp
<1>4. \A r \in T, x \in AlongFrom(n) : RenamedFor(n, r, x) \in AlongFrom(n)
  BY Goes, RenamedForIsAlong
<1> HIDE DEF b, T
<1>5. RenamedServices(n, b, T) \in AlongFrom(n)
  BY <1>2, <1>3, <1>4, RenamedServicesWithin
<1> QED
  BY <1>1, <1>5, Goes

(* Services that are given up in a domain.                                   *)
AbandonedAll(b, T) == FoldSet(LAMBDA i, z : Abandon(SendServiceRemovalNotification(z, i), i), b, T)

LEMMA AbandonedAllWithin ==
  ASSUME NEW T, IsFiniteSet(T), NEW D, NEW b \in D, \A i \in T, z \in D : Abandon(SendServiceRemovalNotification(z, i), i) \in D
  PROVE  AbandonedAll(b, T) \in D
<1> DEFINE ch == [s \in SUBSET T |-> CHOOSE e \in s : TRUE]
           G == [z \in T \X D |-> Abandon(SendServiceRemovalNotification(z[2], z[1]), z[1])]
           IsFold(g) == g = [s \in SUBSET T |->
             IF s = {} THEN b
             ELSE Abandon(SendServiceRemovalNotification(g[s \ {CHOOSE e \in s : TRUE}], CHOOSE e \in s : TRUE), CHOOSE e \in s : TRUE)]
           fold == CHOOSE g : IsFold(g)
           EE == [s \in SUBSET T |-> D]
<1>1. AbandonedAll(b, T) = fold[T]
  BY DEF AbandonedAll, FoldSet, MapThenFoldSet
<1>2. G \in [T \X D -> D]
  OBVIOUS
<1>3. IsChoice(ch, T) /\ \A s \in SUBSET T : ch[s] = CHOOSE e \in s : TRUE
  BY DEF IsChoice
<1>4. \A e \in T, z \in D : G[<<e, z>>] = Abandon(SendServiceRemovalNotification(z, e), e)
  OBVIOUS
<1>5. \A s \in SUBSET T : EE[s] = D
  OBVIOUS
<1> HIDE DEF G, IsFold, fold, ch, EE
<1>6. PICK f \in [SUBSET T -> D] : FoldsAs(f, T, ch, b, G)
  BY <1>2, <1>3, FoldExists
<1>7. \A s \in SUBSET T : s # {} => ch[s] \in s /\ ch[s] \in T /\ Rest(ch, s) \in SUBSET T
  BY <1>3, RestIsSmaller
<1>8. \A s \in SUBSET T : s # {} => G[<<ch[s], f[Rest(ch, s)]>>] = Abandon(SendServiceRemovalNotification(f[Rest(ch, s)], ch[s]), ch[s])
  BY <1>4, <1>6, <1>7
<1>9. IsFold(f)
  BY <1>3, <1>6, <1>8 DEF IsFold, FoldsAs, Rest
<1>10. IsFold(fold)
  BY <1>9 DEF fold
<1>11. fold[{}] = b /\ \A s \in SUBSET T : s # {} => fold[s] = Abandon(SendServiceRemovalNotification(fold[Rest(ch, s)], ch[s]), ch[s])
  BY <1>3, <1>10 DEF IsFold, Rest
<1>12. fold[{}] \in EE[{}]
  BY <1>5, <1>11
<1>13. \A s \in SUBSET T : s # {} /\ fold[Rest(ch, s)] \in EE[Rest(ch, s)] => fold[s] \in EE[s]
  BY <1>5, <1>7, <1>11
<1>14. fold[T] \in EE[T]
  BY <1>3, <1>12, <1>13, FoldWithin
<1> QED
  BY <1>1, <1>5, <1>14

ChangedFor(x, add, r, y) ==
  IF add THEN register_service_instance(y, r, x)
  ELSE AbandonedAll(y, {i \in InstancesOf(y, r) : y.inst[i].domain = x})

LEMMA ChangedForIsAlong ==
  ASSUME NEW x \in Domains, NEW add, NEW y \in Daemon, NEW r \in OfOp(y, "register")
  PROVE  Along(y, ChangedFor(x, add, r, y))
<1>1. CASE add
  <2>1. Calm(y, register_service_instance(y, r, x))
    BY RegisterInstanceIsCalm
  <2> QED
    BY <1>1, <2>1, CalmIsAlong DEF ChangedFor
<1>2. CASE ~add
  <2> DEFINE T == {i \in InstancesOf(y, r) : y.inst[i].domain = x}
  <2>1. ChangedFor(x, add, r, y) = AbandonedAll(y, T)
    BY <1>2 DEF ChangedFor
  <2>2. T \in SUBSET Instances /\ IsFiniteSet(T)
    BY PartsAreFinite DEF InstancesOf
  <2> HIDE DEF T
  <2>3. ASSUME NEW i \in T, NEW z \in AlongFrom(y)
        PROVE  Abandon(SendServiceRemovalNotification(z, i), i) \in AlongFrom(y)
    <3>1. z \in Daemon /\ i \in Instances
      BY <2>2, Goes
    <3>2. Calm(z, SendServiceRemovalNotification(z, i))
      BY <3>1, RemovalIsCalm
    <3>3. SendServiceRemovalNotification(z, i) \in Daemon
      BY <3>2 DEF Calm, Still
    <3>4. Calm(SendServiceRemovalNotification(z, i), Abandon(SendServiceRemovalNotification(z, i), i))
      BY <3>1, <3>3, AbandonIsCalm
    <3> QED
      BY <3>1, <3>2, <3>4, CalmIsTransitive, CalmIsAlong, Goes
  <2>4. AbandonedAll(y, T) \in AlongFrom(y)
    BY <2>2, <2>3, Goes, AbandonedAllWithin
  <2> QED
    BY <2>1, <2>4, Goes
<1> QED
  BY <1>1, <1>2

(* Services whose default domains change.                                    *)
ChangedServices(x, add, b, T) == FoldSet(LAMBDA r, y : ChangedFor(x, add, r, y), b, T)

LEMMA ChangedServicesWithin ==
  ASSUME NEW x, NEW add, NEW T, IsFiniteSet(T), NEW D, NEW b \in D, \A r \in T, y \in D : ChangedFor(x, add, r, y) \in D
  PROVE  ChangedServices(x, add, b, T) \in D
<1> DEFINE ch == [s \in SUBSET T |-> CHOOSE e \in s : TRUE]
           G == [z \in T \X D |-> ChangedFor(x, add, z[1], z[2])]
           IsFold(g) == g = [s \in SUBSET T |->
             IF s = {} THEN b
             ELSE ChangedFor(x, add, CHOOSE e \in s : TRUE, g[s \ {CHOOSE e \in s : TRUE}])]
           fold == CHOOSE g : IsFold(g)
           EE == [s \in SUBSET T |-> D]
<1>1. ChangedServices(x, add, b, T) = fold[T]
  BY DEF ChangedServices, FoldSet, MapThenFoldSet
<1>2. G \in [T \X D -> D]
  OBVIOUS
<1>3. IsChoice(ch, T) /\ \A s \in SUBSET T : ch[s] = CHOOSE e \in s : TRUE
  BY DEF IsChoice
<1>4. \A e \in T, z \in D : G[<<e, z>>] = ChangedFor(x, add, e, z)
  OBVIOUS
<1>5. \A s \in SUBSET T : EE[s] = D
  OBVIOUS
<1> HIDE DEF G, IsFold, fold, ch, EE
<1>6. PICK f \in [SUBSET T -> D] : FoldsAs(f, T, ch, b, G)
  BY <1>2, <1>3, FoldExists
<1>7. \A s \in SUBSET T : s # {} => ch[s] \in s /\ ch[s] \in T /\ Rest(ch, s) \in SUBSET T
  BY <1>3, RestIsSmaller
<1>8. \A s \in SUBSET T : s # {} => G[<<ch[s], f[Rest(ch, s)]>>] = ChangedFor(x, add, ch[s], f[Rest(ch, s)])
  BY <1>4, <1>6, <1>7
<1>9. IsFold(f)
  BY <1>3, <1>6, <1>8 DEF IsFold, FoldsAs, Rest
<1>10. IsFold(fold)
  BY <1>9 DEF fold
<1>11. fold[{}] = b /\ \A s \in SUBSET T : s # {} => fold[s] = ChangedFor(x, add, ch[s], fold[Rest(ch, s)])
  BY <1>3, <1>10 DEF IsFold, Rest
<1>12. fold[{}] \in EE[{}]
  BY <1>5, <1>11
<1>13. \A s \in SUBSET T : s # {} /\ fold[Rest(ch, s)] \in EE[Rest(ch, s)] => fold[s] \in EE[s]
  BY <1>5, <1>7, <1>11
<1>14. fold[T] \in EE[T]
  BY <1>3, <1>12, <1>13, FoldWithin
<1> QED
  BY <1>1, <1>5, <1>14

LEMMA RegDomainChangedIsAlong ==
  ASSUME NEW n \in Daemon, NEW x \in Domains, NEW add
  PROVE  Along(n, udsserver_default_reg_domain_changed(n, x, add))
<1> DEFINE T == {r \in OfOp(n, "register") : n.req[r].default_domain}
<1>1. udsserver_default_reg_domain_changed(n, x, add) = ChangedServices(x, add, n, T)
  BY DEF udsserver_default_reg_domain_changed, ChangedServices, ChangedFor, AbandonedAll
<1>2. T \subseteq OfOp(n, "register") /\ IsFiniteSet(T)
  BY PartsAreFinite, LiveAreRequests DEF OfOp
<1> HIDE DEF T
<1>3. \A r \in T, y \in AlongFrom(n) : ChangedFor(x, add, r, y) \in AlongFrom(n)
  BY <1>2, Goes, ChangedForIsAlong
<1>4. ChangedServices(x, add, n, T) \in AlongFrom(n)
  BY <1>2, <1>3, Goes, ChangedServicesWithin
<1> QED
  BY <1>1, <1>4, Goes

(* Default domains that come or go.                                          *)
DomainsChanged(add, b, T) == FoldSet(LAMBDA x, y : udsserver_default_reg_domain_changed(y, x, add), b, T)

LEMMA DomainsChangedWithin ==
  ASSUME NEW add, NEW T, IsFiniteSet(T), NEW D, NEW b \in D, \A x \in T, y \in D : udsserver_default_reg_domain_changed(y, x, add) \in D
  PROVE  DomainsChanged(add, b, T) \in D
<1> DEFINE ch == [s \in SUBSET T |-> CHOOSE e \in s : TRUE]
           G == [z \in T \X D |-> udsserver_default_reg_domain_changed(z[2], z[1], add)]
           IsFold(g) == g = [s \in SUBSET T |->
             IF s = {} THEN b
             ELSE udsserver_default_reg_domain_changed(g[s \ {CHOOSE e \in s : TRUE}], CHOOSE e \in s : TRUE, add)]
           fold == CHOOSE g : IsFold(g)
           EE == [s \in SUBSET T |-> D]
<1>1. DomainsChanged(add, b, T) = fold[T]
  BY DEF DomainsChanged, FoldSet, MapThenFoldSet
<1>2. G \in [T \X D -> D]
  OBVIOUS
<1>3. IsChoice(ch, T) /\ \A s \in SUBSET T : ch[s] = CHOOSE e \in s : TRUE
  BY DEF IsChoice
<1>4. \A e \in T, z \in D : G[<<e, z>>] = udsserver_default_reg_domain_changed(z, e, add)
  OBVIOUS
<1>5. \A s \in SUBSET T : EE[s] = D
  OBVIOUS
<1> HIDE DEF G, IsFold, fold, ch, EE
<1>6. PICK f \in [SUBSET T -> D] : FoldsAs(f, T, ch, b, G)
  BY <1>2, <1>3, FoldExists
<1>7. \A s \in SUBSET T : s # {} => ch[s] \in s /\ ch[s] \in T /\ Rest(ch, s) \in SUBSET T
  BY <1>3, RestIsSmaller
<1>8. \A s \in SUBSET T : s # {} => G[<<ch[s], f[Rest(ch, s)]>>] = udsserver_default_reg_domain_changed(f[Rest(ch, s)], ch[s], add)
  BY <1>4, <1>6, <1>7
<1>9. IsFold(f)
  BY <1>3, <1>6, <1>8 DEF IsFold, FoldsAs, Rest
<1>10. IsFold(fold)
  BY <1>9 DEF fold
<1>11. fold[{}] = b /\ \A s \in SUBSET T : s # {} => fold[s] = udsserver_default_reg_domain_changed(fold[Rest(ch, s)], ch[s], add)
  BY <1>3, <1>10 DEF IsFold, Rest
<1>12. fold[{}] \in EE[{}]
  BY <1>5, <1>11
<1>13. \A s \in SUBSET T : s # {} /\ fold[Rest(ch, s)] \in EE[Rest(ch, s)] => fold[s] \in EE[s]
  BY <1>5, <1>7, <1>11
<1>14. fold[T] \in EE[T]
  BY <1>3, <1>12, <1>13, FoldWithin
<1> QED
  BY <1>1, <1>5, <1>14

LEMMA DomainsChangedIsAlong ==
  ASSUME NEW n \in Daemon, NEW add, NEW T \in SUBSET Domains
  PROVE  Along(n, DomainsChanged(add, n, T))
<1>1. IsFiniteSet(T) /\ \A x \in T : x \in Domains
  BY PartsAreFinite
<1>2. \A x \in T, y \in AlongFrom(n) : udsserver_default_reg_domain_changed(y, x, add) \in AlongFrom(n)
  BY <1>1, Goes, RegDomainChangedIsAlong
<1>3. DomainsChanged(add, n, T) \in AlongFrom(n)
  BY <1>1, <1>2, Goes, DomainsChangedWithin
<1> QED
  BY <1>3, Goes

(* Browses that a domain is added to.                                        *)
BrowsersAdded(x, b, T) == FoldSet(LAMBDA r, y : add_domain_to_browser(y, r, x), b, T)

LEMMA BrowsersAddedWithin ==
  ASSUME NEW x, NEW T, IsFiniteSet(T), NEW D, NEW b \in D, \A r \in T, y \in D : add_domain_to_browser(y, r, x) \in D
  PROVE  BrowsersAdded(x, b, T) \in D
<1> DEFINE ch == [s \in SUBSET T |-> CHOOSE e \in s : TRUE]
           G == [z \in T \X D |-> add_domain_to_browser(z[2], z[1], x)]
           IsFold(g) == g = [s \in SUBSET T |->
             IF s = {} THEN b
             ELSE add_domain_to_browser(g[s \ {CHOOSE e \in s : TRUE}], CHOOSE e \in s : TRUE, x)]
           fold == CHOOSE g : IsFold(g)
           EE == [s \in SUBSET T |-> D]
<1>1. BrowsersAdded(x, b, T) = fold[T]
  BY DEF BrowsersAdded, FoldSet, MapThenFoldSet
<1>2. G \in [T \X D -> D]
  OBVIOUS
<1>3. IsChoice(ch, T) /\ \A s \in SUBSET T : ch[s] = CHOOSE e \in s : TRUE
  BY DEF IsChoice
<1>4. \A e \in T, z \in D : G[<<e, z>>] = add_domain_to_browser(z, e, x)
  OBVIOUS
<1>5. \A s \in SUBSET T : EE[s] = D
  OBVIOUS
<1> HIDE DEF G, IsFold, fold, ch, EE
<1>6. PICK f \in [SUBSET T -> D] : FoldsAs(f, T, ch, b, G)
  BY <1>2, <1>3, FoldExists
<1>7. \A s \in SUBSET T : s # {} => ch[s] \in s /\ ch[s] \in T /\ Rest(ch, s) \in SUBSET T
  BY <1>3, RestIsSmaller
<1>8. \A s \in SUBSET T : s # {} => G[<<ch[s], f[Rest(ch, s)]>>] = add_domain_to_browser(f[Rest(ch, s)], ch[s], x)
  BY <1>4, <1>6, <1>7
<1>9. IsFold(f)
  BY <1>3, <1>6, <1>8 DEF IsFold, FoldsAs, Rest
<1>10. IsFold(fold)
  BY <1>9 DEF fold
<1>11. fold[{}] = b /\ \A s \in SUBSET T : s # {} => fold[s] = add_domain_to_browser(fold[Rest(ch, s)], ch[s], x)
  BY <1>3, <1>10 DEF IsFold, Rest
<1>12. fold[{}] \in EE[{}]
  BY <1>5, <1>11
<1>13. \A s \in SUBSET T : s # {} /\ fold[Rest(ch, s)] \in EE[Rest(ch, s)] => fold[s] \in EE[s]
  BY <1>5, <1>7, <1>11
<1>14. fold[T] \in EE[T]
  BY <1>3, <1>12, <1>13, FoldWithin
<1> QED
  BY <1>1, <1>5, <1>14

(* Browses that a domain is taken from.                                      *)
BrowsersStopped(x, b, T) == FoldSet(LAMBDA r, y : StopBrowseWithRemoves(y, r, x), b, T)

LEMMA BrowsersStoppedWithin ==
  ASSUME NEW x, NEW T, IsFiniteSet(T), NEW D, NEW b \in D, \A r \in T, y \in D : StopBrowseWithRemoves(y, r, x) \in D
  PROVE  BrowsersStopped(x, b, T) \in D
<1> DEFINE ch == [s \in SUBSET T |-> CHOOSE e \in s : TRUE]
           G == [z \in T \X D |-> StopBrowseWithRemoves(z[2], z[1], x)]
           IsFold(g) == g = [s \in SUBSET T |->
             IF s = {} THEN b
             ELSE StopBrowseWithRemoves(g[s \ {CHOOSE e \in s : TRUE}], CHOOSE e \in s : TRUE, x)]
           fold == CHOOSE g : IsFold(g)
           EE == [s \in SUBSET T |-> D]
<1>1. BrowsersStopped(x, b, T) = fold[T]
  BY DEF BrowsersStopped, FoldSet, MapThenFoldSet
<1>2. G \in [T \X D -> D]
  OBVIOUS
<1>3. IsChoice(ch, T) /\ \A s \in SUBSET T : ch[s] = CHOOSE e \in s : TRUE
  BY DEF IsChoice
<1>4. \A e \in T, z \in D : G[<<e, z>>] = StopBrowseWithRemoves(z, e, x)
  OBVIOUS
<1>5. \A s \in SUBSET T : EE[s] = D
  OBVIOUS
<1> HIDE DEF G, IsFold, fold, ch, EE
<1>6. PICK f \in [SUBSET T -> D] : FoldsAs(f, T, ch, b, G)
  BY <1>2, <1>3, FoldExists
<1>7. \A s \in SUBSET T : s # {} => ch[s] \in s /\ ch[s] \in T /\ Rest(ch, s) \in SUBSET T
  BY <1>3, RestIsSmaller
<1>8. \A s \in SUBSET T : s # {} => G[<<ch[s], f[Rest(ch, s)]>>] = StopBrowseWithRemoves(f[Rest(ch, s)], ch[s], x)
  BY <1>4, <1>6, <1>7
<1>9. IsFold(f)
  BY <1>3, <1>6, <1>8 DEF IsFold, FoldsAs, Rest
<1>10. IsFold(fold)
  BY <1>9 DEF fold
<1>11. fold[{}] = b /\ \A s \in SUBSET T : s # {} => fold[s] = StopBrowseWithRemoves(fold[Rest(ch, s)], ch[s], x)
  BY <1>3, <1>10 DEF IsFold, Rest
<1>12. fold[{}] \in EE[{}]
  BY <1>5, <1>11
<1>13. \A s \in SUBSET T : s # {} /\ fold[Rest(ch, s)] \in EE[Rest(ch, s)] => fold[s] \in EE[s]
  BY <1>5, <1>7, <1>11
<1>14. fold[T] \in EE[T]
  BY <1>3, <1>12, <1>13, FoldWithin
<1> QED
  BY <1>1, <1>5, <1>14

LEMMA BrowsesTyped ==
  ASSUME NEW n \in Daemon
  PROVE  /\ DefaultBrowsers(n) \subseteq OfOp(n, "browse") /\ DefaultBrowsers(n) \subseteq Requests
         /\ IsFiniteSet(DefaultBrowsers(n))
  BY PartsAreFinite, LiveAreRequests DEF DefaultBrowsers, OfOp

(* How often a domain is in the list of those to browse.                     *)
LEMMA CountIsAlong ==
  ASSUME NEW n \in Daemon, NEW x \in Domains, NEW k \in Nat
  PROVE  Along(n, [n EXCEPT !.AutoBrowseDomains[x] = k])
<1> DEFINE m == [n EXCEPT !.AutoBrowseDomains[x] = k]
<1>0. [n.AutoBrowseDomains EXCEPT ![x] = k] \in [Domains -> Nat]
  BY DEF Daemon
<1>1. m \in Daemon
  BY <1>0 DEF Daemon
<1>2. m.all_requests = n.all_requests /\ m.core = n.core /\ m.records = n.records /\ m.req = n.req
      /\ m.inst = n.inst
  BY DEF Daemon
<1> HIDE DEF m
<1>3. Calm(n, m)
  <2>1. Still(n, m)
    BY <1>1, <1>2 DEF Still, Alike
  <2> QED
    BY <1>2, <2>1, StillKeeps DEF Calm, ServicesAreOwned
<1> QED
  BY <1>3, CalmIsAlong DEF m

LEMMA AddAutoIsAlong ==
  ASSUME NEW n \in Daemon, NEW x \in Domains
  PROVE  Along(n, AddAutoBrowseDomain(n, x))
<1> DEFINE k == n.AutoBrowseDomains[x] + 1
           b == [n EXCEPT !.AutoBrowseDomains[x] = k]
           T == DefaultBrowsers(b)
<1>1. AddAutoBrowseDomain(n, x) = BrowsersAdded(x, b, T)
  BY DEF AddAutoBrowseDomain, BrowsersAdded
<1>2. k \in Nat
  BY DEF Daemon
<1> HIDE DEF k
<1>3. Along(n, b)
  BY <1>2, CountIsAlong
<1>4. b \in Daemon
  BY <1>3 DEF Along
<1> HIDE DEF b
<1>5. T \subseteq OfOp(b, "browse") /\ IsFiniteSet(T)
  BY <1>4, BrowsesTyped
<1> HIDE DEF T
<1>6. \A r \in T, y \in AlongFrom(b) : add_domain_to_browser(y, r, x) \in AlongFrom(b)
  BY <1>4, <1>5, Goes, AddDomainIsAlong
<1>7. BrowsersAdded(x, b, T) \in AlongFrom(b)
  BY <1>4, <1>5, <1>6, Goes, BrowsersAddedWithin
<1>8. Along(b, BrowsersAdded(x, b, T))
  BY <1>4, <1>7, Goes
<1> QED
  BY <1>1, <1>3, <1>8, AlongIsTransitive

LEMMA RmvAutoIsAlong ==
  ASSUME NEW n \in Daemon, NEW x \in Domains
  PROVE  Along(n, RmvAutoBrowseDomain(n, x))
<1>1. CASE n.AutoBrowseDomains[x] = 0
  BY <1>1, AlongIsReflexive DEF RmvAutoBrowseDomain
<1>2. CASE n.AutoBrowseDomains[x] # 0
  <2> DEFINE k == n.AutoBrowseDomains[x] - 1
             b == [n EXCEPT !.AutoBrowseDomains[x] = k]
             T == {r \in DefaultBrowsers(b) : x \in b.req[r].browsers}
  <2>1. RmvAutoBrowseDomain(n, x) = IF b.AutoBrowseDomains[x] > 0 THEN b ELSE BrowsersStopped(x, b, T)
    BY <1>2 DEF RmvAutoBrowseDomain, BrowsersStopped
  <2>2. k \in Nat
    <3>1. n.AutoBrowseDomains[x] \in Nat
      BY DEF Daemon
    <3> QED
      BY <1>2, <3>1
  <2> HIDE DEF k
  <2>3. Along(n, b)
    BY <2>2, CountIsAlong
  <2>4. b \in Daemon
    BY <2>3 DEF Along
  <2> HIDE DEF b
  <2>5. T \subseteq OfOp(b, "browse") /\ IsFiniteSet(T)
    BY <2>4, BrowsesTyped, FS_Subset
  <2> HIDE DEF T
  <2>6. \A r \in T, y \in AlongFrom(b) : StopBrowseWithRemoves(y, r, x) \in AlongFrom(b)
    BY <2>4, <2>5, Goes, StopBrowseIsAlong
  <2>7. BrowsersStopped(x, b, T) \in AlongFrom(b)
    BY <2>4, <2>5, <2>6, Goes, BrowsersStoppedWithin
  <2>8. Along(b, BrowsersStopped(x, b, T))
    BY <2>4, <2>7, Goes
  <2> QED
    BY <2>1, <2>3, <2>8, AlongIsTransitive
<1> QED
  BY <1>1, <1>2

ListedOrNot(add, x, y) == IF add THEN AddAutoBrowseDomain(y, x) ELSE RmvAutoBrowseDomain(y, x)

(* Domains to browse that come or go.                                        *)
BrowseDomainsSet(add, b, T) == FoldSet(LAMBDA x, y : ListedOrNot(add, x, y), b, T)

LEMMA BrowseDomainsSetWithin ==
  ASSUME NEW add, NEW T, IsFiniteSet(T), NEW D, NEW b \in D, \A x \in T, y \in D : ListedOrNot(add, x, y) \in D
  PROVE  BrowseDomainsSet(add, b, T) \in D
<1> DEFINE ch == [s \in SUBSET T |-> CHOOSE e \in s : TRUE]
           G == [z \in T \X D |-> ListedOrNot(add, z[1], z[2])]
           IsFold(g) == g = [s \in SUBSET T |->
             IF s = {} THEN b
             ELSE ListedOrNot(add, CHOOSE e \in s : TRUE, g[s \ {CHOOSE e \in s : TRUE}])]
           fold == CHOOSE g : IsFold(g)
           EE == [s \in SUBSET T |-> D]
<1>1. BrowseDomainsSet(add, b, T) = fold[T]
  BY DEF BrowseDomainsSet, FoldSet, MapThenFoldSet
<1>2. G \in [T \X D -> D]
  OBVIOUS
<1>3. IsChoice(ch, T) /\ \A s \in SUBSET T : ch[s] = CHOOSE e \in s : TRUE
  BY DEF IsChoice
<1>4. \A e \in T, z \in D : G[<<e, z>>] = ListedOrNot(add, e, z)
  OBVIOUS
<1>5. \A s \in SUBSET T : EE[s] = D
  OBVIOUS
<1> HIDE DEF G, IsFold, fold, ch, EE
<1>6. PICK f \in [SUBSET T -> D] : FoldsAs(f, T, ch, b, G)
  BY <1>2, <1>3, FoldExists
<1>7. \A s \in SUBSET T : s # {} => ch[s] \in s /\ ch[s] \in T /\ Rest(ch, s) \in SUBSET T
  BY <1>3, RestIsSmaller
<1>8. \A s \in SUBSET T : s # {} => G[<<ch[s], f[Rest(ch, s)]>>] = ListedOrNot(add, ch[s], f[Rest(ch, s)])
  BY <1>4, <1>6, <1>7
<1>9. IsFold(f)
  BY <1>3, <1>6, <1>8 DEF IsFold, FoldsAs, Rest
<1>10. IsFold(fold)
  BY <1>9 DEF fold
<1>11. fold[{}] = b /\ \A s \in SUBSET T : s # {} => fold[s] = ListedOrNot(add, ch[s], fold[Rest(ch, s)])
  BY <1>3, <1>10 DEF IsFold, Rest
<1>12. fold[{}] \in EE[{}]
  BY <1>5, <1>11
<1>13. \A s \in SUBSET T : s # {} /\ fold[Rest(ch, s)] \in EE[Rest(ch, s)] => fold[s] \in EE[s]
  BY <1>5, <1>7, <1>11
<1>14. fold[T] \in EE[T]
  BY <1>3, <1>12, <1>13, FoldWithin
<1> QED
  BY <1>1, <1>5, <1>14

LEMMA PrefsSetIsAlong ==
  ASSUME NEW n \in Daemon, NEW add, NEW T \in SUBSET Domains
  PROVE  Along(n, SetPrefsBrowseDomains(n, T, add))
<1>1. IsFiniteSet(T) /\ \A x \in T : x \in Domains
  BY PartsAreFinite
<1>2. \A x \in T, y \in AlongFrom(n) : ListedOrNot(add, x, y) \in AlongFrom(n)
  BY <1>1, Goes, AddAutoIsAlong, RmvAutoIsAlong DEF ListedOrNot
<1>3. BrowseDomainsSet(add, n, T) \in AlongFrom(n)
  BY <1>1, <1>2, Goes, BrowseDomainsSetWithin
<1>4. SetPrefsBrowseDomains(n, T, add) = BrowseDomainsSet(add, n, T)
  BY DEF SetPrefsBrowseDomains, BrowseDomainsSet, ListedOrNot
<1> QED
  BY <1>3, <1>4, Goes

LEMMA ConfigChangeIsAlong ==
  ASSUME NEW n \in Daemon
  PROVE  Along(n, udsserver_handle_configchange(n))
<1> DEFINE reg == n.platform.RegDomains
           old == n.AutoRegistrationDomains
           n0 == RenameServices(n)
           n1a == SetPrefsBrowseDomains(n0, reg, TRUE)
           n1 == SetPrefsBrowseDomains(n1a, old, FALSE)
           n2 == DomainsChanged(TRUE, n1, reg \ old)
           n3 == DomainsChanged(FALSE, n2, old \ reg)
           n4 == SetPrefsBrowseDomains(n3, n.platform.BrowseDomains, TRUE)
           n5 == SetPrefsBrowseDomains(n4, n.SCPrefBrowseDomains, FALSE)
           m == [n5 EXCEPT !.AutoRegistrationDomains = reg, !.SCPrefBrowseDomains = n.platform.BrowseDomains]
<1>1. udsserver_handle_configchange(n) = m
  BY DEF udsserver_handle_configchange, DomainsChanged
<1>2. /\ reg \in SUBSET Domains /\ old \in SUBSET Domains /\ reg \ old \in SUBSET Domains
      /\ old \ reg \in SUBSET Domains /\ n.platform.BrowseDomains \in SUBSET Domains
      /\ n.SCPrefBrowseDomains \in SUBSET Domains
  BY DEF Daemon
<1> HIDE DEF reg, old
<1>3. n0 \in AlongFrom(n)
  BY RenameServicesIsAlong, Goes
<1> HIDE DEF n0
<1>4. n1a \in AlongFrom(n)
  BY <1>2, <1>3, PrefsSetIsAlong, Goes
<1> HIDE DEF n1a
<1>5. n1 \in AlongFrom(n)
  BY <1>2, <1>4, PrefsSetIsAlong, Goes
<1> HIDE DEF n1
<1>6. n2 \in AlongFrom(n)
  BY <1>2, <1>5, DomainsChangedIsAlong, Goes
<1> HIDE DEF n2
<1>7. n3 \in AlongFrom(n)
  BY <1>2, <1>6, DomainsChangedIsAlong, Goes
<1> HIDE DEF n3
<1>8. n4 \in AlongFrom(n)
  BY <1>2, <1>7, PrefsSetIsAlong, Goes
<1> HIDE DEF n4
<1>9. n5 \in AlongFrom(n)
  BY <1>2, <1>8, PrefsSetIsAlong, Goes
<1>10. n5 \in Daemon /\ Along(n, n5)
  BY <1>9, Goes
<1> HIDE DEF n5
<1>11. m \in Daemon
  BY <1>2, <1>10 DEF Daemon
<1>12. m.all_requests = n5.all_requests /\ m.core = n5.core /\ m.records = n5.records /\ m.req = n5.req
       /\ m.inst = n5.inst
  BY <1>10 DEF Daemon
<1> HIDE DEF m
<1>13. Along(n5, m)
  <2>1. Still(n5, m)
    BY <1>11, <1>12 DEF Still, Alike
  <2>2. Calm(n5, m)
    BY <1>10, <1>12, <2>1, StillKeeps DEF Calm, ServicesAreOwned
  <2> QED
    BY <1>10, <2>2, CalmIsAlong
<1> QED
  BY <1>1, <1>10, <1>13, AlongIsTransitive

-----------------------------------------------------------------------------
(* What ends a request takes all that is its from the core.                  *)

Cleared(n, r, m) ==
  /\ m \in Daemon /\ m.all_requests = n.all_requests
  /\ \A x \in Requests \ {r} : Alike(n.req[x], m.req[x])
  /\ \A x \in Requests, k \in Kinds : <<x, k>> \in m.core <=> x # r /\ <<x, k>> \in n.core
  /\ \A x \in Requests, k \in Keys : <<x, k>> \in m.records <=> x # r /\ <<x, k>> \in n.records
  /\ \A i \in Instances :
       /\ m.inst[i].request # Nobody => m.inst[i].request \in OfOp(n, "register") \ {r}
       /\ Owned(m.inst[i])

LEMMA NoRequestTyped == NoRequest \in RequestState /\ ProperRequest(NoRequest) /\ NoRequest.op = "none"
<1>1. 0 \in Names /\ 0 \in 0 .. MaxReplies /\ 0 \in 0 .. MaxReports /\ 0 \in 0 .. 1
  BY UdsAssumption DEF Names
<1>2. [k \in {"srv", "txt"} |-> 0] \in [{"srv", "txt"} -> 0 .. 2]
  OBVIOUS
<1> QED
  BY <1>1, <1>2 DEF NoRequest, RequestState, ProperRequest

LEMMA FreeIsGood ==
  ASSUME NEW n \in Daemon, Good(n), NEW r \in Requests, NEW m, Cleared(n, r, m)
  PROVE  LET k == Free(m, r) IN
         /\ k \in Daemon /\ Good(k) /\ Live(k) = Live(n) \ {r} /\ k.req[r] = NoRequest
         /\ \A x \in Requests \ {r} : Alike(n.req[x], k.req[x])
<1> DEFINE k == Free(m, r)
           all == RemoveFirst(m.all_requests, r)
           req == [m.req EXCEPT ![r] = NoRequest]
<1>1. m \in Daemon /\ m.all_requests = n.all_requests /\ n.all_requests \in Seq(Requests)
      /\ IsInjective(n.all_requests) /\ m.req \in [Requests -> RequestState]
  BY LiveAreRequests DEF Cleared, Good, RequestsAreProper, Daemon
<1>2. all \in Seq(Requests) /\ IsInjective(all) /\ Range(all) = Live(n) \ {r}
  BY <1>1, RemoveFirstIs DEF Live
<1>3. req \in [Requests -> RequestState] /\ req[r] = NoRequest
      /\ \A x \in Requests \ {r} : req[x] = m.req[x]
  BY <1>1, NoRequestTyped
<1>4. k = [m EXCEPT !.all_requests = all, !.req = req]
  BY <1>1 DEF Free, Daemon
<1> HIDE DEF all, req
<1>5. /\ k \in Daemon /\ k.all_requests = all /\ k.req = req /\ k.core = m.core /\ k.records = m.records
      /\ k.inst = m.inst
  BY ZenonT(60), <1>1, <1>2, <1>3, <1>4 DEF Daemon
<1> HIDE DEF k
<1>6. Live(k) = Live(n) \ {r} /\ Live(n) \subseteq Requests
  BY <1>2, <1>5, LiveAreRequests DEF Live
<1>7. \A x \in Requests \ {r} : Alike(n.req[x], k.req[x])
  BY <1>3, <1>5 DEF Cleared
<1>8. \A x \in Requests \ {r} : HoldsIn(k, x) = HoldsIn(n, x)
  BY <1>7 DEF HoldsIn, Alike
<1>9. RequestsAreProper(k)
  <2>1. \A x \in Requests \ Live(k) : k.req[x].op = "none"
    BY <1>3, <1>5, <1>6, <1>7, NoRequestTyped DEF Alike, Good, RequestsAreProper
  <2>2. \A x \in Requests : ProperRequest(k.req[x])
    BY <1>3, <1>5, <1>7, NoRequestTyped DEF Alike, Good, RequestsAreProper, ProperRequest
  <2> QED
    BY <1>2, <1>5, <2>1, <2>2 DEF RequestsAreProper
<1>10. CoreIsTheirs(k)
  <2>1. ASSUME NEW x \in Requests, NEW y \in Kinds
        PROVE  <<x, y>> \in k.core <=> x \in Live(k) /\ y \in HoldsIn(k, x)
    BY <1>5, <1>6, <1>8 DEF Cleared, Good, CoreIsTheirs
  <2>2. ASSUME NEW x \in Requests, NEW y \in Keys
        PROVE  <<x, y>> \in k.records <=> x \in Live(k) /\ y \in k.req[x].reg_recs
    BY <1>5, <1>6, <1>7 DEF Cleared, Good, CoreIsTheirs, Alike
  <2> QED
    BY <2>1, <2>2 DEF CoreIsTheirs
<1>11. OfOp(k, "register") = OfOp(n, "register") \ {r}
  BY <1>6, <1>7 DEF OfOp, Alike
<1>12. ServicesAreOwned(k)
  BY <1>5, <1>11 DEF Cleared, ServicesAreOwned
<1> QED
  BY <1>3, <1>5, <1>6, <1>7, <1>9, <1>10, <1>12 DEF Good, k

(* Questions of a request that stop.                                         *)
StoppedAll(r, b, T) == FoldSet(LAMBDA k, x : StopQuery(x, r, k), b, T)

LEMMA StoppedAllIs ==
  ASSUME NEW r, NEW T, IsFiniteSet(T), NEW D, NEW b \in D, \A k \in T, x \in D : StopQuery(x, r, k) \in D
  PROVE  \E ch, g : /\ IsChoice(ch, T) /\ StoppedAll(r, b, T) = g[T] /\ g[{}] = b
                    /\ \A s \in SUBSET T : s # {} => g[s] = StopQuery(g[Rest(ch, s)], r, ch[s])
<1> DEFINE ch == [s \in SUBSET T |-> CHOOSE e \in s : TRUE]
           G == [z \in T \X D |-> StopQuery(z[2], r, z[1])]
           IsFold(g) == g = [s \in SUBSET T |->
             IF s = {} THEN b
             ELSE StopQuery(g[s \ {CHOOSE e \in s : TRUE}], r, CHOOSE e \in s : TRUE)]
           fold == CHOOSE g : IsFold(g)
<1>1. StoppedAll(r, b, T) = fold[T]
  BY DEF StoppedAll, FoldSet, MapThenFoldSet
<1>2. G \in [T \X D -> D]
  OBVIOUS
<1>3. IsChoice(ch, T) /\ \A s \in SUBSET T : ch[s] = CHOOSE e \in s : TRUE
  BY DEF IsChoice
<1>4. \A e \in T, z \in D : G[<<e, z>>] = StopQuery(z, r, e)
  OBVIOUS
<1> HIDE DEF G, IsFold, fold, ch
<1>6. PICK f \in [SUBSET T -> D] : FoldsAs(f, T, ch, b, G)
  BY <1>2, <1>3, FoldExists
<1>7. \A s \in SUBSET T : s # {} => ch[s] \in s /\ ch[s] \in T /\ Rest(ch, s) \in SUBSET T
  BY <1>3, RestIsSmaller
<1>8. \A s \in SUBSET T : s # {} => G[<<ch[s], f[Rest(ch, s)]>>] = StopQuery(f[Rest(ch, s)], r, ch[s])
  BY <1>4, <1>6, <1>7
<1>9. IsFold(f)
  BY <1>3, <1>6, <1>8 DEF IsFold, FoldsAs, Rest
<1>10. IsFold(fold)
  BY <1>9 DEF fold
<1>11. fold[{}] = b /\ \A s \in SUBSET T : s # {} => fold[s] = StopQuery(fold[Rest(ch, s)], r, ch[s])
  BY <1>3, <1>10 DEF IsFold, Rest
<1> QED
  BY <1>1, <1>3, <1>11

LEMMA StopQueriesIs ==
  ASSUME NEW n \in Daemon, NEW r, NEW T, IsFiniteSet(T)
  PROVE  LET m == StopQueries(n, r, T) IN
         /\ m \in Daemon /\ m.all_requests = n.all_requests /\ m.core = n.core \ ({r} \X T)
         /\ m.records = n.records /\ m.inst = n.inst /\ m.req = n.req
<1> DEFINE Stopped(s) == {m \in Daemon : /\ m.all_requests = n.all_requests /\ m.core = n.core \ ({r} \X s)
                                        /\ m.records = n.records /\ m.inst = n.inst /\ m.req = n.req}
           DD == [s \in SUBSET T |-> Stopped(s)]
<1>1. \A k \in T, x \in Daemon : StopQuery(x, r, k) \in Daemon
  BY StopIs
<1>2. PICK ch, g : /\ IsChoice(ch, T) /\ StoppedAll(r, n, T) = g[T] /\ g[{}] = n
                   /\ \A s \in SUBSET T : s # {} => g[s] = StopQuery(g[Rest(ch, s)], r, ch[s])
  BY <1>1, StoppedAllIs
<1>3. g[{}] \in DD[{}]
  BY <1>2
<1>4. ASSUME NEW s \in SUBSET T, s # {}, g[Rest(ch, s)] \in DD[Rest(ch, s)] PROVE g[s] \in DD[s]
  <2> DEFINE x == g[Rest(ch, s)]
             k == ch[s]
             m == StopQuery(x, r, k)
  <2>1. k \in s /\ Rest(ch, s) \in SUBSET T /\ Rest(ch, s) = s \ {k}
    BY <1>2, <1>4, RestIsSmaller DEF Rest
  <2>2. x \in Stopped(s \ {k}) /\ g[s] = m
    BY <1>2, <1>4, <2>1
  <2> HIDE DEF x, k
  <2>3. /\ m \in Daemon /\ m.all_requests = x.all_requests /\ m.core = x.core \ {<<r, k>>}
        /\ m.records = x.records /\ m.inst = x.inst /\ m.req = x.req
    BY <2>2, StopIs
  <2> HIDE DEF m
  <2>4. m.core = n.core \ ({r} \X s)
    BY <2>1, <2>2, <2>3
  <2>5. m \in Stopped(s)
    BY <2>2, <2>3, <2>4
  <2> QED
    BY <2>2, <2>5
<1> HIDE DEF DD
<1>5. g[T] \in DD[T]
  BY <1>2, <1>3, <1>4, FoldWithin
<1>6. StopQueries(n, r, T) = StoppedAll(r, n, T)
  BY DEF StopQueries, StoppedAll
<1> QED
  BY <1>2, <1>5, <1>6 DEF DD

(* A request with no services, and with its questions stopped.               *)
LEMMA StoppedIsCleared ==
  ASSUME NEW n \in Daemon, Good(n), NEW r \in Requests, n.req[r].op \notin {"connection", "register"},
         NEW T, HoldsIn(n, r) \subseteq T, NEW m \in Daemon, m.all_requests = n.all_requests,
         \A x \in Requests \ {r} : m.req[x] = n.req[x], m.core = n.core \ ({r} \X T),
         m.records = n.records, m.inst = n.inst
  PROVE  Cleared(n, r, m)
<1>1. \A x \in Requests \ {r} : Alike(n.req[x], m.req[x])
  BY DEF Alike
<1>2. \A x \in Requests, k \in Kinds : <<x, k>> \in m.core <=> x # r /\ <<x, k>> \in n.core
  BY DEF Good, CoreIsTheirs
<1>3. n.req[r].reg_recs = {}
  BY DEF Good, RequestsAreProper, ProperRequest
<1>4. \A x \in Requests, k \in Keys : <<x, k>> \in m.records <=> x # r /\ <<x, k>> \in n.records
  BY <1>3 DEF Good, CoreIsTheirs
<1>5. r \notin OfOp(n, "register")
  BY DEF OfOp
<1>6. \A i \in Instances : /\ m.inst[i].request # Nobody => m.inst[i].request \in OfOp(n, "register") \ {r}
                           /\ Owned(m.inst[i])
  BY <1>5 DEF Good, ServicesAreOwned
<1> QED
  BY <1>1, <1>2, <1>4, <1>6 DEF Cleared

LEMMA StopsAreCleared ==
  ASSUME NEW n \in Daemon, Good(n), NEW r \in Requests, n.req[r].op \notin {"connection", "register"},
         NEW q \in RequestState, NEW T, IsFiniteSet(T), HoldsIn(n, r) \subseteq T
  PROVE  /\ Cleared(n, r, StopQueries(n, r, T)) /\ Cleared(n, r, StopQueries(WithRequest(n, r, q), r, T))
<1>1. Cleared(n, r, StopQueries(n, r, T))
  BY StopQueriesIs, StoppedIsCleared
<1> DEFINE b == WithRequest(n, r, q)
<1>2. /\ b \in Daemon /\ b.all_requests = n.all_requests /\ b.core = n.core /\ b.records = n.records
      /\ b.inst = n.inst /\ b.req = [n.req EXCEPT ![r] = q]
  BY WithRequestIs
<1>3. \A x \in Requests \ {r} : b.req[x] = n.req[x]
  BY <1>2 DEF Daemon
<1> HIDE DEF b
<1>4. Cleared(n, r, StopQueries(b, r, T))
  <2> DEFINE m == StopQueries(b, r, T)
  <2>1. /\ m \in Daemon /\ m.all_requests = b.all_requests /\ m.core = b.core \ ({r} \X T)
        /\ m.records = b.records /\ m.inst = b.inst /\ m.req = b.req
    BY <1>2, StopQueriesIs
  <2> HIDE DEF m
  <2>2. /\ m \in Daemon /\ m.all_requests = n.all_requests /\ \A x \in Requests \ {r} : m.req[x] = n.req[x]
        /\ m.core = n.core \ ({r} \X T) /\ m.records = n.records /\ m.inst = n.inst
    BY <1>2, <1>3, <2>1
  <2>3. Cleared(n, r, m)
    BY <2>2, StoppedIsCleared
  <2> QED
    BY <2>3 DEF m
<1> QED
  BY <1>1, <1>4 DEF b

(* Services that go with their request.                                      *)
GivenUp(b, T) == FoldSet(LAMBDA i, x : Abandon(x, i), b, T)

LEMMA GivenUpIs ==
  ASSUME NEW T, IsFiniteSet(T), NEW D, NEW b \in D, \A i \in T, x \in D : Abandon(x, i) \in D
  PROVE  \E ch, g : /\ IsChoice(ch, T) /\ GivenUp(b, T) = g[T] /\ g[{}] = b
                    /\ \A s \in SUBSET T : s # {} => g[s] = Abandon(g[Rest(ch, s)], ch[s])
<1> DEFINE ch == [s \in SUBSET T |-> CHOOSE e \in s : TRUE]
           G == [z \in T \X D |-> Abandon(z[2], z[1])]
           IsFold(g) == g = [s \in SUBSET T |->
             IF s = {} THEN b
             ELSE Abandon(g[s \ {CHOOSE e \in s : TRUE}], CHOOSE e \in s : TRUE)]
           fold == CHOOSE g : IsFold(g)
<1>1. GivenUp(b, T) = fold[T]
  BY DEF GivenUp, FoldSet, MapThenFoldSet
<1>2. G \in [T \X D -> D]
  OBVIOUS
<1>3. IsChoice(ch, T) /\ \A s \in SUBSET T : ch[s] = CHOOSE e \in s : TRUE
  BY DEF IsChoice
<1>4. \A e \in T, z \in D : G[<<e, z>>] = Abandon(z, e)
  OBVIOUS
<1> HIDE DEF G, IsFold, fold, ch
<1>6. PICK f \in [SUBSET T -> D] : FoldsAs(f, T, ch, b, G)
  BY <1>2, <1>3, FoldExists
<1>7. \A s \in SUBSET T : s # {} => ch[s] \in s /\ ch[s] \in T /\ Rest(ch, s) \in SUBSET T
  BY <1>3, RestIsSmaller
<1>8. \A s \in SUBSET T : s # {} => G[<<ch[s], f[Rest(ch, s)]>>] = Abandon(f[Rest(ch, s)], ch[s])
  BY <1>4, <1>6, <1>7
<1>9. IsFold(f)
  BY <1>3, <1>6, <1>8 DEF IsFold, FoldsAs, Rest
<1>10. IsFold(fold)
  BY <1>9 DEF fold
<1>11. fold[{}] = b /\ \A s \in SUBSET T : s # {} => fold[s] = Abandon(fold[Rest(ch, s)], ch[s])
  BY <1>3, <1>10 DEF IsFold, Rest
<1> QED
  BY <1>1, <1>3, <1>11

LEMMA GivenUpAll ==
  ASSUME NEW n \in Daemon, NEW T \in SUBSET Instances
  PROVE  LET m == GivenUp(n, T) IN
         /\ Calm(n, m) /\ \A i \in T : m.inst[i].request = Nobody
         /\ \A i \in Instances \ T : m.inst[i] = n.inst[i]
<1> DEFINE Up(s) == {m \in Daemon : /\ Calm(n, m) /\ \A i \in s : m.inst[i].request = Nobody
                                   /\ \A i \in Instances \ s : m.inst[i] = n.inst[i]}
           DD == [s \in SUBSET T |-> Up(s)]
<1>1. \A i \in T, x \in Daemon : Abandon(x, i) \in Daemon
  BY AbandonIsCalm DEF Calm, Still
<1>2. IsFiniteSet(T)
  BY PartsAreFinite
<1>3. PICK ch, g : /\ IsChoice(ch, T) /\ GivenUp(n, T) = g[T] /\ g[{}] = n
                   /\ \A s \in SUBSET T : s # {} => g[s] = Abandon(g[Rest(ch, s)], ch[s])
  BY <1>1, <1>2, GivenUpIs
<1>4. g[{}] \in DD[{}]
  BY <1>3, CalmIsReflexive
<1>5. ASSUME NEW s \in SUBSET T, s # {}, g[Rest(ch, s)] \in DD[Rest(ch, s)] PROVE g[s] \in DD[s]
  <2> DEFINE x == g[Rest(ch, s)]
             i == ch[s]
             m == Abandon(x, i)
  <2>1. i \in s /\ i \in Instances /\ Rest(ch, s) \in SUBSET T /\ Rest(ch, s) = s \ {i}
    BY <1>2, <1>3, <1>5, RestIsSmaller DEF Rest
  <2>2. x \in Up(s \ {i}) /\ g[s] = m
    BY <1>3, <1>5, <2>1
  <2> HIDE DEF x, i
  <2>3. Calm(x, m) /\ m.inst[i].request = Nobody /\ \A j \in Instances \ {i} : m.inst[j] = x.inst[j]
    BY <2>1, <2>2, AbandonIsCalm
  <2> HIDE DEF m
  <2>4. Calm(n, m) /\ m \in Daemon
    BY <2>2, <2>3, CalmIsTransitive DEF Calm, Still
  <2>5. \A j \in s : m.inst[j].request = Nobody
    BY <2>1, <2>2, <2>3
  <2>6. \A j \in Instances \ s : m.inst[j] = n.inst[j]
    BY <2>1, <2>2, <2>3
  <2>7. m \in Up(s)
    BY <2>4, <2>5, <2>6
  <2> QED
    BY <2>2, <2>7
<1> HIDE DEF DD
<1>6. g[T] \in DD[T]
  BY <1>2, <1>3, <1>4, <1>5, FoldWithin
<1> QED
  BY <1>3, <1>6 DEF DD

LEMMA RegserviceClears ==
  ASSUME NEW n \in Daemon, Good(n), NEW r \in Requests, n.req[r].op = "register"
  PROVE  Cleared(n, r, regservice_termination(n, r))
<1> DEFINE T == InstancesOf(n, r)
           n1 == GivenUp(n, T)
           q == [n1.req[r] EXCEPT !.autoname = FALSE]
           n2 == [n1 EXCEPT !.req[r] = q]
           m == regservice_termination(n, r)
<1>1. m = IF n.req[r].autoname THEN UpdateDeviceInfoRecord(n2) ELSE n1
  BY DEF regservice_termination, GivenUp
<1>2. T \in SUBSET Instances
  BY DEF InstancesOf
<1>3. /\ Calm(n, n1) /\ \A i \in T : n1.inst[i].request = Nobody
      /\ \A i \in Instances \ T : n1.inst[i] = n.inst[i]
  BY <1>2, GivenUpAll
<1>4. \A i \in Instances : n1.inst[i].request # r
  <2> TAKE i \in Instances
  <2>1. r # Nobody
    BY UdsAssumption
  <2>2. CASE i \in T
    BY <1>3, <2>1, <2>2
  <2>3. CASE i \notin T
    <3>1. n.inst[i].state = "free" => n.inst[i].request = Nobody
      BY DEF Good, ServicesAreOwned, Owned
    <3> QED
      BY <1>3, <2>1, <2>3, <3>1 DEF InstancesOf
  <2> QED
    BY <2>2, <2>3
<1>5. n1 \in Daemon
  BY <1>3 DEF Calm, Still
<1> HIDE DEF T, n1
<1>6. q \in RequestState /\ Alike(n1.req[r], q)
  <2>1. n1.req[r] \in RequestState
    BY <1>5 DEF Daemon
  <2> QED
    BY <2>1 DEF RequestState, Alike
<1> HIDE DEF q
<1>7. Calm(n1, n2) /\ n2.inst = n1.inst
  BY <1>5, <1>6, PutRequestIsCalm
<1>8. n2 \in Daemon
  BY <1>7 DEF Calm, Still
<1> HIDE DEF n2
<1>9. Calm(n2, UpdateDeviceInfoRecord(n2)) /\ UpdateDeviceInfoRecord(n2).inst = n2.inst
  BY <1>8, DeviceInfoIsCalm
<1>10. Calm(n, m) /\ m.inst = n1.inst
  BY <1>1, <1>3, <1>7, <1>9, CalmIsTransitive
<1> HIDE DEF m
<1>11. Good(m) /\ m \in Daemon /\ OfOp(m, "register") = OfOp(n, "register")
  BY <1>10, CalmIsGood, StillKeeps DEF Calm
<1>12. HoldsIn(n, r) = {} /\ n.req[r].reg_recs = {}
  BY DEF HoldsIn, Good, RequestsAreProper, ProperRequest
<1>13. \A x \in Requests, k \in Kinds : <<x, k>> \in m.core <=> x # r /\ <<x, k>> \in n.core
  BY <1>10, <1>12 DEF Calm, Still, Good, CoreIsTheirs
<1>14. \A x \in Requests, k \in Keys : <<x, k>> \in m.records <=> x # r /\ <<x, k>> \in n.records
  BY <1>10, <1>12 DEF Calm, Still, Good, CoreIsTheirs
<1>15. \A i \in Instances : /\ m.inst[i].request # Nobody => m.inst[i].request \in OfOp(n, "register") \ {r}
                            /\ Owned(m.inst[i])
  BY <1>4, <1>10, <1>11 DEF Good, ServicesAreOwned
<1> QED
  BY <1>10, <1>11, <1>13, <1>14, <1>15 DEF Cleared, Calm, Still, m

LEMMA PairsAreFinite ==
  ASSUME NEW x, NEW y PROVE IsFiniteSet({x, y}) /\ IsFiniteSet({x})
<1>1. IsFiniteSet({x}) /\ IsFiniteSet({y})
  BY FS_Singleton
<1>2. {x, y} = {x} \cup {y}
  OBVIOUS
<1> QED
  BY <1>1, <1>2, FS_Union

LEMMA TerminateClears ==
  ASSUME NEW n \in Daemon, Good(n), NEW r \in Requests, n.req[r].op # "connection"
  PROVE  Cleared(n, r, terminate(n, r))
<1> DEFINE op == n.req[r].op
           browsed == n.req[r].browsers
           asked == n.req[r].context \cap {"q"}
           resolved == n.req[r].context \cap {"q4", "q6"}
<1>1. n.req[r] \in RequestState
  BY RequestsTyped
<1>2. ProperRequest(n.req[r])
  BY DEF Good, RequestsAreProper
<1>3. IsFiniteSet(browsed) /\ IsFiniteSet(asked) /\ IsFiniteSet(resolved)
  <2>1. browsed \in SUBSET Domains
    BY <1>1 DEF RequestState
  <2>2. asked \subseteq {"q"} /\ resolved \subseteq {"q4", "q6"}
    OBVIOUS
  <2> HIDE DEF browsed, asked, resolved
  <2> QED
    BY <2>1, <2>2, PartsAreFinite, PairsAreFinite, FS_Subset
<1>4. CASE op = "browse"
  <2> DEFINE q == [n.req[r] EXCEPT !.browsers = {}]
  <2>1. terminate(n, r) = StopQueries(WithRequest(n, r, q), r, browsed)
    BY <1>4 DEF terminate, browse_termination, WithRequest
  <2>2. q \in RequestState
    BY <1>1 DEF RequestState
  <2>3. HoldsIn(n, r) \subseteq browsed
    BY <1>4 DEF HoldsIn
  <2> HIDE DEF q, browsed
  <2> QED
    BY <1>3, <1>4, <2>1, <2>2, <2>3, StopsAreCleared
<1>5. CASE op = "query"
  <2> DEFINE q == [n.req[r] EXCEPT !.context = {}]
  <2>1. terminate(n, r) = StopQueries(WithRequest(n, r, q), r, asked)
    BY <1>5 DEF terminate, queryrecord_termination, WithRequest
  <2>2. q \in RequestState
    BY <1>1 DEF RequestState
  <2>3. HoldsIn(n, r) \subseteq asked
    BY <1>2, <1>5 DEF HoldsIn, ProperRequest
  <2> HIDE DEF q, asked
  <2> QED
    BY <1>3, <1>5, <2>1, <2>2, <2>3, StopsAreCleared
<1>6. CASE op = "addrinfo"
  <2> DEFINE q == [n.req[r] EXCEPT !.context = {}]
  <2>1. terminate(n, r) = StopQueries(WithRequest(n, r, q), r, resolved)
    BY <1>6 DEF terminate, addrinfo_termination, WithRequest
  <2>2. q \in RequestState
    BY <1>1 DEF RequestState
  <2>3. HoldsIn(n, r) \subseteq resolved
    BY <1>2, <1>6 DEF HoldsIn, ProperRequest
  <2> HIDE DEF q, resolved
  <2> QED
    BY <1>3, <1>6, <2>1, <2>2, <2>3, StopsAreCleared
<1>7. CASE op = "resolve"
  <2>1. terminate(n, r) = StopQueries(n, r, {"txt", "srv"})
    BY <1>7 DEF terminate, resolve_termination
  <2>2. HoldsIn(n, r) \subseteq {"txt", "srv"}
    BY <1>7 DEF HoldsIn
  <2> QED
    BY <1>1, <1>7, <2>1, <2>2, PairsAreFinite, StopsAreCleared
<1>8. CASE op = "enum"
  <2>1. terminate(n, r) = StopQueries(n, r, {"all", "default"})
    BY <1>8 DEF terminate, enum_termination
  <2>2. HoldsIn(n, r) \subseteq {"all", "default"}
    BY <1>8 DEF HoldsIn
  <2> QED
    BY <1>1, <1>8, <2>1, <2>2, PairsAreFinite, StopsAreCleared
<1>9. CASE op = "map"
  <2> DEFINE m == StopQuery(n, r, "map")
  <2>1. terminate(n, r) = m
    BY <1>9 DEF terminate, port_mapping_termination
  <2>2. HoldsIn(n, r) \subseteq {"map"}
    BY <1>9 DEF HoldsIn
  <2>3. /\ m \in Daemon /\ m.all_requests = n.all_requests /\ m.core = n.core \ {<<r, "map">>}
        /\ m.records = n.records /\ m.inst = n.inst /\ m.req = n.req
    BY StopIs
  <2> HIDE DEF m
  <2>4. m.core = n.core \ ({r} \X {"map"}) /\ \A x \in Requests \ {r} : m.req[x] = n.req[x]
    BY <2>3
  <2>5. Cleared(n, r, m)
    BY <1>9, <2>2, <2>3, <2>4, StoppedIsCleared
  <2> QED
    BY <2>1, <2>5
<1>10. CASE op = "register"
  <2>1. terminate(n, r) = regservice_termination(n, r)
    BY <1>10 DEF terminate
  <2> QED
    BY <1>10, <2>1, RegserviceClears
<1>11. CASE op \notin {"browse", "query", "addrinfo", "resolve", "enum", "map", "register"}
  <2>1. terminate(n, r) = n
    BY <1>11 DEF terminate
  <2>2. HoldsIn(n, r) \subseteq {}
    BY <1>11 DEF HoldsIn
  <2>3. n.core = n.core \ ({r} \X {})
    OBVIOUS
  <2>4. Cleared(n, r, n)
    BY <1>11, <2>2, <2>3, StoppedIsCleared
  <2> QED
    BY <2>1, <2>4
<1> QED
  BY <1>4, <1>5, <1>6, <1>7, <1>8, <1>9, <1>10, <1>11

(* Requests on a shared connection, which go with it.                        *)
FreedAll(b, T) == FoldSet(LAMBDA s, x : Free(terminate(x, s), s), b, T)

LEMMA FreedAllWithin ==
  ASSUME NEW T, IsFiniteSet(T), NEW D, NEW b \in D, \A s \in T, x \in D : Free(terminate(x, s), s) \in D
  PROVE  FreedAll(b, T) \in D
<1> DEFINE ch == [s \in SUBSET T |-> CHOOSE e \in s : TRUE]
           G == [z \in T \X D |-> Free(terminate(z[2], z[1]), z[1])]
           IsFold(g) == g = [s \in SUBSET T |->
             IF s = {} THEN b
             ELSE Free(terminate(g[s \ {CHOOSE e \in s : TRUE}], CHOOSE e \in s : TRUE), CHOOSE e \in s : TRUE)]
           fold == CHOOSE g : IsFold(g)
           EE == [s \in SUBSET T |-> D]
<1>1. FreedAll(b, T) = fold[T]
  BY DEF FreedAll, FoldSet, MapThenFoldSet
<1>2. G \in [T \X D -> D]
  OBVIOUS
<1>3. IsChoice(ch, T) /\ \A s \in SUBSET T : ch[s] = CHOOSE e \in s : TRUE
  BY DEF IsChoice
<1>4. \A e \in T, z \in D : G[<<e, z>>] = Free(terminate(z, e), e)
  OBVIOUS
<1>5. \A s \in SUBSET T : EE[s] = D
  OBVIOUS
<1> HIDE DEF G, IsFold, fold, ch, EE
<1>6. PICK f \in [SUBSET T -> D] : FoldsAs(f, T, ch, b, G)
  BY <1>2, <1>3, FoldExists
<1>7. \A s \in SUBSET T : s # {} => ch[s] \in s /\ ch[s] \in T /\ Rest(ch, s) \in SUBSET T
  BY <1>3, RestIsSmaller
<1>8. \A s \in SUBSET T : s # {} => G[<<ch[s], f[Rest(ch, s)]>>] = Free(terminate(f[Rest(ch, s)], ch[s]), ch[s])
  BY <1>4, <1>6, <1>7
<1>9. IsFold(f)
  BY <1>3, <1>6, <1>8 DEF IsFold, FoldsAs, Rest
<1>10. IsFold(fold)
  BY <1>9 DEF fold
<1>11. fold[{}] = b /\ \A s \in SUBSET T : s # {} => fold[s] = Free(terminate(fold[Rest(ch, s)], ch[s]), ch[s])
  BY <1>3, <1>10 DEF IsFold, Rest
<1>12. fold[{}] \in EE[{}]
  BY <1>5, <1>11
<1>13. \A s \in SUBSET T : s # {} /\ fold[Rest(ch, s)] \in EE[Rest(ch, s)] => fold[s] \in EE[s]
  BY <1>5, <1>7, <1>11
<1>14. fold[T] \in EE[T]
  BY <1>3, <1>12, <1>13, FoldWithin
<1> QED
  BY <1>1, <1>5, <1>14

LEMMA ConnectionClears ==
  ASSUME NEW n \in Daemon, Good(n), NEW r \in Live(n), n.req[r].op = "connection"
  PROVE  \E n1 \in Daemon : /\ Good(n1) /\ r \in Requests
                            /\ Cleared(n1, r, connection_termination(n, r))
<1> DEFINE T == Subordinates(n, r)
           D == {y \in Daemon : /\ Good(y) /\ r \in Live(y) /\ Alike(n.req[r], y.req[r])
                               /\ \A x \in Requests : y.req[x].op \in {n.req[x].op, "none"}}
           n1 == FreedAll(n, T)
           q == [n1.req[r] EXCEPT !.reg_recs = {}]
           kept == {k \in n1.records : k[1] # r}
           m == connection_termination(n, r)
<1>1. r \in Requests /\ r # Nobody
  <2>1. r \in Requests
    BY LiveAreRequests
  <2> QED
    BY <2>1, UdsAssumption
<1>2. m = [n1 EXCEPT !.records = kept, !.req[r] = q]
  BY DEF connection_termination, FreedAll
<1>3. T \in SUBSET Requests /\ IsFiniteSet(T) /\ r \notin T
      /\ \A s \in T : n.req[s].op # "connection"
  <2>1. T \in SUBSET Requests
    BY LiveAreRequests DEF Subordinates
  <2>2. \A s \in T : n.req[s].primary = r
    BY DEF Subordinates
  <2>3. \A s \in Requests : n.req[s].op = "connection" => n.req[s].primary = Nobody
    BY DEF Good, RequestsAreProper, ProperRequest
  <2> HIDE DEF T
  <2> QED
    BY <1>1, <2>1, <2>2, <2>3, PartsAreFinite
<1>4. n \in D
  BY DEF Alike
<1>5. ASSUME NEW s \in T, NEW x \in D PROVE Free(terminate(x, s), s) \in D
  <2> DEFINE y == Free(terminate(x, s), s)
  <2>1. /\ x \in Daemon /\ Good(x) /\ r \in Live(x) /\ Alike(n.req[r], x.req[r])
        /\ \A z \in Requests : x.req[z].op \in {n.req[z].op, "none"}
    OBVIOUS
  <2>2. s \in Requests /\ s # r /\ x.req[s].op # "connection"
    BY <1>3, <2>1
  <2>3. Cleared(x, s, terminate(x, s))
    BY <2>1, <2>2, TerminateClears
  <2>4. /\ y \in Daemon /\ Good(y) /\ Live(y) = Live(x) \ {s} /\ y.req[s] = NoRequest
        /\ \A z \in Requests \ {s} : Alike(x.req[z], y.req[z])
    BY <2>1, <2>2, <2>3, FreeIsGood
  <2> HIDE DEF y, D, T
  <2>5. Alike(n.req[r], y.req[r])
    BY <1>1, <2>1, <2>2, <2>4 DEF Alike
  <2>6. ASSUME NEW z \in Requests PROVE y.req[z].op \in {n.req[z].op, "none"}
    BY <2>1, <2>4, NoRequestTyped DEF Alike
  <2> QED
    BY <2>1, <2>2, <2>4, <2>5, <2>6 DEF D, y
<1> HIDE DEF D, T
<1>6. n1 \in D
  BY <1>3, <1>4, <1>5, FreedAllWithin
<1>7. n1 \in Daemon /\ Good(n1) /\ r \in Live(n1) /\ Alike(n.req[r], n1.req[r])
  BY <1>6 DEF D
<1> HIDE DEF n1
<1>8. n1.req[r].op = "connection"
  BY <1>7 DEF Alike
<1>9. q \in RequestState
  <2>1. n1.req[r] \in RequestState
    BY <1>1, <1>7, RequestsTyped
  <2> QED
    BY <2>1 DEF RequestState
<1>10. kept \in SUBSET (Requests \X Keys)
  BY <1>7 DEF Daemon
<1>11. \A x \in Requests, k \in Keys : <<x, k>> \in kept <=> x # r /\ <<x, k>> \in n1.records
  OBVIOUS
<1>12. [n1.req EXCEPT ![r] = q] \in [Requests -> RequestState]
  BY <1>7, <1>9 DEF Daemon
<1> HIDE DEF q, kept
<1>13. /\ m \in Daemon /\ m.all_requests = n1.all_requests /\ m.core = n1.core /\ m.records = kept
       /\ m.inst = n1.inst /\ m.req = [n1.req EXCEPT ![r] = q]
  BY ZenonT(60), <1>2, <1>7, <1>10, <1>12 DEF Daemon
<1> HIDE DEF m
<1>14. \A x \in Requests \ {r} : Alike(n1.req[x], m.req[x])
  BY <1>7, <1>13 DEF Alike, Daemon
<1>15. \A x \in Requests, k \in Kinds : <<x, k>> \in m.core <=> x # r /\ <<x, k>> \in n1.core
  <2>1. HoldsIn(n1, r) = {}
    BY <1>8 DEF HoldsIn
  <2> QED
    BY <1>1, <1>7, <1>13, <2>1 DEF Good, CoreIsTheirs
<1>16. \A i \in Instances : /\ m.inst[i].request # Nobody => m.inst[i].request \in OfOp(n1, "register") \ {r}
                            /\ Owned(m.inst[i])
  <2>1. r \notin OfOp(n1, "register")
    BY <1>8 DEF OfOp
  <2> QED
    BY <1>7, <1>13, <2>1 DEF Good, ServicesAreOwned
<1>17. Cleared(n1, r, m)
  BY <1>11, <1>13, <1>14, <1>15, <1>16 DEF Cleared
<1> QED
  BY <1>1, <1>7, <1>17 DEF m

LEMMA AbortIsGood ==
  ASSUME NEW n \in Daemon, Good(n), NEW r \in Live(n)
  PROVE  AbortUnlinkAndFree(n, r) \in Daemon /\ Good(AbortUnlinkAndFree(n, r))
<1> DEFINE n1 == IF n.req[r].op = "connection" THEN connection_termination(n, r) ELSE terminate(n, r)
           c == n.req[r].sd
           n2 == [n1 EXCEPT !.sock[c] = "closed"]
           m == IF n.req[r].primary = Nobody THEN n2 ELSE n1
<1>1. AbortUnlinkAndFree(n, r) = Free(m, r)
  BY DEF AbortUnlinkAndFree
<1>2. r \in Requests
  BY LiveAreRequests
<1>3. \E k \in Daemon : Good(k) /\ Cleared(k, r, n1)
  BY <1>2, ConnectionClears, TerminateClears
<1> HIDE DEF n1, c
<1>4. PICK k \in Daemon : Good(k) /\ Cleared(k, r, n1)
  BY <1>3
<1>5. n1 \in Daemon
  BY <1>4 DEF Cleared
<1>6. /\ n2 \in Daemon /\ n2.all_requests = n1.all_requests /\ n2.core = n1.core /\ n2.records = n1.records
      /\ n2.req = n1.req /\ n2.inst = n1.inst
  <2> DEFINE sock == [n1.sock EXCEPT ![c] = "closed"]
  <2>1. sock \in [Clients -> {"closed", "open", "gone"}]
    BY <1>5 DEF Daemon
  <2>2. n2 = [n1 EXCEPT !.sock = sock]
    BY <1>5 DEF Daemon
  <2> HIDE DEF sock, n2
  <2> QED
    BY ZenonT(60), <1>5, <2>1, <2>2 DEF Daemon
<1> HIDE DEF n2
<1>7. Cleared(k, r, m)
  BY <1>4, <1>6 DEF Cleared
<1> HIDE DEF m
<1> QED
  BY <1>1, <1>2, <1>4, <1>7, FreeIsGood

-----------------------------------------------------------------------------
(* What begins a request puts what is its into the core.                     *)

LEMMA ArgumentsTyped ==
  ASSUME NEW op \in Ops, NEW a \in Arguments(op)
  PROVE  /\ a.op = op /\ a.domain = Local /\ a.default \in BOOLEAN /\ a.autoname \in BOOLEAN
         /\ a.autorename \in BOOLEAN /\ a.protocol \subseteq {"q4", "q6"}
<1>1. CASE op = "register"
  BY <1>1 DEF Arguments, Asked, No
<1>2. CASE op = "browse"
  BY <1>2 DEF Arguments, Asked, No
<1>3. CASE op = "addrinfo"
  BY <1>3 DEF Arguments, Asked, No
<1>4. CASE op \in {"resolve", "query"}
  BY <1>4 DEF Arguments, Asked, No
<1>5. CASE op \notin {"register", "browse", "addrinfo", "resolve", "query"}
  BY <1>5 DEF Arguments, Asked, No
<1> QED
  BY <1>1, <1>2, <1>3, <1>4, <1>5

(* A request that has been read, and nothing has been done for it.           *)
Fresh(n, r) ==
  /\ n \in Daemon /\ Good(n) /\ r \in Live(n) /\ r \in Requests /\ n.req[r].op = "none"
  /\ n.req[r].browsers = {} /\ n.req[r].context = {} /\ n.req[r].reg_recs = {}

Opening(n, r, q, H, m) ==
  /\ m \in Daemon /\ m.all_requests = n.all_requests /\ m.records = n.records /\ m.inst = n.inst
  /\ q \in RequestState /\ m.req = [n.req EXCEPT ![r] = q] /\ m.core = n.core \cup ({r} \X H)

LEMMA OpeningBegins ==
  ASSUME NEW n, NEW r, Fresh(n, r)
  PROVE  Opening(n, r, n.req[r], {}, n)
<1>1. n \in Daemon /\ r \in Requests
  BY DEF Fresh
<1>2. n.req[r] \in RequestState /\ n.req \in [Requests -> RequestState]
  BY <1>1 DEF Daemon
<1>3. n.req = [n.req EXCEPT ![r] = n.req[r]]
  BY <1>1, <1>2
<1> QED
  BY <1>1, <1>2, <1>3 DEF Opening

LEMMA OpeningPuts ==
  ASSUME NEW n, NEW r, Fresh(n, r), NEW q, NEW H, NEW m, Opening(n, r, q, H, m), NEW p \in RequestState
  PROVE  Opening(n, r, p, H, WithRequest(m, r, p))
<1> DEFINE k == WithRequest(m, r, p)
<1>1. m \in Daemon /\ r \in Requests /\ n.req \in [Requests -> RequestState] /\ q \in RequestState
  BY DEF Fresh, Opening, Daemon
<1>2. /\ k \in Daemon /\ k.all_requests = m.all_requests /\ k.core = m.core /\ k.records = m.records
      /\ k.inst = m.inst /\ k.req = [m.req EXCEPT ![r] = p]
  BY <1>1, WithRequestIs
<1> HIDE DEF k
<1>3. m.req = [n.req EXCEPT ![r] = q]
  BY DEF Opening
<1>4. k.req = [n.req EXCEPT ![r] = p]
  BY <1>1, <1>2, <1>3
<1> QED
  BY <1>2, <1>4 DEF Opening, k

LEMMA OpeningAsks ==
  ASSUME NEW n, NEW r, Fresh(n, r), NEW q, NEW H, NEW m, Opening(n, r, q, H, m), NEW k \in Kinds
  PROVE  Opening(n, r, q, H \cup {k}, StartQuery(m, r, k))
<1> DEFINE x == StartQuery(m, r, k)
<1>1. m \in Daemon /\ r \in Requests
  BY DEF Fresh, Opening
<1>2. /\ x \in Daemon /\ x.all_requests = m.all_requests /\ x.core = m.core \cup {<<r, k>>}
      /\ x.records = m.records /\ x.inst = m.inst /\ x.req = m.req
  BY <1>1, StartIs
<1> HIDE DEF x
<1>3. x.core = n.core \cup ({r} \X (H \cup {k}))
  BY <1>2 DEF Opening
<1> QED
  BY <1>2, <1>3 DEF Opening, x

LEMMA OpeningStops ==
  ASSUME NEW n, NEW r, Fresh(n, r), NEW q, NEW H, NEW m, Opening(n, r, q, H, m), NEW k \in Kinds
  PROVE  Opening(n, r, q, H \ {k}, StopQuery(m, r, k))
<1> DEFINE x == StopQuery(m, r, k)
<1>1. m \in Daemon /\ r \in Requests
  BY DEF Fresh, Opening
<1>2. /\ x \in Daemon /\ x.all_requests = m.all_requests /\ x.core = m.core \ {<<r, k>>}
      /\ x.records = m.records /\ x.inst = m.inst /\ x.req = m.req
  BY <1>1, StopIs
<1> HIDE DEF x
<1>3. <<r, k>> \notin n.core
  <2>1. HoldsIn(n, r) = {}
    BY DEF Fresh, HoldsIn
  <2> QED
    BY <2>1 DEF Fresh, Good, CoreIsTheirs
<1>4. x.core = n.core \cup ({r} \X (H \ {k}))
  BY <1>2, <1>3 DEF Opening
<1> QED
  BY <1>2, <1>4 DEF Opening, x

LEMMA OpenedIsGood ==
  ASSUME NEW n, NEW r, Fresh(n, r), NEW q, NEW H, NEW m, Opening(n, r, q, H, m),
         ProperRequest(q), q.reg_recs = {}, HoldsIn(m, r) = H
  PROVE  m \in Daemon /\ Good(m) /\ r \in Live(m) /\ m.req[r] = q
<1>1. /\ m \in Daemon /\ m.all_requests = n.all_requests /\ m.records = n.records /\ m.inst = n.inst
      /\ q \in RequestState /\ m.req = [n.req EXCEPT ![r] = q] /\ m.core = n.core \cup ({r} \X H)
  BY DEF Opening
<1>2. n \in Daemon /\ Good(n) /\ r \in Live(n) /\ r \in Requests /\ n.req[r].op = "none" /\ n.req[r].reg_recs = {}
  BY DEF Fresh
<1>3. HoldsIn(n, r) = {}
  BY <1>2 DEF HoldsIn
<1>4. \A x \in Requests, k \in Kinds :
        <<x, k>> \in m.core <=> IF x = r THEN k \in HoldsIn(m, r) ELSE <<x, k>> \in n.core
  BY <1>1, <1>2, <1>3 DEF Good, CoreIsTheirs
<1>5. \A x \in Requests, k \in Keys :
        <<x, k>> \in m.records <=> IF x = r THEN k \in q.reg_recs ELSE <<x, k>> \in n.records
  BY <1>1, <1>2 DEF Good, CoreIsTheirs
<1>6. Good(m)
  BY <1>1, <1>2, <1>4, <1>5, PutHolding
<1>7. r \in Live(m)
  BY <1>1, <1>2 DEF Live
<1>8. m.req[r] = q
  BY <1>1, <1>2 DEF Daemon
<1> QED
  BY <1>1, <1>6, <1>7, <1>8

LEMMA StartIsPut ==
  ASSUME NEW m, NEW r, NEW op
  PROVE  Start(m, r, op) = WithRequest(m, r, [m.req[r] EXCEPT !.op = op])
  BY DEF Start, WithRequest

LEMMA KindsAre == Domains \subseteq Kinds /\ {"srv", "txt", "q", "q4", "q6", "all", "default", "map"} \subseteq Kinds
  BY DEF Kinds

LEMMA OpeningRequest ==
  ASSUME NEW n, NEW r, Fresh(n, r), NEW q, NEW H, NEW m, Opening(n, r, q, H, m)
  PROVE  m.req[r] = q /\ q \in RequestState
<1>1. m.req = [n.req EXCEPT ![r] = q] /\ n.req \in [Requests -> RequestState] /\ r \in Requests
  BY DEF Opening, Fresh, Daemon
<1> QED
  BY <1>1 DEF Opening

(* A request with the questions T, all begun.                                *)
LEMMA StartedIsGood ==
  ASSUME NEW n, NEW r, Fresh(n, r), NEW op \in Ops \ {"register", "connection", "browse"},
         NEW m, NEW T, NEW q, Opening(n, r, q, T, m), q.primary = n.req[r].primary, q.reg_recs = {},
         op = "resolve" => T = {"srv", "txt"}, op = "enum" => T = {"all", "default"},
         op = "map" => T = {"map"}, op = "query" => T = {"q"} /\ q.context = T,
         op = "addrinfo" => T \subseteq {"q4", "q6"} /\ q.context = T
  PROVE  Start(m, r, op) \in Daemon /\ Good(Start(m, r, op))
<1> DEFINE p == [q EXCEPT !.op = op]
           k == WithRequest(m, r, p)
<1>1. m.req[r] = q /\ q \in RequestState
  BY OpeningRequest
<1>2. p \in RequestState /\ p.op = op /\ p.reg_recs = {} /\ p.context = q.context
  BY <1>1 DEF RequestState
<1>3. Start(m, r, op) = k
  BY <1>1, StartIsPut
<1> HIDE DEF p
<1>4. Opening(n, r, p, T, k)
  BY <1>2, OpeningPuts
<1> HIDE DEF k
<1>5. k.req[r] = p
  BY <1>4, OpeningRequest
<1>6. ProperRequest(p)
  BY <1>2 DEF ProperRequest
<1>7. op \in {"resolve", "enum", "map", "query", "addrinfo"}
  BY UdsAssumption
<1>8. HoldsIn(k, r) = T
  BY <1>2, <1>5, <1>7 DEF HoldsIn
<1> QED
  BY <1>2, <1>3, <1>4, <1>6, <1>8, OpenedIsGood

LEMMA ResolveIsGood ==
  ASSUME NEW n, NEW r, Fresh(n, r), "resolve" \in Ops, NEW a
  PROVE  handle_resolve_request(n, r, a) \in Daemon /\ Good(handle_resolve_request(n, r, a))
<1> DEFINE q == n.req[r]
           n1 == StartQuery(n, r, "srv")
           n2 == StartQuery(n1, r, "txt")
<1>1. handle_resolve_request(n, r, a) = IF a.fails # {} THEN n ELSE Start(n2, r, "resolve")
  BY DEF handle_resolve_request
<1>2. n \in Daemon /\ Good(n)
  BY DEF Fresh
<1>3. Opening(n, r, q, {}, n) /\ q.reg_recs = {}
  BY OpeningBegins DEF Fresh
<1>4. "srv" \in Kinds /\ "txt" \in Kinds /\ q.primary = n.req[r].primary
  BY KindsAre
<1> HIDE DEF q
<1>5. Opening(n, r, q, {"srv"}, n1)
  <2>1. Opening(n, r, q, {} \cup {"srv"}, n1)
    BY <1>3, <1>4, OpeningAsks
  <2>2. {} \cup {"srv"} = {"srv"}
    OBVIOUS
  <2> QED
    BY <2>1, <2>2
<1> HIDE DEF n1
<1>6. Opening(n, r, q, {"srv", "txt"}, n2)
  <2>1. Opening(n, r, q, {"srv"} \cup {"txt"}, n2)
    BY <1>4, <1>5, OpeningAsks
  <2>2. {"srv"} \cup {"txt"} = {"srv", "txt"}
    OBVIOUS
  <2> QED
    BY <2>1, <2>2
<1> HIDE DEF n2
<1>7. Start(n2, r, "resolve") \in Daemon /\ Good(Start(n2, r, "resolve"))
  BY <1>3, <1>4, <1>6, StartedIsGood
<1> QED
  BY <1>1, <1>2, <1>7

LEMMA EnumIsGood ==
  ASSUME NEW n, NEW r, Fresh(n, r), "enum" \in Ops, NEW a
  PROVE  handle_enum_request(n, r, a) \in Daemon /\ Good(handle_enum_request(n, r, a))
<1> DEFINE q == n.req[r]
           n1 == StartQuery(n, r, "all")
           n2 == StartQuery(n1, r, "default")
<1>1. handle_enum_request(n, r, a) = IF a.fails # {} THEN n ELSE Start(n2, r, "enum")
  BY DEF handle_enum_request
<1>2. n \in Daemon /\ Good(n)
  BY DEF Fresh
<1>3. Opening(n, r, q, {}, n) /\ q.reg_recs = {}
  BY OpeningBegins DEF Fresh
<1>4. "all" \in Kinds /\ "default" \in Kinds /\ q.primary = n.req[r].primary
  BY KindsAre
<1> HIDE DEF q
<1>5. Opening(n, r, q, {"all"}, n1)
  <2>1. Opening(n, r, q, {} \cup {"all"}, n1)
    BY <1>3, <1>4, OpeningAsks
  <2>2. {} \cup {"all"} = {"all"}
    OBVIOUS
  <2> QED
    BY <2>1, <2>2
<1> HIDE DEF n1
<1>6. Opening(n, r, q, {"all", "default"}, n2)
  <2>1. Opening(n, r, q, {"all"} \cup {"default"}, n2)
    BY <1>4, <1>5, OpeningAsks
  <2>2. {"all"} \cup {"default"} = {"all", "default"}
    OBVIOUS
  <2> QED
    BY <2>1, <2>2
<1> HIDE DEF n2
<1>7. Start(n2, r, "enum") \in Daemon /\ Good(Start(n2, r, "enum"))
  BY <1>3, <1>4, <1>6, StartedIsGood
<1> QED
  BY <1>1, <1>2, <1>7

LEMMA MappingIsGood ==
  ASSUME NEW n, NEW r, Fresh(n, r), "map" \in Ops, NEW a
  PROVE  handle_port_mapping_request(n, r, a) \in Daemon /\ Good(handle_port_mapping_request(n, r, a))
<1> DEFINE q == n.req[r]
           n1 == StartQuery(n, r, "map")
<1>1. handle_port_mapping_request(n, r, a) = IF a.fails # {} THEN n ELSE Start(n1, r, "map")
  BY DEF handle_port_mapping_request
<1>2. n \in Daemon /\ Good(n)
  BY DEF Fresh
<1>3. Opening(n, r, q, {}, n) /\ q.reg_recs = {}
  BY OpeningBegins DEF Fresh
<1>4. "map" \in Kinds /\ q.primary = n.req[r].primary
  BY KindsAre
<1> HIDE DEF q
<1>5. Opening(n, r, q, {"map"}, n1)
  <2>1. Opening(n, r, q, {} \cup {"map"}, n1)
    BY <1>3, <1>4, OpeningAsks
  <2>2. {} \cup {"map"} = {"map"}
    OBVIOUS
  <2> QED
    BY <2>1, <2>2
<1> HIDE DEF n1
<1>6. Start(n1, r, "map") \in Daemon /\ Good(Start(n1, r, "map"))
  BY <1>3, <1>4, <1>5, StartedIsGood
<1> QED
  BY <1>1, <1>2, <1>6

(* A question of a request that has a context for it.                        *)
LEMMA OpeningContext ==
  ASSUME NEW n, NEW r, Fresh(n, r), NEW q, NEW H, NEW m, Opening(n, r, q, H, m),
         NEW c, c \subseteq {"q", "q4", "q6"}
  PROVE  LET p == [q EXCEPT !.context = c] IN
         /\ Opening(n, r, p, H, WithRequest(m, r, p)) /\ p.context = c
         /\ p.primary = q.primary /\ p.reg_recs = q.reg_recs
<1> DEFINE p == [q EXCEPT !.context = c]
<1>1. q \in RequestState
  BY DEF Opening
<1>2. p \in RequestState /\ p.context = c /\ p.primary = q.primary /\ p.reg_recs = q.reg_recs
  BY <1>1 DEF RequestState
<1> HIDE DEF p
<1>3. Opening(n, r, p, H, WithRequest(m, r, p))
  BY <1>2, OpeningPuts
<1> QED
  BY <1>2, <1>3 DEF p

LEMMA QueryIsGood ==
  ASSUME NEW n, NEW r, Fresh(n, r), "query" \in Ops, NEW a
  PROVE  handle_queryrecord_request(n, r, a) \in Daemon /\ Good(handle_queryrecord_request(n, r, a))
<1> DEFINE q == n.req[r]
           p == [q EXCEPT !.context = {"q"}]
           n1 == WithRequest(n, r, p)
           n2 == StartQuery(n1, r, "q")
<1>1. handle_queryrecord_request(n, r, a) = IF a.fails # {} THEN n ELSE Start(n2, r, "query")
  BY DEF handle_queryrecord_request, WithRequest
<1>2. n \in Daemon /\ Good(n)
  BY DEF Fresh
<1>3. Opening(n, r, q, {}, n) /\ q.reg_recs = {}
  BY OpeningBegins DEF Fresh
<1>4. "q" \in Kinds /\ q.primary = n.req[r].primary
  BY KindsAre
<1> HIDE DEF q
<1>5. Opening(n, r, p, {}, n1) /\ p.context = {"q"} /\ p.primary = q.primary /\ p.reg_recs = q.reg_recs
  BY <1>3, OpeningContext
<1> HIDE DEF p, n1
<1>6. Opening(n, r, p, {"q"}, n2)
  <2>1. Opening(n, r, p, {} \cup {"q"}, n2)
    BY <1>4, <1>5, OpeningAsks
  <2>2. {} \cup {"q"} = {"q"}
    OBVIOUS
  <2> QED
    BY <2>1, <2>2
<1> HIDE DEF n2
<1>7. Start(n2, r, "query") \in Daemon /\ Good(Start(n2, r, "query"))
  BY <1>3, <1>4, <1>5, <1>6, StartedIsGood
<1> QED
  BY <1>1, <1>2, <1>7

LEMMA AddrinfoIsGood ==
  ASSUME NEW n, NEW r, Fresh(n, r), "addrinfo" \in Ops, NEW a, a.protocol \subseteq {"q4", "q6"}
  PROVE  handle_addrinfo_request(n, r, a) \in Daemon /\ Good(handle_addrinfo_request(n, r, a))
<1> DEFINE q == n.req[r]
           H4 == a.protocol \cap {"q4"}
           p4 == IF "q4" \notin a.protocol THEN q ELSE [q EXCEPT !.context = {"q4"}]
           n4 == IF "q4" \notin a.protocol THEN n ELSE StartQuery(WithRequest(n, r, p4), r, "q4")
           p6 == IF "q6" \notin a.protocol THEN p4 ELSE [p4 EXCEPT !.context = H4 \cup {"q6"}]
           n6 == IF "q6" \notin a.protocol THEN n4 ELSE StartQuery(WithRequest(n4, r, p6), r, "q6")
           p0 == [p4 EXCEPT !.context = {}]
           n0 == StopQuery(WithRequest(n4, r, p0), r, "q4")
           m == handle_addrinfo_request(n, r, a)
<1>1. n \in Daemon /\ Good(n) /\ q.op = "none"
  BY DEF Fresh
<1>2. Opening(n, r, q, {}, n) /\ q.reg_recs = {} /\ q.context = {} /\ q.primary = n.req[r].primary
  BY OpeningBegins DEF Fresh
<1>3. "q4" \in Kinds /\ "q6" \in Kinds
  BY KindsAre
<1>4. p4.context = H4 /\ p4.primary = q.primary /\ p4.reg_recs = q.reg_recs /\ p4.op = q.op
      /\ Opening(n, r, p4, H4, n4)
  <2>1. CASE "q4" \notin a.protocol
    <3>1. H4 = {}
      BY <2>1
    <3> QED
      BY <1>2, <2>1, <3>1
  <2>2. CASE "q4" \in a.protocol
    <3> DEFINE c == {"q4"}
               p == [q EXCEPT !.context = c]
    <3>1. H4 = c /\ p4 = p /\ {} \cup {"q4"} = c /\ c \subseteq {"q", "q4", "q6"}
      BY <2>2
    <3>2. n4 = StartQuery(WithRequest(n, r, p), r, "q4")
      BY <2>2
    <3>3. q \in RequestState
      BY <1>2 DEF Opening
    <3>4. p.op = q.op
      BY <3>3 DEF RequestState
    <3> HIDE DEF q, n4, p4, H4, c
    <3>5. Opening(n, r, p, {}, WithRequest(n, r, p)) /\ p.context = c /\ p.primary = q.primary /\ p.reg_recs = q.reg_recs
      BY <1>2, <3>1, OpeningContext
    <3> HIDE DEF p
    <3>6. Opening(n, r, p, {} \cup {"q4"}, StartQuery(WithRequest(n, r, p), r, "q4"))
      BY <1>3, <3>5, OpeningAsks
    <3> QED
      BY <3>1, <3>2, <3>4, <3>5, <3>6
  <2> QED
    BY <2>1, <2>2
<1>5. n4.req[r] = p4 /\ p4 \in RequestState
  BY <1>4, OpeningRequest
<1>6. m = CASE "q4" \in a.fails \cap a.protocol -> n
            [] "q6" \in a.fails \cap a.protocol -> n0
            [] OTHER -> Start(n6, r, "addrinfo")
  BY <1>4, <1>5 DEF handle_addrinfo_request, WithRequest
<1>7. H4 \subseteq {"q4"}
  OBVIOUS
<1>8. /\ p6.context = a.protocol /\ p6.primary = q.primary /\ p6.reg_recs = q.reg_recs
      /\ Opening(n, r, p6, a.protocol, n6)
  <2>1. CASE "q6" \notin a.protocol
    <3>1. H4 = a.protocol
      BY <2>1
    <3> QED
      BY <1>4, <2>1, <3>1
  <2>2. CASE "q6" \in a.protocol
    <3> DEFINE c == H4 \cup {"q6"}
               p == [p4 EXCEPT !.context = c]
    <3>1. c = a.protocol /\ p6 = p /\ c \subseteq {"q", "q4", "q6"}
      BY <2>2
    <3>2. n6 = StartQuery(WithRequest(n4, r, p), r, "q6")
      BY <2>2
    <3> HIDE DEF q, n4, p4, n6, p6, H4
    <3>3. c = H4 \cup {"q6"}
      OBVIOUS
    <3> HIDE DEF c
    <3>5. Opening(n, r, p, H4, WithRequest(n4, r, p)) /\ p.context = c /\ p.primary = p4.primary /\ p.reg_recs = p4.reg_recs
      BY <1>4, <3>1, OpeningContext
    <3> HIDE DEF p
    <3>6. Opening(n, r, p, H4 \cup {"q6"}, StartQuery(WithRequest(n4, r, p), r, "q6"))
      BY <1>3, <3>5, OpeningAsks
    <3> QED
      BY <1>4, <3>1, <3>2, <3>3, <3>5, <3>6
  <2> QED
    BY <2>1, <2>2
<1>9. n0 \in Daemon /\ Good(n0)
  <2> HIDE DEF q, n4, p4, H4
  <2>1. Opening(n, r, p0, H4, WithRequest(n4, r, p0)) /\ p0.reg_recs = p4.reg_recs /\ p0.primary = p4.primary
    BY <1>4, OpeningContext
  <2>2. p0.op = "none"
    BY <1>1, <1>4, <1>5 DEF RequestState
  <2> HIDE DEF p0
  <2>3. Opening(n, r, p0, H4 \ {"q4"}, n0)
    BY <1>3, <2>1, OpeningStops
  <2>4. H4 \ {"q4"} = {}
    BY <1>7
  <2>5. n0.req[r] = p0
    BY <2>3, OpeningRequest
  <2> HIDE DEF n0
  <2>6. HoldsIn(n0, r) = {}
    BY <2>2, <2>5 DEF HoldsIn
  <2>7. ProperRequest(p0) /\ p0.reg_recs = {}
    BY <1>2, <1>4, <2>1, <2>2 DEF ProperRequest
  <2> QED
    BY <2>3, <2>4, <2>6, <2>7, OpenedIsGood
<1> HIDE DEF q, n4, p4, n6, p6, H4, n0, m
<1>10. Start(n6, r, "addrinfo") \in Daemon /\ Good(Start(n6, r, "addrinfo"))
  BY <1>2, <1>8, StartedIsGood
<1>11. m \in Daemon /\ Good(m)
  BY <1>1, <1>6, <1>9, <1>10
<1> QED
  BY <1>11 DEF m

(* A service that is registered in each of some domains.                     *)
RegisteredIn(r, b, T) == FoldSet(LAMBDA x, y : register_service_instance(y, r, x), b, T)

LEMMA RegisteredInWithin ==
  ASSUME NEW r, NEW T, IsFiniteSet(T), NEW D, NEW b \in D, \A x \in T, y \in D : register_service_instance(y, r, x) \in D
  PROVE  RegisteredIn(r, b, T) \in D
<1> DEFINE ch == [s \in SUBSET T |-> CHOOSE e \in s : TRUE]
           G == [z \in T \X D |-> register_service_instance(z[2], r, z[1])]
           IsFold(g) == g = [s \in SUBSET T |->
             IF s = {} THEN b
             ELSE register_service_instance(g[s \ {CHOOSE e \in s : TRUE}], r, CHOOSE e \in s : TRUE)]
           fold == CHOOSE g : IsFold(g)
           EE == [s \in SUBSET T |-> D]
<1>1. RegisteredIn(r, b, T) = fold[T]
  BY DEF RegisteredIn, FoldSet, MapThenFoldSet
<1>2. G \in [T \X D -> D]
  OBVIOUS
<1>3. IsChoice(ch, T) /\ \A s \in SUBSET T : ch[s] = CHOOSE e \in s : TRUE
  BY DEF IsChoice
<1>4. \A e \in T, z \in D : G[<<e, z>>] = register_service_instance(z, r, e)
  OBVIOUS
<1>5. \A s \in SUBSET T : EE[s] = D
  OBVIOUS
<1> HIDE DEF G, IsFold, fold, ch, EE
<1>6. PICK f \in [SUBSET T -> D] : FoldsAs(f, T, ch, b, G)
  BY <1>2, <1>3, FoldExists
<1>7. \A s \in SUBSET T : s # {} => ch[s] \in s /\ ch[s] \in T /\ Rest(ch, s) \in SUBSET T
  BY <1>3, RestIsSmaller
<1>8. \A s \in SUBSET T : s # {} => G[<<ch[s], f[Rest(ch, s)]>>] = register_service_instance(f[Rest(ch, s)], r, ch[s])
  BY <1>4, <1>6, <1>7
<1>9. IsFold(f)
  BY <1>3, <1>6, <1>8 DEF IsFold, FoldsAs, Rest
<1>10. IsFold(fold)
  BY <1>9 DEF fold
<1>11. fold[{}] = b /\ \A s \in SUBSET T : s # {} => fold[s] = register_service_instance(fold[Rest(ch, s)], r, ch[s])
  BY <1>3, <1>10 DEF IsFold, Rest
<1>12. fold[{}] \in EE[{}]
  BY <1>5, <1>11
<1>13. \A s \in SUBSET T : s # {} /\ fold[Rest(ch, s)] \in EE[Rest(ch, s)] => fold[s] \in EE[s]
  BY <1>5, <1>7, <1>11
<1>14. fold[T] \in EE[T]
  BY <1>3, <1>12, <1>13, FoldWithin
<1> QED
  BY <1>1, <1>5, <1>14

LEMMA RegserviceIsGood ==
  ASSUME NEW n, NEW r, Fresh(n, r), "register" \in Ops, NEW a \in Arguments("register")
  PROVE  handle_regservice_request(n, r, a) \in Daemon /\ Good(handle_regservice_request(n, r, a))
<1> DEFINE q == n.req[r]
           q1 == [q EXCEPT !.op = "register"]
           b == WithRequest(n, r, q1)
           p == [b.req[r] EXCEPT !.default_domain = a.default, !.autoname = a.autoname,
                                 !.autorename = a.autorename, !.name = IF a.autoname THEN n.nicelabel ELSE 0]
           n1 == WithRequest(b, r, p)
           x1 == IF a.default THEN Local ELSE a.domain
           n2 == register_service_instance(n1, r, x1)
           n3 == IF a.autoname THEN UpdateDeviceInfoRecord(n2) ELSE n2
           T == n.AutoRegistrationDomains
           m == handle_regservice_request(n, r, a)
<1>1. m = IF a.fails # {} THEN n1 ELSE IF ~a.default THEN n3 ELSE RegisteredIn(r, n3, T)
  BY DEF handle_regservice_request, RegisteredIn, Start, WithRequest
<1>2. n \in Daemon /\ Good(n) /\ r \in Requests
  BY DEF Fresh
<1>3. Opening(n, r, q, {}, n) /\ q.reg_recs = {} /\ q \in RequestState
  BY OpeningBegins DEF Fresh, Opening
<1>4. a.default \in BOOLEAN /\ a.autoname \in BOOLEAN /\ a.autorename \in BOOLEAN /\ a.domain = Local
  BY ArgumentsTyped
<1>5. x1 \in Domains
  BY <1>4, UdsAssumption
<1>6. (IF a.autoname THEN n.nicelabel ELSE 0) \in Names
  BY <1>2, UdsAssumption DEF Daemon, Names
<1>7a. q1 \in RequestState /\ q1.op = "register" /\ q1.reg_recs = {}
  BY <1>3 DEF RequestState
<1> HIDE DEF q1, q
<1>7b. Opening(n, r, q1, {}, b)
  BY <1>3, <1>7a, OpeningPuts
<1>7c. b.req[r] = q1
  BY <1>7b, OpeningRequest
<1> HIDE DEF b
<1>7. p \in RequestState /\ p.op = "register" /\ p.reg_recs = {} /\ ProperRequest(p)
  BY ZenonT(60), <1>4, <1>6, <1>7a, <1>7c DEF RequestState, ProperRequest
<1>8. T \in SUBSET Domains /\ IsFiniteSet(T)
  BY <1>2, PartsAreFinite DEF Daemon
<1> HIDE DEF p, T, x1, m
<1>9. Opening(n, r, p, {}, n1)
  BY <1>7, <1>7b, OpeningPuts
<1> HIDE DEF n1
<1>10. n1.req[r] = p
  BY <1>9, OpeningRequest
<1>11. HoldsIn(n1, r) = {}
  BY <1>7, <1>10 DEF HoldsIn
<1>12. n1 \in Daemon /\ Good(n1) /\ r \in Live(n1)
  BY <1>7, <1>9, <1>11, OpenedIsGood
<1>13. r \in OfOp(n1, "register")
  BY <1>7, <1>10, <1>12 DEF OfOp
<1>14. n2 \in AlongFrom(n1)
  BY <1>5, <1>12, <1>13, RegisterInstanceIsCalm, CalmIsAlong, Goes
<1> HIDE DEF n2
<1>15. n3 \in AlongFrom(n1)
  <2>1. n2 \in Daemon
    BY <1>12, <1>14, Goes
  <2>2. Calm(n2, UpdateDeviceInfoRecord(n2))
    BY <2>1, DeviceInfoIsCalm
  <2>3. Along(n2, UpdateDeviceInfoRecord(n2))
    BY <2>1, <2>2, CalmIsAlong
  <2>4. UpdateDeviceInfoRecord(n2) \in AlongFrom(n1)
    BY <1>12, <1>14, <2>3, Goes
  <2> QED
    BY <1>14, <2>4
<1> HIDE DEF n3
<1>16. ASSUME NEW x \in T, NEW y \in AlongFrom(n1) PROVE register_service_instance(y, r, x) \in AlongFrom(n1)
  <2>1. y \in Daemon /\ r \in OfOp(y, "register") /\ x \in Domains
    BY <1>8, <1>12, <1>13, Goes
  <2>2. Along(y, register_service_instance(y, r, x))
    BY <2>1, RegisterInstanceIsCalm, CalmIsAlong
  <2> QED
    BY <1>12, <2>2, Goes
<1>17. RegisteredIn(r, n3, T) \in AlongFrom(n1)
  BY <1>8, <1>15, <1>16, RegisteredInWithin
<1>18. m \in AlongFrom(n1)
  BY <1>1, <1>12, <1>15, <1>17, Goes
<1>19. m \in Daemon /\ Good(m)
  BY <1>12, <1>18 DEF AlongFrom, Along
<1> QED
  BY <1>19 DEF m

(* A browse that begins in each of some domains.                             *)
BrowsedIn(r, b, T) == FoldSet(LAMBDA x, y : add_domain_to_browser(y, r, x), b, T)

LEMMA BrowsedInWithin ==
  ASSUME NEW r, NEW T, IsFiniteSet(T), NEW D, NEW b \in D, \A x \in T, y \in D : add_domain_to_browser(y, r, x) \in D
  PROVE  BrowsedIn(r, b, T) \in D
<1> DEFINE ch == [s \in SUBSET T |-> CHOOSE e \in s : TRUE]
           G == [z \in T \X D |-> add_domain_to_browser(z[2], r, z[1])]
           IsFold(g) == g = [s \in SUBSET T |->
             IF s = {} THEN b
             ELSE add_domain_to_browser(g[s \ {CHOOSE e \in s : TRUE}], r, CHOOSE e \in s : TRUE)]
           fold == CHOOSE g : IsFold(g)
           EE == [s \in SUBSET T |-> D]
<1>1. BrowsedIn(r, b, T) = fold[T]
  BY DEF BrowsedIn, FoldSet, MapThenFoldSet
<1>2. G \in [T \X D -> D]
  OBVIOUS
<1>3. IsChoice(ch, T) /\ \A s \in SUBSET T : ch[s] = CHOOSE e \in s : TRUE
  BY DEF IsChoice
<1>4. \A e \in T, z \in D : G[<<e, z>>] = add_domain_to_browser(z, r, e)
  OBVIOUS
<1>5. \A s \in SUBSET T : EE[s] = D
  OBVIOUS
<1> HIDE DEF G, IsFold, fold, ch, EE
<1>6. PICK f \in [SUBSET T -> D] : FoldsAs(f, T, ch, b, G)
  BY <1>2, <1>3, FoldExists
<1>7. \A s \in SUBSET T : s # {} => ch[s] \in s /\ ch[s] \in T /\ Rest(ch, s) \in SUBSET T
  BY <1>3, RestIsSmaller
<1>8. \A s \in SUBSET T : s # {} => G[<<ch[s], f[Rest(ch, s)]>>] = add_domain_to_browser(f[Rest(ch, s)], r, ch[s])
  BY <1>4, <1>6, <1>7
<1>9. IsFold(f)
  BY <1>3, <1>6, <1>8 DEF IsFold, FoldsAs, Rest
<1>10. IsFold(fold)
  BY <1>9 DEF fold
<1>11. fold[{}] = b /\ \A s \in SUBSET T : s # {} => fold[s] = add_domain_to_browser(fold[Rest(ch, s)], r, ch[s])
  BY <1>3, <1>10 DEF IsFold, Rest
<1>12. fold[{}] \in EE[{}]
  BY <1>5, <1>11
<1>13. \A s \in SUBSET T : s # {} /\ fold[Rest(ch, s)] \in EE[Rest(ch, s)] => fold[s] \in EE[s]
  BY <1>5, <1>7, <1>11
<1>14. fold[T] \in EE[T]
  BY <1>3, <1>12, <1>13, FoldWithin
<1> QED
  BY <1>1, <1>5, <1>14

LEMMA BrowseIsGood ==
  ASSUME NEW n, NEW r, Fresh(n, r), "browse" \in Ops, NEW a \in Arguments("browse")
  PROVE  handle_browse_request(n, r, a) \in Daemon /\ Good(handle_browse_request(n, r, a))
<1> DEFINE q == n.req[r]
           q1 == [q EXCEPT !.op = "browse"]
           b == WithRequest(n, r, q1)
           p == [b.req[r] EXCEPT !.default_domain = a.default]
           n1 == WithRequest(b, r, p)
           T == (IF a.default THEN Browsing(n) ELSE {a.domain}) \ a.fails
           m == handle_browse_request(n, r, a)
<1>1. m = BrowsedIn(r, n1, T)
  BY DEF handle_browse_request, BrowsedIn, Start, WithRequest
<1>2. n \in Daemon /\ Good(n) /\ r \in Requests
  BY DEF Fresh
<1>3. Opening(n, r, q, {}, n) /\ q.reg_recs = {} /\ q.browsers = {} /\ q \in RequestState
  BY OpeningBegins DEF Fresh, Opening
<1>4. a.default \in BOOLEAN /\ a.domain = Local
  BY ArgumentsTyped
<1>5a. q1 \in RequestState /\ q1.op = "browse" /\ q1.reg_recs = {} /\ q1.browsers = {}
  BY <1>3 DEF RequestState
<1> HIDE DEF q1, q
<1>5b. Opening(n, r, q1, {}, b)
  BY <1>3, <1>5a, OpeningPuts
<1>5c. b.req[r] = q1
  BY <1>5b, OpeningRequest
<1> HIDE DEF b
<1>5. p \in RequestState /\ p.op = "browse" /\ p.reg_recs = {} /\ p.browsers = {} /\ ProperRequest(p)
  BY <1>4, <1>5a, <1>5c DEF RequestState, ProperRequest
<1>6. T \in SUBSET Domains /\ IsFiniteSet(T)
  <2>1. T \in SUBSET Domains
    BY <1>4, UdsAssumption DEF Browsing
  <2> QED
    BY <2>1, PartsAreFinite
<1> HIDE DEF p, T, m
<1>7. Opening(n, r, p, {}, n1)
  BY <1>5, <1>5b, OpeningPuts
<1> HIDE DEF n1
<1>8. n1.req[r] = p
  BY <1>7, OpeningRequest
<1>9. HoldsIn(n1, r) = {}
  BY <1>5, <1>8 DEF HoldsIn
<1>10. n1 \in Daemon /\ Good(n1) /\ r \in Live(n1)
  BY <1>5, <1>7, <1>9, OpenedIsGood
<1>11. r \in OfOp(n1, "browse")
  BY <1>5, <1>8, <1>10 DEF OfOp
<1>12. ASSUME NEW x \in T, NEW y \in AlongFrom(n1) PROVE add_domain_to_browser(y, r, x) \in AlongFrom(n1)
  <2>1. y \in Daemon /\ r \in OfOp(y, "browse") /\ x \in Domains
    BY <1>6, <1>10, <1>11, Goes
  <2>2. Along(y, add_domain_to_browser(y, r, x))
    BY <2>1, AddDomainIsAlong
  <2> QED
    BY <1>10, <2>2, Goes
<1>13. BrowsedIn(r, n1, T) \in AlongFrom(n1) /\ n1 \in AlongFrom(n1)
  BY <1>6, <1>10, <1>12, Goes, BrowsedInWithin
<1>14. m \in Daemon /\ Good(m)
  BY <1>1, <1>10, <1>13 DEF AlongFrom, Along
<1> QED
  BY <1>14 DEF m

LEMMA ConnectionIsGood ==
  ASSUME NEW n, NEW r, Fresh(n, r), "connection" \in Ops, n.req[r].primary = Nobody
  PROVE  Start(n, r, "connection") \in Daemon /\ Good(Start(n, r, "connection"))
<1> DEFINE q == n.req[r]
           p == [q EXCEPT !.op = "connection"]
           m == WithRequest(n, r, p)
<1>1. Start(n, r, "connection") = m
  BY DEF Start, WithRequest
<1>2. Opening(n, r, q, {}, n) /\ q.reg_recs = {} /\ q.primary = Nobody /\ q \in RequestState
  BY OpeningBegins DEF Fresh, Opening
<1>3. p \in RequestState /\ p.op = "connection" /\ p.reg_recs = {} /\ ProperRequest(p)
  BY <1>2 DEF RequestState, ProperRequest
<1> HIDE DEF q, p
<1>4. Opening(n, r, p, {}, m)
  BY <1>2, <1>3, OpeningPuts
<1> HIDE DEF m
<1>5. m.req[r] = p
  BY <1>4, OpeningRequest
<1>6. HoldsIn(m, r) = {}
  BY <1>3, <1>5 DEF HoldsIn
<1> QED
  BY <1>1, <1>3, <1>4, <1>6, OpenedIsGood

LEMMA HandleIsGood ==
  ASSUME NEW n, NEW r, Fresh(n, r), NEW op \in Ops, NEW a \in Arguments(op),
         op = "connection" => n.req[r].primary = Nobody
  PROVE  Handle(n, r, a) \in Daemon /\ Good(Handle(n, r, a))
<1>1. a.op = op /\ a.protocol \subseteq {"q4", "q6"}
  BY ArgumentsTyped
<1>2. CASE op = "connection"
  BY <1>1, <1>2, ConnectionIsGood DEF Handle
<1>3. CASE op = "register"
  BY <1>1, <1>3, RegserviceIsGood DEF Handle
<1>4. CASE op = "browse"
  BY <1>1, <1>4, BrowseIsGood DEF Handle
<1>5. CASE op = "resolve"
  BY <1>1, <1>5, ResolveIsGood DEF Handle
<1>6. CASE op = "query"
  BY <1>1, <1>6, QueryIsGood DEF Handle
<1>7. CASE op = "addrinfo"
  BY <1>1, <1>7, AddrinfoIsGood DEF Handle
<1>8. CASE op = "enum"
  BY <1>1, <1>8, EnumIsGood DEF Handle
<1>9. CASE op = "map"
  BY <1>1, <1>9, MappingIsGood DEF Handle
<1> QED
  BY <1>2, <1>3, <1>4, <1>5, <1>6, <1>7, <1>8, <1>9, UdsAssumption

(* A message of a client takes memory for a request.                         *)
LEMMA NewRequestIsFresh ==
  ASSUME NEW n \in Daemon, Good(n), NEW r \in Requests \ Live(n), NEW c \in Clients,
         NEW p \in Requests \cup {Nobody}
  PROVE  LET m == NewRequest(n, r, c, p) IN
         Fresh(m, r) /\ m.req[r].primary = p /\ m.sock = n.sock
<1> DEFINE q == [NoRequest EXCEPT !.sd = c, !.primary = p]
           all == Append(n.all_requests, r)
           m == NewRequest(n, r, c, p)
<1>1. n.all_requests \in Seq(Requests) /\ IsInjective(n.all_requests) /\ n.req \in [Requests -> RequestState]
  BY LiveAreRequests DEF Good, RequestsAreProper, Daemon
<1>2. all \in Seq(Requests) /\ IsInjective(all) /\ Range(all) = Live(n) \cup {r}
  BY <1>1, AppendIs DEF Live
<1>3. q \in RequestState /\ q.op = "none" /\ q.browsers = {} /\ q.context = {} /\ q.reg_recs = {} /\ q.primary = p
      /\ ProperRequest(q)
  BY NoRequestTyped DEF NoRequest, RequestState, ProperRequest
<1> DEFINE req == [n.req EXCEPT ![r] = q]
<1>4. req \in [Requests -> RequestState] /\ req[r] = q /\ \A x \in Requests \ {r} : req[x] = n.req[x]
  BY <1>1, <1>3
<1>5. m = [n EXCEPT !.all_requests = all, !.req = req]
  BY DEF NewRequest, Daemon
<1> HIDE DEF q, all, req
<1>6. /\ m \in Daemon /\ m.all_requests = all /\ m.req = req /\ m.core = n.core /\ m.records = n.records
      /\ m.inst = n.inst /\ m.sock = n.sock
  BY ZenonT(60), <1>2, <1>4, <1>5 DEF Daemon
<1> HIDE DEF m
<1>7. Live(m) = Live(n) \cup {r} /\ Live(n) \subseteq Requests
  BY <1>2, <1>6, LiveAreRequests DEF Live
<1>8. n.req[r].op = "none"
  BY DEF Good, RequestsAreProper
<1>9. RequestsAreProper(m)
  BY <1>2, <1>3, <1>4, <1>6, <1>7 DEF RequestsAreProper, Good
<1>10. \A x \in Requests \ {r} : HoldsIn(m, x) = HoldsIn(n, x)
  BY <1>4, <1>6 DEF HoldsIn
<1>11. HoldsIn(m, r) = {}
  BY <1>3, <1>4, <1>6 DEF HoldsIn
<1>12. CoreIsTheirs(m)
  <2>1. ASSUME NEW x \in Requests, NEW k \in Kinds PROVE <<x, k>> \in m.core <=> x \in Live(m) /\ k \in HoldsIn(m, x)
    BY <1>6, <1>7, <1>10, <1>11 DEF Good, CoreIsTheirs
  <2>2. ASSUME NEW x \in Requests, NEW k \in Keys
        PROVE  <<x, k>> \in m.records <=> x \in Live(m) /\ k \in m.req[x].reg_recs
    BY <1>3, <1>4, <1>6, <1>7 DEF Good, CoreIsTheirs
  <2> QED
    BY <2>1, <2>2 DEF CoreIsTheirs
<1>13. OfOp(m, "register") = OfOp(n, "register")
  BY <1>3, <1>4, <1>6, <1>7 DEF OfOp
<1>14. ServicesAreOwned(m)
  BY <1>6, <1>13 DEF Good, ServicesAreOwned
<1>15. Good(m)
  BY <1>9, <1>12, <1>14 DEF Good
<1>16. r \in Live(m) /\ m.req[r] = q
  BY <1>4, <1>6, <1>7
<1> QED
  BY <1>3, <1>6, <1>15, <1>16 DEF Fresh, m

-----------------------------------------------------------------------------
(* The operations.                                                           *)

Kept(n) == n \in Daemon /\ Good(n)

LEMMA CalmKeeps ==
  ASSUME NEW n, Kept(n), NEW m, Calm(n, m) PROVE Kept(m)
  BY CalmIsGood DEF Kept

LEMMA AlongKept ==
  ASSUME NEW n, Kept(n), NEW m, Along(n, m) PROVE Kept(m)
  BY DEF Kept, Along

(* Fields that say nothing of what is in the core.                           *)
LEMMA OthersAreCalm ==
  ASSUME NEW n \in Daemon, NEW m \in Daemon, m.all_requests = n.all_requests, m.core = n.core,
         m.records = n.records, m.req = n.req, m.inst = n.inst
  PROVE  Calm(n, m)
<1>1. Still(n, m)
  BY DEF Still, Alike
<1> QED
  BY <1>1, StillKeeps DEF Calm, ServicesAreOwned

LEMMA SockIsCalm ==
  ASSUME NEW n \in Daemon, NEW c, NEW v \in {"closed", "open", "gone"}
  PROVE  LET m == [n EXCEPT !.sock[c] = v] IN Calm(n, m) /\ m \in Daemon /\ m.req = n.req
<1> DEFINE sock == [n.sock EXCEPT ![c] = v]
           m == [n EXCEPT !.sock[c] = v]
<1>1. sock \in [Clients -> {"closed", "open", "gone"}]
  BY DEF Daemon
<1>2. m = [n EXCEPT !.sock = sock]
  BY DEF Daemon
<1> HIDE DEF sock, m
<1>3. /\ m \in Daemon /\ m.all_requests = n.all_requests /\ m.core = n.core /\ m.records = n.records
      /\ m.req = n.req /\ m.inst = n.inst
  BY <1>1, <1>2 DEF Daemon
<1>4. Calm(n, m)
  BY <1>3, OthersAreCalm
<1> QED
  BY <1>3, <1>4 DEF m

LEMMA ConnectKeeps ==
  ASSUME NEW c \in Clients, Kept(d), connect_callback(c) PROVE Kept(d')
<1> DEFINE r == CHOOSE r \in Unused : TRUE
           n == NewRequest(d, r, c, Nobody)
           m == [n EXCEPT !.sock[c] = "open"]
<1>1. r \in Requests \ Live(d)
  BY DEF connect_callback, Unused
<1>2. PICK op \in Ops : \E a \in Arguments(op) : d' = Handle(m, r, a)
  BY DEF connect_callback
<1> HIDE DEF r
<1>3. Fresh(n, r) /\ n.req[r].primary = Nobody
  BY <1>1, NewRequestIsFresh DEF Kept
<1> HIDE DEF n
<1>4. n \in Daemon /\ Good(n)
  BY <1>3 DEF Fresh
<1>5. Calm(n, m) /\ m \in Daemon /\ m.req = n.req
  BY <1>4, SockIsCalm
<1> HIDE DEF m
<1>6. Good(m) /\ Live(m) = Live(n)
  BY <1>4, <1>5, CalmIsGood, StillKeeps DEF Calm
<1>7. Fresh(m, r) /\ m.req[r].primary = Nobody
  BY <1>3, <1>5, <1>6 DEF Fresh
<1> QED
  BY <1>2, <1>7, HandleIsGood DEF Kept

LEMMA PrimariesLive ==
  ASSUME NEW c, Kept(d)
  PROVE  /\ Primary(c) \subseteq Live(d) /\ Primary(c) \subseteq Requests /\ Live(d) \subseteq Requests
         /\ \A p : Subordinates(d, p) \subseteq Live(d)
         /\ Services(c) \subseteq OfOp(d, "register") /\ Services(c) \subseteq Requests
  BY LiveAreRequests DEF Kept, Primary, Subordinates, Services, OfOp

LEMMA ShareKeeps ==
  ASSUME NEW c \in Clients, Kept(d), Share(c) PROVE Kept(d')
<1> DEFINE r == CHOOSE r \in Unused : TRUE
<1>1. r \in Requests \ Live(d)
  BY DEF Share, Unused
<1>2. PICK p \in Primary(c), op \in Ops \ {"connection"} :
        \E a \in Arguments(op) : d' = Handle(NewRequest(d, r, c, p), r, a)
  BY DEF Share
<1>3. p \in Requests
  BY PrimariesLive
<1> HIDE DEF r
<1>4. Fresh(NewRequest(d, r, c, p), r)
  BY <1>1, <1>3, NewRequestIsFresh DEF Kept
<1>5. PICK a \in Arguments(op) : d' = Handle(NewRequest(d, r, c, p), r, a)
  BY <1>2
<1>6. op \in Ops /\ op # "connection"
  BY <1>2
<1> QED
  BY <1>4, <1>5, <1>6, HandleIsGood DEF Kept

LEMMA AbortKeeps ==
  ASSUME NEW c \in Clients, Kept(d), handle_cancel_request(c) \/ request_callback(c) PROVE Kept(d')
<1>1. \E s \in Live(d) : d' = AbortUnlinkAndFree(d, s)
  BY PrimariesLive DEF handle_cancel_request, request_callback
<1> QED
  BY <1>1, AbortIsGood DEF Kept

(* Records of a connection.                                                  *)
LEMMA RecordsAreGood ==
  ASSUME NEW n, Kept(n), NEW p \in Live(n), n.req[p].op = "connection", NEW R \in SUBSET Keys,
         NEW K \in SUBSET (Requests \X Keys),
         \A x \in Requests, k \in Keys : <<x, k>> \in K <=> IF x = p THEN k \in R ELSE <<x, k>> \in n.records
  PROVE  Kept([n EXCEPT !.req[p].reg_recs = R, !.records = K])
<1> DEFINE q == [n.req[p] EXCEPT !.reg_recs = R]
           req == [n.req EXCEPT ![p] = q]
           m == [n EXCEPT !.req[p].reg_recs = R, !.records = K]
<1>1. n \in Daemon /\ Good(n) /\ p \in Requests
  BY LiveAreRequests DEF Kept
<1>2. n.req[p] \in RequestState /\ n.req \in [Requests -> RequestState] /\ ProperRequest(n.req[p])
  BY <1>1 DEF Daemon, Good, RequestsAreProper
<1>3. q \in RequestState /\ q.op = "connection" /\ q.primary = n.req[p].primary /\ q.reg_recs = R
  BY <1>2 DEF RequestState
<1>4. ProperRequest(q)
  BY <1>2, <1>3 DEF ProperRequest
<1>5. req \in [Requests -> RequestState] /\ req[p] = q
  BY <1>1, <1>2, <1>3
<1>6. m = [n EXCEPT !.req = req, !.records = K]
  BY <1>1 DEF Daemon
<1>7. req = [n.req EXCEPT ![p] = q]
  OBVIOUS
<1> HIDE DEF q, req, m
<1>8. /\ m \in Daemon /\ m.all_requests = n.all_requests /\ m.core = n.core /\ m.records = K
      /\ m.inst = n.inst /\ m.req = [n.req EXCEPT ![p] = q]
  BY <1>1, <1>5, <1>6, <1>7 DEF Daemon
<1>9. HoldsIn(m, p) = {} /\ HoldsIn(n, p) = {} /\ m.req[p] = q
  BY <1>3, <1>5, <1>7, <1>8 DEF HoldsIn
<1>10. \A x \in Requests, k \in Kinds :
         <<x, k>> \in m.core <=> IF x = p THEN k \in HoldsIn(m, p) ELSE <<x, k>> \in n.core
  BY <1>1, <1>8, <1>9 DEF Good, CoreIsTheirs
<1>11. \A x \in Requests, k \in Keys :
         <<x, k>> \in m.records <=> IF x = p THEN k \in q.reg_recs ELSE <<x, k>> \in n.records
  BY <1>3, <1>8
<1>12. n.req[p].op = "register" => q.op = "register"
  OBVIOUS
<1>13. Good(m)
  BY <1>1, <1>3, <1>4, <1>8, <1>10, <1>11, <1>12, PutHolding
<1> QED
  BY <1>8, <1>13 DEF Kept, m

LEMMA RecordsOf ==
  ASSUME NEW n, Kept(n), NEW p \in Live(n)
  PROVE  /\ p \in Requests /\ n.req[p].reg_recs \in SUBSET Keys /\ n.records \in SUBSET (Requests \X Keys)
         /\ \A k \in Keys : <<p, k>> \in n.records <=> k \in n.req[p].reg_recs
         /\ n.req[p].reg_recs # {} => n.req[p].op = "connection"
<1>1. n \in Daemon /\ Good(n) /\ p \in Requests
  BY LiveAreRequests DEF Kept
<1>2. n.req[p] \in RequestState /\ n.records \in SUBSET (Requests \X Keys) /\ ProperRequest(n.req[p])
  BY <1>1 DEF Daemon, Good, RequestsAreProper
<1>3. \A k \in Keys : <<p, k>> \in n.records <=> k \in n.req[p].reg_recs
  BY <1>1 DEF Good, CoreIsTheirs
<1> QED
  BY <1>1, <1>2, <1>3 DEF RequestState, ProperRequest

LEMMA RegrecordKeeps ==
  ASSUME NEW c \in Clients, Kept(d), handle_regrecord_request(c) PROVE Kept(d')
<1>1. PICK p \in Primary(c), k \in Keys :
        /\ d.req[p].op = "connection"
        /\ d' = [d EXCEPT !.req[p].reg_recs = @ \cup {k}, !.records = @ \cup {<<p, k>>}]
  BY DEF handle_regrecord_request
<1>2. p \in Live(d)
  BY PrimariesLive
<1> DEFINE R == d.req[p].reg_recs \cup {k}
           K == d.records \cup {<<p, k>>}
<1>3. d' = [d EXCEPT !.req[p].reg_recs = R, !.records = K]
  BY <1>1
<1>4. R \in SUBSET Keys /\ K \in SUBSET (Requests \X Keys)
      /\ \A x \in Requests, y \in Keys : <<x, y>> \in K <=> IF x = p THEN y \in R ELSE <<x, y>> \in d.records
  BY <1>2, RecordsOf
<1> HIDE DEF R, K
<1>5. Kept([d EXCEPT !.req[p].reg_recs = R, !.records = K])
  BY <1>1, <1>2, <1>4, RecordsAreGood
<1> QED
  BY <1>3, <1>5

LEMMA LostRecordIsGood ==
  ASSUME NEW n, Kept(n), NEW p \in Live(n), NEW k \in n.req[p].reg_recs
  PROVE  Kept([n EXCEPT !.req[p].reg_recs = n.req[p].reg_recs \ {k}, !.records = n.records \ {<<p, k>>}])
<1> DEFINE R == n.req[p].reg_recs \ {k}
           K == n.records \ {<<p, k>>}
<1>1. R \in SUBSET Keys /\ K \in SUBSET (Requests \X Keys) /\ n.req[p].op = "connection"
      /\ \A x \in Requests, y \in Keys : <<x, y>> \in K <=> IF x = p THEN y \in R ELSE <<x, y>> \in n.records
  BY RecordsOf
<1> HIDE DEF R, K
<1>2. Kept([n EXCEPT !.req[p].reg_recs = R, !.records = K])
  BY <1>1, RecordsAreGood
<1> QED
  BY <1>2 DEF R, K

LEMMA RemoveRecordKeeps ==
  ASSUME NEW c \in Clients, Kept(d), remove_record(c) PROVE Kept(d')
<1>1. PICK p \in Primary(c) : \E k \in d.req[p].reg_recs :
        d' = [d EXCEPT !.req[p].reg_recs = @ \ {k}, !.records = @ \ {<<p, k>>}]
  BY DEF remove_record
<1>2. PICK k \in d.req[p].reg_recs : d' = [d EXCEPT !.req[p].reg_recs = @ \ {k}, !.records = @ \ {<<p, k>>}]
  BY <1>1
<1>3. p \in Live(d)
  BY PrimariesLive
<1>4. Kept([d EXCEPT !.req[p].reg_recs = d.req[p].reg_recs \ {k}, !.records = d.records \ {<<p, k>>}])
  BY <1>3, LostRecordIsGood
<1>5. d' = [d EXCEPT !.req[p].reg_recs = d.req[p].reg_recs \ {k}, !.records = d.records \ {<<p, k>>}]
  BY <1>2
<1> QED
  BY <1>4, <1>5

(* What is written into services.                                            *)
LEMMA WritingIsCalm ==
  ASSUME NEW n \in Daemon, NEW f \in [Instances -> ServiceInstance],
         \A i \in Instances : /\ f[i].request = n.inst[i].request /\ f[i].state = n.inst[i].state
                              /\ f[i].Conflict = n.inst[i].Conflict
  PROVE  LET m == [n EXCEPT !.inst = f] IN Calm(n, m) /\ m \in Daemon /\ m.req = n.req
<1> DEFINE m == [n EXCEPT !.inst = f]
<1>1. /\ m \in Daemon /\ m.all_requests = n.all_requests /\ m.core = n.core /\ m.records = n.records
      /\ m.req = n.req /\ m.inst = f
  BY DEF Daemon
<1> HIDE DEF m
<1>2. Still(n, m)
  BY <1>1 DEF Still, Alike
<1>3. OfOp(m, "register") = OfOp(n, "register")
  BY <1>2, StillKeeps
<1>4. ServicesAreOwned(n) => ServicesAreOwned(m)
  BY <1>1, <1>3 DEF ServicesAreOwned, Owned
<1> QED
  BY <1>1, <1>2, <1>4 DEF Calm, m

LEMMA ExtrasKeep ==
  ASSUME NEW c \in Clients, Kept(d), handle_add_request(c) \/ remove_extra(c) PROVE Kept(d')
<1>0. d \in Daemon
  BY DEF Kept
<1> DEFINE Added(r, k) == [i \in Instances |-> IF i \in InstancesOf(d, r) THEN [d.inst[i] EXCEPT !.extras = @ \cup {k}] ELSE d.inst[i]]
           Taken(r, k) == [i \in Instances |-> IF i \in InstancesOf(d, r) THEN [d.inst[i] EXCEPT !.extras = @ \ {k}] ELSE d.inst[i]]
<1>1. ASSUME NEW r, NEW k \in Keys, NEW f, f = Added(r, k) \/ f = Taken(r, k)
      PROVE  Kept([d EXCEPT !.inst = f])
  <2>1. ASSUME NEW i \in Instances
        PROVE  /\ f[i] \in ServiceInstance /\ f[i].request = d.inst[i].request /\ f[i].state = d.inst[i].state
               /\ f[i].Conflict = d.inst[i].Conflict
    <3>1. d.inst[i] \in ServiceInstance
      BY <1>0, InstancesTyped
    <3> QED
      BY <1>1, <3>1 DEF ServiceInstance
  <2>2. f \in [Instances -> ServiceInstance]
    BY <1>1, <2>1
  <2>3. Calm(d, [d EXCEPT !.inst = f])
    BY <1>0, <2>1, <2>2, WritingIsCalm
  <2> QED
    BY <2>3, CalmKeeps
<1>2. CASE handle_add_request(c)
  <2>1. PICK r \in Services(c), k \in Keys : d' = [d EXCEPT !.inst = Added(r, k)]
    BY <1>2 DEF handle_add_request
  <2> DEFINE f == Added(r, k)
  <2>2. d' = [d EXCEPT !.inst = f]
    BY <2>1
  <2>3. f = Added(r, k) \/ f = Taken(r, k)
    OBVIOUS
  <2> HIDE DEF f, Added, Taken
  <2> QED
    BY <1>1, <2>2, <2>3
<1>3. CASE remove_extra(c)
  <2>1. PICK r \in Services(c), k \in Keys : d' = [d EXCEPT !.inst = Taken(r, k)]
    BY <1>3 DEF remove_extra
  <2> DEFINE f == Taken(r, k)
  <2>2. d' = [d EXCEPT !.inst = f]
    BY <2>1
  <2>3. f = Added(r, k) \/ f = Taken(r, k)
    OBVIOUS
  <2> HIDE DEF f, Added, Taken
  <2> QED
    BY <1>1, <2>2, <2>3
<1> QED
  BY <1>2, <1>3

LEMMA UpdateKeeps ==
  ASSUME NEW c \in Clients, Kept(d), handle_update_request(c) PROVE Kept(d')
<1>1. PICK r \in Services(c) : \E fails \in SUBSET InstancesOf(d, r) : d' = UpdateTxt(d, r, fails)
  BY DEF handle_update_request
<1>2. d \in Daemon /\ r \in Requests
  BY PrimariesLive DEF Kept
<1>2a. PICK fails \in SUBSET InstancesOf(d, r) : d' = UpdateTxt(d, r, fails)
  BY <1>1
<1> DEFINE stops == d.req[r].default_domain /\ \E i \in fails : d.inst[i].domain = Local
           updated == IF stops THEN {} ELSE InstancesOf(d, r) \ fails
           q == [d.req[r] EXCEPT !.txt = 1]
           f == [i \in Instances |-> IF i \in updated THEN [d.inst[i] EXCEPT !.txt = 1] ELSE d.inst[i]]
           b == [d EXCEPT !.req[r] = q]
           m == [b EXCEPT !.inst = f]
<1>3. UpdateTxt(d, r, fails) = m
  BY DEF UpdateTxt
<1> HIDE DEF stops, updated
<1>4. q \in RequestState /\ Alike(d.req[r], q)
  <2>1. d.req[r] \in RequestState
    BY <1>2, RequestsTyped
  <2> QED
    BY <2>1 DEF RequestState, Alike
<1>5. ASSUME NEW i \in Instances
      PROVE  /\ f[i] \in ServiceInstance /\ f[i].request = d.inst[i].request /\ f[i].state = d.inst[i].state
             /\ f[i].Conflict = d.inst[i].Conflict
  <2>1. d.inst[i] \in ServiceInstance
    BY <1>2, InstancesTyped
  <2> QED
    BY <2>1 DEF ServiceInstance
<1>6. f \in [Instances -> ServiceInstance]
  BY <1>5
<1> HIDE DEF q, f
<1>7. Calm(d, b) /\ b.inst = d.inst
  BY <1>2, <1>4, PutRequestIsCalm
<1>8. b \in Daemon
  BY <1>7 DEF Calm, Still
<1> HIDE DEF b
<1>9. Calm(b, m)
  BY <1>5, <1>6, <1>7, <1>8, WritingIsCalm
<1>10. Calm(d, m)
  BY <1>7, <1>9, CalmIsTransitive
<1> QED
  BY <1>2a, <1>3, <1>10, CalmKeeps

LEMMA HangUpKeeps ==
  ASSUME NEW c \in Clients, Kept(d), HangUp(c) PROVE Kept(d')
<1>1. d' = [d EXCEPT !.sock[c] = "gone"]
  BY DEF HangUp
<1>2. Calm(d, [d EXCEPT !.sock[c] = "gone"])
  BY SockIsCalm DEF Kept
<1> QED
  BY <1>1, <1>2, CalmKeeps

(* What the core calls back for a service.                                   *)
LEMMA OwnersAre ==
  ASSUME Kept(d), NEW i \in Instances
  PROVE  /\ d \in Daemon /\ d.inst[i] \in ServiceInstance /\ Owned(d.inst[i])
         /\ d.inst[i].request # Nobody => d.inst[i].request \in OfOp(d, "register") /\ d.inst[i].request \in Requests
<1>1. d \in Daemon /\ ServicesAreOwned(d)
  BY DEF Kept, Good
<1>2. d.inst[i] \in ServiceInstance
  BY <1>1, InstancesTyped
<1> QED
  BY <1>1, <1>2 DEF ServicesAreOwned, ServiceInstance

LEMMA RegisteredKeeps ==
  ASSUME NEW i \in Instances, Kept(d), ServiceRegistered(i) PROVE Kept(d')
<1> DEFINE s == [d.inst[i] EXCEPT !.state = "registered", !.clientnotified = TRUE]
           b == [d EXCEPT !.inst[i] = s]
           r == d.inst[i].request
           what == <<d.inst[i].domain, d.inst[i].name>>
<1>1. d' = TellAdd(b, r, what)
  BY OwnersAre DEF ServiceRegistered
<1>2. d \in Daemon /\ d.inst[i] \in ServiceInstance /\ r \in Requests
  BY OwnersAre DEF ServiceRegistered, Owned
<1>3. s \in ServiceInstance /\ s.request = d.inst[i].request /\ Owned(s) /\ what \in Sayings
  BY <1>2, UdsAssumption DEF ServiceInstance, Owned, Sayings
<1> HIDE DEF s, r, what
<1>4. Calm(d, b)
  BY <1>2, <1>3, PutInstanceIsCalm
<1>5. b \in Daemon
  BY <1>4 DEF Calm, Still
<1> HIDE DEF b
<1>6. Calm(b, TellAdd(b, r, what))
  BY <1>2, <1>3, <1>5, TellAddIsCalm
<1> QED
  BY <1>1, <1>4, <1>6, CalmIsTransitive, CalmKeeps

LEMMA NameConflictKeeps ==
  ASSUME NEW i \in Instances, Kept(d), NameConflict(i) PROVE Kept(d')
<1> DEFINE s == [d.inst[i] EXCEPT !.state = "dying", !.Conflict = TRUE]
           b == [d EXCEPT !.inst[i] = s]
<1>1. d' = b
  BY OwnersAre DEF NameConflict
<1>2. d \in Daemon /\ d.inst[i] \in ServiceInstance /\ d.inst[i].request # Nobody
  BY OwnersAre DEF NameConflict, Owned
<1>3. s \in ServiceInstance /\ s.request = d.inst[i].request /\ Owned(s)
  BY <1>2 DEF ServiceInstance, Owned
<1> HIDE DEF s
<1>4. Calm(d, b)
  BY <1>2, <1>3, PutInstanceIsCalm
<1> QED
  BY <1>1, <1>4, CalmKeeps

LEMMA NameIsCalm ==
  ASSUME NEW n \in Daemon, NEW k \in Names
  PROVE  LET m == [n EXCEPT !.nicelabel = k] IN Calm(n, m) /\ m \in Daemon
<1> DEFINE m == [n EXCEPT !.nicelabel = k]
<1>1. /\ m \in Daemon /\ m.all_requests = n.all_requests /\ m.core = n.core /\ m.records = n.records
      /\ m.req = n.req /\ m.inst = n.inst
  BY DEF Daemon
<1> HIDE DEF m
<1>2. Calm(n, m)
  BY <1>1, OthersAreCalm
<1> QED
  BY <1>1, <1>2 DEF m

LEMMA OrMaxTyped ==
  ASSUME NEW k \in Names PROVE OrMax(k) \in Names
  BY UdsAssumption DEF Names, OrMax

LEMMA ConflictedIsAlong ==
  ASSUME NEW i \in Instances, Kept(d), d.inst[i].Conflict
  PROVE  Along(d, Conflicted(d, i))
<1> DEFINE r == d.inst[i].request
           s == [d.inst[i] EXCEPT !.state = "unregistered", !.Conflict = FALSE]
           n1 == [d EXCEPT !.inst[i].state = "unregistered", !.inst[i].Conflict = FALSE]
           gone == <<d.inst[i].domain, d.inst[i].name>>
           named == [n1 EXCEPT !.nicelabel = OrMax(@)]
           told == SendServiceRemovalNotification(n1, i)
           name == OrMax(d.inst[i].name)
           last == IF d.req[r].default_domain /\ d.inst[i].domain # Local THEN n1 ELSE TellRemove(n1, r, gone)
           m == Conflicted(d, i)
<1>1. d \in Daemon /\ d.inst[i] \in ServiceInstance /\ r # Nobody
  BY OwnersAre DEF Owned
<1>2. n1 = [d EXCEPT !.inst[i] = s]
  BY <1>1
<1>3. m \in {udsserver_handle_configchange(named), Reregister(told, i, name), FreeInstance(last, i)}
  <2>1. m = CASE d.req[r].autorename /\ d.req[r].autoname /\ Peers(d, i) = {} -> udsserver_handle_configchange(named)
              [] d.req[r].autorename /\ ~(d.req[r].autoname /\ Peers(d, i) = {}) -> Reregister(told, i, name)
              [] OTHER -> FreeInstance(last, i)
    BY DEF Conflicted
  <2> HIDE DEF m, named, told, last
  <2> QED
    BY <2>1
<1> SUFFICES Along(d, m)
  OBVIOUS
<1>4. s \in ServiceInstance /\ s.request = r /\ Owned(s) /\ name \in Names
  BY <1>1, OrMaxTyped DEF ServiceInstance, Owned
<1> HIDE DEF s, gone, name, m
<1>5. Calm(d, n1) /\ n1.inst = [d.inst EXCEPT ![i] = s]
  <2> HIDE DEF n1
  <2>1. Calm(d, [d EXCEPT !.inst[i] = s]) /\ [d EXCEPT !.inst[i] = s].inst = [d.inst EXCEPT ![i] = s]
    BY <1>1, <1>4, PutInstanceIsCalm
  <2> QED
    BY <1>2, <2>1
<1>6. n1 \in Daemon /\ n1.inst[i].request # Nobody
  <2>1. n1 \in Daemon
    BY <1>5 DEF Calm, Still
  <2>2. d.inst \in [Instances -> ServiceInstance]
    BY <1>1 DEF Daemon
  <2>3. n1.inst[i] = s
    BY <1>5, <2>2
  <2> QED
    BY <1>1, <1>4, <2>1, <2>3
<1> HIDE DEF n1
<1>7. CASE m = udsserver_handle_configchange(named)
  <2>1. n1.nicelabel \in Names
    BY <1>6 DEF Daemon
  <2>2. Calm(n1, named) /\ named \in Daemon
    BY <1>6, <2>1, OrMaxTyped, NameIsCalm
  <2> HIDE DEF named
  <2>3. Along(named, udsserver_handle_configchange(named))
    BY <2>2, ConfigChangeIsAlong
  <2>4. Along(d, named)
    BY <1>1, <1>5, <2>2, CalmIsTransitive, CalmIsAlong
  <2> QED
    BY <1>7, <2>3, <2>4, AlongIsTransitive
<1>8. CASE m = Reregister(told, i, name)
  <2>1. Calm(n1, told) /\ told.inst[i].request = n1.inst[i].request
    BY <1>6, RemovalIsCalm
  <2>2. told \in Daemon
    BY <2>1 DEF Calm, Still
  <2> HIDE DEF told
  <2>3. Calm(told, Reregister(told, i, name))
    BY <1>4, <1>6, <2>1, <2>2, ReregisterIsCalm
  <2> QED
    BY <1>1, <1>5, <1>8, <2>1, <2>3, CalmIsTransitive, CalmIsAlong
<1>9. CASE m = FreeInstance(last, i)
  <2>1. Calm(n1, last)
    BY <1>6, TellRemoveIsCalm, CalmIsReflexive
  <2>2. last \in Daemon
    BY <2>1 DEF Calm, Still
  <2> HIDE DEF last
  <2>3. Calm(last, FreeInstance(last, i))
    BY <2>2, FreeInstanceIsCalm
  <2> QED
    BY <1>1, <1>5, <1>9, <2>1, <2>3, CalmIsTransitive, CalmIsAlong
<1> QED
  BY <1>3, <1>7, <1>8, <1>9

LEMMA ServiceGoneKeeps ==
  ASSUME NEW i \in Instances, Kept(d), ServiceGone(i) PROVE Kept(d')
<1>1. CASE d.inst[i].Conflict
  BY <1>1, ConflictedIsAlong, AlongKept DEF ServiceGone
<1>2. CASE ~d.inst[i].Conflict
  <2> DEFINE s == [d.inst[i] EXCEPT !.state = "unregistered"]
             b == [d EXCEPT !.inst[i] = s]
  <2>1. d' = ServiceFreed(b, i)
    BY <1>2 DEF ServiceGone
  <2>2. d \in Daemon /\ d.inst[i] \in ServiceInstance
    BY OwnersAre
  <2>3. s \in ServiceInstance /\ s.request = d.inst[i].request /\ Owned(s)
    BY <1>2, <2>2 DEF ServiceInstance, Owned
  <2> HIDE DEF s
  <2>4. Calm(d, b)
    BY <2>2, <2>3, PutInstanceIsCalm
  <2>5. b \in Daemon
    BY <2>4 DEF Calm, Still
  <2> HIDE DEF b
  <2>6. Calm(b, ServiceFreed(b, i))
    BY <2>5, ServiceFreedIsCalm
  <2> QED
    BY <2>1, <2>4, <2>6, CalmIsTransitive, CalmKeeps
<1> QED
  BY <1>1, <1>2

LEMMA IdleKeeps ==
  ASSUME NEW r \in Requests, Kept(d), udsserver_idle(r) PROVE Kept(d')
<1>1. d \in Daemon /\ r \in Live(d) /\ d.req[r] \in RequestState
  BY RequestsTyped DEF Kept, udsserver_idle
<1> DEFINE q0 == [d.req[r] EXCEPT !.replies = 0, !.reports = 0]
           q1 == [d.req[r] EXCEPT !.reports = d.req[r].reports + 1]
<1>2. \/ d' = AbortUnlinkAndFree(d, r) \/ d' = [d EXCEPT !.req[r] = q0]
      \/ ~(d.req[r].reports + 1 >= MaxReports) /\ d' = [d EXCEPT !.req[r] = q1]
  <2> DEFINE b0 == [d EXCEPT !.req[r].replies = 0, !.req[r].reports = 0]
             b1 == [d EXCEPT !.req[r].reports = @ + 1]
  <2>1. d' = AbortUnlinkAndFree(d, r) \/ d' = b0 \/ (~(d.req[r].reports + 1 >= MaxReports) /\ d' = b1)
    BY DEF udsserver_idle
  <2>2. r \in DOMAIN d.req
    BY <1>1 DEF Daemon
  <2>3. [d EXCEPT !.req[r].replies = 0] = [d EXCEPT !.req[r] = [d.req[r] EXCEPT !.replies = 0]]
    OBVIOUS
  <2>4. b0 = [d EXCEPT !.req[r] = q0]
    BY <1>1, <2>2, <2>3 DEF Daemon
  <2>5. b1 = [d EXCEPT !.req[r] = q1]
    BY <1>1 DEF Daemon
  <2> HIDE DEF b0, b1, q0, q1
  <2> QED
    BY <2>1, <2>4, <2>5
<1> MaxReplies \in Nat /\ MaxReports \in Nat
  BY UdsAssumption
<1>3. q0 \in RequestState /\ Alike(d.req[r], q0)
  <2>1. 0 \in 0 .. MaxReplies /\ 0 \in 0 .. MaxReports
    OBVIOUS
  <2> QED
    BY <1>1, <2>1 DEF RequestState, Alike
<1>4. ~(d.req[r].reports + 1 >= MaxReports) => q1 \in RequestState /\ Alike(d.req[r], q1)
  BY <1>1 DEF RequestState, Alike
<1> HIDE DEF q0, q1
<1>5. CASE d' = AbortUnlinkAndFree(d, r)
  BY <1>1, <1>5, AbortIsGood DEF Kept
<1>6. CASE d' = [d EXCEPT !.req[r] = q0]
  <2>1. Calm(d, [d EXCEPT !.req[r] = q0])
    BY <1>1, <1>3, PutRequestIsCalm
  <2> QED
    BY <1>6, <2>1, CalmKeeps
<1>7. CASE ~(d.req[r].reports + 1 >= MaxReports) /\ d' = [d EXCEPT !.req[r] = q1]
  <2>1. Calm(d, [d EXCEPT !.req[r] = q1])
    BY <1>1, <1>4, <1>7, PutRequestIsCalm
  <2> QED
    BY <1>7, <2>1, CalmKeeps
<1> QED
  BY <1>2, <1>5, <1>6, <1>7

LEMMA RepliesKeep ==
  ASSUME NEW r, NEW n, Kept(n) PROVE Kept(append_reply(n, r))
<1>1. Calm(n, append_reply(n, r))
  BY ReplyIsCalm DEF Kept
<1> QED
  BY <1>1, CalmKeeps

LEMMA AnsweredKeeps ==
  ASSUME NEW r \in Requests, Kept(d), enum_result_callback(r) \/ port_mapping_create_request_callback(r)
  PROVE  Kept(d')
<1>1. d' = append_reply(d, r)
  BY DEF enum_result_callback, port_mapping_create_request_callback
<1> QED
  BY <1>1, RepliesKeep

LEMMA RecordCalledKeeps ==
  ASSUME NEW r \in Requests, NEW k \in Keys, Kept(d), regrecord_callback(r, k) PROVE Kept(d')
<1> DEFINE b == [d EXCEPT !.records = @ \ {<<r, k>>}, !.req[r].reg_recs = @ \ {k}]
           y == [d EXCEPT !.req[r].reg_recs = d.req[r].reg_recs \ {k}, !.records = d.records \ {<<r, k>>}]
<1>1. d' = append_reply(d, r) \/ d' = append_reply(b, r)
  BY DEF regrecord_callback
<1>2. r \in Live(d) /\ k \in d.req[r].reg_recs
  BY DEF regrecord_callback, Kept, Good, CoreIsTheirs
<1>3. b = y
  <2>1. d \in Daemon
    BY DEF Kept
  <2> QED
    BY <2>1 DEF Daemon
<1>4. Kept(y)
  BY <1>2, LostRecordIsGood
<1> HIDE DEF b, y
<1> QED
  BY <1>1, <1>3, <1>4, RepliesKeep

(* The core finds and forgets answers.                                       *)
LEMMA GivenIsCalm ==
  ASSUME NEW n \in Daemon, NEW g \in SUBSET (Requests \X Kinds \X (1 .. 2))
  PROVE  LET m == [n EXCEPT !.given = g] IN Calm(n, m) /\ m \in Daemon /\ m.req = n.req
<1> DEFINE m == [n EXCEPT !.given = g]
<1>1. /\ m \in Daemon /\ m.all_requests = n.all_requests /\ m.core = n.core /\ m.records = n.records
      /\ m.req = n.req /\ m.inst = n.inst
  BY DEF Daemon
<1> HIDE DEF m
<1>2. Calm(n, m)
  BY <1>1, OthersAreCalm
<1> QED
  BY <1>1, <1>2 DEF m

LEMMA FoundKeeps ==
  ASSUME NEW r \in Requests, NEW x \in Domains, Kept(d), FoundInstance(r, x) PROVE Kept(d')
<1> DEFINE less == d.given \ {<<r, x, 1>>}
           more == d.given \cup {<<r, x, 1>>}
           b == [d EXCEPT !.given = less]
           c == [d EXCEPT !.given = more]
<1>1. d' = TellRemove(b, r, <<x, Found>>) \/ d' = TellAdd(c, r, <<x, Found>>)
  BY DEF FoundInstance
<1>2. d \in Daemon
  BY DEF Kept
<1>3. d.given \in SUBSET (Requests \X Kinds \X (1 .. 2)) /\ x \in Kinds
  BY <1>2 DEF Daemon, Kinds
<1>4. less \in SUBSET (Requests \X Kinds \X (1 .. 2)) /\ more \in SUBSET (Requests \X Kinds \X (1 .. 2))
  BY <1>3
<1>5. <<x, Found>> \in Sayings
  BY DEF Sayings
<1> HIDE DEF less, more
<1>6. Calm(d, b) /\ b \in Daemon /\ Calm(d, c) /\ c \in Daemon
  BY <1>2, <1>4, GivenIsCalm
<1> HIDE DEF b, c
<1>7. Calm(b, TellRemove(b, r, <<x, Found>>))
  BY <1>6, TellRemoveIsCalm
<1>8. Calm(c, TellAdd(c, r, <<x, Found>>))
  BY <1>5, <1>6, TellAddIsCalm
<1>9. Calm(d, d')
  BY <1>1, <1>6, <1>7, <1>8, CalmIsTransitive
<1> QED
  BY <1>9, CalmKeeps

LEMMA ResolvedKeeps ==
  ASSUME NEW r \in Requests, NEW k \in {"srv", "txt"}, NEW a \in 1 .. 2, Kept(d), resolve_result_callback(r, k, a)
  PROVE  Kept(d')
<1>2. d \in Daemon /\ d.req[r] \in RequestState
  BY RequestsTyped DEF Kept
<1>3. d.given \in SUBSET (Requests \X Kinds \X (1 .. 2)) /\ k \in Kinds
  BY <1>2 DEF Daemon, Kinds
<1> DEFINE less == d.given \ {<<r, k, a>>}
           more == d.given \cup {<<r, k, a>>}
           q0 == [d.req[r] EXCEPT !.ptr = ForgetAnswer(d.req[r].ptr, k, a)]
           q1 == [d.req[r] EXCEPT !.ptr = [d.req[r].ptr EXCEPT ![k] = a]]
           b == [d EXCEPT !.given = less]
           c == [d EXCEPT !.given = more]
           bb == [b EXCEPT !.req[r] = q0]
           n == [c EXCEPT !.req[r] = q1]
           n0 == [d EXCEPT !.given = @ \cup {<<r, k, a>>}, !.req[r].ptr[k] = a]
<1>4. less \in SUBSET (Requests \X Kinds \X (1 .. 2)) /\ more \in SUBSET (Requests \X Kinds \X (1 .. 2))
  BY <1>3
<1>5. d' = bb \/ d' = n0 \/ d' = append_reply(n0, r)
  BY DEF resolve_result_callback
<1>6. n0 = n
  BY <1>2 DEF Daemon, RequestState
<1>7. q0 \in RequestState /\ Alike(d.req[r], q0)
  BY <1>2 DEF RequestState, Alike, ForgetAnswer
<1>8. q1 \in RequestState /\ Alike(d.req[r], q1)
  BY <1>2 DEF RequestState, Alike
<1> HIDE DEF less, more, q0, q1, n0
<1>9. Calm(d, b) /\ b \in Daemon /\ b.req = d.req /\ Calm(d, c) /\ c \in Daemon /\ c.req = d.req
  BY <1>2, <1>4, GivenIsCalm
<1> HIDE DEF b, c
<1>10. Calm(b, bb) /\ Calm(c, n)
  BY <1>7, <1>8, <1>9, PutRequestIsCalm
<1>11. Kept(bb) /\ Kept(n)
  BY <1>9, <1>10, CalmKeeps
<1> HIDE DEF bb, n
<1> QED
  BY <1>5, <1>6, <1>11, RepliesKeep

(* A question that is asked again, or one that is over.                      *)
LEMMA AskedAgainKeeps ==
  ASSUME NEW r \in Requests, NEW k \in Kinds, Kept(d), <<r, k>> \in d.core
  PROVE  Kept(RetryQuestionWithSearchDomains(d, r, k))
<1> DEFINE n == StopQuery(d, r, k)
           m == StartQuery(n, r, k)
<1>1. RetryQuestionWithSearchDomains(d, r, k) = m
  BY DEF RetryQuestionWithSearchDomains
<1>2. d \in Daemon
  BY DEF Kept
<1>3. /\ n \in Daemon /\ n.all_requests = d.all_requests /\ n.core = d.core \ {<<r, k>>}
      /\ n.records = d.records /\ n.inst = d.inst /\ n.req = d.req
  BY <1>2, StopIs
<1> HIDE DEF n
<1>4. /\ m \in Daemon /\ m.all_requests = n.all_requests /\ m.core = n.core \cup {<<r, k>>}
      /\ m.records = n.records /\ m.inst = n.inst /\ m.req = n.req
  BY <1>3, StartIs
<1> HIDE DEF m
<1>5. m.core = d.core
  BY <1>3, <1>4
<1>6. Calm(d, m)
  BY <1>2, <1>3, <1>4, <1>5, OthersAreCalm
<1> QED
  BY <1>1, <1>6, CalmKeeps

LEMMA OverKeeps ==
  ASSUME NEW r \in Requests, NEW k \in {"q", "q4", "q6"}, Kept(d), <<r, k>> \in d.core
  PROVE  Kept([StopQuery(d, r, k) EXCEPT !.req[r].context = @ \ {k}])
<1> DEFINE n == StopQuery(d, r, k)
           q == [d.req[r] EXCEPT !.context = d.req[r].context \ {k}]
           m == WithRequest(n, r, q)
           m0 == [n EXCEPT !.req[r].context = @ \ {k}]
<1>1. d \in Daemon /\ Good(d) /\ d.req[r] \in RequestState /\ k \in Kinds
  BY RequestsTyped DEF Kept, Kinds
<1>2. /\ n \in Daemon /\ n.all_requests = d.all_requests /\ n.core = d.core \ {<<r, k>>}
      /\ n.records = d.records /\ n.inst = d.inst /\ n.req = d.req
  BY <1>1, StopIs
<1>3. r \in Live(d) /\ k \in HoldsIn(d, r) /\ ProperRequest(d.req[r])
  BY <1>1 DEF Good, CoreIsTheirs, RequestsAreProper
<1>4. d.req[r].op \in {"query", "addrinfo"}
  <2>1. k \notin d.req[r].browsers
    BY <1>1, UdsAssumption DEF RequestState
  <2> QED
    BY <1>3, <2>1 DEF HoldsIn
<1>5. q \in RequestState /\ q.op = d.req[r].op /\ q.primary = d.req[r].primary /\ q.reg_recs = d.req[r].reg_recs
      /\ q.context = d.req[r].context \ {k}
  BY <1>1 DEF RequestState
<1>6. m0 = m
  <2> HIDE DEF n
  <2> QED
    BY <1>2 DEF WithRequest
<1> HIDE DEF n, q, m0
<1>7. /\ m \in Daemon /\ m.all_requests = n.all_requests /\ m.core = n.core /\ m.records = n.records
      /\ m.inst = n.inst /\ m.req = [n.req EXCEPT ![r] = q]
  <2>1. n \in Daemon /\ (r \in Requests => q \in RequestState)
    BY <1>2, <1>5
  <2> QED
    BY <2>1, WithRequestIs
<1> HIDE DEF m
<1>8. m.req[r] = q
  BY <1>1, <1>2, <1>7 DEF Daemon
<1>9. HoldsIn(m, r) = d.req[r].context \ {k} /\ HoldsIn(d, r) = d.req[r].context
  BY <1>4, <1>5, <1>8 DEF HoldsIn
<1>10. \A x \in Requests, y \in Kinds :
         <<x, y>> \in m.core <=> IF x = r THEN y \in HoldsIn(m, r) ELSE <<x, y>> \in d.core
  <2> TAKE x \in Requests, y \in Kinds
  <2>1. <<x, y>> \in m.core <=> <<x, y>> \in d.core /\ ~(x = r /\ y = k)
    BY <1>2, <1>7
  <2>2. <<r, y>> \in d.core <=> y \in d.req[r].context
    BY <1>1, <1>3, <1>9 DEF Good, CoreIsTheirs
  <2> QED
    BY <1>9, <2>1, <2>2
<1>11. \A x \in Requests, y \in Keys :
         <<x, y>> \in m.records <=> IF x = r THEN y \in q.reg_recs ELSE <<x, y>> \in d.records
  <2> TAKE x \in Requests, y \in Keys
  <2>1. <<r, y>> \in d.records <=> y \in d.req[r].reg_recs
    BY <1>3, RecordsOf
  <2> QED
    BY <1>2, <1>5, <1>7, <2>1
<1>12. ProperRequest(q)
  BY <1>3, <1>5 DEF ProperRequest
<1>13. d.req[r].op = "register" => q.op = "register"
  BY <1>5
<1>14. Good(m)
  BY <1>1, <1>2, <1>3, <1>5, <1>7, <1>10, <1>11, <1>12, <1>13, PutHolding
<1> QED
  BY <1>6, <1>7, <1>14 DEF Kept, m0, n

LEMMA QueriedKeeps ==
  ASSUME NEW r \in Requests, NEW k \in {"q", "q4", "q6"}, Kept(d), queryrecord_result_callback(r, k)
  PROVE  Kept(d')
<1> DEFINE over == [StopQuery(d, r, k) EXCEPT !.req[r].context = @ \ {k}]
<1>1. <<r, k>> \in d.core
      /\ (d' = append_reply(d, r) \/ d' = RetryQuestionWithSearchDomains(d, r, k) \/ d' = append_reply(over, r))
  BY DEF queryrecord_result_callback
<1>2. Kept(RetryQuestionWithSearchDomains(d, r, k))
  <2>1. k \in Kinds
    BY DEF Kinds
  <2> QED
    BY <1>1, <2>1, AskedAgainKeeps
<1>3. Kept(over)
  BY <1>1, OverKeeps
<1> HIDE DEF over
<1> QED
  BY <1>1, <1>2, <1>3, RepliesKeep

(* The name and the domains of the host.                                     *)
LEMMA SethostKeeps ==
  ASSUME Kept(d), handle_sethost_request PROVE Kept(d')
<1>1. PICK name \in Names : d' = [d EXCEPT !.nicelabel = name]
  BY DEF handle_sethost_request
<1> DEFINE m == [d EXCEPT !.nicelabel = name]
<1>2. d \in Daemon
  BY DEF Kept
<1>3. /\ m \in Daemon /\ m.all_requests = d.all_requests /\ m.core = d.core /\ m.records = d.records
      /\ m.req = d.req /\ m.inst = d.inst
  BY <1>2 DEF Daemon
<1>4. d' = m
  BY <1>1
<1> HIDE DEF m
<1>5. Calm(d, m)
  BY <1>2, <1>3, OthersAreCalm
<1> QED
  BY <1>4, <1>5, CalmKeeps

LEMMA ChangedKeeps ==
  ASSUME Kept(d), ConfigChanged PROVE Kept(d')
<1>1. PICK reg \in SUBSET (Domains \ {Local}), browse \in SUBSET (Domains \ {Local}) :
        d' = udsserver_handle_configchange(
               [d EXCEPT !.platform = [RegDomains |-> reg, BrowseDomains |-> browse]])
  BY DEF ConfigChanged
<1> DEFINE p == [RegDomains |-> reg, BrowseDomains |-> browse]
           m == [d EXCEPT !.platform = p]
<1>2. d' = udsserver_handle_configchange(m)
  BY <1>1
<1>3. d \in Daemon
  BY DEF Kept
<1>5. p \in [RegDomains : SUBSET Domains, BrowseDomains : SUBSET Domains]
  OBVIOUS
<1> HIDE DEF p
<1>6. /\ m \in Daemon /\ m.all_requests = d.all_requests /\ m.core = d.core /\ m.records = d.records
      /\ m.req = d.req /\ m.inst = d.inst
  BY <1>3, <1>5 DEF Daemon
<1> HIDE DEF m
<1>7. Calm(d, m)
  BY <1>3, <1>6, OthersAreCalm
<1>8. Kept(m)
  BY <1>7, CalmKeeps
<1>9. Along(m, udsserver_handle_configchange(m))
  BY <1>6, ConfigChangeIsAlong
<1> QED
  BY <1>2, <1>8, <1>9, AlongKept

(* The end of the daemon.                                                    *)
LEMMA NextIsAborted ==
  ASSUME NEW n, Kept(n), NEW r PROVE Kept(AbortNext(n, r))
<1>1. CASE r \in Live(n)
  BY <1>1, AbortIsGood DEF Kept, AbortNext
<1>2. CASE r \notin Live(n)
  BY <1>2 DEF AbortNext
<1> QED
  BY <1>1, <1>2

AbortedAll(b, T) == FoldLeft(AbortNext, b, T)

LEMMA AbortedAllIsKept ==
  ASSUME NEW b, Kept(b), NEW T \in Seq(Requests) PROVE Kept(AbortedAll(b, T))
<1> DEFINE n == Len(T)
           D == {m \in Daemon : Good(m)}
           ch == [s \in SUBSET (1 .. n) |-> Max(s)]
           G == [y \in (1 .. n) \X D |-> AbortNext(y[2], T[y[1]])]
           IsFold(g) == g = [s \in SUBSET DOMAIN T |->
                               IF s = {} THEN b ELSE AbortNext(g[s \ {Max(s)}], T[Max(s)])]
           fold == CHOOSE g : IsFold(g)
           DD == [s \in SUBSET (1 .. n) |-> D]
<1>1. n \in Nat /\ DOMAIN T = 1 .. n /\ \A k \in 1 .. n : T[k] \in Requests
  OBVIOUS
<1>2. \A m : m \in D <=> Kept(m)
  BY DEF Kept
<1> HIDE DEF D
<1>3. G \in [(1 .. n) \X D -> D]
  <2>1. \A m \in D : \A r : AbortNext(m, r) \in D
    BY <1>2, NextIsAborted
  <2> QED
    BY <2>1
<1>4. AbortedAll(b, T) = fold[DOMAIN T]
  BY DEF AbortedAll, FoldLeft, MapThenFoldSet
<1>5. IsFiniteSet(1 .. n) /\ IsChoice(ch, 1 .. n) /\ \A s \in SUBSET (1 .. n) : ch[s] = Max(s)
  BY <1>1, GreatestChosen
<1>6. \A s \in SUBSET (1 .. n) : DD[s] = D
  OBVIOUS
<1>13. \A e \in 1 .. n, z \in D : G[<<e, z>>] = AbortNext(z, T[e])
  OBVIOUS
<1> HIDE DEF n, G, IsFold, fold, ch, DD
<1>7. PICK f \in [SUBSET (1 .. n) -> D] : FoldsAs(f, 1 .. n, ch, b, G)
  <2>1. b \in D
    BY <1>2
  <2> QED
    BY <1>3, <1>5, <2>1, FoldExists
<1>8. \A s \in SUBSET (1 .. n) : s # {} => ch[s] \in s /\ ch[s] \in 1 .. n /\ Rest(ch, s) \in SUBSET (1 .. n)
  BY <1>5, RestIsSmaller
<1>9. \A s \in SUBSET (1 .. n) : s # {} => G[<<ch[s], f[Rest(ch, s)]>>] = AbortNext(f[Rest(ch, s)], T[ch[s]])
  BY <1>7, <1>8, <1>13
<1>10. IsFold(f)
  BY <1>1, <1>5, <1>7, <1>9 DEF IsFold, FoldsAs, Rest
<1>11. IsFold(fold)
  BY <1>10 DEF fold
<1>12. fold[{}] = b /\ \A s \in SUBSET (1 .. n) : s # {} => fold[s] = AbortNext(fold[Rest(ch, s)], T[ch[s]])
  BY <1>1, <1>5, <1>11 DEF IsFold, Rest
<1>14. fold[{}] \in DD[{}]
  BY <1>2, <1>6, <1>12
<1>15. ASSUME NEW s \in SUBSET (1 .. n), s # {}, fold[Rest(ch, s)] \in DD[Rest(ch, s)] PROVE fold[s] \in DD[s]
  <2>1. Kept(fold[Rest(ch, s)])
    BY <1>2, <1>6, <1>8, <1>15
  <2>2. Kept(fold[s])
    BY <1>12, <1>15, <2>1, NextIsAborted
  <2> QED
    BY <1>2, <1>6, <2>2
<1>16. fold[1 .. n] \in DD[1 .. n]
  BY <1>5, <1>14, <1>15, FoldWithin
<1> QED
  BY <1>1, <1>2, <1>4, <1>6, <1>16

LEMMA ExitKeeps ==
  ASSUME Kept(d), udsserver_exit PROVE Kept(d')
<1> DEFINE n == AbortedAll(d, d.all_requests)
           m == [n EXCEPT !.exited = TRUE]
<1>1. d' = m
  BY DEF udsserver_exit, AbortedAll
<1>2. d.all_requests \in Seq(Requests)
  BY LiveAreRequests DEF Kept
<1>3. Kept(n)
  BY <1>2, AbortedAllIsKept
<1> HIDE DEF n
<1>4. n \in Daemon
  BY <1>3 DEF Kept
<1>5. /\ m \in Daemon /\ m.all_requests = n.all_requests /\ m.core = n.core /\ m.records = n.records
      /\ m.req = n.req /\ m.inst = n.inst
  BY <1>4 DEF Daemon
<1> HIDE DEF m
<1>6. Calm(n, m)
  BY <1>4, <1>5, OthersAreCalm
<1> QED
  BY <1>1, <1>3, <1>6, CalmKeeps

-----------------------------------------------------------------------------
(* The theorems.                                                             *)

LEMMA InitIsKept ==
  ASSUME Init PROVE DaemonInv
<1>1. NoRequest \in RequestState /\ NoInstance \in ServiceInstance
  BY UdsAssumption DEF RequestState, NoRequest, ServiceInstance, NoInstance, Names
<1>2. /\ d.all_requests = <<>> /\ d.req = [r \in Requests |-> NoRequest] /\ d.inst = [i \in Instances |-> NoInstance]
      /\ d.core = {} /\ d.records = {}
  BY DEF Init
<1>3. d \in Daemon
  <2>1. 0 \in Names /\ <<>> \in Seq(Requests)
    BY UdsAssumption DEF Names
  <2>2. [x \in Domains |-> IF x = Local THEN 1 ELSE 0] \in [Domains -> Nat]
    OBVIOUS
  <2>3. [c \in Clients |-> "closed"] \in [Clients -> {"closed", "open", "gone"}]
    OBVIOUS
  <2>4. [r \in Requests |-> NoRequest] \in [Requests -> RequestState]
        /\ [i \in Instances |-> NoInstance] \in [Instances -> ServiceInstance]
    BY <1>1
  <2> QED
    BY <2>1, <2>2, <2>3, <2>4 DEF Init, Daemon
<1>4. TypeOK
  BY <1>3, UdsAssumption DEF Init, TypeOK
<1>5. Live(d) = {}
  BY <1>2 DEF Live, Range
<1>6. RequestsAreProper(d)
  BY <1>2 DEF RequestsAreProper, ProperRequest, NoRequest, IsInjective
<1>7. ServicesAreOwned(d)
  BY <1>2 DEF ServicesAreOwned, Owned, NoInstance
<1>8. CoreIsTheirs(d)
  BY <1>2, <1>5 DEF CoreIsTheirs
<1> QED
  BY <1>4, <1>6, <1>7, <1>8 DEF DaemonInv, Good

LEMMA StepKeeps ==
  ASSUME DaemonInv, Next PROVE DaemonInv'
<1>1. Kept(d)
  BY DEF DaemonInv, TypeOK, Kept
<1>2. Kept(d')
  <2>1. ASSUME NEW c \in Clients,
               \/ connect_callback(c) \/ Share(c) \/ handle_cancel_request(c) \/ handle_regrecord_request(c)
               \/ remove_record(c) \/ handle_add_request(c) \/ remove_extra(c) \/ handle_update_request(c)
               \/ HangUp(c) \/ request_callback(c)
        PROVE  Kept(d')
    BY <1>1, <2>1, ConnectKeeps, ShareKeeps, AbortKeeps, RegrecordKeeps, RemoveRecordKeeps, ExtrasKeep,
       UpdateKeeps, HangUpKeeps
  <2>2. ASSUME NEW i \in Instances, ServiceRegistered(i) \/ NameConflict(i) \/ ServiceGone(i) PROVE Kept(d')
    BY <1>1, <2>2, RegisteredKeeps, NameConflictKeeps, ServiceGoneKeeps
  <2>3. ASSUME NEW r \in Requests,
               udsserver_idle(r) \/ enum_result_callback(r) \/ port_mapping_create_request_callback(r)
        PROVE  Kept(d')
    BY <1>1, <2>3, IdleKeeps, AnsweredKeeps
  <2>4. ASSUME NEW r \in Requests, NEW k \in Keys, regrecord_callback(r, k) PROVE Kept(d')
    BY <1>1, <2>4, RecordCalledKeeps
  <2>5. ASSUME NEW r \in Requests, NEW x \in Domains, FoundInstance(r, x) PROVE Kept(d')
    BY <1>1, <2>5, FoundKeeps
  <2>6. ASSUME NEW r \in Requests, NEW k \in {"srv", "txt"}, NEW a \in 1 .. 2, resolve_result_callback(r, k, a)
        PROVE  Kept(d')
    BY <1>1, <2>6, ResolvedKeeps
  <2>7. ASSUME NEW r \in Requests, NEW k \in {"q", "q4", "q6"}, queryrecord_result_callback(r, k) PROVE Kept(d')
    BY <1>1, <2>7, QueriedKeeps
  <2>8. ASSUME ConfigChanged PROVE Kept(d')
    BY <1>1, <2>8, ChangedKeeps
  <2>9. ASSUME udsserver_exit PROVE Kept(d')
    BY <1>1, <2>9, ExitKeeps
  <2>10. ASSUME handle_sethost_request PROVE Kept(d')
    BY <1>1, <2>10, SethostKeeps
  <2> QED
    BY <2>1, <2>2, <2>3, <2>4, <2>5, <2>6, <2>7, <2>8, <2>9, <2>10 DEF Next
<1>3. calls' \in 0 .. MaxCalls /\ events' \in 0 .. MaxEvents
  <2>1. calls \in 0 .. MaxCalls /\ events \in 0 .. MaxEvents
    BY DEF DaemonInv, TypeOK
  <2>2. Call \/ Event \/ UNCHANGED <<calls, events>>
    <3>1. ASSUME NEW c \in Clients,
                 \/ connect_callback(c) \/ Share(c) \/ handle_cancel_request(c) \/ handle_regrecord_request(c)
                 \/ remove_record(c) \/ handle_add_request(c) \/ remove_extra(c) \/ handle_update_request(c)
                 \/ HangUp(c) \/ request_callback(c)
          PROVE  Call \/ UNCHANGED <<calls, events>>
      BY <3>1 DEF connect_callback, Share, handle_cancel_request, handle_regrecord_request, remove_record,
         handle_add_request, remove_extra, handle_update_request, HangUp, request_callback
    <3>2. ASSUME NEW i, ServiceRegistered(i) \/ NameConflict(i) \/ ServiceGone(i)
          PROVE  Event \/ UNCHANGED <<calls, events>>
      BY <3>2 DEF ServiceRegistered, NameConflict, ServiceGone
    <3>3. ASSUME NEW r, udsserver_idle(r) \/ enum_result_callback(r) \/ port_mapping_create_request_callback(r)
          PROVE  Event \/ UNCHANGED <<calls, events>>
      BY <3>3 DEF udsserver_idle, enum_result_callback, port_mapping_create_request_callback
    <3>4. ASSUME NEW r, NEW k, NEW a,
                 \/ regrecord_callback(r, k) \/ FoundInstance(r, k) \/ resolve_result_callback(r, k, a)
                 \/ queryrecord_result_callback(r, k)
          PROVE  Event
      BY <3>4 DEF regrecord_callback, FoundInstance, resolve_result_callback, queryrecord_result_callback
    <3>5. handle_sethost_request \/ ConfigChanged \/ udsserver_exit => Call \/ Event \/ UNCHANGED <<calls, events>>
      BY DEF handle_sethost_request, ConfigChanged, udsserver_exit
    <3> HIDE DEF Call, Event
    <3> QED
      BY <3>1, <3>2, <3>3, <3>4, <3>5 DEF Next
  <2> QED
    BY <2>1, <2>2, UdsAssumption DEF Call, Event
<1>4. TypeOK' /\ Good(d)'
  BY <1>2, <1>3 DEF TypeOK, Kept
<1> QED
  BY <1>4 DEF DaemonInv

(* What the daemon keeps to, in every reachable state.                       *)
THEOREM DaemonInvHolds == Spec => []DaemonInv
<1>1. Init => DaemonInv
  BY InitIsKept
<1>2. DaemonInv /\ [Next]_vars => DaemonInv'
  <2>1. CASE Next
    BY <2>1, StepKeeps
  <2>2. CASE UNCHANGED vars
    BY <2>2 DEF vars, DaemonInv, TypeOK, Good, RequestsAreProper, ServicesAreOwned, CoreIsTheirs, Live, OfOp, HoldsIn
  <2> QED
    BY <2>1, <2>2
<1> QED
  BY <1>1, <1>2, PTL DEF Spec

(* The daemon's state has its types.                                         *)
THEOREM TypeCorrect == Spec => []TypeOK
<1>1. DaemonInv => TypeOK
  BY DEF DaemonInv
<1> QED
  BY <1>1, DaemonInvHolds, PTL

LEMMA NothingDanglesThen ==
  ASSUME DaemonInv PROVE NothingDangles
<1>1. d \in Daemon /\ Good(d) /\ Live(d) \subseteq Requests
  BY LiveAreRequests DEF DaemonInv, TypeOK
<1>2. \A r \in Requests : Holds(r) = HoldsIn(d, r)
  BY DEF Holds, HoldsIn
<1>3. ASSUME NEW r \in Requests PROVE HoldsIn(d, r) \subseteq Kinds /\ d.req[r].reg_recs \subseteq Keys
  <2>1. d.req[r] \in RequestState
    BY <1>1, RequestsTyped
  <2> QED
    BY <2>1 DEF HoldsIn, RequestState, Kinds
<1>4. d.core \subseteq Requests \X Kinds /\ d.records \subseteq Requests \X Keys
  BY <1>1 DEF Daemon
<1>5. /\ \A r \in Requests, k \in Kinds : <<r, k>> \in d.core <=> r \in Live(d) /\ k \in HoldsIn(d, r)
      /\ \A r \in Requests, k \in Keys : <<r, k>> \in d.records <=> r \in Live(d) /\ k \in d.req[r].reg_recs
  BY <1>1 DEF Good, CoreIsTheirs
<1>6. d.core = UNION {{r} \X Holds(r) : r \in Live(d)}
  <2>1. ASSUME NEW e \in d.core PROVE e \in UNION {{r} \X Holds(r) : r \in Live(d)}
    <3>1. PICK r \in Requests, k \in Kinds : e = <<r, k>>
      BY <1>4
    <3>2. r \in Live(d) /\ k \in Holds(r)
      BY <1>2, <1>5, <3>1
    <3> QED
      BY <3>1, <3>2
  <2>2. ASSUME NEW r \in Live(d), NEW e \in {r} \X Holds(r) PROVE e \in d.core
    <3>1. PICK k \in Holds(r) : e = <<r, k>>
      OBVIOUS
    <3>2. r \in Requests /\ k \in Kinds /\ k \in HoldsIn(d, r)
      BY <1>1, <1>2, <1>3
    <3> QED
      BY <1>5, <3>1, <3>2
  <2> QED
    BY <2>1, <2>2
<1>7. d.records = UNION {{r} \X d.req[r].reg_recs : r \in Live(d)}
  <2>1. ASSUME NEW e \in d.records PROVE e \in UNION {{r} \X d.req[r].reg_recs : r \in Live(d)}
    <3>1. PICK r \in Requests, k \in Keys : e = <<r, k>>
      BY <1>4
    <3>2. r \in Live(d) /\ k \in d.req[r].reg_recs
      BY <1>5, <3>1
    <3> QED
      BY <3>1, <3>2
  <2>2. ASSUME NEW r \in Live(d), NEW e \in {r} \X d.req[r].reg_recs PROVE e \in d.records
    <3>1. PICK k \in d.req[r].reg_recs : e = <<r, k>>
      OBVIOUS
    <3>2. r \in Requests /\ k \in Keys
      BY <1>1, <1>3
    <3> QED
      BY <1>5, <3>1, <3>2
  <2> QED
    BY <2>1, <2>2
<1>8. ServicesAreOwned(d)
  BY <1>1 DEF Good
<1> QED
  BY <1>6, <1>7, <1>8 DEF NothingDangles, ServicesAreOwned, Owned

(* What is in the core for clients is what the requests in the list hold     *)
(* there, neither more nor less, and every service has a request that knows  *)
(* it, for any clients, requests, services and domains.                      *)
THEOREM NothingEverDangles == Spec => []NothingDangles
<1>1. DaemonInv => NothingDangles
  BY NothingDanglesThen
<1> QED
  BY <1>1, DaemonInvHolds, PTL
=============================================================================

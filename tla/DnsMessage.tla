----------------------------- MODULE DnsMessage -----------------------------
(* DNS messages as DNSCommon.c builds and reads them, byte by byte, since   *)
(* that is where a name is cut short by a pointer to an earlier one.  An    *)
(* offset counts from the start of the header, as in the code; a name is a  *)
(* sequence of labels, a label a sequence of bytes.                         *)
(*                                                                          *)
(* A message is built by a client of the put functions, or arrives, a byte  *)
(* at a time, from somebody who need not keep to any rule.                  *)
EXTENDS Integers, Sequences, FiniteSets, SequencesExt

CONSTANTS
  MAX_DOMAIN_LABEL,     \* 63 in the code
  MAX_DOMAIN_NAME,      \* 256 in the code
  Limit,                \* one past the end of the buffer
  OneSecond,            \* mDNSPlatformOneSecond
  Beyonds,              \* what a byte of the buffer not yet written may hold
  Questions,            \* the questions that are put
  Records,              \* the records that are put
  Leases,               \* the leases that are asked for
  MaxPuts,              \* bounds the messages that are built
  Junk,                 \* the bytes of the messages that arrive
  MaxJunk               \* bounds their length

VARIABLES
  msg,                  \* the bytes up to the end of the message
  beyond,               \* the byte after it
  counts,               \* the four counts of the header
  isUpdate,             \* whether it is a unicast update
  put                   \* what has been put, in order
dnsMessageVars == <<msg, beyond, counts, isUpdate, put>>

HeaderSize == 12
(* No message is empty.                                                     *)
mDNSNULL == <<>>
(* What is done next with a buffer, unless there was no room, and with what *)
(* was read, unless it could not be.                                        *)
Further(buf, Op(_)) == IF buf = mDNSNULL THEN mDNSNULL ELSE Op(buf)
Failed == [ok |-> FALSE]
Then(read, Op(_)) == IF read.ok THEN Op(read) ELSE Failed

At(buf, o) == IF o < Len(buf) THEN buf[o + 1] ELSE beyond
Val16(buf, o) == At(buf, o) * 256 + At(buf, o + 1)
Bytes16(n) == <<n \div 256, n % 256>>
Slice(buf, from, to) == [i \in 1..(to - from) |-> At(buf, from + i - 1)]
Lower(c) == IF c \in 65..90 THEN c + 32 ELSE c
LowerName(d) == [i \in DOMAIN d |-> [j \in DOMAIN d[i] |-> Lower(d[i][j])]]
DomainNameLength(d) == FoldLeft(LAMBDA n, l : n + 1 + Len(l), 1, d)
SameDomainName(d1, d2) == LowerName(d1) = LowerName(d2)

---------------------------------------------------------------------------
(* The kinds of data: bytes, names and bytes again, in this order.  Raw     *)
(* data is all bytes.                                                       *)

A == 1
NS == 2
SOA == 6
PTR == 12
HINFO == 13
MX == 15
TXT == 16
RP == 17
PX == 26
AAAA == 28
SRV == 33
OPT == 41
NSEC == 47
AnyType == 255
ClassNone == <<0, 254>>
ClassAny == <<0, 255>>

Layout(rrtype) ==
  LET is(before, names, after) == [before |-> before, names |-> names, after |-> after]
  IN  CASE rrtype \in {NS, PTR} -> is(0, 1, 0)
        [] rrtype = A    -> is(4, 0, 0)
        [] rrtype = AAAA -> is(16, 0, 0)
        [] rrtype = SOA  -> is(0, 2, 20)
        [] rrtype = MX   -> is(2, 1, 0)
        [] rrtype = RP   -> is(0, 2, 0)
        [] rrtype = PX   -> is(2, 2, 0)
        [] rrtype = SRV  -> is(6, 1, 0)
Raw(rrtype) == rrtype \notin {A, NS, SOA, PTR, MX, RP, PX, AAAA, SRV, OPT, NSEC}

Data(before, names, after) == [before |-> before, names |-> names, after |-> after]
NoData == Data(<<>>, <<>>, <<>>)

(* An option is its code and its bytes.                                     *)
kDNSOpt_LLQ == 1
kDNSOpt_Lease == 2
kDNSOpt_Owner == 4
ValidOptLength(opt, len) ==
  \/ opt = kDNSOpt_LLQ /\ len = 18
  \/ opt = kDNSOpt_Lease /\ len = 4
  \/ opt = kDNSOpt_Owner /\ len \in {8, 14, 18, 20}

---------------------------------------------------------------------------
(* Putting names                                                            *)

\* A bug: a pointer is followed as if it were the label after it.
LabelsAt_Through(buf, end, targ, labels) ==
  /\ targ + Len(labels[1]) < end
  /\ Slice(buf, targ, targ + 1 + Len(labels[1])) = <<Len(labels[1])>> \o labels[1]

(* Whether the labels are those at targ, the last of them followed by a     *)
(* zero.  The byte looked at last may be the one at end.                    *)
RECURSIVE LabelsAt(_, _, _, _)
LabelsAt(buf, end, targ, labels) ==
  LET len  == Len(labels[1])
      next == targ + 1 + len
      t    == At(buf, next)
      to   == (t - 192) * 256 + At(buf, next + 1)
  IN  /\ targ + len < end
      /\ Slice(buf, targ, next) = <<len>> \o labels[1]
      /\ \/ Len(labels) = 1 /\ t = 0
         \/ Len(labels) > 1 /\ t < 64 /\ LabelsAt(buf, end, next, Tail(labels))
         \/ /\ Len(labels) > 1 /\ t >= 192 /\ next + 1 < end
            /\ to <= next /\ At(buf, to) < 64
            /\ LabelsAt(buf, end, to, Tail(labels))

(* The last place before end that stands for the labels, or -1.             *)
FindCompressionPointer(buf, end, labels) ==
  Max({-1} \cup {o \in 0..(end - Len(labels[1]) - 1) :
                    At(buf, o) = Len(labels[1]) /\ LabelsAt(buf, end, o, labels)})

RECURSIVE PutLabels(_, _, _, _, _, _)
PutLabels(buf, searchlimit, limit, labels, compress, used) ==
  IF labels = <<>> THEN Append(buf, 0)
  ELSE LET len == Len(labels[1])
           at(pointer) ==
             IF pointer >= 0
             THEN IF Len(buf) + 2 > limit THEN mDNSNULL
                  ELSE buf \o <<192 + (pointer \div 256), pointer % 256>>
             ELSE IF Len(buf) + 1 + len >= limit THEN mDNSNULL
             ELSE PutLabels(buf \o <<len>> \o labels[1], searchlimit, limit, Tail(labels), compress, used + 1 + len)
       IN  IF len > MAX_DOMAIN_LABEL \/ used + 1 + len >= MAX_DOMAIN_NAME THEN mDNSNULL
           ELSE at(IF compress THEN FindCompressionPointer(buf, searchlimit, labels) ELSE -1)

putDomainNameAsLabels(buf, limit, name, compress) ==
  IF buf = mDNSNULL \/ (name = <<>> /\ Len(buf) >= limit) THEN mDNSNULL
  ELSE PutLabels(buf, Len(buf), limit, name, compress, 0)

---------------------------------------------------------------------------
(* Putting records                                                          *)

PutBytes(buf, limit, bytes, room) ==
  IF buf = mDNSNULL \/ Len(buf) + room > limit THEN mDNSNULL ELSE buf \o bytes

OptBytes(opts) == FlattenSeq([i \in DOMAIN opts |-> Bytes16(opts[i].opt) \o Bytes16(Len(opts[i].data)) \o opts[i].data])

(* A block of type bits goes without its zero bytes, and when nothing is    *)
(* left, altogether.                                                        *)
BitmapBytes(bitmap) ==
  LET i == Max({0} \cup {n \in DOMAIN bitmap : bitmap[n] # 0})
  IN  IF i = 0 THEN <<>> ELSE <<0, i>> \o SubSeq(bitmap, 1, i)

PutAll(buf, limit, bytes) == PutBytes(buf, limit, bytes, Len(bytes))

(* The room asked for before a name counts its final zero too.              *)
putRData(buf, limit, rr, compress) ==
  LET room  == IF rr.rrtype = PX THEN 5
               ELSE Len(rr.data.before) + (IF rr.data.names # <<>> /\ rr.data.before # <<>> THEN 1 ELSE 0)
      names == FoldLeft(LAMBDA b, n : putDomainNameAsLabels(b, limit, n, compress),
                        PutBytes(buf, limit, rr.data.before, room), rr.data.names)
  IN  CASE rr.rrtype = OPT  -> PutAll(buf, limit, OptBytes(rr.data.before))
        [] rr.rrtype = NSEC -> PutAll(putDomainNameAsLabels(buf, limit, rr.name, compress), limit, BitmapBytes(rr.data.before))
        [] OTHER            -> PutAll(names, limit, rr.data.after)

(* The length of the data is filled in when it is known; until then those   *)
(* two bytes hold what they held.                                           *)
PutResourceRecordTTLWithLimit(buf, limit, rr, ttl) ==
  LET filled(whole, at) == SubSeq(whole, 1, at) \o Bytes16(Len(whole) - at - 2) \o SubSeq(whole, at + 3, Len(whole))
      fixed(named) == named \o Bytes16(rr.rrtype) \o rr.rrclass \o ttl \o <<beyond, beyond>>
  IN  Further(putDomainNameAsLabels(buf, limit, rr.name, TRUE), LAMBDA named :
        IF Len(named) + 10 >= limit THEN mDNSNULL
        ELSE Further(putRData(fixed(named), limit, rr, ~(isUpdate /\ rr.rrtype = SRV)),
                     LAMBDA whole : filled(whole, Len(named) + 8)))

(* A record without data, as the conditions and the deletions of an update  *)
(* have it.  The first asks for one byte less than the others.              *)
putEmptyResourceRecord(buf, limit, name, rrtype, rrclass, spare) ==
  Further(putDomainNameAsLabels(buf, limit, name, TRUE), LAMBDA named :
    IF Len(named) + 10 + spare > limit THEN mDNSNULL ELSE named \o Bytes16(rrtype) \o rrclass \o <<0, 0, 0, 0, 0, 0>>)

putPrereqNameNotInUse(buf, limit, name) == putEmptyResourceRecord(buf, limit, name, AnyType, ClassNone, 0)
putDeleteRRSetWithLimit(buf, limit, name, rrtype) == putEmptyResourceRecord(buf, limit, name, rrtype, ClassAny, 1)
putDeleteAllRRSets(buf, limit, name) == putEmptyResourceRecord(buf, limit, name, AnyType, ClassAny, 1)

putDeletionRecordWithLimit(buf, limit, rr) ==
  PutResourceRecordTTLWithLimit(buf, limit, [rr EXCEPT !.rrclass = ClassNone], <<0, 0, 0, 0>>)

LeaseRecord(lease) ==
  [name |-> <<>>, rrtype |-> OPT, rrclass |-> Bytes16(1440), ttl |-> <<0, 0, 0, 0>>,
   data |-> Data(<<[opt |-> kDNSOpt_Lease, data |-> <<0, 0>> \o Bytes16(lease)]>>, <<>>, <<>>)]
putUpdateLeaseWithLimit(buf, limit, lease) ==
  PutResourceRecordTTLWithLimit(buf, limit, LeaseRecord(lease), <<0, 0, 0, 0>>)

putQuestion(buf, limit, q) ==
  Further(putDomainNameAsLabels(buf, limit, q.name, TRUE), LAMBDA named :
    IF Len(named) + 4 >= limit THEN mDNSNULL ELSE named \o Bytes16(q.qtype) \o q.qclass)

putZone(buf, limit, zone) ==
  Further(putDomainNameAsLabels(buf, limit, zone, TRUE), LAMBDA named :
    IF Len(named) + 4 > limit THEN mDNSNULL ELSE named \o Bytes16(SOA) \o <<0, 1>>)

---------------------------------------------------------------------------
(* How long the data of a record is, and may be on the wire                 *)

(* At most one parent: what is left of the name before it, and a pointer.   *)
CompressedDomainNameLength(name, parents) ==
  LET cuts == {k \in 0..(Len(name) - 1) : \E p \in parents : p # <<>> /\ SameDomainName(SubSeq(name, k + 1, Len(name)), p)}
  IN  IF cuts = {} THEN DomainNameLength(name)
      ELSE DomainNameLength(SubSeq(name, 1, CHOOSE k \in cuts : TRUE)) + 1

GetRDLength(rr, estimate) ==
  LET parents == IF estimate THEN {rr.name} ELSE {}
      names   == FoldLeft(LAMBDA n, d : n + CompressedDomainNameLength(d, parents), 0, rr.data.names)
  IN  CASE rr.rrtype = OPT  -> Len(OptBytes(rr.data.before))
        [] rr.rrtype = NSEC -> (IF estimate THEN 2 ELSE DomainNameLength(rr.name)) + Len(BitmapBytes(rr.data.before))
        [] OTHER            -> Len(rr.data.before) + names + Len(rr.data.after)

(* What two records' data are compared and hashed by: names in any case,    *)
(* and of those kinds that the code knows nothing else for the hash.        *)
SameRDataBody(r1, r2) ==
  /\ r1.rrtype # OPT
  /\ r1.data.before = r2.data.before /\ r1.data.after = r2.data.after
  /\ Len(r1.data.names) = Len(r2.data.names)
  /\ \A i \in DOMAIN r1.data.names : SameDomainName(r1.data.names[i], r2.data.names[i])

RDataHashValue(rr) ==
  IF rr.rrtype \in {NS, PTR, MX, RP, PX, SRV, SOA}
  THEN <<[i \in DOMAIN rr.data.names |-> LowerName(rr.data.names[i])], rr.data.after>>
  ELSE IF rr.rrtype = OPT THEN <<>> ELSE <<rr.data.before>>

---------------------------------------------------------------------------
(* Reading                                                                  *)

RECURSIVE skipLabels(_, _, _, _)
skipLabels(buf, ptr, end, total) ==
  LET len == At(buf, ptr)
  IN  IF len = 0 THEN [ok |-> TRUE, next |-> ptr + 1]
      ELSE IF len >= 192 THEN [ok |-> TRUE, next |-> ptr + 2]
      ELSE IF len >= 64 \/ ptr + 1 + len >= end \/ total + 1 + len >= MAX_DOMAIN_NAME THEN Failed
      ELSE skipLabels(buf, ptr + 1 + len, end, total + 1 + len)
skipDomainName(buf, ptr, end) == IF ptr >= end THEN Failed ELSE skipLabels(buf, ptr, end, 0)

(* The labels at ptr, through as many pointers as there are, none of which  *)
(* may point to another.  The name ends after the first of them.            *)
RECURSIVE getLabels(_, _, _, _, _)
getLabels(buf, ptr, end, labels, nextbyte) ==
  LET len == At(buf, ptr)
      to  == (len - 192) * 256 + At(buf, ptr + 1)
  IN  IF len = 0 THEN [ok |-> TRUE, next |-> (IF nextbyte = 0 THEN ptr + 1 ELSE nextbyte), name |-> labels]
      ELSE IF len < 64
           THEN IF ptr + 1 + len >= end \/ DomainNameLength(labels) + len >= MAX_DOMAIN_NAME THEN Failed
                ELSE getLabels(buf, ptr + 1 + len, end, Append(labels, Slice(buf, ptr + 1, ptr + 1 + len)), nextbyte)
      ELSE IF len < 192 \/ to >= end THEN Failed
      ELSE IF At(buf, to) >= 64 THEN Failed
      ELSE getLabels(buf, to, end, labels, IF nextbyte = 0 THEN ptr + 2 ELSE nextbyte)
getDomainName(buf, ptr, end) == IF ptr >= end THEN Failed ELSE getLabels(buf, ptr, end, <<>>, 0)

(* n names one after the other.                                             *)
RECURSIVE getNames(_, _, _, _)
getNames(buf, ptr, end, n) ==
  IF n = 0 THEN [ok |-> TRUE, next |-> ptr, names |-> <<>>]
  ELSE Then(getDomainName(buf, ptr, end), LAMBDA first :
         Then(getNames(buf, first.next, end, n - 1), LAMBDA more :
           [ok |-> TRUE, next |-> more.next, names |-> <<first.name>> \o more.names]))

(* The options between ptr and end, without those of a length their code    *)
(* does not have.                                                           *)
RECURSIVE getOptions(_, _, _)
getOptions(buf, ptr, end) ==
  LET opt  == Val16(buf, ptr)
      len  == Val16(buf, ptr + 2)
  IN  IF ptr >= end THEN [ok |-> TRUE, opts |-> <<>>]
      ELSE IF ptr + 4 > end \/ ptr + 4 + len > end THEN Failed
      ELSE Then(getOptions(buf, ptr + 4 + len, end), LAMBDA more :
             [ok |-> TRUE,
              opts |-> (IF ValidOptLength(opt, len)
                        THEN << [opt |-> opt, data |-> Slice(buf, ptr + 4, ptr + 4 + len)] >> ELSE <<>>) \o more.opts])

(* The data of a record of the type, all of what is between ptr and end.    *)
getRData(buf, ptr, end, rrtype) ==
  IF Raw(rrtype) THEN [ok |-> TRUE, data |-> Data(Slice(buf, ptr, end), <<>>, <<>>)]
  ELSE IF rrtype = OPT
  THEN Then(getOptions(buf, ptr, end), LAMBDA o : [ok |-> TRUE, data |-> Data(o.opts, <<>>, <<>>)])
  ELSE IF rrtype = NSEC
  THEN Then(getDomainName(buf, ptr, end), LAMBDA d :
         IF d.next = end THEN [ok |-> TRUE, data |-> NoData]
         ELSE IF d.next > end THEN Failed
         ELSE IF At(buf, d.next) # 0 \/ d.next + 2 + At(buf, d.next + 1) # end THEN Failed
         ELSE [ok |-> TRUE, data |-> Data(Slice(buf, d.next + 2, end), <<>>, <<>>)])
  ELSE LET is == Layout(rrtype)
       IN  IF end - ptr < is.before + is.names THEN Failed
           ELSE Then(getNames(buf, ptr + is.before, end, is.names), LAMBDA d :
                  IF d.next + is.after # end THEN Failed
                  ELSE [ok |-> TRUE, data |-> Data(Slice(buf, ptr, ptr + is.before), d.names, Slice(buf, d.next, end))])

(* A time to live the code can count with, or 255.255.255.255.              *)
Clamped(ttl) ==
  LET most == 1879048192 \div OneSecond
      val  == ((ttl[1] * 256 + ttl[2]) * 256 + ttl[3]) * 256 + ttl[4]
  IN  IF ttl = <<255, 255, 255, 255>> THEN ttl
      ELSE IF ttl[1] < 128 THEN IF val <= most THEN ttl
                                ELSE Bytes16(most \div 65536) \o Bytes16(most % 65536)
      ELSE Bytes16(most \div 65536) \o Bytes16(most % 65536)

(* A record that cannot be taken apart is negative, but has an end.         *)
GetLargeResourceRecord(buf, ptr, end) ==
  LET whole(d, class, stop, rdata) ==
        [ok |-> TRUE, next |-> stop, negative |-> ~rdata.ok,
         rr |-> [name |-> d.name, rrtype |-> Val16(buf, d.next), rrclass |-> class,
                 ttl |-> Clamped(Slice(buf, d.next + 4, d.next + 8)),
                 data |-> IF rdata.ok THEN rdata.data ELSE NoData]]
      from(d, class, stop) ==
        IF stop > end THEN Failed
        ELSE whole(d, class, stop,
                   IF class = ClassAny /\ stop = d.next + 10 THEN [ok |-> TRUE, data |-> NoData]
                   ELSE getRData(buf, d.next + 10, stop, Val16(buf, d.next)))
  IN  Then(getDomainName(buf, ptr, end), LAMBDA d :
        IF d.next + 10 > end THEN Failed
        ELSE from(d, <<At(buf, d.next + 2) % 128, At(buf, d.next + 3)>>, d.next + 10 + Val16(buf, d.next + 8)))

skipResourceRecord(buf, ptr, end) ==
  Then(skipDomainName(buf, ptr, end), LAMBDA d :
    IF d.next + 10 > end \/ d.next + 10 + Val16(buf, d.next + 8) > end THEN Failed
    ELSE [ok |-> TRUE, next |-> d.next + 10 + Val16(buf, d.next + 8)])

getQuestion(buf, ptr, end) ==
  Then(getDomainName(buf, ptr, end), LAMBDA d :
    IF d.next + 4 > end THEN Failed
    ELSE [ok |-> TRUE, next |-> d.next + 4,
          q |-> [name |-> d.name, qtype |-> Val16(buf, d.next), qclass |-> Slice(buf, d.next + 2, d.next + 4)]])

skipQuestion(buf, ptr, end) ==
  Then(skipDomainName(buf, ptr, end), LAMBDA d :
    IF d.next + 4 > end THEN Failed ELSE [ok |-> TRUE, next |-> d.next + 4])

(* skip applied n times, as long as it does not fail.                       *)
SkipRecords(buf, from, end, n) ==
  FoldLeft(LAMBDA p, i : IF p.ok THEN skipResourceRecord(buf, p.next, end) ELSE p, from, [i \in 1..n |-> i])

LocateAnswers(buf, end) ==
  FoldLeft(LAMBDA p, i : IF p.ok THEN skipQuestion(buf, p.next, end) ELSE p,
           [ok |-> TRUE, next |-> HeaderSize], [i \in 1..counts[1] |-> i])
LocateAuthorities(buf, end) == SkipRecords(buf, LocateAnswers(buf, end), end, counts[2])
LocateAdditionals(buf, end) == SkipRecords(buf, LocateAuthorities(buf, end), end, counts[3])

(* The first OPT record of at least minsize bytes among the additionals.    *)
RECURSIVE OptFrom(_, _, _, _, _)
OptFrom(buf, at, end, minsize, n) ==
  IF n = 0 \/ ~at.ok THEN Failed
  ELSE IF /\ at.next + 11 + minsize <= end
          /\ Slice(buf, at.next, at.next + 3) = <<0, 0, OPT>>
          /\ Val16(buf, at.next + 9) >= minsize
       THEN at
  ELSE OptFrom(buf, skipResourceRecord(buf, at.next, end), end, minsize, n - 1)
LocateOptRR(buf, end, minsize) == OptFrom(buf, LocateAdditionals(buf, end), end, minsize, counts[4])

(* 0 when no lease is asked for.                                            *)
GetPktLease(buf, end) ==
  LET lease(got) ==
        IF ~got.ok THEN 0
        ELSE IF got.negative \/ got.rr.data.before = <<>> THEN 0
        ELSE IF got.rr.data.before[1].opt # kDNSOpt_Lease THEN 0
        ELSE got.rr.data.before[1].data[3] * 256 + got.rr.data.before[1].data[4]
  IN  lease(Then(LocateOptRR(buf, end, 8), LAMBDA at : GetLargeResourceRecord(buf, at.next, end)))

---------------------------------------------------------------------------
(* The steps                                                                *)

Header == [i \in 1..HeaderSize |-> 0]

DnsMessageInit ==
  /\ msg = Header
  /\ beyond \in Beyonds
  /\ counts = <<0, 0, 0, 0>>
  /\ isUpdate \in BOOLEAN
  /\ put = <<>>

(* Something goes into a section, unless a later one has been begun or      *)
(* there is no room for it: then the message stays as it was.               *)
Put(section, buf, item) ==
  /\ Len(put) < MaxPuts
  /\ \A s \in (section + 1)..4 : counts[s] = 0
  /\ buf # mDNSNULL
  /\ msg' = buf
  /\ counts' = [counts EXCEPT ![section] = @ + 1]
  /\ put' = Append(put, [item EXCEPT !.size = Len(buf) - Len(msg)])
  /\ UNCHANGED <<beyond, isUpdate>>

QuestionItem(q) == [kind |-> "question", value |-> q, size |-> 0]
RecordItem(rr) == [kind |-> "record", value |-> rr, size |-> 0]
Empty(name, rrtype, rrclass) ==
  [name |-> name, rrtype |-> rrtype, rrclass |-> rrclass, ttl |-> <<0, 0, 0, 0>>, data |-> NoData]

PutQuestion ==
  \E q \in Questions :
    \/ ~isUpdate /\ Put(1, putQuestion(msg, Limit, q), QuestionItem(q))
    \/ isUpdate /\ Put(1, putZone(msg, Limit, q.name), QuestionItem([q EXCEPT !.qtype = SOA, !.qclass = <<0, 1>>]))

PutRecord ==
  \E rr \in Records, section \in 2..4 :
    Put(section, PutResourceRecordTTLWithLimit(msg, Limit, rr, rr.ttl), RecordItem(rr))

PutForUpdate ==
  /\ isUpdate
  /\ \/ \E q \in Questions :
          \/ Put(2, putPrereqNameNotInUse(msg, Limit, q.name), RecordItem(Empty(q.name, AnyType, ClassNone)))
          \/ Put(3, putDeleteRRSetWithLimit(msg, Limit, q.name, q.qtype), RecordItem(Empty(q.name, q.qtype, ClassAny)))
          \/ Put(3, putDeleteAllRRSets(msg, Limit, q.name), RecordItem(Empty(q.name, AnyType, ClassAny)))
     \/ \E rr \in Records :
          Put(3, putDeletionRecordWithLimit(msg, Limit, rr),
              RecordItem([rr EXCEPT !.rrclass = ClassNone, !.ttl = <<0, 0, 0, 0>>]))
     \/ \E lease \in Leases :
          Put(4, putUpdateLeaseWithLimit(msg, Limit, lease), RecordItem(LeaseRecord(lease)))

(* Another byte of a message nobody has put together.                       *)
Arrive ==
  /\ put = <<>>
  /\ Len(msg) < HeaderSize + MaxJunk
  /\ \E b \in Junk : msg' = Append(msg, b)
  /\ UNCHANGED <<beyond, counts, isUpdate, put>>

(* What arrives is not added to.                                            *)
Building == msg = Header \/ put # <<>>
DnsMessageNext ==
  \/ Building /\ (PutQuestion \/ PutRecord \/ PutForUpdate)
  \/ Arrive
DnsMessageSpec == DnsMessageInit /\ [][DnsMessageNext]_dnsMessageVars

---------------------------------------------------------------------------
(* Properties                                                               *)

(* The message fits its buffer, and is made of bytes.                       *)
DnsMessageTypeOK ==
  /\ Len(msg) \in HeaderSize..Limit
  /\ \A i \in DOMAIN msg : msg[i] \in 0..255
  /\ FoldLeft(LAMBDA n, c : n + c, 0, counts) = Len(put)

(* Item i, put at an offset, is what is read there.                        *)
ReadAs(item, at) ==
  LET asked(got) == got.ok /\ got.next = at + item.size /\ got.q = item.value
      told(got) == /\ got.ok /\ got.next = at + item.size /\ ~got.negative
                   /\ got.rr = [item.value EXCEPT !.rrclass = <<@[1] % 128, @[2]>>, !.ttl = Clamped(@)]
  IN  IF item.kind = "question" THEN asked(getQuestion(msg, at, Len(msg)))
      ELSE told(GetLargeResourceRecord(msg, at, Len(msg)))
(* Where the item after the first n begins.                                *)
After(n) == FoldLeft(LAMBDA at, item : at + item.size, HeaderSize, SubSeq(put, 1, n))

(* Whatever is put, in whatever order and however much of it is pointers to *)
(* what was put before, is what is read; and the functions that find a      *)
(* section, or the lease in the first OPT record, by skipping over the rest  *)
(* find it.                                                                 *)
ReadsBack ==
  /\ put # <<>> =>
       /\ \A i \in DOMAIN put : ReadAs(put[i], After(i - 1))
       /\ SkipRecords(msg, LocateAdditionals(msg, Len(msg)), Len(msg), counts[4]) = [ok |-> TRUE, next |-> Len(msg)]
  /\ \A l \in Leases, i \in DOMAIN put :
       (/\ put[i].kind = "record" /\ put[i].value = LeaseRecord(l)
        /\ \A j \in 1..(i - 1) : put[j].kind = "record" => put[j].value.rrtype # OPT) =>
       GetPktLease(msg, Len(msg)) = l

(* The data of a record takes no more room on the wire than its estimate,   *)
(* which the forecasts of a packet's size are made with, unless a name in   *)
(* it ends like the record's own but for the case of a letter, which the    *)
(* estimate takes for the same and the compression does not, or it is the   *)
(* SRV record of an update.  And equal data has equal hashes.               *)
SpelledAlike(rr) ==
  \A i \in DOMAIN rr.data.names : \A k \in 0..Len(rr.data.names[i]) :
    LET suffix == SubSeq(rr.data.names[i], k + 1, Len(rr.data.names[i]))
    IN  SameDomainName(suffix, rr.name) => suffix = rr.name
(* The length the record put i-th has on the wire.                          *)
WireLength(i) ==
  Val16(msg, skipDomainName(msg, After(i - 1), Len(msg)).next + 8)
EstimatesHold ==
  /\ \A i \in DOMAIN put :
       LET rr == put[i].value
       IN  (/\ put[i].kind = "record" /\ SpelledAlike(rr)
            /\ rr.rrtype # AnyType /\ rr.rrclass # ClassAny
            /\ ~(isUpdate /\ rr.rrtype = SRV)) => WireLength(i) <= GetRDLength(rr, TRUE)
  /\ \A i, j \in DOMAIN put :
       (/\ put[i].kind = "record" /\ put[j].kind = "record"
        /\ put[i].value.rrtype = put[j].value.rrtype
        /\ SameRDataBody(put[i].value, put[j].value)) =>
         RDataHashValue(put[i].value) = RDataHashValue(put[j].value)

(* A message from anybody: whoever skips a name or a record goes on where   *)
(* the one who reads it does, and no name read is longer than a name may be.*)
SkippersKeepUp ==
  put = <<>> =>
    \A o \in HeaderSize..(Len(msg) - 1) :
      /\ LET agree(d, s) == d.ok => s = [ok |-> TRUE, next |-> d.next] /\ DomainNameLength(d.name) <= MAX_DOMAIN_NAME
         IN  agree(getDomainName(msg, o, Len(msg)), skipDomainName(msg, o, Len(msg)))
      /\ LET agree(r, s) == r.ok => s = [ok |-> TRUE, next |-> r.next]
         IN  agree(GetLargeResourceRecord(msg, o, Len(msg)), skipResourceRecord(msg, o, Len(msg)))
=============================================================================

---------------------------- MODULE DomainNames ----------------------------
(* Domain names as DNSCommon.c keeps, joins, prints, parses and renames    *)
(* them.  A label is a sequence of bytes and a name a sequence of labels:  *)
(* the length bytes and the final zero of the C structure are counted, not *)
(* stored.  A C string is a sequence of bytes other than zero.             *)
(*                                                                         *)
(* The state is one name that operations append to, and one label that is  *)
(* renamed each time it turns out to be in use.                            *)
EXTENDS Naturals, Sequences, FiniteSets, SequencesExt

CONSTANTS
  MAX_DOMAIN_LABEL,     \* 63 in the code
  MAX_DOMAIN_NAME,      \* 256 in the code
  Labels,               \* the labels that are appended
  Strings,              \* the C strings that are appended
  FirstLabels,          \* the labels that are in use by somebody else
  Randoms,              \* what mDNSRandom(99) may return
  MaxRenames            \* bounds the renaming

VARIABLES
  name,                 \* a domainname
  label,                \* a domainlabel, renamed on each conflict
  rich,                 \* whether label is a user-visible name or a host's
  tried                 \* the labels given up so far
domainNamesVars == <<name, label, rich, tried>>

(* What a function returns when there is no result: no name has an empty   *)
(* label.  No label holds the byte of NoLabel.                             *)
mDNSNULL == << <<>> >>
NoLabel == <<256>>

Backslash == 92
Dot == 46
Space == 32
Hyphen == 45
Underscore == 95
Open == 40
Close == 41

mDNSIsDigit(c) == c \in 48..57
mDNSIsLetter(c) == c \in 65..90 \cup 97..122
Lower(c) == IF c \in 65..90 THEN c + 32 ELSE c

---------------------------------------------------------------------------
(* Comparing and measuring                                                 *)

SameDomainLabel(a, b) ==
  /\ Len(a) <= MAX_DOMAIN_LABEL
  /\ Len(a) = Len(b)
  /\ \A i \in DOMAIN a : Lower(a[i]) = Lower(b[i])

DomainNameLength(d) == FoldLeft(LAMBDA n, l : n + 1 + Len(l), 1, d)

SameDomainName(d1, d2) ==
  /\ DomainNameLength(d1) <= MAX_DOMAIN_NAME
  /\ Len(d1) = Len(d2)
  /\ \A i \in DOMAIN d1 : SameDomainLabel(d1[i], d2[i])

(* The bytes of the C structure, without the final zero.                   *)
Encoded(d) == FoldLeft(LAMBDA s, l : s \o <<Len(l)>> \o l, <<>>, d)

(* The words that DomainNameHashValue adds up and rotates: it reads two    *)
(* bytes at a time until one of them is zero.                              *)
DomainNameHashValue(d) ==
  LET bytes == Encoded(d)
      zeros == {i \in DOMAIN bytes : bytes[i] = 0}
      whole == IF zeros = {} THEN Len(bytes)
               ELSE (CHOOSE i \in zeros : \A j \in zeros : i <= j) - 1
  IN  [i \in 1..whole |-> Lower(bytes[i])]

---------------------------------------------------------------------------
(* Appending                                                               *)

AppendDomainLabel(d, l) ==
  IF Len(l) > MAX_DOMAIN_LABEL \/ DomainNameLength(d) + 1 + Len(l) > MAX_DOMAIN_NAME
  THEN mDNSNULL
  ELSE d \o SelectSeq(<<l>>, LAMBDA x : x # <<>>)

AppendDomainName(d, append) ==
  IF DomainNameLength(d) + DomainNameLength(append) - 1 > MAX_DOMAIN_NAME
  THEN mDNSNULL ELSE d \o append

(* A label taken from a string as it stands, dots and all.                 *)
AppendLiteralLabelString(d, cstr) ==
  LET room == MAX_DOMAIN_NAME - 1 - DomainNameLength(d)
      lim  == IF room < MAX_DOMAIN_LABEL THEN room ELSE MAX_DOMAIN_LABEL
  IN  IF Len(cstr) > lim THEN mDNSNULL
      ELSE d \o SelectSeq(<<cstr>>, LAMBDA x : x # <<>>)

(* One character of a string in DNS syntax, and the string after it.       *)
ReadChar(s) ==
  IF s[1] # Backslash THEN [c |-> s[1], rest |-> Tail(s)]
  ELSE IF Len(s) >= 4 /\ (\A i \in 2..4 : mDNSIsDigit(s[i]))
          /\ (s[2] - 48) * 100 + (s[3] - 48) * 10 + (s[4] - 48) <= 255
       THEN [c |-> (s[2] - 48) * 100 + (s[3] - 48) * 10 + (s[4] - 48),
             rest |-> SubSeq(s, 5, Len(s))]
       ELSE [c |-> s[2], rest |-> SubSeq(s, 3, Len(s))]

(* The label at the front of s, as far as it ends, or room does.           *)
RECURSIVE ReadLabel(_, _)
ReadLabel(s, room) ==
  IF s = <<>> \/ room = 0 THEN [label |-> <<>>, rest |-> s]
  ELSE IF s[1] = Dot THEN [label |-> <<>>, rest |-> s]
  ELSE LET first == ReadChar(s)
           more  == ReadLabel(first.rest, room - 1)
       IN  [label |-> <<first.c>> \o more.label, rest |-> more.rest]

(* The character after a label is skipped whatever it is: the dot, or the  *)
(* one there was no room for.                                              *)
RECURSIVE AppendDNSNameString(_, _)
AppendDNSNameString(d, cstr) ==
  LET room == MAX_DOMAIN_NAME - DomainNameLength(d)
  IN  IF cstr = <<>> THEN d
      ELSE IF room = 0 \/ cstr[1] = Dot THEN mDNSNULL
      ELSE LET read == ReadLabel(cstr, room - 1)
               rest == IF read.rest = <<>> THEN <<>> ELSE Tail(read.rest)
           IN  IF Len(read.label) > MAX_DOMAIN_LABEL THEN mDNSNULL
               ELSE IF read.label = <<>> THEN IF rest = <<>> THEN d ELSE mDNSNULL
               ELSE AppendDNSNameString(Append(d, read.label), rest)

MakeDomainNameFromDNSNameString(cstr) == AppendDNSNameString(<<>>, cstr)

---------------------------------------------------------------------------
(* Printing                                                                *)

\* A bug: a backslash is printed as it is.
Escaped_Dots(c) ==
  IF c = Dot THEN <<Backslash, c>>
  ELSE IF c <= Space THEN <<Backslash, 48 + c \div 100, 48 + ((c \div 10) % 10), 48 + (c % 10)>>
  ELSE <<c>>

(* A byte of a label as ConvertDomainLabelToCString_withescape prints it.  *)
Escaped(c) ==
  IF c \in {Dot, Backslash} THEN <<Backslash, c>>
  ELSE IF c <= Space THEN <<Backslash, 48 + c \div 100, 48 + ((c \div 10) % 10), 48 + (c % 10)>>
  ELSE <<c>>

ConvertDomainLabelToCString(l) == FoldLeft(LAMBDA s, c : s \o Escaped(c), <<>>, l)

ConvertDomainNameToCString(d) ==
  IF d = <<>> THEN <<Dot>>
  ELSE FoldLeft(LAMBDA s, l : s \o ConvertDomainLabelToCString(l) \o <<Dot>>, <<>>, d)

---------------------------------------------------------------------------
(* Host labels and the names of services                                   *)

mDNSValidHostChar(c, notfirst, notlast) ==
  mDNSIsLetter(c) \/ mDNSIsDigit(c) \/ (notfirst /\ notlast /\ c = Hyphen)

(* The apostrophe is left out, the typographical one too; everything else  *)
(* a host's name may not contain becomes one hyphen.                       *)
RECURSIVE HostChars(_, _, _)
HostChars(utf8, i, done) ==
  IF i > Len(utf8) THEN done
  ELSE IF utf8[i] = 39 THEN HostChars(utf8, i + 1, done)
  ELSE IF i + 2 <= Len(utf8) /\ SubSeq(utf8, i, i + 2) = <<226, 128, 153>>
       THEN HostChars(utf8, i + 3, done)
  ELSE HostChars(utf8, i + 1,
         IF Len(done) = MAX_DOMAIN_LABEL THEN done
         ELSE IF mDNSValidHostChar(utf8[i], done # <<>>, i < Len(utf8)) THEN Append(done, utf8[i])
         ELSE IF done # <<>> /\ Last(done) # Hyphen THEN Append(done, Hyphen)
         ELSE done)

WithoutTrailing(s, c) ==
  LET kept == {n \in 0..Len(s) : \A i \in (n + 1)..Len(s) : s[i] = c}
  IN  SubSeq(s, 1, CHOOSE n \in kept : \A k \in kept : n <= k)

ConvertUTF8PstringToRFC1034HostLabel(utf8) == WithoutTrailing(HostChars(utf8, 1, <<>>), Hyphen)

ValidTransportProtocol(l) ==
  /\ Len(l) = 4 /\ l[1] = Underscore
  /\ <<Lower(l[2]), Lower(l[3]), Lower(l[4])>> \in { <<117, 100, 112>>, <<116, 99, 112>> }

Local == << <<108, 111, 99, 97, 108>> >>
LocalArpa == Append(Local, <<97, 114, 112, 97>>)

ValidApplicationProtocol(l, domain) ==
  /\ Len(l) >= 2 /\ (Len(l) <= 16 \/ SameDomainName(domain, Local))
  /\ l[1] = Underscore
  /\ \A i \in 2..Len(l) : \/ mDNSIsLetter(l[i]) \/ mDNSIsDigit(l[i])
                          \/ l[i] \in {Hyphen, Underscore} /\ i > 2 /\ i < Len(l)

(* "_services._dns-sd._udp", which is not a subtype.                       *)
ServicesType == << <<95, 115, 101, 114, 118, 105, 99, 101, 115>>,
                   <<95, 100, 110, 115, 45, 115, 100>>, <<95, 117, 100, 112>> >>

(* Where the instance is NoLabel the type may then begin with a subtype.       *)
ConstructServiceName(instance, type, domain) ==
  LET subtyped == instance = NoLabel /\ Len(type) = 3
      prefix == IF subtyped
                THEN IF SameDomainName(type, ServicesType) THEN <<type[1]>>
                     ELSE <<type[1], <<95, 115, 117, 98>> >>
                ELSE IF instance \in {NoLabel, <<>>} THEN <<>> ELSE <<instance>>
      proper == IF subtyped THEN Tail(type) ELSE type
  IN  IF /\ Len(proper) = 2
         /\ ValidApplicationProtocol(proper[1], domain)
         /\ ValidTransportProtocol(proper[2])
         /\ domain # <<>> /\ ~SameDomainName(domain, LocalArpa)
      THEN AppendDomainName(prefix \o proper, domain)
      ELSE mDNSNULL

(* The code asks for one byte more than the name takes.                    *)
DeconstructServiceName(fqdn) ==
  IF /\ Len(fqdn) >= 3 /\ fqdn[2][1] = Underscore
     /\ ValidTransportProtocol(fqdn[3])
     /\ Len(fqdn) > 3 => DomainNameLength(fqdn) < MAX_DOMAIN_NAME
  THEN << fqdn[1], SubSeq(fqdn, 2, 3), SubSeq(fqdn, 4, Len(fqdn)) >>
  ELSE mDNSNULL

---------------------------------------------------------------------------
(* Renaming after a conflict                                               *)

Continuation(c) == c \in 128..191

(* No character is cut in two, and no surrogate pair either.  What is cut  *)
(* loses its trailing white space.                                         *)
TruncateUTF8ToLength(s, max) ==
  LET c2(n) == IF n + 2 <= Len(s) THEN s[n + 2] ELSE 176
      legal == {n \in 0..max :
                  n = 0 \/ ~(Continuation(s[n + 1]) \/ (s[n + 1] = 237 /\ c2(n) \in 176..191))}
      cut   == CHOOSE n \in legal : \A k \in legal : k <= n
      kept  == {n \in 0..cut : \A i \in (n + 1)..cut : s[i] <= Space}
  IN  IF Len(s) <= max THEN s
      ELSE SubSeq(s, 1, CHOOSE n \in kept : \A k \in kept : n <= k)

(* How many digits l ends in, from its byte at to backwards.               *)
Digits(l, to) ==
  LET run == {n \in 0..to : \A i \in (to - n + 1)..to : mDNSIsDigit(l[i])}
  IN  CHOOSE n \in run : \A k \in run : k <= n

LabelContainsSuffix(l, isRich) ==
  LET to == IF isRich THEN Len(l) - 1 ELSE Len(l)
      before == IF Digits(l, to) < to - 2 THEN to - Digits(l, to) ELSE IF to = 2 THEN 1 ELSE 2
  IN  IF isRich
      THEN /\ Len(l) >= 4 /\ Last(l) = Close /\ mDNSIsDigit(l[to])
           /\ l[before] = Open /\ l[before - 1] = Space
      ELSE /\ Len(l) >= 2 /\ mDNSIsDigit(l[to])
           /\ l[before] = Hyphen

ValueOf(digits) == FoldLeft(LAMBDA v, c : 10 * v + (c - 48), 0, digits)

(* The label without its suffix, and the number that was in it.            *)
RemoveLabelSuffix(l, isRich) ==
  LET open   == IF isRich /\ l # <<>> /\ Last(l) = Close THEN Front(l) ELSE l
      n      == Digits(open, Len(open))
      base   == SubSeq(open, 1, Len(open) - n)
      k      == Len(base)
      stripped == IF isRich
                  THEN IF k >= 2 /\ base[k] = Open /\ base[k - 1] = Space THEN SubSeq(base, 1, k - 2) ELSE base
                  ELSE IF k >= 1 /\ base[k] = Hyphen THEN Front(base) ELSE base
  IN  [base |-> stripped, val |-> ValueOf(SubSeq(open, Len(base) + 1, Len(open)))]

Decimal(val) ==
  LET n == CHOOSE k \in 1..9 : val < 10 ^ k /\ (k = 1 \/ val >= 10 ^ (k - 1))
  IN  [i \in 1..n |-> 48 + ((val \div 10 ^ (n - i)) % 10)]

AppendLabelSuffix(l, val, isRich) ==
  LET chars == Len(Decimal(val)) + (IF isRich THEN 3 ELSE 1)
      trimmed == IF isRich THEN WithoutTrailing(l, Space) ELSE l
      base == TruncateUTF8ToLength(trimmed, MAX_DOMAIN_LABEL - chars)
  IN  IF isRich THEN base \o <<Space, Open>> \o Decimal(val) \o <<Close>>
      ELSE base \o <<Hyphen>> \o Decimal(val)

(* The number goes up by one at first, by a random step from ten on.       *)
IncrementLabelSuffix(l, isRich, random) ==
  LET had == LabelContainsSuffix(l, isRich)
      old == IF had THEN RemoveLabelSuffix(l, isRich) ELSE [base |-> l, val |-> 0]
      val == IF old.val = 0 THEN 2
             ELSE IF old.val < 10 THEN old.val + 1
             ELSE old.val + 1 + random
  IN  AppendLabelSuffix(old.base, val, isRich)

---------------------------------------------------------------------------
(* The steps                                                               *)

HostLabelOf(l) == ConvertUTF8PstringToRFC1034HostLabel(l)

(* A host's label is made from the user-visible one.  Without a label, it  *)
(* is the name that grows.                                                 *)
DomainNamesInit ==
  /\ name = <<>>
  /\ rich \in BOOLEAN
  /\ \E l \in FirstLabels \cup {<<>>} : label = (IF rich THEN l ELSE HostLabelOf(l))
  /\ tried = {}

(* One of the append functions.                                            *)
AppendTo ==
  /\ label = <<>> /\ rich
  /\ \/ \E l \in Labels : LET d == AppendDomainLabel(name, l) IN d # mDNSNULL /\ name' = d
     \/ \E s \in Strings : LET d == AppendDNSNameString(name, s) IN d # mDNSNULL /\ name' = d
     \/ \E s \in Strings : LET d == AppendLiteralLabelString(name, s) IN d # mDNSNULL /\ name' = d
     \/ LET d == AppendDomainName(name, Local) IN d # mDNSNULL /\ name' = d
  /\ UNCHANGED <<label, rich, tried>>

Rename ==
  /\ label # <<>>
  /\ Cardinality(tried) < MaxRenames
  /\ \E random \in Randoms : label' = IncrementLabelSuffix(label, rich, random)
  /\ tried' = tried \cup {label}
  /\ UNCHANGED <<name, rich>>

DomainNamesNext == AppendTo \/ Rename
DomainNamesSpec == DomainNamesInit /\ [][DomainNamesNext]_domainNamesVars

---------------------------------------------------------------------------
(* Properties                                                              *)

(* The name and the label stay within the lengths their buffers have.      *)
DomainNamesTypeOK ==
  /\ DomainNameLength(name) <= MAX_DOMAIN_NAME
  /\ \A i \in DOMAIN name : Len(name[i]) \in 1..MAX_DOMAIN_LABEL
  /\ Len(label) \in 0..MAX_DOMAIN_LABEL
  /\ rich \in BOOLEAN

(* A name that is printed and read again is the same name, whatever bytes  *)
(* its labels hold; the name of a service comes apart into what it is put  *)
(* together from; and names that are the same but for their case have the  *)
(* same hash, so that a search of the cache finds either.                  *)
NamesSurviveText ==
  /\ MakeDomainNameFromDNSNameString(ConvertDomainNameToCString(name)) = name \/ name = <<>>
  /\ LET parts == DeconstructServiceName(name)
     IN  /\ parts # mDNSNULL
         /\ parts[3] # <<>> /\ ValidApplicationProtocol(parts[2][1], parts[3])
         => ConstructServiceName(parts[1], parts[2], parts[3]) = name
  /\ LET lower == [i \in DOMAIN name |-> [j \in DOMAIN name[i] |-> Lower(name[i][j])]]
     IN  SameDomainName(name, lower) /\ DomainNameHashValue(name) = DomainNameHashValue(lower)

(* Text as UTF-8 writes it, where a character of several bytes is never    *)
(* incomplete, and a surrogate of the second kind never without the first. *)
WholeCharacters(l) ==
  LET starts == {i \in DOMAIN l : ~Continuation(l[i])}
      needs(i) == IF l[i] \in 192..223 THEN 1 ELSE IF l[i] \in 224..239 THEN 2
                  ELSE IF l[i] >= 240 THEN 3 ELSE 0
  IN  /\ \A i \in starts : i + needs(i) <= Len(l)
      /\ \A i \in starts : l[i] = 237 /\ l[i + 1] \in 160..175 =>
           i + 4 <= Len(l) /\ l[i + 3] = 237 /\ l[i + 4] \in 176..191

(* A label that is renamed again and again never comes back to one that    *)
(* was given up, cuts no character in two, and, when it is a host's, stays *)
(* one that RFC 1034 allows.                                               *)
RenamesAreNew ==
  /\ label \notin tried
  /\ WholeCharacters(label)
  /\ ~rich => /\ \A i \in DOMAIN label : mDNSValidHostChar(label[i], i > 1, i < Len(label))
  /\ tried # {} => LabelContainsSuffix(label, rich)
=============================================================================

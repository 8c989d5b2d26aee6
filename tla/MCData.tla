------------------------------- MODULE MCData -------------------------------
(***************************************************************************)
(* The parts that compute: the sleeps of the timer, the times of UUIDs,    *)
(* the dates of the log, names and messages.  They share nothing: a        *)
(* behaviour is one of one of them, the subject.                           *)
(***************************************************************************)
EXTENDS CtTimerDrift, CtUuidClock, CtTime, DnsMessage, TLC

CONSTANTS Labels, Strings, FirstLabels, Randoms, MaxRenames

VARIABLES subject, name, label, rich, tried

Names == INSTANCE DomainNames WITH MAX_DOMAIN_LABEL <- 8, MAX_DOMAIN_NAME <- 15

nameVars == <<name, label, rich, tried>>
dataVars ==
  <<subject, driftVars, vars, timeVars, dnsMessageVars, nameVars>>

DataInit ==
  /\ subject \in {"drift", "uuid", "date", "message", "name"}
  /\ DriftInit /\ Init /\ TimeInit /\ DnsMessageInit /\ Names!DomainNamesInit
  /\ subject # "uuid" => state_fd = "none"
  /\ subject # "date" => date.year = 2003 /\ past = 7
  /\ subject # "message" => beyond = 0 /\ ~isUpdate
  /\ subject # "name" => ~rich /\ label = <<>>

DataNext ==
  /\ \/ /\ subject = "drift" /\ DriftNext
        /\ UNCHANGED <<vars, timeVars, dnsMessageVars, nameVars>>
     \/ /\ subject = "uuid" /\ Next
        /\ UNCHANGED <<driftVars, timeVars, dnsMessageVars, nameVars>>
     \/ /\ subject = "date" /\ DayGoesBy
        /\ UNCHANGED <<driftVars, vars, dnsMessageVars, nameVars>>
     \/ /\ subject = "message" /\ DnsMessageNext
        /\ UNCHANGED <<driftVars, vars, timeVars, nameVars>>
     \/ /\ subject = "name" /\ Names!DomainNamesNext
        /\ UNCHANGED <<driftVars, vars, timeVars, dnsMessageVars>>
  /\ UNCHANGED subject

DataSpec == DataInit /\ [][DataNext]_dataVars

Alike == Permutations(Procs)

---------------------------------------------------------------------------
(* The properties of dates, messages and names, where there are any.       *)

(* The lines of a log are in the order of their dates, but for the days    *)
(* that ct_getstrtime is wrong about.                                      *)
LogInOrder == [][subject = "date" => InOrder]_dataVars

(* What was put into a message is what is read from it, as long as was     *)
(* estimated, and whoever skips over a part of it keeps up with the reader. *)
MessagesReadBack == subject = "message" => ReadsBack /\ EstimatesHold /\ SkippersKeepUp

(* A name is the same after it was written as text, or taken apart, and    *)
(* found whatever the case it is asked for in.                             *)
NamesSurviveText == subject = "name" => Names!NamesSurviveText

(* A name that gives way to conflicts is new each time, and well formed.   *)
RenamesAreNew == subject = "name" => Names!RenamesAreNew

---------------------------------------------------------------------------
(* Values for the constants.  What lies past the table of months: less     *)
(* than any day of a month, among them, and more than all of them.         *)
MCPasts == {-1, 7, 1000}

(* A clock that may be set: overshoots and listener times of either sign,  *)
(* in budget and far out of it.                                            *)
AnyOvershoots == -2..9
AnyListenerTimes == -1..15

(* Names that end alike, one of them written with a capital; a record of   *)
(* every layout; a buffer that the third of them does not always fit.      *)
a == <<97>>
aa == <<97, 97>>
capital == <<65>>
local == <<aa>>
alocal == <<a, aa>>
Alocal == <<capital, aa>>
balocal == <<aa, a, aa>>

MCQuestions ==
  {[name |-> n, qtype |-> PTR, qclass |-> <<0, 1>>] : n \in {local, balocal}}

record(owner, rrtype, ttl, data) ==
  [name |-> owner, rrtype |-> rrtype, rrclass |-> <<128, 1>>, ttl |-> ttl, data |-> data]
MCRecords ==
  { record(alocal, PTR, <<0, 0, 17, 148>>, Data(<<>>, <<balocal>>, <<>>)),
    record(alocal, PTR, <<0, 0, 17, 148>>, Data(<<>>, <<Alocal>>, <<>>)),
    record(alocal, PTR, <<0, 0, 17, 148>>, Data(<<>>, <<alocal>>, <<>>)),
    record(Alocal, SRV, <<0, 0, 0, 120>>, Data(<<0, 0, 0, 0, 2, 9>>, <<alocal>>, <<>>)),
    record(local, TXT, <<0, 28, 32, 1>>, Data(<<2, 97, 61>>, <<>>, <<>>)),
    record(balocal, MX, <<255, 255, 255, 255>>, Data(<<0, 1>>, <<local>>, <<>>)),
    record(balocal, SOA, <<0, 0, 0, 0>>, Data(<<>>, <<alocal, <<>>>>, [i \in 1..20 |-> i])),
    record(alocal, NSEC, <<0, 0, 0, 120>>, Data(<<64, 0, 8>>, <<>>, <<>>)),
    record(<<>>, OPT, <<0, 0, 0, 0>>,
           Data(<<[opt |-> kDNSOpt_LLQ, data |-> [i \in 1..18 |-> i]], [opt |-> kDNSOpt_Lease, data |-> <<0, 0, 28, 32>>]>>, <<>>, <<>>)) }

(* A dot inside, a backslash before digits, spaces and a tab, capitals, the *)
(* parts of a service's name.                                               *)
MCLabels == { <<46, 97>>, <<92, 48, 48, 49>>, <<32, 9, 65>>, <<95, 104>>, <<95, 84, 99, 112>>, <<>> }
(* "a.b", "\.x", "\046\\", "\300.", "abcdefghi", ".", "a."                  *)
MCStrings == { <<97, 46, 98>>, <<92, 46, 120>>, <<92, 48, 52, 54, 92, 92>>, <<92, 51, 48, 48, 46>>,
               <<97, 98, 99, 100, 101, 102, 103, 104, 105>>, <<46>>, <<97, 46>> }
(* Plain, with suffixes, with characters of two and three bytes, with a    *)
(* pair of surrogates, and with an apostrophe.                             *)
MCFirstLabels == { <<70, 111, 111>>, <<70, 32, 40, 57, 41>>, <<45, 102, 45, 57>>, <<50>>,
                   <<97, 195, 169, 195, 169, 98>>, <<226, 130, 172, 32, 226, 130, 172>>,
                   <<97, 237, 160, 128, 237, 176, 128>>, <<65, 226, 128, 153, 115, 32, 80, 67>>,
                   <<32, 40, 50, 41>>, <<97, 32, 32, 40, 48, 41>>, <<40, 53, 41>>, <<32, 32>> }
=============================================================================

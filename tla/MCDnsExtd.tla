------------------------------ MODULE MCDnsExtd ------------------------------
(* The server of updates and long-lived queries, and the client of such a     *)
(* query in uDNS.c, for TLC.  The client's server is its own (dnsextd is not  *)
(* the only one), so a behaviour is one of one of them, the subject.          *)
EXTENDS DnsExtd, LongLived, TLC
CONSTANTS ra, rb, q1, t1, t2

VARIABLE subject
allVars == <<subject, vars, queryVars>>

DaemonAndClientInit ==
  /\ subject \in {"daemon", "client"} /\ DnsExtdInit /\ LongLivedInit
  /\ subject = "client" => ~privateZone
\* bound: the client's queries at the server and the messages on their way, together
MaxTogether == 3
DaemonAndClientNext ==
  /\ \/ subject = "daemon" /\ DnsExtdNext /\ UNCHANGED queryVars
     \/ subject = "client" /\ LongLivedNext /\ UNCHANGED vars
        /\ server'.used + Cardinality(net') <= MaxTogether
  /\ UNCHANGED subject

DaemonAndClientSpec == DaemonAndClientInit /\ [][DaemonAndClientNext]_allVars

ASSUME LongLivedAssumption

Request == [adds |-> {}, dels |-> {}, ones |-> {}, lease |-> FALSE, signed |-> TRUE]
Add(r) == [Request EXCEPT !.adds = r, !.lease = TRUE]
MCUpdates == {Add({ra, rb}), [Add({rb}) EXCEPT !.ones = {ra}], [Request EXCEPT !.dels = {ra}],
              [Request EXCEPT !.adds = {ra}, !.signed = FALSE]}
MCAnswersTo == [question \in Questions |-> {ra}]
Alike == Permutations({t1, t2})
=============================================================================

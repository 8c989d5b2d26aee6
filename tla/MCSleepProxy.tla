---------------------------- MODULE MCSleepProxy ----------------------------
(* A machine h and two sleep proxies.  Relay: h and p go to sleep one after the
   other, and p hands on to q what it holds.  Twice: h sleeps twice, and cannot
   send over IPv6.  Switch: h has two records, and its proxy begins and ceases.
   Both: it knows two proxies, and asks one after the other.  Alone: it knows one
   where it would try three. *)
EXTENDS SleepProxy, TLC

CONSTANTS h, p, q, a, b

MCOwnerOf == [r \in Records |-> h]
MCPortOf == [r \in {a} |-> "ssh"]
Knows(lists) == [m \in Machines |-> IF m \in DOMAIN lists THEN lists[m] ELSE {}]

Relay == [sleepers |-> {h, p}, wakers |-> {}, switching |-> {}, noIPv6 |-> {}, records |-> {a},
          sleeps |-> 1, updates |-> 1, known |-> Knows(h :> {<<p>>} @@ p :> {<<>>, <<q>>})]
Twice == [sleepers |-> {h}, wakers |-> {h}, switching |-> {}, noIPv6 |-> {h}, records |-> {a},
          sleeps |-> 2, updates |-> 2, known |-> Knows(h :> {<<p>>})]
Switch == [Twice EXCEPT !.records = {a, b}, !.switching = {p}, !.noIPv6 = {}, !.sleeps = 1,
                        !.known = Knows(h :> {<<>>, <<p>>})]
Both == [Twice EXCEPT !.updates = 1, !.noIPv6 = {}, !.sleeps = 1, !.known = Knows(h :> {<<p, q>>})]

MCLinks == {Relay, Twice, Switch, Both}
Alone == {Twice}
=============================================================================

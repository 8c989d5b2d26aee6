--------------------------- MODULE ServiceRecords ---------------------------
(* The records of one service, kept together: mDNS_RegisterService and its  *)
(* fellows, ServiceCallback, which tells the client when all have gone, and *)
(* the client of the daemon, which then renames the service or frees it.    *)
(*                                                                          *)
(* A call may run callbacks, which make calls: an operator here takes the   *)
(* whole service and returns it, as a call does that runs to its end under  *)
(* the lock.  F(s, result) is the callback of the client.                   *)
EXTENDS Integers, Sequences, FiniteSets, SequencesExt

CONSTANTS
  Subs,                 \* the subtypes
  Extra,                \* the extra records the client may add
  NoFailure,            \* no registration fails
  Together,             \* what is shared is announced at once, and said goodbye to in the order of the list
  MaxServiceCalls       \* bounds the calls of the client and the conflicts

VARIABLES service, ncalls
serviceVars == <<service, ncalls>>

Set == {"srv", "txt", "adv", "ptr"} \cup Subs
Shared == {"ptr"} \cup Subs
Failures == {NoFailure, "name"} \cup Set

ASSUME ServiceAssumption ==
  /\ IsFiniteSet(Subs) /\ Subs \cap {"srv", "txt", "adv", "ptr"} = {} /\ Extra \cap Set = {}
  /\ "name" \notin Set /\ NoFailure \notin {"name"} \cup Set

(* The order in which the records are registered, and listed.               *)
Order == <<"srv", "txt", "adv">> \o SetToSeq(Subs) \o <<"ptr">>

---------------------------------------------------------------------------
(* The end of a record                                                      *)

(* The types of the records when some say goodbye and others go at once.    *)
Parted(type, going, gone) ==
  [r \in DOMAIN type |-> IF r \in going THEN "Deregistering" ELSE IF r \in gone THEN "Unregistered" ELSE type[r]]

(* Every record the client's memory holds has left the core.                *)
AllGone(s) == \A r \in Set \cup s.Extras : s.type[r] = "Unregistered"

(* ServiceCallback, or NSSCallback, after the last record of some has gone. *)
ServiceCallback(s, F(_, _)) ==
  IF s.zeroPort THEN F(s, "MemFree")
  ELSE IF AllGone(s) THEN F(s, IF s.Conflict THEN "NameConflict" ELSE "MemFree")
  ELSE s

(* mDNS_Deregister_internal of some records, one after the other: a shared  *)
(* record that has been announced has to be said goodbye to first.  The     *)
(* pointer comes last, so that only the last of them can be the last of all.*)
Deregister(s, records, F(_, _)) ==
  LET going == {r \in records \cap s.goodbye : s.type[r] = "Shared"}
      gone  == (records \cap s.listed) \ going
      t     == [s EXCEPT !.type = Parted(@, going, gone), !.listed = @ \ gone, !.goodbye = @ \ gone]
  IN  IF gone = {} THEN t ELSE ServiceCallback(t, F)

\* A bug: a conflict that is being handled is not forgotten.
AlreadyGoing_Conflicting(s) == s
(* "instead of incorrectly promoting it to mStatus_NameConflict".           *)
AlreadyGoing(s) == [s EXCEPT !.Conflict = FALSE]

mDNS_DeregisterService(s, F(_, _)) ==
  IF s.zeroPort THEN Deregister(s, {"srv"}, F)
  ELSE IF s.type["ptr"] = "Unregistered" THEN s
  ELSE IF s.type["ptr"] = "Deregistering" THEN AlreadyGoing(s)
  ELSE Deregister(s, Set \cup s.Extras, F)

(* Whether it returns an error.                                             *)
DeregisterFails(s) ==
  IF s.zeroPort THEN "srv" \notin s.listed
  ELSE "ptr" \notin s.listed

(* mDNS_Deregister_internal with mDNS_Dereg_conflict.                       *)
Without(s, r) == [s EXCEPT !.type[r] = "Unregistered", !.listed = @ \ {r}]

---------------------------------------------------------------------------
(* The beginning                                                            *)

RegisteredAs(r) == IF r \in Shared THEN "Shared" ELSE IF r = "adv" THEN "Advisory" ELSE "Unique"
SetUp(type) == [r \in DOMAIN type |-> IF r \in Set THEN RegisteredAs(r) ELSE type[r]]

(* Nobody expects to be called back about a registration that fails.        *)
Unexpected(s, result) == [s EXCEPT !.astray = TRUE]

\* A bug: each record is set up only when its turn comes.
mDNS_RegisterService_InTurn(s, failure) ==
  LET t == [s EXCEPT !.type = SetUp(s.type), !.Extras = {}, !.Conflict = FALSE]
      before == {Order[i] : i \in {k \in DOMAIN Order : \E n \in DOMAIN Order : n > k /\ Order[n] = failure}}
  IN  IF t.zeroPort THEN [t EXCEPT !.listed = @ \cup (IF failure \in {"srv", "name"} THEN {} ELSE {"srv"})]
      ELSE IF failure = NoFailure THEN [t EXCEPT !.type["txt"] = "Verified", !.listed = @ \cup Set]
      ELSE IF failure = "name" THEN t
      ELSE Deregister([t EXCEPT !.listed = @ \cup before,
                                !.type = Parted(@, {}, Set \ before)], Set, Unexpected)

(* Each record is set up, then each is registered, until one is refused:    *)
(* what has been registered is withdrawn again.  "name" is a name that is   *)
(* too long.                                                                *)
mDNS_RegisterService(s, failure) ==
  LET t == [s EXCEPT !.type = SetUp(s.type), !.Extras = {}, !.Conflict = FALSE]
      before == {Order[i] : i \in {k \in DOMAIN Order : \E n \in DOMAIN Order : n > k /\ Order[n] = failure}}
  IN  IF t.zeroPort THEN [t EXCEPT !.listed = @ \cup (IF failure \in {"srv", "name"} THEN {} ELSE {"srv"})]
      ELSE IF failure = NoFailure THEN [t EXCEPT !.type["txt"] = "Verified", !.listed = @ \cup Set]
      ELSE IF failure = "name" THEN t
      ELSE mDNS_DeregisterService([t EXCEPT !.listed = @ \cup before], Unexpected)

Failed(s, failure) == IF s.zeroPort THEN failure \in {"srv", "name"} ELSE failure # NoFailure

(* An extra record needs the service record it depends on.                  *)
Refused(s) == s.type["srv"] \notin {"Unique", "Verified"}

(* The types, or owners, of some records are changed.                       *)
With(f, records, value) == [r \in DOMAIN f |-> IF r \in records THEN value ELSE f[r]]

mDNS_AddRecordToService(s, extras) ==
  [s EXCEPT !.Extras = @ \cup extras, !.listed = @ \cup extras,
            !.type = With(@, extras, "Verified"), !.owner = With(@, extras, "service")]

(* The extra records follow the service; when it cannot be registered again *)
(* nobody knows them any more.                                              *)
mDNS_RenameAndReregisterService(s, failure) ==
  LET t == mDNS_RegisterService(s, failure)
  IN  IF Failed(s, failure)
      THEN [t EXCEPT !.owner = [e \in Extra |-> IF e \in s.Extras THEN "lost" ELSE t.owner[e]]]
      ELSE mDNS_AddRecordToService([t EXCEPT !.awaited = TRUE], s.Extras)

---------------------------------------------------------------------------
(* The client                                                               *)

unlink_and_free_service_instance(s) ==
  [s EXCEPT !.instance = "freed", !.Extras = {}, !.astray = @ \/ s.instance = "freed",
            !.owner = [e \in Extra |-> IF e \in s.Extras THEN "nobody" ELSE s.owner[e]]]

(* What it does when it is told that the service has gone.                  *)
regservice_callback(s, result, failure) ==
  LET t == [s EXCEPT !.awaited = FALSE, !.astray = @ \/ ~s.awaited, !.clientnotified = FALSE]
  IN  IF ~s.request /\ result # "MemFree" THEN t
      ELSE IF result = "MemFree" /\ s.request /\ s.renameonmemfree
      THEN mDNS_RenameAndReregisterService([t EXCEPT !.renameonmemfree = FALSE], failure)
      ELSE IF result = "NameConflict" /\ s.autorename
      THEN mDNS_RenameAndReregisterService(t, failure)
      ELSE unlink_and_free_service_instance(t)

(* Records, or the service, are deregistered, and the client told.          *)
EndRecords(s, records, failure) ==
  Deregister(s, records, LAMBDA u, result : regservice_callback(u, result, failure))
EndService(s, failure) ==
  mDNS_DeregisterService(s, LAMBDA u, result : regservice_callback(u, result, failure))

(* Some other host has the name of record r.                                *)
Conflicts(s, r, failure) ==
  IF s.zeroPort THEN regservice_callback(Without(s, r), "NameConflict", failure)
  ELSE EndService([Without(s, r) EXCEPT !.Conflict = TRUE], failure)

Call == ncalls < MaxServiceCalls /\ ncalls' = ncalls + 1
Live == service.instance = "live"

(* The instance is kept unless the registration fails at once.              *)
register_service_instance ==
  /\ service.instance = "none"
  /\ \E zero \in BOOLEAN, rename \in BOOLEAN, failure \in Failures :
       LET s == [service EXCEPT !.zeroPort = zero, !.autorename = rename]
           t == mDNS_RegisterService(s, failure)
       IN  service' = IF Failed(s, failure) THEN unlink_and_free_service_instance(t)
                      ELSE [t EXCEPT !.instance = "live", !.awaited = TRUE]
  /\ UNCHANGED ncalls

(* The request is cancelled, or its client hangs up.                        *)
regservice_termination_callback ==
  /\ Live /\ service.request
  /\ \E failure \in Failures :
       LET s == [service EXCEPT !.request = FALSE]
           t == EndService(s, failure)
       IN  service' = IF DeregisterFails(s) THEN unlink_and_free_service_instance(t) ELSE t
  /\ UNCHANGED ncalls

(* The host has a new name, and the service with it.                        *)
udsserver_handle_configchange ==
  /\ Live /\ service.request /\ Call
  /\ \E failure \in Failures :
       LET s == [service EXCEPT !.renameonmemfree = TRUE]
           t == EndService(s, failure)
       IN  service' = IF DeregisterFails(s) THEN regservice_callback([t EXCEPT !.awaited = TRUE], "MemFree", failure)
                      ELSE t

(* Of a record that is refused, and of a service without a port, nothing is *)
(* kept.                                                                    *)
add_record_to_service(e) ==
  /\ Live /\ service.request /\ ~service.zeroPort /\ service.owner[e] = "nobody" /\ Call
  /\ ~Refused(service)
  /\ service' = mDNS_AddRecordToService(service, {e})

(* mDNS_RemoveRecordFromService, with FreeExtraRR as the record's callback. *)
(* A record that has gone already, the service being renamed, is forgotten. *)
remove_extra(e) ==
  /\ Live /\ service.request /\ e \in service.Extras /\ Call
  /\ service' = [service EXCEPT !.Extras = @ \ {e}, !.listed = @ \ {e}, !.type[e] = "Unregistered",
                                !.owner[e] = IF e \in service.listed THEN "nobody" ELSE "lost"]

---------------------------------------------------------------------------
(* The core and the network                                                 *)

(* The client hears of the service record only.                             *)
Acknowledge ==
  /\ Live /\ service.request /\ "srv" \in service.listed /\ ~service.clientnotified
  /\ service' = [service EXCEPT !.clientnotified = TRUE]
  /\ UNCHANGED ncalls

(* A shared record is announced, or answers a question.                     *)
Announce ==
  /\ \E some \in SUBSET {r \in Shared : r \in service.listed /\ service.type[r] = "Shared"} :
       /\ some # {} /\ ~(some \subseteq service.goodbye)
       /\ Together => some = Shared
       /\ service' = [service EXCEPT !.goodbye = @ \cup some]
  /\ UNCHANGED ncalls

Contested(r) ==
  /\ Call
  /\ r \in service.listed /\ service.type[r] \in {"Unique", "Verified"}
  /\ \E failure \in Failures : service' = Conflicts(service, r, failure)

(* CompleteDeregistration, when the goodbyes have been sent.                *)
Complete(r) ==
  /\ r \in service.listed /\ service.type[r] = "Deregistering"
  /\ (Together /\ r = "ptr") => \A q \in Subs : service.type[q] # "Deregistering"
  /\ \E failure \in Failures, s \in {[service EXCEPT !.type[r] = "Shared", !.goodbye = @ \ {r}]} :
       service' = EndRecords(s, {r}, failure)
  /\ UNCHANGED ncalls

ServiceInit ==
  /\ service = [type |-> [r \in Set \cup Extra |-> "Unregistered"], listed |-> {}, goodbye |-> {},
                Extras |-> {}, Conflict |-> FALSE, zeroPort |-> FALSE,
                owner |-> [e \in Extra |-> "nobody"],
                instance |-> "none", request |-> TRUE, renameonmemfree |-> FALSE, autorename |-> FALSE,
                clientnotified |-> FALSE, awaited |-> FALSE, astray |-> FALSE]
  /\ ncalls = 0

ServiceNext ==
  \/ register_service_instance \/ regservice_termination_callback \/ udsserver_handle_configchange
  \/ \E e \in Extra : add_record_to_service(e) \/ remove_extra(e)
  \/ Acknowledge \/ Announce
  \/ \E r \in Set \cup Extra : Contested(r) \/ Complete(r)

ServiceSpec == ServiceInit /\ [][ServiceNext]_serviceVars
ServiceFairness == \A r \in Shared : WF_serviceVars(Complete(r))

---------------------------------------------------------------------------
(* Properties                                                               *)

Types == {"Unregistered", "Unique", "Verified", "Shared", "Advisory", "Deregistering"}

ServiceTypeOK ==
  /\ service.type \in [Set \cup Extra -> Types]
  /\ service.listed \subseteq Set \cup Extra
  /\ service.goodbye \subseteq Shared \cap service.listed
  /\ service.owner \in [Extra -> {"nobody", "service", "lost"}]
  /\ service.Extras = {e \in Extra : service.owner[e] = "service"}
  /\ service.instance \in {"none", "live", "freed"}
  /\ \A r \in service.listed : service.type[r] # "Unregistered"

(* The memory of the records is used again, or freed, only when the core    *)
(* has let go of every one of them: "until every record is finished         *)
(* cleaning up" (mDNS.c:9721).                                              *)
FreedIsGone == service.instance # "live" => service.listed = {}

(* The client is told once of the end of each registration that succeeded,  *)
(* of none that failed, and frees the instance once.                        *)
ToldOnce == ~service.astray

(* A service is there with all of its records or is on its way out: no      *)
(* failure or conflict leaves a part of it registered.  (An extra record    *)
(* may be added to one that could not be registered under its new name.)    *)
SetIsWhole ==
  ~service.zeroPort =>
    IF "srv" \in service.listed
    THEN Set \cup service.Extras \subseteq service.listed /\ \A r \in Shared : service.type[r] = "Shared"
    ELSE \A r \in service.listed : service.type[r] = "Deregistering" \/ (r \in Extra /\ ~service.awaited)

(* A client that has hung up has its instance freed in the end.             *)
GoesInTheEnd == (Live /\ ~service.request) ~> ~Live
=============================================================================

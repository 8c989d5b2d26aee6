----------------------------- MODULE UdsDaemon -----------------------------
(***************************************************************************)
(* The daemon's side of the DNS-SD client library                          *)
(* (mdnsresponder/mDNSShared/uds_daemon.c): requests that arrive on the    *)
(* clients' sockets, what each of them keeps in the core (questions,       *)
(* services, records, port mappings), the replies queued for them, and     *)
(* what is left when a client cancels, hangs up, dies or does not read.    *)
(*                                                                         *)
(* A request is its place in memory: one that is freed may be taken for    *)
(* another.  d stands for the whole daemon, and a handler is a function    *)
(* from one d to the next; the daemon has one thread.  Replies are counted,*)
(* told is what the replies queued for a client say.  The core is what     *)
(* uds_daemon.c uses of mDNS.c.                                            *)
(***************************************************************************)
EXTENDS Naturals, Sequences, FiniteSets, FiniteSetsExt, SequencesExt

CONSTANTS
  Clients,          \* client programs, with a socket each
  Requests,         \* memory for request_state
  Instances,        \* memory for service_instance
  Domains, Local,   \* domains, and "local."
  Keys,             \* records of DNSServiceRegisterRecord and AddRecord
  Ops,              \* the requests that clients make
  Nobody,           \* NULL
  MaxName,          \* bound: suffixes that names get
  MaxReplies,       \* bound: replies queued for a client
  MaxReports,       \* unresponsiveness_reports until a client is given up
  MaxCalls,         \* bound: messages of clients
  MaxEvents         \* bound: what the core and the platform do

ASSUME UdsAssumption ==
  /\ IsFiniteSet(Requests) /\ IsFiniteSet(Instances) /\ IsFiniteSet(Domains)
  /\ Local \in Domains
  /\ Domains \cap {"srv", "txt", "q", "q4", "q6", "all", "default", "map"} = {}
  /\ Ops \subseteq {"connection", "register", "browse", "resolve", "query", "addrinfo", "enum", "map"}
  /\ Nobody \notin Requests \cup Instances \cup Clients
  /\ {MaxName, MaxReplies, MaxReports, MaxCalls, MaxEvents} \subseteq Nat

VARIABLES d, calls, events

vars == <<d, calls, events>>

Kinds == Domains \cup {"srv", "txt", "q", "q4", "q6", "all", "default", "map"}
Names == 0 .. MaxName
Found == MaxName + 1    \* in place of a name: the instances a browse finds

RequestState ==
  [op : Ops \cup {"none"},                \* which function terminate is
   primary : Requests \cup {Nobody},
   sd : Clients \cup {Nobody},
   context : SUBSET {"q", "q4", "q6"},    \* questions with a QuestionContext
   ptr : [{"srv", "txt"} -> 0 .. 2],      \* u.resolve: the answers, 0 for NULL
   browsers : SUBSET Domains,
   reg_recs : SUBSET Keys,
   default_domain : BOOLEAN, autoname : BOOLEAN, autorename : BOOLEAN,
   name : Names, txt : 0 .. 1,
   replies : 0 .. MaxReplies, reports : 0 .. MaxReports,
   told : SUBSET (Domains \X (Names \cup {Found}))]   \* history

ServiceInstance ==
  [state : {"free", "probing", "registered", "dying", "unregistered"},
   Conflict : BOOLEAN,
   request : Requests \cup {Nobody},
   domain : Domains, name : Names, txt : 0 .. 1,
   extras : SUBSET Keys,
   clientnotified : BOOLEAN, renameonmemfree : BOOLEAN]

Daemon ==
  [all_requests : Seq(Requests), req : [Requests -> RequestState],
   inst : [Instances -> ServiceInstance],
   sock : [Clients -> {"closed", "open", "gone"}],
   core : SUBSET (Requests \X Kinds),          \* questions and mappings
   given : SUBSET (Requests \X Kinds \X (1 .. 2)),   \* their answers
   records : SUBSET (Requests \X Keys),        \* and records
   AutoRegistrationDomains : SUBSET Domains, SCPrefBrowseDomains : SUBSET Domains,
   AutoBrowseDomains : [Domains -> Nat],
   platform : [RegDomains : SUBSET Domains, BrowseDomains : SUBSET Domains],
   nicelabel : Names, DeviceInfo : Names \cup {Nobody}, exited : BOOLEAN]

TypeOK ==
  /\ d \in Daemon
  /\ calls \in 0 .. MaxCalls
  /\ events \in 0 .. MaxEvents

NoRequest ==
  [op |-> "none", primary |-> Nobody, sd |-> Nobody, context |-> {},
   ptr |-> [k \in {"srv", "txt"} |-> 0], browsers |-> {}, reg_recs |-> {},
   default_domain |-> FALSE, autoname |-> FALSE, autorename |-> FALSE, name |-> 0, txt |-> 0,
   replies |-> 0, reports |-> 0, told |-> {}]
NoInstance ==
  [state |-> "free", Conflict |-> FALSE, request |-> Nobody, domain |-> Local, name |-> 0,
   txt |-> 0, extras |-> {}, clientnotified |-> FALSE, renameonmemfree |-> FALSE]

(* udsserver_init, with "local." the only domain to browse.                *)
Init ==
  /\ d = [all_requests |-> <<>>, req |-> [r \in Requests |-> NoRequest],
          inst |-> [i \in Instances |-> NoInstance], sock |-> [c \in Clients |-> "closed"],
          core |-> {}, given |-> {}, records |-> {},
          AutoRegistrationDomains |-> {}, SCPrefBrowseDomains |-> {},
          AutoBrowseDomains |-> [x \in Domains |-> IF x = Local THEN 1 ELSE 0],
          platform |-> [RegDomains |-> {}, BrowseDomains |-> {}],
          nicelabel |-> 0, DeviceInfo |-> Nobody, exited |-> FALSE]
  /\ calls = 0 /\ events = 0

-----------------------------------------------------------------------------
Live(n) == Range(n.all_requests)
OfOp(n, op) == {r \in Live(n) : n.req[r].op = op}
InstancesOf(n, r) == {i \in Instances : n.inst[i].state # "free" /\ n.inst[i].request = r}
Browsing(n) == {x \in Domains : n.AutoBrowseDomains[x] > 0}
OrMax(k) == IF k = MaxName THEN k ELSE k + 1

(* append_reply: a subordinate's replies are queued with its primary's.    *)
append_reply(n, r) ==
  LET p == IF n.req[r].primary = Nobody THEN r ELSE n.req[r].primary
  IN  [n EXCEPT !.req[p].replies = IF @ = MaxReplies THEN @ ELSE @ + 1]

TellAdd(n, r, what) == append_reply([n EXCEPT !.req[r].told = @ \cup {what}], r)
TellRemove(n, r, what) == append_reply([n EXCEPT !.req[r].told = @ \ {what}], r)

StartQuery(n, r, k) == [n EXCEPT !.core = @ \cup {<<r, k>>}]
StopQuery(n, r, k) ==
  [n EXCEPT !.core = @ \ {<<r, k>>}, !.given = {g \in @ : <<g[1], g[2]>> # <<r, k>>}]
StopQueries(n, r, ks) == FoldSet(LAMBDA k, x : StopQuery(x, r, k), n, ks)

-----------------------------------------------------------------------------
(* Services.                                                               *)

FreeInstance(n, i) == [n EXCEPT !.inst[i] = NoInstance]

(* mDNS_DeregisterService: the callback comes when the goodbyes are sent,  *)
(* and it is an error for a service that is not registered.                *)
DeregisterService(n, i) == [n EXCEPT !.inst[i].state = "dying", !.inst[i].Conflict = FALSE]

Reregister(n, i, name) ==
  [n EXCEPT !.inst[i].state = "probing", !.inst[i].Conflict = FALSE, !.inst[i].name = name]

SendServiceRemovalNotification(n, i) ==
  IF ~n.inst[i].clientnotified THEN n
  ELSE TellRemove([n EXCEPT !.inst[i].clientnotified = FALSE], n.inst[i].request,
                  <<n.inst[i].domain, n.inst[i].name>>)

(* Mutant: the instance is not told that its request goes.                 *)
Abandon_Referring(n, i) ==
  IF n.inst[i].state = "unregistered" THEN FreeInstance(n, i) ELSE DeregisterService(n, i)

(* The instance goes with its request, which it must not refer to then.    *)
Abandon(n, i) ==
  LET alone == [n EXCEPT !.inst[i].request = Nobody]
  IN  IF n.inst[i].state = "unregistered" THEN FreeInstance(n, i) ELSE DeregisterService(alone, i)

(* regservice_callback, mStatus_MemFree.                                   *)
ServiceFreed(n, i) ==
  IF n.inst[i].request # Nobody /\ n.inst[i].renameonmemfree
  THEN Reregister([n EXCEPT !.inst[i].renameonmemfree = FALSE], i, n.req[n.inst[i].request].name)
  ELSE FreeInstance(n, i)

UpdateDeviceInfoRecord(n) ==
  [n EXCEPT !.DeviceInfo =
     IF \E r \in OfOp(n, "register") : n.req[r].autoname THEN n.nicelabel ELSE Nobody]

(* Mutant: the client does not learn that the old name has gone.           *)
RenameInstance_Silently(n, i) ==
  LET n1 == [n EXCEPT !.inst[i].renameonmemfree = TRUE]
  IN  IF n1.inst[i].state = "unregistered" THEN ServiceFreed(n1, i) ELSE DeregisterService(n1, i)

RenameInstance(n, i) ==
  LET n1 == SendServiceRemovalNotification([n EXCEPT !.inst[i].renameonmemfree = TRUE], i)
  IN  IF n1.inst[i].state = "unregistered" THEN ServiceFreed(n1, i) ELSE DeregisterService(n1, i)

(* udsserver_handle_configchange, first part.                              *)
RenameServices(n) ==
  LET Rename(r, x) == FoldSet(LAMBDA i, y : RenameInstance(y, i),
                              [x EXCEPT !.req[r].name = n.nicelabel], InstancesOf(x, r))
  IN  FoldSet(Rename, UpdateDeviceInfoRecord(n),
              {r \in OfOp(n, "register") : n.req[r].autoname /\ n.req[r].name # n.nicelabel})

(* register_service_instance, into memory that is free.                    *)
register_service_instance(n, r, x) ==
  LET free == {i \in Instances : n.inst[i].state = "free"}
      i == CHOOSE i \in free : TRUE
  IN  IF free = {} \/ \E j \in InstancesOf(n, r) : n.inst[j].domain = x THEN n
      ELSE [n EXCEPT !.inst[i] = [NoInstance EXCEPT !.state = "probing", !.request = r,
                     !.domain = x, !.name = n.req[r].name, !.txt = n.req[r].txt]]

udsserver_default_reg_domain_changed(n, x, add) ==
  LET change(r, y) ==
        IF add THEN register_service_instance(y, r, x)
        ELSE FoldSet(LAMBDA i, z : Abandon(SendServiceRemovalNotification(z, i), i), y,
                     {i \in InstancesOf(y, r) : y.inst[i].domain = x})
  IN  FoldSet(change, n, {r \in OfOp(n, "register") : n.req[r].default_domain})

-----------------------------------------------------------------------------
(* Browsing.                                                               *)

add_domain_to_browser(n, r, x) ==
  IF x \in n.req[r].browsers THEN n
  ELSE StartQuery([n EXCEPT !.req[r].browsers = @ \cup {x}], r, x)

(* mDNS_StopQueryWithRemoves: the client learns that the answers go.       *)
StopBrowseWithRemoves(n, r, x) ==
  LET n1 == IF <<r, x, 1>> \in n.given THEN TellRemove(n, r, <<x, Found>>) ELSE n
  IN  StopQuery([n1 EXCEPT !.req[r].browsers = @ \ {x}], r, x)

DefaultBrowsers(n) == {r \in OfOp(n, "browse") : n.req[r].default_domain}

AddAutoBrowseDomain(n, x) ==
  LET n1 == [n EXCEPT !.AutoBrowseDomains[x] = @ + 1]
  IN  FoldSet(LAMBDA r, y : add_domain_to_browser(y, r, x), n1, DefaultBrowsers(n1))

(* Mutant: the domain goes with the first entry that is removed.           *)
RmvAutoBrowseDomain_First(n, x) ==
  IF n.AutoBrowseDomains[x] = 0 THEN n
  ELSE FoldSet(LAMBDA r, y : StopBrowseWithRemoves(y, r, x), [n EXCEPT !.AutoBrowseDomains[x] = @ - 1],
               {r \in DefaultBrowsers(n) : x \in n.req[r].browsers})

(* The list may hold a domain more than once: it goes with its last entry. *)
RmvAutoBrowseDomain(n, x) ==
  IF n.AutoBrowseDomains[x] = 0 THEN n
  ELSE LET n1 == [n EXCEPT !.AutoBrowseDomains[x] = @ - 1]
       IN  IF n1.AutoBrowseDomains[x] > 0 THEN n1
           ELSE FoldSet(LAMBDA r, y : StopBrowseWithRemoves(y, r, x), n1,
                        {r \in DefaultBrowsers(n1) : x \in n1.req[r].browsers})

SetPrefsBrowseDomains(n, xs, add) ==
  FoldSet(LAMBDA x, y : IF add THEN AddAutoBrowseDomain(y, x) ELSE RmvAutoBrowseDomain(y, x), n, xs)

(* The new domains come before the old ones go, so that a domain in both   *)
(* is never stopped.                                                       *)
udsserver_handle_configchange(n) ==
  LET reg == n.platform.RegDomains
      old == n.AutoRegistrationDomains
      n1 == SetPrefsBrowseDomains(SetPrefsBrowseDomains(RenameServices(n), reg, TRUE), old, FALSE)
      n2 == FoldSet(LAMBDA x, y : udsserver_default_reg_domain_changed(y, x, TRUE), n1, reg \ old)
      n3 == FoldSet(LAMBDA x, y : udsserver_default_reg_domain_changed(y, x, FALSE), n2, old \ reg)
      n4 == SetPrefsBrowseDomains(n3, n.platform.BrowseDomains, TRUE)
      n5 == SetPrefsBrowseDomains(n4, n.SCPrefBrowseDomains, FALSE)
  IN  [n5 EXCEPT !.AutoRegistrationDomains = reg, !.SCPrefBrowseDomains = n.platform.BrowseDomains]

-----------------------------------------------------------------------------
(* What ends a request.                                                    *)

browse_termination(n, r) == StopQueries([n EXCEPT !.req[r].browsers = {}], r, n.req[r].browsers)
resolve_termination(n, r) == StopQueries(n, r, {"txt", "srv"})
enum_termination(n, r) == StopQueries(n, r, {"all", "default"})
port_mapping_termination(n, r) == StopQuery(n, r, "map")

(* Only the questions that have their QuestionContext are in the core.     *)
queryrecord_termination(n, r) == StopQueries([n EXCEPT !.req[r].context = {}], r, n.req[r].context \cap {"q"})
addrinfo_termination(n, r) ==
  StopQueries([n EXCEPT !.req[r].context = {}], r, n.req[r].context \cap {"q4", "q6"})

regservice_termination(n, r) ==
  LET n1 == FoldSet(LAMBDA i, x : Abandon(x, i), n, InstancesOf(n, r))
  IN  IF n.req[r].autoname THEN UpdateDeviceInfoRecord([n1 EXCEPT !.req[r].autoname = FALSE]) ELSE n1

terminate(n, r) ==
  CASE n.req[r].op = "browse" -> browse_termination(n, r)
    [] n.req[r].op = "resolve" -> resolve_termination(n, r)
    [] n.req[r].op = "query" -> queryrecord_termination(n, r)
    [] n.req[r].op = "addrinfo" -> addrinfo_termination(n, r)
    [] n.req[r].op = "enum" -> enum_termination(n, r)
    [] n.req[r].op = "map" -> port_mapping_termination(n, r)
    [] n.req[r].op = "register" -> regservice_termination(n, r)
    [] OTHER -> n

Free(n, r) == [n EXCEPT !.all_requests = RemoveFirst(@, r), !.req[r] = NoRequest]

Subordinates(n, r) == {s \in Live(n) : n.req[s].primary = r}

(* connection_termination.                                                 *)
connection_termination(n, r) ==
  LET n1 == FoldSet(LAMBDA s, x : Free(terminate(x, s), s), n, Subordinates(n, r))
  IN  [n1 EXCEPT !.records = {k \in @ : k[1] # r}, !.req[r].reg_recs = {}]

(* abort_request and AbortUnlinkAndFree.                                   *)
AbortUnlinkAndFree(n, r) ==
  LET n1 == IF n.req[r].op = "connection" THEN connection_termination(n, r) ELSE terminate(n, r)
      c == n.req[r].sd
  IN  Free(IF n.req[r].primary = Nobody THEN [n1 EXCEPT !.sock[c] = "closed"] ELSE n1, r)

-----------------------------------------------------------------------------
(* What begins one.  A request that fails stays, with nothing to end.      *)

Start(n, r, op) == [n EXCEPT !.req[r].op = op]

handle_regservice_request(n, r, a) ==
  LET n1 == [Start(n, r, "register") EXCEPT !.req[r] =
               [@ EXCEPT !.default_domain = a.default, !.autoname = a.autoname,
                         !.autorename = a.autorename, !.name = IF a.autoname THEN n.nicelabel ELSE 0]]
      n2 == register_service_instance(n1, r, IF a.default THEN Local ELSE a.domain)
      n3 == IF a.autoname THEN UpdateDeviceInfoRecord(n2) ELSE n2
  IN  IF a.fails # {} THEN n1
      ELSE IF ~a.default THEN n3
      ELSE FoldSet(LAMBDA x, y : register_service_instance(y, r, x), n3, n.AutoRegistrationDomains)

(* "local." is the oldest domain and so the last of the list: when it      *)
(* fails, the others have been begun.                                      *)
handle_browse_request(n, r, a) ==
  FoldSet(LAMBDA x, y : add_domain_to_browser(y, r, x),
          [Start(n, r, "browse") EXCEPT !.req[r].default_domain = a.default],
          (IF a.default THEN Browsing(n) ELSE {a.domain}) \ a.fails)

(* Two questions, or none.                                                 *)
handle_resolve_request(n, r, a) ==
  IF a.fails # {} THEN n ELSE Start(StartQuery(StartQuery(n, r, "srv"), r, "txt"), r, "resolve")
handle_enum_request(n, r, a) ==
  IF a.fails # {} THEN n ELSE Start(StartQuery(StartQuery(n, r, "all"), r, "default"), r, "enum")

handle_queryrecord_request(n, r, a) ==
  IF a.fails # {} THEN n
  ELSE Start(StartQuery([n EXCEPT !.req[r].context = {"q"}], r, "q"), r, "query")

(* The second question is not started when the first has failed, and the   *)
(* first is stopped when the second has.                                   *)
handle_addrinfo_request(n, r, a) ==
  LET n4 == IF "q4" \notin a.protocol THEN n
            ELSE StartQuery([n EXCEPT !.req[r].context = {"q4"}], r, "q4")
      n6 == IF "q6" \notin a.protocol THEN n4
            ELSE StartQuery([n4 EXCEPT !.req[r].context = @ \cup {"q6"}], r, "q6")
  IN  CASE "q4" \in a.fails \cap a.protocol -> n
        [] "q6" \in a.fails \cap a.protocol -> StopQuery([n4 EXCEPT !.req[r].context = {}], r, "q4")
        [] OTHER -> Start(n6, r, "addrinfo")

handle_port_mapping_request(n, r, a) ==
  IF a.fails # {} THEN n ELSE Start(StartQuery(n, r, "map"), r, "map")

Handle(n, r, a) ==
  CASE a.op = "connection" -> Start(n, r, "connection")
    [] a.op = "register" -> handle_regservice_request(n, r, a)
    [] a.op = "browse" -> handle_browse_request(n, r, a)
    [] a.op = "resolve" -> handle_resolve_request(n, r, a)
    [] a.op = "query" -> handle_queryrecord_request(n, r, a)
    [] a.op = "addrinfo" -> handle_addrinfo_request(n, r, a)
    [] a.op = "enum" -> handle_enum_request(n, r, a)
    [] a.op = "map" -> handle_port_mapping_request(n, r, a)

(* What a client may ask, and what of it fails in the core.                *)
Asked(op, default, autoname, autorename, protocol, fails) ==
  [op : {op}, default : default, domain : {Local}, autoname : autoname,
   autorename : autorename, protocol : protocol, fails : fails]
No == {FALSE}
Arguments(op) ==
  CASE op = "register" ->
         Asked(op, BOOLEAN, BOOLEAN, BOOLEAN, {{}}, {{}}) \cup Asked(op, No, {TRUE}, No, {{}}, {{"service"}})
    [] op = "browse" -> Asked(op, BOOLEAN, No, No, {{}}, {{}, {Local}, Domains})
    [] op = "addrinfo" -> Asked(op, No, No, No, {{"q4"}, {"q4", "q6"}}, {{}, {"q4"}, {"q6"}})
    [] op \in {"resolve", "query"} -> Asked(op, No, No, No, {{}}, {{}, {"any"}})
    [] OTHER -> Asked(op, No, No, No, {{}}, {{}})

(* NewRequest appends to the list.                                         *)
NewRequest(n, r, c, primary) ==
  [n EXCEPT !.all_requests = Append(@, r),
            !.req[r] = [NoRequest EXCEPT !.sd = c, !.primary = primary]]

Unused == Requests \ Live(d)
Primary(c) == {r \in Live(d) : d.req[r].sd = c /\ d.req[r].primary = Nobody}

Call == ~d.exited /\ calls < MaxCalls /\ calls' = calls + 1 /\ UNCHANGED events
Event == ~d.exited /\ events < MaxEvents /\ events' = events + 1 /\ UNCHANGED calls

connect_callback(c) ==
  /\ Call /\ d.sock[c] = "closed" /\ Unused # {}
  /\ \E op \in Ops : \E a \in Arguments(op) :
       LET r == CHOOSE r \in Unused : TRUE
       IN  d' = Handle([NewRequest(d, r, c, Nobody) EXCEPT !.sock[c] = "open"], r, a)

(* Another operation on a connection.                                      *)
Share(c) ==
  /\ Call /\ d.sock[c] = "open" /\ Unused # {}
  /\ \E p \in Primary(c), op \in Ops \ {"connection"} : \E a \in Arguments(op) :
       LET r == CHOOSE r \in Unused : TRUE
       IN  d.req[p].op = "connection" /\ d' = Handle(NewRequest(d, r, c, p), r, a)

handle_cancel_request(c) ==
  /\ Call /\ d.sock[c] = "open"
  /\ \E p \in Primary(c) : \E s \in Subordinates(d, p) : d' = AbortUnlinkAndFree(d, s)

handle_regrecord_request(c) ==
  /\ Call /\ d.sock[c] = "open"
  /\ \E p \in Primary(c), k \in Keys :
       /\ d.req[p].op = "connection" /\ k \notin d.req[p].reg_recs
       /\ d' = [d EXCEPT !.req[p].reg_recs = @ \cup {k}, !.records = @ \cup {<<p, k>>}]

remove_record(c) ==
  /\ Call /\ d.sock[c] = "open"
  /\ \E p \in Primary(c) : \E k \in d.req[p].reg_recs :
       d' = [d EXCEPT !.req[p].reg_recs = @ \ {k}, !.records = @ \ {<<p, k>>}]

(* The service that a client means: its own, or one that it shares.        *)
Services(c) == {r \in OfOp(d, "register") : d.req[r].sd = c}

handle_add_request(c) ==
  /\ Call /\ d.sock[c] = "open"
  /\ \E r \in Services(c), k \in Keys :
       d' = [d EXCEPT !.inst = [i \in Instances |->
              IF i \in InstancesOf(d, r) THEN [d.inst[i] EXCEPT !.extras = @ \cup {k}] ELSE d.inst[i]]]

remove_extra(c) ==
  /\ Call /\ d.sock[c] = "open"
  /\ \E r \in Services(c), k \in Keys :
       d' = [d EXCEPT !.inst = [i \in Instances |->
              IF i \in InstancesOf(d, r) THEN [d.inst[i] EXCEPT !.extras = @ \ {k}] ELSE d.inst[i]]]

(* The new text is kept with the request, for instances to come.  The      *)
(* update of some may fail; the first, of a service with no domain of its  *)
(* own, is in "local.", and when that one fails the others are left alone. *)
UpdateTxt(n, r, fails) ==
  LET stops == n.req[r].default_domain /\ \E i \in fails : n.inst[i].domain = Local
      updated == IF stops THEN {} ELSE InstancesOf(n, r) \ fails
  IN  [n EXCEPT !.req[r].txt = 1,
                !.inst = [i \in Instances |-> IF i \in updated THEN [n.inst[i] EXCEPT !.txt = 1] ELSE n.inst[i]]]

handle_update_request(c) ==
  /\ Call /\ d.sock[c] = "open"
  /\ \E r \in Services(c) : \E fails \in SUBSET InstancesOf(d, r) : d' = UpdateTxt(d, r, fails)

(* Over a connection of its own, which is left out.  The services keep the *)
(* name they have until the configuration changes.                         *)
handle_sethost_request ==
  /\ Call
  /\ \E name \in Names \ {d.nicelabel} : d' = [d EXCEPT !.nicelabel = name]

(* The client ends, with whatever replies are on their way.                *)
HangUp(c) ==
  /\ Call /\ d.sock[c] = "open"
  /\ d' = [d EXCEPT !.sock[c] = "gone"]

(* request_callback finds the end of the stream.                           *)
request_callback(c) ==
  /\ ~d.exited /\ d.sock[c] = "gone"
  /\ \E p \in Primary(c) : d' = AbortUnlinkAndFree(d, p)
  /\ UNCHANGED <<calls, events>>

-----------------------------------------------------------------------------
(* What the core calls back.                                               *)

(* Another service on this host has the same name.                         *)
Peers(n, i) ==
  {j \in Instances \ {i} : /\ n.inst[j].state \in {"probing", "registered"}
                           /\ n.inst[j].domain = n.inst[i].domain /\ n.inst[j].name = n.inst[i].name}

ServiceRegistered(i) ==
  /\ Event /\ d.inst[i].state = "probing"
  /\ d' = TellAdd([d EXCEPT !.inst[i].state = "registered", !.inst[i].clientnotified = TRUE],
                  d.inst[i].request, <<d.inst[i].domain, d.inst[i].name>>)

(* ServiceCallback in the core: the records go first.                      *)
NameConflict(i) ==
  /\ Event /\ d.inst[i].state \in {"probing", "registered"}
  /\ d' = [d EXCEPT !.inst[i].state = "dying", !.inst[i].Conflict = TRUE]

Conflicted(n, i) ==
  LET r == n.inst[i].request
      n1 == [n EXCEPT !.inst[i].state = "unregistered", !.inst[i].Conflict = FALSE]
  IN  CASE n.req[r].autorename /\ n.req[r].autoname /\ Peers(n, i) = {} ->
             udsserver_handle_configchange([n1 EXCEPT !.nicelabel = OrMax(@)])
        [] n.req[r].autorename /\ ~(n.req[r].autoname /\ Peers(n, i) = {}) ->
             Reregister(SendServiceRemovalNotification(n1, i), i, OrMax(n.inst[i].name))
        [] OTHER ->
             FreeInstance(IF n.req[r].default_domain /\ n.inst[i].domain # Local THEN n1
                          ELSE TellRemove(n1, r, <<n.inst[i].domain, n.inst[i].name>>), i)

(* The goodbyes are sent: regservice_callback.                             *)
ServiceGone(i) ==
  /\ ~d.exited /\ d.inst[i].state = "dying"
  /\ d' = IF d.inst[i].Conflict THEN Conflicted(d, i)
          ELSE ServiceFreed([d EXCEPT !.inst[i].state = "unregistered"], i)
  /\ UNCHANGED <<calls, events>>

(* regrecord_callback: registered, or in conflict and forgotten.           *)
regrecord_callback(r, k) ==
  /\ Event /\ <<r, k>> \in d.records
  /\ \/ d' = append_reply(d, r)
     \/ d' = append_reply([d EXCEPT !.records = @ \ {<<r, k>>}, !.req[r].reg_recs = @ \ {k}], r)

FoundInstance(r, x) ==
  /\ Event /\ <<r, x>> \in d.core
  /\ d' = IF <<r, x, 1>> \in d.given
          THEN TellRemove([d EXCEPT !.given = @ \ {<<r, x, 1>>}], r, <<x, Found>>)
          ELSE TellAdd([d EXCEPT !.given = @ \cup {<<r, x, 1>>}], r, <<x, Found>>)

(* u.resolve points to answers in the cache, which go when they are        *)
(* removed.                                                                *)
ForgetAnswer(ptr, k, a) == IF ptr[k] = a THEN [ptr EXCEPT ![k] = 0] ELSE ptr

resolve_result_callback(r, k, a) ==
  /\ Event /\ <<r, k>> \in d.core /\ k \in {"srv", "txt"}
  /\ IF <<r, k, a>> \in d.given
     THEN d' = [d EXCEPT !.given = @ \ {<<r, k, a>>}, !.req[r].ptr = ForgetAnswer(@, k, a)]
     ELSE LET n == [d EXCEPT !.given = @ \cup {<<r, k, a>>}, !.req[r].ptr[k] = a]
          IN  d' = IF 0 \in {n.req[r].ptr["srv"], n.req[r].ptr["txt"]} THEN n
                   ELSE append_reply(n, r)

RetryQuestionWithSearchDomains(n, r, k) == StartQuery(StopQuery(n, r, k), r, k)

(* An answer, or a question that is asked again in a search domain, which  *)
(* may fail, or one that times out.                                        *)
queryrecord_result_callback(r, k) ==
  LET over == [StopQuery(d, r, k) EXCEPT !.req[r].context = @ \ {k}]
  IN
  /\ Event /\ <<r, k>> \in d.core /\ k \in {"q", "q4", "q6"}
  /\ \/ d' = append_reply(d, r)
     \/ d' = RetryQuestionWithSearchDomains(d, r, k)
     \/ d' = append_reply(over, r)

enum_result_callback(r) ==
  /\ Event /\ d.core \cap {<<r, "all">>, <<r, "default">>} # {}
  /\ d' = append_reply(d, r)

port_mapping_create_request_callback(r) ==
  /\ Event /\ <<r, "map">> \in d.core
  /\ d' = append_reply(d, r)

(* The core or the system has changed something, maybe the domains.        *)
ConfigChanged ==
  /\ Event
  /\ \E reg \in SUBSET (Domains \ {Local}), browse \in SUBSET (Domains \ {Local}) :
       d' = udsserver_handle_configchange(
              [d EXCEPT !.platform = [RegDomains |-> reg, BrowseDomains |-> browse]])

-----------------------------------------------------------------------------
(* udsserver_idle, for one client: its replies are sent, or it does not    *)
(* read, or its end is closed.                                             *)
udsserver_idle(r) ==
  /\ ~d.exited /\ r \in Live(d) /\ d.req[r].replies > 0
  /\ \/ /\ d.sock[d.req[r].sd] = "open"
        /\ d' = [d EXCEPT !.req[r].replies = 0, !.req[r].reports = 0]
     \/ /\ d.sock[d.req[r].sd] = "open"
        /\ d' = IF d.req[r].reports + 1 >= MaxReports THEN AbortUnlinkAndFree(d, r)
                ELSE [d EXCEPT !.req[r].reports = @ + 1]
     \/ /\ d.sock[d.req[r].sd] = "gone"
        /\ d' = AbortUnlinkAndFree(d, r)
  /\ UNCHANGED <<calls, events>>

(* Every request is aborted, from the head of the list.                    *)
AbortNext(n, r) == IF r \in Live(n) THEN AbortUnlinkAndFree(n, r) ELSE n

udsserver_exit ==
  /\ ~d.exited /\ calls = MaxCalls
  /\ d' = [FoldLeft(AbortNext, d, d.all_requests) EXCEPT !.exited = TRUE]
  /\ UNCHANGED <<calls, events>>

Next ==
  \/ \E c \in Clients :
       \/ connect_callback(c) \/ Share(c) \/ handle_cancel_request(c) \/ handle_regrecord_request(c)
       \/ remove_record(c) \/ handle_add_request(c) \/ remove_extra(c) \/ handle_update_request(c)
       \/ HangUp(c) \/ request_callback(c)
  \/ \E i \in Instances : ServiceRegistered(i) \/ NameConflict(i) \/ ServiceGone(i)
  \/ \E r \in Requests :
       \/ udsserver_idle(r) \/ enum_result_callback(r) \/ port_mapping_create_request_callback(r)
       \/ \E k \in Keys : regrecord_callback(r, k)
       \/ \E x \in Domains : FoundInstance(r, x)
       \/ \E k \in {"srv", "txt"}, a \in 1 .. 2 : resolve_result_callback(r, k, a)
       \/ \E k \in {"q", "q4", "q6"} : queryrecord_result_callback(r, k)
  \/ handle_sethost_request \/ ConfigChanged \/ udsserver_exit

Spec == Init /\ [][Next]_vars

-----------------------------------------------------------------------------
(* What a request has in the core while it lives.                          *)
Holds(r) ==
  LET q == d.req[r] IN
  CASE q.op = "browse" -> q.browsers
    [] q.op = "resolve" -> {"srv", "txt"}
    [] q.op \in {"query", "addrinfo"} -> q.context
    [] q.op = "enum" -> {"all", "default"}
    [] q.op = "map" -> {"map"}
    [] OTHER -> {}

(* The core calls back into no request that has been freed, and a request  *)
(* stops nothing twice: the questions, mappings and records in the core    *)
(* are those of the requests in the list, however they began and whatever  *)
(* failed then, and every service refers to a request that knows it.       *)
NothingDangles ==
  /\ d.core = UNION {{r} \X Holds(r) : r \in Live(d)}
  /\ d.records = UNION {{r} \X d.req[r].reg_recs : r \in Live(d)}
  /\ \A i \in Instances : d.inst[i].request # Nobody => d.inst[i].request \in OfOp(d, "register")
  /\ \A i \in Instances : d.inst[i].state \in {"probing", "registered"} => d.inst[i].request # Nobody

(* A request on a shared connection comes after the connection in the      *)
(* list, as the walks that free while they go on rely on, and does not     *)
(* outlive it; every connection that is open has one request to read it.   *)
ConnectionsOutliveTheirs ==
  /\ \A j \in DOMAIN d.all_requests :
       LET p == d.req[d.all_requests[j]].primary
       IN  p # Nobody => \E i \in 1 .. j - 1 : d.all_requests[i] = p
  /\ \A c \in Clients : Cardinality(Primary(c)) = IF d.sock[c] = "closed" THEN 0 ELSE 1

(* What a client has been told is so: of its service, the names that are   *)
(* registered or were until the goodbyes now going out; of a browse, what  *)
(* the core has found in the domains that are browsed now.  A client that  *)
(* gives no domain and no leave to rename is not told (SuppressError) that *)
(* a name is lost in another domain than "local.".                         *)
ClientsAreUpToDate ==
  \A r \in Live(d) :
    LET said == {t \in d.req[r].told : t[1] = Local \/ ~d.req[r].default_domain \/ d.req[r].autorename}
        so == {<<d.inst[i].domain, d.inst[i].name>> : i \in {j \in InstancesOf(d, r) : d.inst[j].clientnotified}}
    IN  CASE d.req[r].op = "register" -> said \subseteq so /\ so \subseteq d.req[r].told
          [] d.req[r].op = "browse" ->
               d.req[r].told = {<<g[2], Found>> : g \in {h \in d.given : h[1] = r}}
          [] OTHER -> d.req[r].told = {}

(* A browse with no domain of its own covers the domains to browse, and    *)
(* none that has gone from the list; one that failed in "local." may have  *)
(* missed those that were there before it.                                 *)
BrowsersFollowTheDomains ==
  \A r \in DefaultBrowsers(d) :
    /\ d.req[r].browsers \subseteq Browsing(d)
    /\ Local \in d.req[r].browsers => d.req[r].browsers = Browsing(d)

(* The answers that a resolve points to are in the cache.                  *)
AnswersAreThere ==
  \A r \in OfOp(d, "resolve") : \A k \in {"srv", "txt"} :
    d.req[r].ptr[k] # 0 => <<r, k, d.req[r].ptr[k]>> \in d.given
=============================================================================

# MdnsdTest in TLA+

TLA+ modules of the two programs in this repository, with TLC runs and TLAPS
proofs: the code under `src/src` (the "Ct" library and the Bonjour discovery
built on it) and the mDNSResponder under `src/mdnsresponder` that it talks to
(the client library, the daemon on Posix, its core, and `dnsextd`). Paths of
sources are relative to the repository; modules are in this directory.

    tlc -workers 2 -config MCThreads.cfg MCThreads      # a run
    tlapm ThreadsAndUpdatesProofs.tla                   # the proofs of a module

`PROJECT.json` lists the components, the runs with the properties each
checks, a mutation of the code for each property that makes TLC find it
violated, the lines every definition models, the disagreements found between
the code and what it says of itself, the hazards and the theorems.

## 1. The system

A C program that browses for services (`_airplay._tcp` in the demo) through
the mDNSResponder daemon, on Linux and Android, and the library of objects it
is made of. Both builds define `__LINUX__` or `__ANDROID__`; neither defines
`CT_DEBUG`, so `RETURN_IF_FAIL` and `RETURN_VAL_IF_FAIL` are empty and are not
modelled as guards.

| Part | State | Operations | Meets | What is hard |
|---|---|---|---|---|
| CtTimer | times, interval, running_interval, is_running, a CtThread, a CtSocketIpc | New, Initialize, Start, Stop, Delete; the loop | the listener; CtThread; CtSocketIpc | Stop against the loop's own end; Stop from the listener; the correction of the sleeps |
| CtThread | status, thread_handler, loop | Construct, Initialize, Start, Join | pthreads | Initialize on a thread that runs; errors nobody looks at |
| CtSocketIpc | a loopback datagram socket | Construct, Send, Recv, Dispose | CtTimer's loop | lost and left-over datagrams |
| CtBonjour | shareRef, browseRef, resolveRef, resolveAddrRef, two flags, a CtThread | New, DiscoverService, StopServiceDiscovery, Delete; event_loop; three reply functions | the client library, from two threads | deallocation under the event thread; failures half way; a daemon that dies |
| client library | a DNSServiceOp per operation, in a list under the connection's | CreateConnection, Browse, Resolve, GetAddrInfo, ProcessResult, RefDeallocate | the daemon, by a socket | routing replies by uid; moreptr; who frees what |
| CtCondition, CtMutex | is_ready, a mutex, a pthread condition | New, Wait, NotifyOne, NotifyAll, Delete | any threads | lost, stolen and spurious wake-ups; Delete while a Notify leaves |
| ct_socket, CtSelector | none | connect, accept, read, write; rounds of select | peers over the network | full buffers, half-open connections, retries |
| CtUuid | last, adjustment, clock_seq, clock.txt | Generate, pack, unpack, parse, print | other processes, by a locked file | the clock set back; crashes; the two sharing a state |
| ct_time | none | ct_getstrtime and wrappers of system calls | the log | the calendar |
| mDNS core, records | ResourceRecords, DuplicateRecords | Register, Deregister, Update; probes, announcements, answers, goodbyes | other hosts on the link | conflicts in every phase; duplicates |
| mDNS core, questions | Questions, the cache | StartQuery, StopQuery; records that come and expire | clients' callbacks | callbacks that change the lists being walked |
| mDNS core, sleep | NetWake*, NextSPSAttempt, owner records | going to sleep, holding, defending, waking | sleep proxies | late answers, refusals, hand-overs |
| mDNS core, services | ServiceRecordSet | RegisterService, AddRecordToService, DeregisterService | the daemon's clients | many records, one notice |
| uDNS | record states, LLQ states, DNSServers | updates, refreshes, long-lived queries, choice of a server | name servers | loss, overtaking, address changes |
| DNSCommon | none | names, messages | all of the above | bytes, pointers, limits |
| uds_daemon | requests, instances, domain lists | register, browse, update, share, set host name | clients over a socket | what refers to what when something goes |
| Posix platform | interfaces, event sources, signals | SetupInterfaceList, the refresh, the main loop | the kernel | the interface that speaks for the host goes; signals |
| dnsextd | lease table, LLQ table | updates, queries, events, expiry | clients, the name server | threads; handshakes that start over |
| the rest | a handle each, or none | wrappers, formatting, command-line tools | - | - |

The application thread calls CtTimer and CtBonjour; each of them creates one
thread that calls back. CtTimer's threads talk through a datagram socket;
CtBonjour's share the object and the library's heap, and take no lock.
The daemon is one thread: its main loop hands packets, descriptors and signals
to the platform and uds_daemon, which call the core, which calls back.
`dnsextd` is a server of its own with a thread for each request.

What makes each part correct, in a line: Stop returns and after it nobody
runs; no wake-up is lost or made up; UUIDs differ; a name on the link belongs
to one; a client has been told what is so; nothing kept refers to something
freed; what is registered is in the zone; what one was promised to be told one
is told, once.

## 2. The modules

| Module | What it is |
|---|---|
| `CtThread`, `CtSocketIpc` | data modules: the object of each as a record or a sequence, and the effect of its operations |
| `CtTimer` | the timer: the application thread and any number of loop threads over one `CtThread` and one `CtSocketIpc` |
| `TimerService` | what a client of the timer may rely on; `CtTimer` implements it |
| `CtTimerDrift` | the arithmetic of `running_interval` in the loop for `times = 0` |
| `DnsSdClient` | the library's heap of operations, and the heap after each library routine |
| `CtBonjour` | the discovery: the application thread, the event thread and the daemon over one heap and one connection |
| `CtCondition` | the condition variable and its mutex, and any number of threads |
| `CtTcp` | stream sockets: clients, a listener, and the kernel's buffers between them |
| `CtUuidClock` | `linux_get_clock` in several processes, the state file and the clock |
| `CtTime` | `ct_getstrtime`'s date against the calendar |
| `MdnsRegistration` | authoritative records of several hosts on one link |
| `MdnsCache` | questions, the cache and its records, with callbacks that start and stop questions |
| `SleepProxy` | machines that sleep and the proxies that answer for them |
| `ServiceRecords` | one service's record set, its client in the daemon and the callbacks between them |
| `DnsUpdate` | records and host names registered with a name server by update |
| `LongLived` | one long-lived query and its server |
| `ServerChoice` | questions, the list of name servers and what is cached from each |
| `DomainNames` | names as labels and as text, service names and renaming |
| `DnsMessage` | messages byte by byte: put, read, skip, estimate |
| `UdsDaemon` | the requests of the daemon's clients and what they refer to |
| `HostInterfaces` | the interfaces of the machine and of the core, and the records of the host's name |
| `PosixLoop` | the main loop, signals, descriptors and packets |
| `DnsExtd` | the proxy: leases, queries, threads, and its clients |
| `MC*` | constants, symmetry and refinement mappings for TLC |
| `*Proofs` | theorems of the module they are named after; `ThreadsAndUpdatesProofs` of `CtTimer`, `CtCondition`, `CtTimerDrift` and `DnsUpdate`, `HostProofs` of `HostInterfaces`, `PosixLoop`, `ServiceRecords` and `CtUuidClock`, `DnsExtdProofs` of `DnsExtd` and `LongLived` |

How actions correspond to code:

- **CtTimer.** Each call is cut where another thread can see a difference:
  Start is `CtTimer_Start` (the test and CtThread_Initialize),
  `CtTimer_Create` (pthread_create), `CtTimer_Started` (is_running is set
  after the thread exists); Stop is the test and the reset of is_running, the
  datagram, CtThread_Join's look at the thread, the wait. A loop thread has
  one action for each return of select, each result of Recv and the two ends of
  a listener call. Time is left out: select may time out whenever no datagram
  is waiting.
- **CtTimerDrift.** One action for a wake-up (the measured overshoot is
  chosen), one for the return of the listener (its measured time is chosen).
  `lag`, `first`, `last`, `late` and `inBudget` are history.
- **CtBonjour.** A step of either thread reads or writes the shared object or
  heap once: Stop is nine steps, one turn of the event loop up to a dozen, and
  a request made by a reply function five. Using an operation that has been
  freed is undefined: where the library checks its validator, the outcome is
  either the check noticing the poison or `undefined`, which ends the
  behaviour. The daemon's three actions are its environment.
- **CtCondition.** pthread_cond_wait is two steps, blocking and locking again,
  as POSIX has it; a signalled thread leaves `sleepers`, and a sleeper may wake
  spuriously. `notified` is history.
- **CtTcp.** A step is a system call; a buffer is a number of bytes.
- **CtUuidClock.** A call is cut at the lock, the read, the clock, the write
  and the unlock. A crash may come at each. `earlier` is history: it keeps any
  one UUID made before, and so stands for all of them.
- **CtTime.** A step is a day: the code's arithmetic is an operator, the
  calendar is counted day by day. What m[12] holds, which the code reads past
  its table, is any value of a set.
- **The core** (`MdnsRegistration`, `MdnsCache`, `SleepProxy`,
  `ServiceRecords`) runs under one lock, so that an API call, a packet or one
  pass of `mDNS_Execute` is one action, except where it calls a client back:
  there the list being walked and what is left of it become state, and
  the client's calls are actions in between.
- **uDNS** (`DnsUpdate`, `LongLived`, `ServerChoice`): an action is the handler
  of a message, a timer or a call, with all it sends. Messages are a set that
  loses, and from which any may come next. Time is left out: what is waited
  for is due, or not yet.
- **DnsMessage, DomainNames.** Operators are the functions of DNSCommon.c on
  buffers as sequences of bytes; a behaviour puts one thing after another into
  a message, or takes one byte after another from the network.
- **UdsDaemon, HostInterfaces, PosixLoop, DnsExtd.** An action is a callback of
  the main loop from its first line to its last, a step of the loop between two
  points at which a signal may come, or a thread's part between two locks.

## 3. The runs

Parts that share nothing and are quick to check share one run. There `subject`
says whose behaviour it is, and the others stay at one initial state.

| Run | What it asks | Instance |
|---|---|---|
| `threads` | the timer: nobody ticks after Stop, one loop at a time, Stop returns, `TimerService` is implemented; the condition: no wake-up lost or made up; sockets: a write returns | 2 loop threads, times 0..2, buffer of 3; 3 threads; 2 clients, a write of 2 bytes, room for 1 |
| `bonjour_safety` | use of freed memory, leaks, quiescence, routing | 4 operations (symmetric), 2 replies in the socket, 3 requests, all faults |
| `bonjour_live` | Stop returns, replies are dispatched | 3 operations, all faults but pthread_create |
| `data` | sleeps and drift; UUIDs differ; the order of the log's dates; messages and names read back | interval 13, overshoot -2..9, listener -1..15; 2 processes (symmetric); 800 days each from 2003, 2099 and 2399; 3 items in a message, 5 bytes from the network; labels of 8 bytes, names of 15 |
| `link_and_servers` | a name is unique on the link, conflicts are real, duplicates are covered; nobody waits with servers left | 2 hosts, 3 records, 3 probes, 3 calls; 3 servers, 2 questions, 4 events |
| `uds` | nothing dangles; names and domains are those of now | 2 connections (symmetric), 3 requests, 2 instances, 2 domains, 3 calls, 2 events |
| `sleep` | who asked a proxy is silent only after an answer; what was left is held, or its owner woken | 3 machines in four scenarios; 2 attempts at each of 2 proxies |
| `records` | clients have been told what the cache holds, answers are kept alive; registered is in the zone | 3 questions and 3 records (those alike symmetric), room for 2, 3 calls, 2 packets; 3 registered records, 3 calls, 1 loss |
| `dnsextd` | leases follow the zone; clients hear all; the client of a long-lived query has seen the latest | 2 records, 1 query, 1 client with a UDP and a TCP side, 2 threads (symmetric), 2 requests, 3 calls; 1 question, 1 change of its answers, 2 tries, 2 queries at the server, 2 events, 2 messages under way, 1 loss |
| `host` | one set of host records; no signal lost, each acted on; one notice of a service's end, which comes | 5 addresses on 3 interfaces; 2 signals, 3 descriptors; 2 subtypes, 2 extra records, 6 calls |
| `sleep_alone` | *violated*: silence only after a proxy was asked | a machine that knows one proxy; 3 attempts at each of 3, as in the code |
| `unicast_forgotten` | *violated*: what is in the zone is owed a goodbye | 1 service, 2 names of the host, 3 calls |

The bounds, and why they are enough:

- *Loop threads.* Two are the least with which a loop of one run can meet that
  of the next. *times.* 0 is a loop of its own, 1 and 2 are a loop that ends
  after its first tick and one that does not. *The receive buffer* holds one
  datagram more than the run can put there.
- *Operations.* Four are the connection, the browse, a resolve and a lookup,
  the longest chain the reply functions make. With more services there are
  more resolves, all alike; the fourth address also lets malloc give a freed
  address out again. Two replies in the socket are what makes morebytes true.
- *Three threads* in a condition are two waiters and a notifier, which is what
  it takes for one Wait to undo the Notify of another. *Room for one byte* and
  writes of two make every write meet a full buffer.
- *The drift's interval* is 13: half of it, 6, leaves room for lateness and
  listener to share the budget, and the ranges go past the half and past the
  whole interval on both sides of it. `MaxLag` is more than two intervals.
- *Two processes* share the file; a third would only wait for the lock. Ticks,
  sequences and the time are scaled down: 2 ticks in a microsecond for 10.
- *800 days* from 2003, 2099 and 2399 go through a leap year, a common one, and
  the ends of 2100, which is not a leap year, and of 2400, which is.
- *Messages.* Three items are one that is pointed to, one that points, and one
  that points to what points; each layout of record data is among the records.
  63 and 256 are scaled down so that names reach them.
- *The link.* A conflict takes two hosts, a duplicate two records of one; the
  third is what one host gives way to while the other is covered.
- *The cache* holds fewer records than there are, so that it runs full; two
  questions alike are what makes one active for both.
- *Proxies.* Two, so that one can sleep after it has taken over a machine
  (`Relay`), and a machine can ask one after the other (`Both`); a third slot or
  attempt only repeats what the second shows, but for what `sleep_alone` is
  about, which has the code's three of each. `Twice` sleeps a second time, with
  updates of the first sleep still under way, and cannot send over IPv6;
  `Switch` meets a proxy that begins and ceases. The bound on updates stops the
  sending of another, never the sleeping or the waiting.
- *Servers to choose from.* Four events are the changes of the list by which
  a question may meet the same server again after a penalty.
- *Long-lived queries.* One change of the answers, two queries at the server and
  one lost message are a challenge that is repeated while the acknowledgment of
  the first is under way, and a query that is set up again beside an old one.
  There is one label: which zone a question is of is not asked here, and the
  theorem is for any number of versions and labels.
- *Calls, losses, changes and packets* are counted, and end behaviours that
  only go on; each is as large as lets the run finish.

Deadlock is checked in the runs of CtBonjour; elsewhere behaviours end at a
bound.

### Fairness

CtTimer: every loop thread is weakly fair, since the system schedules it, a
select with a timeout returns and a listener is assumed to return; a call the
application has made proceeds; it need not make any. CtBonjour: a Stop or a
Delete in progress proceeds, and so does the event thread, whose waits are a
select with a timeout of one second and a daemon's answer. The daemon owes
nothing but that answer, unless it dies, which releases the event thread too.
CtCondition: a thread in a call runs, and one that was signalled wakes; the
mutex need only be weakly fair because `NotifiedReturn` asks only for what
happens when no new calls are made. A thread nobody signalled may sleep for
ever, and spurious wake-ups are not fair. CtTcp: a thread in a call runs, and
the peer reads. PosixLoop: the process is given time, and select has a
timeout. ServiceRecords: a goodbye, once due, is sent.

## 4. What the code does not keep

- A machine that knows fewer than three sleep proxies may go silent without a
  proxy and without goodbyes (mDNS.c:4929, 5290, against mDNS.c:5329 and 5333);
  run `sleep_alone`. While a proxy does not resolve, its three attempts are
  counted off a second apart; the next slot is empty, so that nothing is waited
  for any more. `SilentOnlyIfAnswered` is therefore about machines that have
  asked a proxy since they woke (`asked`).
- A service whose NAT mapping is completed again while its update is under way
  gets the target of now and keeps the updateid, so that the answer to the old
  update makes it Registered with a target that was never sent (uDNS.c:1822,
  against mDNSEmbeddedAPI.h:1113); `MCRecords_Moved.cfg`. Nothing is due until the
  next refresh. `RegisteredIsCurrent` leaves such services out (`moved`).
- A service whose target changed while its update was under way is registered
  from the beginning, which clears RequireGoodbye while the zone has it
  (uDNS.c:1924, against mDNSEmbeddedAPI.h:1207); run `unicast_forgotten`.
  Deregistered before the next update goes out, it stays in the zone. It takes
  two names of the host: with one, as in `records`, the target becomes empty and
  the service is deregistered first.
- A set of service records whose PTR record has gone is taken for gone, and
  freed, while a subtype may still be saying goodbye (mDNS.c:10018, against
  mDNS.c:9721); `MCHost_Apart.cfg`. It takes an order of goodbyes that the
  core's own walk of its list does not produce today: with `Together` the
  properties of `host` hold.
- `dnsextd` looks up the record of a single deletion, which is of class NONE, by
  a comparison that includes the class (dnsextd.c:1418, against
  dnsextd.c:1403): it finds no lease, and the record's lease stays when the
  zone has lost it. `DeletionsAreHandled` does not hold;
  `LeasesFollowTheZone` says what does, with such records in `lingering`. Nor
  are leases of the zone where memory for an addition fails, since nothing
  after that is recorded, or where the daemon ends without deleting: they are in
  `astray`.
- A challenge that a server repeats, because its client asked again, is taken by
  a client that has answered the first for the acknowledgment (uDNS.c:832 and
  948, against uDNS.c:943): the query is Established with no answers, and the
  cache is emptied. `ChallengeTellsNothing` does not hold, and
  `EstablishedIsCurrent` leaves such a query out until the acknowledgment or an
  event of it comes (`misled`). `dnsextd` repeats its challenge (dnsextd.c:2218,
  2291).
- The question a machine asked for a sleep proxy outlives the sleep: an answer
  that comes when it is awake finds NextSPSAttempt -1, and -1/3 is 0, so that the
  machine hands its records over while it answers for them itself (mDNS.c:5017,
  "If we're ready for this result, use it now"). `OnlyWhenReady` in
  SleepProxy does not hold.
- Stop deallocates before it joins (CtBonjour.c:238); `UndefinedOnlyInStop`
  shows that this is the only way to freed memory. `MCCtBonjour_Serialized.cfg`
  has the counterexample.
- err > 0 is never true (CtBonjour.c:290); `MCCtBonjour_Failure.cfg`.
- A STOP left by the Stop of a loop that had already ended kills the next loop,
  with is_running true (CtTimer.c:172); `MCThreads_Forever.cfg`.
- The loop over the months starts one too late (ct_time.c:121):
  `MonthAndDayRight` in CtTime does not hold on any day.

More came up in the models and are listed as hazards, or here: no resolve is
deallocated before Stop (CtBonjour.c:320, against dns_sd.h:1274); the eleventh
UUID of a microsecond equals the first of the next (CtUuid.c:635); a state file
that is descriptor 0 is never written (CtUuid.c:659); a discovery that was
stopped cannot be started again (CtBonjour.c:170); the timeout of select is
given in microseconds what is left in milliseconds (CtSelector.c, ct_socket.c);
rr keeps its value from one instance to the next (uds_daemon.c:1265).
Five invariants are stated with the comment that they are not kept, and what
breaks them: `AnswersAreCounted` and `NeverNewQuestion` in MdnsCache,
`RemovedHostsAreGone` in DnsUpdate, `NoStaleAnswers` in ServerChoice and
`OneQueryEach` in DnsExtd. What the runs check holds in spite of them.

## 5. What is proved

Each theorem is for every value of the constants, under the assumptions named
in its module (that NoThread is no thread, that times are naturals, and so on).

- **ThreadsAndUpdatesProofs, of CtTimer.** `TypeCorrect`: the type invariant is inductive. For a
  listener that does not stop its own timer, `QuiescenceHolds` and
  `OneLoopHolds`. Neither property is inductive: that is_running is false says
  nothing of a loop while Start or Stop is between two steps. `OwnershipInv`
  adds who owns the loop: whoever is alive is the thread in the CtThread
  object, with status Running, and the application is either idle with
  is_running, in the second half of Start, or in a Stop that has not yet
  joined that very thread. pthread_create, select and sendto may all fail.
- **ThreadsAndUpdatesProofs, of CtTimerDrift.** `SleepBoundsHold` for every clock; `NoDriftHolds` and
  `NeverAheadHolds` for every clock too: the properties speak of the ticks of a
  loop up to which the history `inBudget`, or `late`, has held. The invariants
  state `lag + running_interval` relative to the last overshoot in each phase.
- **ThreadsAndUpdatesProofs, of CtCondition.** `WakesAreNotifiedHolds`, `NoSleeperMissedHolds`,
  `NobodyInsideDeletedHolds` and `ConditionTypes`, from one invariant: the thread
  at a step under the mutex is the one that holds it (`Exclusion`); is_ready
  being true, everyone waiting has been notified, and nobody who was told all
  is asleep or about to be (`Told`); where the others are while one deletes
  (`Deleting`).
- **CtBonjourProofs.** `TypeCorrect` and `QuiescenceHolds`. The invariant
  (`ControlInv`) ties the application's place in Stop to the thread object and
  to the event thread: whenever the event thread is alive, the thread object is
  Running with its handle, and Stop has not got past the wait.
  `UndefinedNeedsStop`, `NoLeak` and `RepliesRouted` need the heap too
  (`HeapInv`): outside the end of Stop, the connection's list is exactly the
  other operations allocated (`Heap`); what the event thread holds, and the
  field its reply function works on, is the connection or a subordinate of it
  (`Handle`, `Held`); and a reply in the socket carries the uid of an operation
  of its own kind (`Routes`).
- **ThreadsAndUpdatesProofs, the refinement.** `TimerServiceImplemented`: every step of
  the timer is a step of `TimerService`, or stutters, under the mapping by which
  the run checks it, when the listener does not stop its own timer and Stop's
  datagram is queued. Init maps to Init, and each action is taken in turn under
  `OwnershipInv`; it is safety only, the abstract fairness stays with TLC.
- **HostProofs.** `SignalsKept`: a signal is in the set the handler adds
  to or among those the loop has taken, at whichever of the loop's steps it
  comes; the loop blocks signals wherever it moves one set to the other
  (`SignalInv`). `InterfaceTypes` and `HostRecords`, of the interfaces: for any
  addresses of the machine, which may be listed in any order, and whichever
  sockets cannot be set up. `HostInv` adds to the properties that an address
  still to be set up is not in the list, so that none comes into it twice, and
  that the list is empty before mDNSPlatformInit. The lemmas say of each routine
  what it makes of one address's records: the flags of an interface are set
  without touching them (`SameRecords`), and when the first of the list goes,
  those that shared its set are given that of the next (`DeregisterFields`).
- **HostProofs, of ServiceRecords.** `ToldOfEachEnd`, `SetsAreWhole` and
  `MemoryIsLetGo`, for any subtypes, extra records, failing registrations and
  renames. A call runs the client's callback before it returns, and the callback
  registers the service again, so the lemmas are about whole calls, in the order
  in which they nest: what a registration leaves (`RegisteringFields`), what
  becomes of the instance in its callback when nothing is left in the core
  (`RenameKeeps`, `FreeKeeps`, `CallbackKeeps`), and what deregistering does to a
  set (`ThereGoes`, `OverGoes`). The invariant (`ServiceInv`) gives the four ways
  an instance can be: all of its records are there (`Whole`), it is a service
  without a port (`Alone`), what is left of it, the PTR record included, says
  goodbye (`Going`), or its client has been told (`Over`). Assumed is `Together`:
  the shared records are announced at once, and the PTR record's goodbye is the
  last to be completed. Otherwise `MemoryIsLetGo` is false, as
  `MCHost_Apart.cfg` shows.
- **HostProofs, of CtUuidClock.** `UuidTypesHold` and `UuidsDiffer`, for any number of
  processes that read the clock, update the state file and crash, and a clock
  set back less often than there are sequences. The invariant says that what has
  been issued precedes what the file says (`Precedes`: it is in an earlier
  sequence or at an earlier time of the same one, and each turn of the sequence
  has been paid for by a set-back of the clock), likewise for what a process
  remembers when there is no file, and that two UUIDs in the making differ.
  Assumed (`FileIsWritten`) is that the state file, if it is opened, is not on
  descriptor 0: the code reads and locks it there but never writes it
  (CtUuid.c:659), so that a process begins where one before it has begun.
- **MdnsRegistrationProofs.** `TypeCorrect`, and three properties of the link.
  `Covered` needs that the two lists hold what they should (`CoverInv`).
  `UniqueNames` is the largest proof here. A host that owns a name answers
  for it; a contender is rid of it by that answer before its last probe, or by
  losing a tie to an earlier probe. The invariant `LinkInv` has three parts:
  `Contents` (who may say what), `Timing` (a record that is being probed for
  sends a probe in every interval, is not asked to answer, and what it announced
  when it last had the name is past when it has it again) and `Race`. The last says,
  of each two records of different hosts: if one is owned and the other
  contends, the other is *doomed*: an answer to it is under way, or will be
  when its probe is heard, or an announcement is due; and if both contend, the
  one with the earlier data is *beaten* in the same sense. Neither is ever
  owned. Assumed (`LinkAssumption`) are contents that belong to one host,
  as those of its address records do, no record both shared and unique, and
  counts by which probing takes time: three probes or more, and a deferral no
  longer than one probe more; the code has three and a deferral of one second.
  `RealConflicts` adds what a host hears of itself (`ClaimInv`): while a record
  contends, what is under way from its own host says what it says. It assumes
  that the records a host registers under the name are alike and are probed
  for (`ConflictAssumption`): a record that is not probed for is announced at
  once, while what its host said before may still be under way.

- **MdnsCacheProofs.** `ClientsSeeCache` and `AnswersKept`, for any questions,
  kinds and records, any size of the cache, and clients that start and stop any
  question in any callback. Between callbacks the properties do not hold, so
  the invariant (`CacheInv`) says what each client has been told while a walk is
  under way (`Expected`): of the record the walk is about, what it should be up
  to the question the walk stands on, and what it was from there on; of all
  others, what the cache holds. What makes that survive a callback is the order
  of the list: questions not answered yet are at its end (`NewComeLast`), where
  the walk stops, and a duplicate comes after its original
  (`OriginalsComeFirst`), which has been given a record, and keeps it alive,
  before the duplicate is. The list is taken apart and put together in
  `AppendPos`, `RemovePos` and `NextFields`. How many records there are
  (`rrcache_active`) plays no part.

- **DnsExtdProofs, of LongLived.** `EstablishedQueriesAreCurrent`, for any number of
  versions, tries, queries and calls, and messages that are lost, repeated or
  come in any order, over UDP or TLS. The server is `dnsextd` as its handlers are
  seen from outside, and such servers as answer what it leaves unanswered.
  Client and server agree by way of what is under way, so that is what the
  invariant (`LLQInv`) is about: which numbers the question has, or may have
  again from what is under way (`Mine`); that an event of those is acknowledged
  only by who has seen it (`Acked`); and that what
  the server takes an established query to have been told, the client has
  seen, or is about to with what tells it of the query (`Told`), which a repeated
  challenge is not (`Knows`). The lemmas ending in `Goes` say of each function
  of the client what it makes of the question and what it may send. The
  property is about `latest`, the newest version that the client has seen, and
  holds with messages still under way.
- **DnsExtdProofs, of DnsExtd.** `LeasesAreOfTheZone` and `NothingIsLeft`, for any records,
  clients, threads and requests. Leases are of what the zone holds or lost by
  single deletions. `LeaseInv` says who will bring the table up to
  date: a change that the table lacks has one thread to record it, which is the
  last that the name server made, and what that one deletes alone keeps its lease
  (`OneRecords`); and from the loop's end to Exit, that what is still leased is
  in the list of what to delete, or in `astray` where there is no list
  (`Stopping`).
- **DnsExtdProofs, the clients of DnsExtd.** `EveryClientIsTold` and
  `AnswersAreOfTheZone`, where no query is set up over TLS (`~PrivateLLQ`; such
  a query is Established without a list of answers). `ClientsInv` counts: a
  list is referred to by as many queries as its refcount says, and a client was
  told what its list holds and what is about to go from it. How many entries of
  a table refer to a list is a cardinality, so there are lemmas on what adding,
  replacing and removing an entry does to it (`AppendCounts`, `PutCounts`,
  `FirstCounts`, `RemoveCounts`, the last two by renumbering). A round of events
  is a fold over the table; `RoundIs` gives it a state after each entry, by
  induction over sets of positions (`Stepwise`, `FoldExists`), and `Reached`
  says what holds there: a list's refcount is that of the entries the round has
  kept and of those still ahead of it (`RoundKeeps`). `Follows` says who will
  bring a list up to date: it agrees with the zone, or a thread will tell of
  the change, or the main loop has been told or is about to ask, or nobody ever
  will (`unseen`). The proof changed the model: `unseen` is kept for each
  question, and a question that the name server fails to answer enters it,
  since until the next update nothing makes the daemon ask again.

- **SleepProxyProofs.** `AskedAndAnswered`: for any machines, proxies, records
  and number of sleeps, whatever is lost, overtakes or is sent again, a machine
  that asked a proxy and goes silent has had every record looked at. `AskInv`
  follows an id: no message bears one its sender has not given yet
  (`IdsAreOld`); a record that waits for an answer is in every update of that
  id (`UpdatesHaveIt`), so that an answer of that id has seen it
  (`AnswersSawIt`), though answers to earlier asking may come first; and until
  a machine says goodbye, what no proxy has looked at is waited for
  (`AskedForAll`). `FirstSleepIsCovered`: in its owner's first sleep, a record
  that was accepted is held by someone until the owner is sent for. What makes
  that hard is that a proxy hands its copies on when it sleeps itself. `KeepInv`
  says that a copy is the owner's wherever it goes (`HeldForOwner`,
  `SentForOwner`), that who has a copy keeps it as long as no answer to it is
  under way (`Kept`), and that records that wait for one answer were sent
  for one owner (`SentTogether`). A proxy that runs out of
  memory tells the owner so, and what it has thrown away was of that owner. For a
  second sleep `HeldOrWoken` stays with TLC (`Twice`): an update of the first
  that comes late is taken for one of the second, as mDNSCoreReceiveUpdate does
  not compare the periods of wakefulness, and who holds a record then depends on
  which came last. A registration is a fold over
  owners in the model; what such a fold returns is shown first, by induction
  on the size of the set (`RestInduction`, `FoldExists`), which takes a set
  for the property where the library's theorems take an operator.

- **UdsDaemonProofs.** `NothingEverDangles` and `TypeCorrect`, for any clients,
  requests, services, records and domains. That what the core has for clients is
  what the requests in the list know of (`CoreIsTheirs`) is not inductive alone.
  A service refers to a registering request while it is registered, probed for
  or in conflict, for a conflict is acted on only when the goodbyes are sent
  (`Owned`); and no place in memory is twice in the list, a place that is not in
  it has nothing to end, only a connection has records of its own, a connection
  is nobody's subordinate, and a query has no questions of an address query
  (`RequestsAreProper`): otherwise what a request has started could be other
  than what its termination stops. Most of the daemon's work is walks over
  requests, services and domains, which are folds in the model and call one
  another up to four deep; a walk keeps what each of its steps does
  (`RestInduction`, `FoldWithin`). Steps are of two kinds: those that leave
  alone what requests have in the core (`Calm`: replies, names, services), and
  those that start and stop questions while the list stays (`Along`). What ends
  a request leaves nothing of it in the core (`Cleared`), so that its memory may
  be taken for another, even while a connection ends with all of its
  subordinates (`ConnectionClears`); what begins one starts just what it will
  stop, whatever fails (`Opening`).

- **ThreadsAndUpdatesProofs, of DnsUpdate.** `RegisteredStaysCurrent`: for any
  services, texts, host names, values, addresses, networks and bounds, and
  messages that are lost, refused or overtaken, a Registered record is in the
  zone with its data and nothing else, unless an update of it has gone astray
  or the NAT gateway has moved it. Records and server agree by way of the message
  under way, so `UpdateInv` ties the three together: the message whose answer a
  record awaits says what the record will be registered with, and once it is an
  answer the server holds that (`Awaited`); what is Registered the server holds,
  and of an update in flight it has the old or the new (`Kept`); and each
  record by itself is in one of the states its zone, id and data allow (`Fit`).
  Most steps are `Quiet`: they make nothing registered, and what still awaits its
  answer keeps what the update said; so those are taken together, however the
  walks over services, texts and hosts nest. Receiving an answer is the other
  kind: a record it reaches is through with it (`Answered`), and what handling
  it does to others on the way is `Aside`. The proof changed the model twice.
  The walk over an answer's records compares the updateid as it reaches each, as
  the code does, since handling one may register the next from the beginning;
  and `moved` came in, with the finding about CompleteRecordNatMap, when the NAT
  mapping's step was not Quiet. It also made the property stronger: it was
  stated for records without a message under way or a timer that is due.

Only checked by TLC: liveness (`StopReturns`, `WritesReturn`,
`RepliesDispatched`, `NotifiedReturn`, `SignalsAreActedOn`, `GoesInTheEnd`),
which is beyond the prover; what the daemon's clients are told, and the domains
it browses; the choice of a server in uDNS; what proxies hold for a machine that
sleeps again; the order of the log;
and what the recursive operators of `DnsMessage` and `DomainNames` compute,
which would take induction over data.

## 6. What is left out, and why

- Formatting, logging, the contents of replies and of TXT records.
- The listener pointer of a timer (a Start on a running timer replaces it).
- A Stop whose datagram sendto does not queue, in the runs (`SendMayFail`): on
  the loopback interface it takes the kernel to be out of memory, and Stop then
  waits for ever. A daemon that hangs: Stop then waits for ever as well.
- A Stop from the listener, in the runs (`SelfStop`): CtTimer models it and the
  proof of its types covers it, but the loop then outlives the Stop.
- pthread_t's low 32 bits being 0 (CtThread.c:155).
- Two application threads calling the API of one object: the objects are not
  made for it. Threads of one process in `linux_get_clock` at once, whose
  statics are shared in spite of the name THREAD_LOCAL.
- Of an update of a record: the credits by which too many updates of one record
  delay its announcements, and what `m->SuppressProbes` spaces.
- Of the daemon: the spacing of packets in time, known-answer suppression,
  NAT traversal, TSIG and TLS but for the connection being there or not, the
  parsing of configuration files and of requests, local-only records.
- Of the daemon's clients: a browse that fails in some domains but not in
  "local.", which is suppressed (uds_daemon.c:2211); the runs have one that fails in
  "local." and one that fails in all. Updates of extra records.
  handle_sethost_request is modelled, the connection it comes over is not.
- A header that the client library has read and then has no memory for
  (dnssd_clientstub.c:952), and a daemon of another version (944). A lock of the
  UUIDs' file that fails otherwise than by being taken (CtUuid.c:592).
- Memory that is missing when a name server is added (uDNS.c:161 dereferences
  it), and the limit on their number; a thread for events that cannot be
  created (dnsextd.c:1996): the round then ends, and the next change makes the
  next.
- Of sleep proxies: FormErr, which answers an update without a lease, an owner or
  a hardware address (mDNS.c:7277), and the sender puts all three into each; the
  splitting of one owner's records over several messages (mDNS.c:4849): an owner
  has two records at most here.
- The name service switch, the command-line clients and the wrappers of system
  calls without state (CtSemaphore, ct_log, ct_ret, ct_memory).
- Some invariants that the modules state next to those of the runs, among them
  most type invariants, are left out of the configurations for want of time.

## 7. Plan

Of what headed this list, the heap of CtBonjour, the records on the link, the
refinement of `TimerService`, the host records, the UUIDs, the cache, the record
sets of services, the leases and the clients of `dnsextd`, the long-lived
queries, the sleep proxy, the references of the daemon and the updates of uDNS
are proved. Next are *the browsed domains* (`BrowsersFollowTheDomains`), for which
the walks of UdsDaemonProofs are the means, and *the choice of a server*
(`NobodyWaits`).

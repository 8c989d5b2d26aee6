------------------------------ MODULE PosixLoop ------------------------------
(* The event loop of the daemon: mDNSPosixRunEventLoopOnce with the sets of *)
(* descriptors and signals it works on, MainLoop around it, and the sockets *)
(* of the interfaces, through which packets reach the core.                 *)
(*                                                                          *)
(* One thread runs it all; a signal handler may run between any two of its  *)
(* steps, and the kernel hands it data and packets at any time.             *)
EXTENDS Integers, Sequences, FiniteSets, SequencesExt

CONSTANTS
  Clients,              \* the descriptors a client may be given
  Listener,             \* the descriptor of udsserver_init
  Notifier,             \* the one of WatchForInterfaceChange
  Signals,              \* the signals that are listened for
  Quit,                 \* SIGINT and SIGTERM
  Interfaces,           \* those with a multicast socket
  MaxSignals,           \* bounds the signals raised
  MaxPackets            \* bounds the packets sent

VARIABLES
  gEventSources,        \* the sources, in the order in which they were added
  gEventFDs,
  gEventSignals,        \* the signals noted by the handler
  blocked,              \* whether the signals are blocked
  pending,              \* those the kernel holds back meanwhile
  pSignalsReceived,     \* those the loop has been told of
  raised,               \* those that have been raised and not acted upon
  nraised,
  ready,                \* the descriptors with something to read
  listenFDs,            \* those select reported
  pDataDispatched,      \* whether it reported any
  inbox,                \* the packets queued at each socket
  npackets,
  received,             \* how often each packet reached the core
  pc
loopVars == <<gEventSources, gEventFDs, gEventSignals, blocked, pending, pSignalsReceived, raised, nraised,
              ready, listenFDs, pDataDispatched, inbox, npackets, received, pc>>

Fds == Clients \cup {Listener, Notifier}
signalVars == <<gEventSignals, blocked, pending, pSignalsReceived, raised, nraised>>
packetVars == <<inbox, npackets, received>>

---------------------------------------------------------------------------
(* Signals                                                                  *)

(* The handler, or the kernel for it.                                       *)
NoteSignal(sig) ==
  /\ nraised < MaxSignals
  /\ nraised' = nraised + 1
  /\ raised' = raised \cup {sig}
  /\ IF blocked THEN pending' = pending \cup {sig} /\ UNCHANGED gEventSignals
     ELSE gEventSignals' = gEventSignals \cup {sig} /\ UNCHANGED pending
  /\ UNCHANGED <<gEventSources, gEventFDs, blocked, pSignalsReceived, ready, listenFDs, pDataDispatched,
                 inbox, npackets, received, pc>>

\* A bug: the signals are not blocked while they are collected.
Block_Never ==
  /\ pc = "block"
  /\ pc' = "copy"
  /\ UNCHANGED <<gEventSources, gEventFDs, ready, listenFDs, pDataDispatched, packetVars, signalVars>>

Block ==
  /\ pc = "block"
  /\ blocked' = TRUE
  /\ pc' = "copy"
  /\ UNCHANGED <<gEventSources, gEventFDs, ready, listenFDs, pDataDispatched, packetVars, gEventSignals,
                 pending, pSignalsReceived, raised, nraised>>

Copy ==
  /\ pc = "copy"
  /\ pSignalsReceived' = gEventSignals
  /\ pc' = "empty"
  /\ UNCHANGED <<gEventSources, gEventFDs, ready, listenFDs, pDataDispatched, packetVars, gEventSignals,
                 blocked, pending, raised, nraised>>

Empty ==
  /\ pc = "empty"
  /\ gEventSignals' = {}
  /\ pc' = "unblock"
  /\ UNCHANGED <<gEventSources, gEventFDs, ready, listenFDs, pDataDispatched, packetVars, blocked, pending,
                 pSignalsReceived, raised, nraised>>

(* What was held back reaches the handler.                                  *)
Unblock ==
  /\ pc = "unblock"
  /\ blocked' = FALSE
  /\ gEventSignals' = gEventSignals \cup pending
  /\ pending' = {}
  /\ pc' = "act"
  /\ UNCHANGED <<gEventSources, gEventFDs, ready, listenFDs, pDataDispatched, packetVars, pSignalsReceived,
                 raised, nraised>>

(* MainLoop: Reconfigure, DumpStateLog, or the end.  A signal that has come *)
(* again in the meantime is still to be acted upon.                         *)
Act ==
  /\ pc = "act"
  /\ raised' = (raised \ pSignalsReceived) \cup gEventSignals
  /\ pSignalsReceived' = {}
  /\ pc' = IF pSignalsReceived \cap Quit # {} THEN "stopped" ELSE "top"
  /\ UNCHANGED <<gEventSources, gEventFDs, ready, listenFDs, pDataDispatched, packetVars, gEventSignals,
                 blocked, pending, nraised>>

---------------------------------------------------------------------------
(* Descriptors                                                              *)

mDNSPosixAddFDToEventLoop(sources, fd) == Append(sources, fd)
mDNSPosixRemoveFDFromEventLoop(sources, fd) == SelectSeq(sources, LAMBDA f : f # fd)

(* The sockets of the core, and the sources, that have something to read.   *)
Ready == (ready \cap gEventFDs) \cup {i \in Interfaces : inbox[i] # <<>>}

(* Unless there was data the last time, the core and the server of the      *)
(* clients do what is due; then select waits until something is ready, a    *)
(* signal comes, or the next thing is due.                                  *)
Select ==
  /\ pc = "top"
  /\ listenFDs' = Ready
  /\ pDataDispatched' = (Ready # {})
  /\ pc' = IF Ready = {} THEN "block" ELSE "sockets"
  /\ UNCHANGED <<gEventSources, gEventFDs, ready, packetVars, signalVars>>

(* A socket hears the packets of all interfaces.                            *)
Accepts(socket, packet) == packet.through = socket

(* One packet of each socket that was reported.                             *)
mDNSPosixProcessFDSet ==
  LET sockets == listenFDs \cap Interfaces
  IN  /\ pc = "sockets"
      /\ inbox' = [i \in Interfaces |-> IF i \in sockets THEN Tail(inbox[i]) ELSE inbox[i]]
      /\ received' = [n \in 1..MaxPackets |->
                        received[n] + Cardinality({i \in sockets : Head(inbox[i]).n = n /\ Accepts(i, Head(inbox[i]))})]
      /\ pc' = "sources"
      /\ UNCHANGED <<gEventSources, gEventFDs, ready, listenFDs, pDataDispatched, npackets, signalVars>>

Reported == SelectSeq(gEventSources, LAMBDA f : f \in listenFDs)

(* The callback of the first source that was reported, and of no other,     *)
(* since it may change the list.                                            *)
First == IF Reported = <<>> THEN {} ELSE {Reported[1]}

Accept(fd) ==
  /\ ready' = ready \ {Listener}
  /\ IF \E c \in Clients : c \notin gEventFDs
     THEN \E c \in Clients \ gEventFDs :
            /\ gEventSources' = mDNSPosixAddFDToEventLoop(gEventSources, c)
            /\ gEventFDs' = gEventFDs \cup {c}
     ELSE UNCHANGED <<gEventSources, gEventFDs>>

(* Every message that has come is read; or the client has gone.             *)
request_callback(fd) ==
  /\ ready' = ready \ {fd}
  /\ \/ UNCHANGED <<gEventSources, gEventFDs>>
     \/ /\ gEventSources' = mDNSPosixRemoveFDFromEventLoop(gEventSources, fd)
        /\ gEventFDs' = gEventFDs \ {fd}

Callback(fd) ==
  /\ fd \in First
  /\ \/ fd = Listener /\ Accept(fd)
     \/ fd = Notifier /\ ready' = ready \ {fd} /\ UNCHANGED <<gEventSources, gEventFDs>>
     \/ fd \in Clients /\ request_callback(fd)

Dispatch(fd) ==
  /\ pc = "sources"
  /\ Callback(fd)
  /\ pc' = "block"
  /\ UNCHANGED <<listenFDs, pDataDispatched, packetVars, signalVars>>

DispatchNone ==
  /\ pc = "sources" /\ First = {}
  /\ pc' = "block"
  /\ UNCHANGED <<gEventSources, gEventFDs, ready, listenFDs, pDataDispatched, packetVars, signalVars>>

---------------------------------------------------------------------------
(* The kernel                                                               *)

Data(fd) ==
  /\ fd \in gEventFDs
  /\ ready' = ready \cup {fd}
  /\ UNCHANGED <<gEventSources, gEventFDs, listenFDs, pDataDispatched, packetVars, signalVars, pc>>

(* A multicast packet is queued at every socket that has joined the group,  *)
(* whatever interface it came through.                                      *)
Packet(i) ==
  /\ npackets < MaxPackets
  /\ npackets' = npackets + 1
  /\ inbox' = [j \in Interfaces |-> Append(inbox[j], [n |-> npackets + 1, through |-> i])]
  /\ UNCHANGED <<gEventSources, gEventFDs, ready, listenFDs, pDataDispatched, received, signalVars, pc>>

LoopInit ==
  /\ gEventSources = <<Notifier, Listener>> /\ gEventFDs = {Notifier, Listener}
  /\ gEventSignals = {} /\ blocked = FALSE /\ pending = {} /\ pSignalsReceived = {}
  /\ raised = {} /\ nraised = 0
  /\ ready = {} /\ listenFDs = {} /\ pDataDispatched = FALSE
  /\ inbox = [i \in Interfaces |-> <<>>] /\ npackets = 0
  /\ received = [n \in 1..MaxPackets |-> 0]
  /\ pc = "top"

Main ==
  \/ Select \/ mDNSPosixProcessFDSet \/ DispatchNone \/ (\E fd \in Fds : Dispatch(fd))
  \/ Block \/ Copy \/ Empty \/ Unblock \/ Act

LoopNext ==
  \/ Main
  \/ \E sig \in Signals : NoteSignal(sig)
  \/ \E fd \in Fds : Data(fd)
  \/ \E i \in Interfaces : Packet(i)

LoopSpec == LoopInit /\ [][LoopNext]_loopVars
(* The process is given time, and select has a timeout.                     *)
LoopFairSpec == LoopSpec /\ WF_loopVars(Main)

---------------------------------------------------------------------------
(* Properties                                                               *)

(* The set select is given is the one of the sources in the list, each of   *)
(* which is there once.                                                     *)
LoopTypeOK ==
  /\ gEventFDs = {gEventSources[i] : i \in DOMAIN gEventSources}
  /\ Len(gEventSources) = Cardinality(gEventFDs)
  /\ listenFDs \subseteq Fds \cup Interfaces
  /\ pc \in {"top", "sockets", "sources", "block", "copy", "empty", "unblock", "act", "stopped"}
  /\ \A n \in 1..MaxPackets : received[n] \in 0..Cardinality(Interfaces)

(* A signal that has been raised is noted somewhere until it is acted upon, *)
(* whenever it comes: between the copy and the clearing of the set too.     *)
SignalsAreKept == raised \subseteq pending \cup gEventSignals \cup pSignalsReceived

(* Every socket hears every packet, and still the core gets each of them    *)
(* once, when all have been read.                                           *)
EachPacketOnce ==
  \A n \in 1..npackets :
    /\ received[n] <= 1
    /\ (\A i \in Interfaces : \A k \in DOMAIN inbox[i] : inbox[i][k].n # n) => received[n] = 1

(* A source with something to read has its callback called in the end, or   *)
(* those before it in the list have something to read again and again.      *)
Before(fd) == {gEventSources[i] : i \in 1..(CHOOSE k \in DOMAIN gEventSources : gEventSources[k] = fd) - 1}
SourcesAreServed ==
  \A fd \in Fds :
    \/ []<><<Dispatch(fd)>>_loopVars
    \/ []<>(fd \notin ready \/ fd \notin gEventFDs)
    \/ []<>(fd \in gEventFDs /\ Before(fd) \cap ready # {})
    \/ <>(pc = "stopped")

(* A signal that has been raised is acted upon.                             *)
SignalsAreActedOn == \A sig \in Signals : sig \in raised ~> (sig \notin raised \/ pc = "stopped")
=============================================================================

-------------------------------- MODULE CtTcp --------------------------------
(* The stream sockets of ct_socket.c and the selector over them: clients    *)
(* that connect without waiting and write, and a server that accepts and    *)
(* reads whatever CtSelector says is readable.                              *)
(*                                                                          *)
(* A call that loops is as many steps as it makes calls of the kernel; the  *)
(* kernel finishes handshakes and moves bytes between any two of them.      *)
EXTENDS Integers, FiniteSets

CONSTANTS
  TcpClients,
  Listener,             \* the server's descriptor to accept from
  MaxConns,             \* of ct_tcp_listen
  Room,                 \* the bytes a stream holds
  Lengths,              \* of the calls of ct_tcp_write
  ReadLength,           \* of those of ct_tcp_read
  ServerBlocks,         \* whether accepted sockets are left blocking
  MaxWrites             \* bounds the calls of ct_tcp_write of a client

VARIABLES
  sock,                 \* each client's socket
  told,                 \* what its ct_tcp_waiting_for_connected said
  write,                \* its ct_tcp_write under way
  writes,
  backlog,              \* those that wait to be accepted
  conn,                 \* the server's end
  stream,               \* the bytes between the two
  entered,              \* those the kernel took
  lost,                 \* those it threw away with a connection
  selected,             \* CtSelector's read_set
  read,                 \* the server's ct_tcp_read under way
  got,                  \* what it has returned
  server                \* where the server is
clientSide == <<sock, told, write, writes>>
serverSide == <<selected, read, got, server>>
tcpVars == <<sock, told, write, writes, backlog, conn, stream, entered, lost, selected, read, got, server>>

None == [c |-> Listener, left |-> 0, done |-> 0]
Idle == [left |-> 0, done |-> 0, total |-> 0]

---------------------------------------------------------------------------
(* A client                                                                 *)

ct_tcp_open(c) ==
  /\ sock[c].state = "none"
  /\ \E block \in BOOLEAN : sock' = [sock EXCEPT ![c] = [state |-> "open", block |-> block, error |-> FALSE]]
  /\ UNCHANGED <<told, write, writes, backlog, conn, stream, entered, lost, serverSide>>

Accepting == server # "none" /\ Cardinality(backlog) < MaxConns

(* A blocking connect returns when it is known how it went; one that does   *)
(* not block returns CT_RET_OK as well when it has only begun.              *)
ct_tcp_async_connect(c) ==
  /\ sock[c].state = "open"
  /\ \/ /\ sock[c].block /\ Accepting
        /\ sock' = [sock EXCEPT ![c].state = "established"]
        /\ told' = [told EXCEPT ![c] = "connected"]
        /\ backlog' = backlog \cup {c}
     \/ /\ told' = [told EXCEPT ![c] = "disconnected"]
        /\ UNCHANGED <<sock, backlog>>
     \/ /\ ~sock[c].block
        /\ sock' = [sock EXCEPT ![c].state = "connecting"]
        /\ UNCHANGED <<told, backlog>>
  /\ UNCHANGED <<write, writes, conn, stream, entered, lost, serverSide>>

(* The kernel hears of the other side.                                      *)
Handshake(c) ==
  /\ sock[c].state = "connecting"
  /\ \/ Accepting /\ backlog' = backlog \cup {c} /\ sock' = [sock EXCEPT ![c].state = "established"]
     \/ sock' = [sock EXCEPT ![c].state = "refused", ![c].error = TRUE] /\ UNCHANGED backlog
  /\ UNCHANGED <<told, write, writes, conn, stream, entered, lost, serverSide>>

(* SO_ERROR, which the kernel clears when it has been read.                 *)
ct_socket_has_error(c) == sock[c].error

(* select says that the socket may be read or written, which it may be      *)
(* after a failure too.  While it says nothing the client comes back.       *)
ct_tcp_waiting_for_connected(c) ==
  /\ told[c] = "nothing" /\ sock[c].state \in {"established", "refused"}
  /\ told' = [told EXCEPT ![c] = IF ct_socket_has_error(c) THEN "disconnected" ELSE "connected"]
  /\ sock' = [sock EXCEPT ![c].error = FALSE]
  /\ UNCHANGED <<write, writes, backlog, conn, stream, entered, lost, serverSide>>

StartWrite(c) ==
  /\ told[c] = "connected" /\ sock[c].state = "established" /\ write[c].left = 0 /\ writes[c] < MaxWrites
  /\ \E n \in Lengths : write' = [write EXCEPT ![c] = [@ EXCEPT !.left = n, !.done = 0]]
  /\ writes' = [writes EXCEPT ![c] = @ + 1]
  /\ UNCHANGED <<sock, told, backlog, conn, stream, entered, lost, serverSide>>

(* n more bytes have been taken.                                            *)
Sent(w, n) == [left |-> w.left - n, done |-> w.done + n, total |-> w.total + n]

(* send takes some of the bytes: ct_tcp_write comes back with the rest.     *)
(* What a server that has hung up does not want is lost.                    *)
SendSome(c) ==
  /\ write[c].left > 0 /\ ~sock[c].error
  /\ \E n \in 1..write[c].left :
       /\ write' = [write EXCEPT ![c] = Sent(@, n)]
       /\ entered' = [entered EXCEPT ![c] = @ + n]
       /\ IF conn[c] = "closed"
          THEN /\ lost' = [lost EXCEPT ![c] = @ + n]
               /\ sock' = [sock EXCEPT ![c].error = TRUE]
               /\ UNCHANGED stream
          ELSE /\ stream[c] + n <= Room
               /\ stream' = [stream EXCEPT ![c] = @ + n]
               /\ UNCHANGED <<sock, lost>>
  /\ UNCHANGED <<told, writes, backlog, conn, serverSide>>

\* A bug: every error is taken for EAGAIN.
SendFails_Again(c) == write[c].left > 0 /\ sock[c].error /\ UNCHANGED tcpVars

(* Any error but EAGAIN ends the call, with the bytes sent so far.          *)
SendFails(c) ==
  /\ write[c].left > 0 /\ sock[c].error
  /\ write' = [write EXCEPT ![c].left = 0]
  /\ sock' = [sock EXCEPT ![c].error = FALSE, ![c].state = "broken"]
  /\ UNCHANGED <<told, writes, backlog, conn, stream, entered, lost, serverSide>>

ct_tcp_close(c) ==
  /\ sock[c].state \notin {"none", "closed", "connecting"} /\ write[c].left = 0
  /\ sock' = [sock EXCEPT ![c].state = "closed", ![c].error = FALSE]
  /\ UNCHANGED <<told, write, writes, backlog, conn, stream, entered, lost, serverSide>>

---------------------------------------------------------------------------
(* The server                                                               *)

ct_tcp_listen ==
  /\ server = "none"
  /\ server' = "register"
  /\ UNCHANGED <<clientSide, backlog, conn, stream, entered, lost, selected, read, got>>

Readable(c) == conn[c] = "open" /\ (stream[c] > 0 \/ sock[c].state \in {"closed", "broken"})
Ready(fds) == {fd \in fds : IF fd = Listener THEN backlog # {} ELSE Readable(fd)}

(* CtSelector_Reset, and CtSelector_Register of each descriptor.            *)
CtSelector_Register ==
  /\ server = "register"
  /\ selected' = {Listener} \cup {c \in TcpClients : conn[c] = "open"}
  /\ server' = "run"
  /\ UNCHANGED <<clientSide, backlog, conn, stream, entered, lost, read, got>>

(* What select leaves in the set.                                           *)
Selection(fds) == Ready(fds)

(* After a timeout nothing is left in the set; after a failure all of it    *)
(* is, and the server does not look.                                        *)
CtSelector_RunOnce ==
  /\ server = "run"
  /\ \/ selected' = Selection(selected) /\ server' = "serve"
     \/ server' = "register" /\ UNCHANGED selected
  /\ UNCHANGED <<clientSide, backlog, conn, stream, entered, lost, read, got>>

ct_tcp_accept ==
  /\ server = "serve" /\ Listener \in selected
  /\ \E c \in backlog :
       /\ backlog' = backlog \ {c}
       /\ conn' = [conn EXCEPT ![c] = "open"]
  /\ selected' = selected \ {Listener}
  /\ UNCHANGED <<clientSide, stream, entered, lost, read, got, server>>

StartRead(c) ==
  /\ server = "serve" /\ Listener \notin selected /\ c \in selected
  /\ selected' = selected \ {c}
  /\ read' = [c |-> c, left |-> ReadLength, done |-> 0]
  /\ server' = "reading"
  /\ UNCHANGED <<clientSide, backlog, conn, stream, entered, lost, got>>

Least(a, b) == IF a < b THEN a ELSE b

(* recv gives what is there: ct_tcp_read asks for the rest.                 *)
ReceiveSome ==
  LET c == read.c
      n == Least(read.left, stream[c])
  IN  /\ server = "reading" /\ read.left > 0 /\ stream[c] > 0
      /\ stream' = [stream EXCEPT ![c] = @ - n]
      /\ read' = [read EXCEPT !.left = @ - n, !.done = @ + n]
      /\ UNCHANGED <<clientSide, backlog, conn, entered, lost, selected, got, server>>

(* What ct_tcp_read returns, whatever it was that ended it.                 *)
Received == read.done

(* The length has been received, or recv returned 0 or an error, EAGAIN for *)
(* one.  The server takes an answer of 0 for the end.                       *)
ct_tcp_read ==
  LET c == read.c
  IN  /\ server = "reading"
      /\ read.left = 0 \/ (stream[c] = 0 /\ (~ServerBlocks \/ sock[c].state \in {"closed", "broken"}))
      /\ got' = [got EXCEPT ![c] = @ + Received]
      /\ conn' = IF Received = 0 THEN [conn EXCEPT ![c] = "closed"] ELSE conn
      /\ read' = None
      /\ server' = "serve"
      /\ UNCHANGED <<clientSide, backlog, stream, entered, lost, selected>>

Served ==
  /\ server = "serve" /\ selected = {}
  /\ server' = "register"
  /\ UNCHANGED <<clientSide, backlog, conn, stream, entered, lost, selected, read, got>>

(* The server closes a connection it has had enough of: what it has not     *)
(* read is lost, and the client gets an error.                              *)
HangUp(c) ==
  /\ server = "register" /\ conn[c] = "open"
  /\ conn' = [conn EXCEPT ![c] = "closed"]
  /\ lost' = [lost EXCEPT ![c] = @ + stream[c]]
  /\ stream' = [stream EXCEPT ![c] = 0]
  /\ sock' = [sock EXCEPT ![c].error = sock[c].state = "established" /\ stream[c] > 0]
  /\ UNCHANGED <<told, write, writes, backlog, entered, serverSide>>

TcpInit ==
  /\ sock = [c \in TcpClients |-> [state |-> "none", block |-> FALSE, error |-> FALSE]]
  /\ told = [c \in TcpClients |-> "nothing"]
  /\ write = [c \in TcpClients |-> Idle] /\ writes = [c \in TcpClients |-> 0]
  /\ backlog = {} /\ conn = [c \in TcpClients |-> "none"]
  /\ stream = [c \in TcpClients |-> 0] /\ entered = [c \in TcpClients |-> 0] /\ lost = [c \in TcpClients |-> 0]
  /\ selected = {} /\ read = None /\ got = [c \in TcpClients |-> 0] /\ server = "none"

Client(c) ==
  \/ ct_tcp_open(c) \/ ct_tcp_async_connect(c) \/ Handshake(c) \/ ct_tcp_waiting_for_connected(c)
  \/ StartWrite(c) \/ SendSome(c) \/ SendFails(c) \/ ct_tcp_close(c)
Server ==
  \/ CtSelector_Register \/ CtSelector_RunOnce \/ ct_tcp_accept \/ ReceiveSome \/ ct_tcp_read \/ Served
  \/ \E c \in TcpClients : StartRead(c)

TcpNext ==
  \/ \E c \in TcpClients : Client(c) \/ HangUp(c)
  \/ ct_tcp_listen \/ Server

TcpSpec == TcpInit /\ [][TcpNext]_tcpVars
(* Both processes go on; select does not fail for ever while there is       *)
(* something to read.                                                       *)
TcpFairness ==
  /\ WF_tcpVars(Server)
  /\ SF_tcpVars(CtSelector_RunOnce /\ server' = "serve")
  /\ \A c \in TcpClients : WF_tcpVars(SendSome(c)) /\ WF_tcpVars(SendFails(c))

---------------------------------------------------------------------------
(* Properties                                                               *)

TcpTypeOK ==
  /\ sock \in [TcpClients -> [state : {"none", "open", "connecting", "established", "refused", "broken", "closed"},
                              block : BOOLEAN, error : BOOLEAN]]
  /\ told \in [TcpClients -> {"nothing", "connected", "disconnected"}]
  /\ backlog \subseteq {c \in TcpClients : conn[c] = "none"}
  /\ Cardinality(backlog) <= MaxConns
  /\ stream \in [TcpClients -> 0..Room]
  /\ selected \subseteq {Listener} \cup TcpClients
  /\ read.c \in {Listener} \cup TcpClients
  /\ server \in {"none", "register", "run", "serve", "reading"}

(* What ct_tcp_write and ct_tcp_read return adds up: every byte reported as *)
(* sent is on its way, reported as received, or lost with a connection that *)
(* the server broke, however often a call was cut short.                    *)
BytesAreCounted ==
  \A c \in TcpClients :
    /\ write[c].total = entered[c]
    /\ entered[c] = got[c] + stream[c] + lost[c] + (IF read.c = c THEN read.done ELSE 0)

(* A client that has been told it is connected is, or was.                  *)
ConnectedIsTrue == \A c \in TcpClients : told[c] = "connected" => c \in backlog \/ conn[c] # "none"

(* The server acts only on descriptors that have something for it: neither  *)
(* accept nor the first recv waits or says EAGAIN, so that an answer of 0   *)
(* is the end of the stream.                                                *)
SelectedIsReady == server = "serve" => Ready(selected) = selected

(* Every ct_tcp_write returns, the server reading as it does.               *)
WritesReturn == \A c \in TcpClients : (write[c].left > 0 /\ conn[c] # "none") ~> write[c].left = 0
=============================================================================

------------------------------ MODULE ProxyServer ------------------------------
(***************************************************************************)
(* The life of the proxy process, from the constructor of Server on:       *)
(* Server (src/src/server.cpp), ConnectionManager                          *)
(* (src/src/connection_manager.cpp), the asynchronous operations of        *)
(* Connection (src/src/connection.cpp), the flushing of PacketLogger and   *)
(* the exit paths of main (src/src/main.cpp).                              *)
(*                                                                         *)
(* Boost.Asio is external and modelled by its contract.  An operation is   *)
(* initiated ("pending"), completes with a result and is queued; the       *)
(* single thread in io_context::run takes completed operations in FIFO     *)
(* order and runs their handlers.  Closing a socket completes the pending  *)
(* operations on it with operation_aborted, but leaves an operation that   *)
(* has already completed, and whose handler waits in the queue, as it is:  *)
(* the case server.cpp:83 guards against.                                  *)
(*                                                                         *)
(* An aborted operation's handler returns without touching any object, so  *)
(* its place in the queue cannot be observed and it is not put into queue. *)
(*                                                                         *)
(* Handlers capture a raw "this".  A handler that touches a connection     *)
(* that has been destroyed is undefined behaviour: proc = "undefined" is a *)
(* sink that stands for every outcome, and nothing is claimed after it.    *)
(***************************************************************************)
EXTENDS Naturals, Sequences, FiniteSets

CONSTANTS
  Conn,      \* the Connection objects the process may create
  Listener,  \* owner of the accept and signal operations
  FdLimit    \* sockets the process may have open besides the acceptor

ASSUME ServerAssumption ==
  /\ Listener \notin Conn
  /\ IsFiniteSet(Conn)
  /\ FdLimit \in Nat

Side == {"client", "server"}

Accept        == <<Listener, "accept">>
Signal        == <<Listener, "signal">>
Connect(c)    == <<c, "connect">>
Receive(c, s) == <<c, s>>

ConnOps(c) == {Connect(c)} \cup {Receive(c, s) : s \in Side}
Op         == {Accept, Signal} \cup UNION {ConnOps(c) : c \in Conn}

Completed == {"ok", "error"}
OpState   == {"idle", "pending", "aborted"} \cup Completed

Free == <<Listener, "free">>  \* the thread is not inside a blocking call

VARIABLES
  proc,           \* in the constructor, in run(), or how the process has ended
  acceptor_open,  \* m_acceptor.is_open()
  life,           \* is the object unused, in m_connections, or destroyed?
  op,             \* state of every asynchronous operation
  queue,          \* completed operations whose handler has not run
  transferring,   \* sides whose outstanding receive is that of do_transfer
  thread,         \* the receive whose handler blocks in send(), or Free
  unflushed       \* connections with log lines still in the stream's buffer

vars == <<proc, acceptor_open, life, op, queue, transferring, thread, unflushed>>

Managed == {c \in Conn : life[c] = "managed"}  \* m_connections

\* A managed connection holds two descriptors, an accepted socket that waits for
\* its handler one.
OpenFds == 2 * Cardinality(Managed) + (IF op[Accept] = "ok" THEN 1 ELSE 0)

Alive == proc \in {"starting", "running"}

-----------------------------------------------------------------------------
(* Boost.Asio and the operating system.                                     *)

Complete(o, result) ==
  /\ Alive
  /\ op[o] = "pending"
  /\ op' = [op EXCEPT ![o] = result]
  /\ queue' = Append(queue, o)
  /\ UNCHANGED <<proc, acceptor_open, life, transferring, thread, unflushed>>

\* A client connects.  Without a free descriptor the accept fails.
ClientConnects ==
  \/ /\ OpenFds < FdLimit
     /\ \E c \in Conn : life[c] = "unused"
     /\ Complete(Accept, "ok")
  \/ Complete(Accept, "error")

SignalArrives == Complete(Signal, "ok")

ConnectCompletes(c) == \E r \in Completed : Complete(Connect(c), r)

\* Bytes have arrived, or the peer has closed or reset the connection.
ReceiveCompletes(c, s) == \E r \in Completed : Complete(Receive(c, s), r)

\* Closing: the pending operations of S are aborted.
Cancel(S) == [o \in Op |-> IF o \in S /\ op[o] = "pending" THEN "aborted" ELSE op[o]]

\* Mutant: the receive is not started again after a transfer.
async_read_some_Forgotten == "idle"

\* do_transfer reads more data from "this side".
async_read_some == "pending"

\* The thread is about to run the handler of the completed operation o.
Turn(o) ==
  /\ proc = "running"
  /\ thread = Free
  /\ queue # << >>
  /\ o = Head(queue)

\* The handler of an aborted operation returns at once: the handlers of
\* Connection test the error first, the accept handler finds the acceptor closed.
HandleAborted(o) ==
  /\ proc = "running"
  /\ thread = Free
  /\ op[o] = "aborted"
  /\ op' = [op EXCEPT ![o] = "idle"]
  /\ UNCHANGED <<proc, acceptor_open, life, queue, transferring, thread, unflushed>>

\* The managed connections are destroyed.
DestroyAll == [c \in Conn |-> IF life[c] = "managed" THEN "destroyed" ELSE life[c]]

\* Mutant: what is in the buffer of the log stream stays there.
flush_Forgotten == unflushed

\* PacketLogger::flush, and the destruction of m_log_file.  Here it matters only
\* that they are called in time; that they may fail is the subject of PacketLogger.
flush == {}

\* Mutant: only the client socket is closed.
CloseSockets_OneOnly(c) == Cancel({Receive(c, "client")})

\* Mutant: everything the process waits for is cancelled, the signals included.
CloseSockets_All(c) == Cancel(Op)

\* Connection::stop
CloseSockets(c) == Cancel(ConnOps(c))

\* An exception leaves Server::Server or io_context::run: main catches it, and unwinding destroys
\* the Server.  The log file is flushed and closed, the connections are
\* destroyed, the queued handlers are destroyed without being called.
Unwind ==
  /\ proc' = "exception"
  /\ acceptor_open' = FALSE
  /\ life' = DestroyAll
  /\ op' = [o \in Op |-> "idle"]
  /\ queue' = << >>
  /\ thread' = Free
  /\ unflushed' = flush
  /\ UNCHANGED transferring

-----------------------------------------------------------------------------
(* Server::do_accept: the accept handler.                                   *)

\* Mutant: do_accept is not called again at the end of the handler.
do_accept_Forgotten == "idle"

do_accept == "pending"

\* Mutant: the handler does not ask whether the acceptor is still open.
is_open_NotAsked == TRUE

is_open == acceptor_open

\* The server was stopped by a signal before this handler had a chance to run:
\* the accepted socket, if any, is destroyed.
AcceptAfterStop ==
  /\ Turn(Accept)
  /\ ~is_open
  /\ op' = [op EXCEPT ![Accept] = "idle"]
  /\ queue' = Tail(queue)
  /\ UNCHANGED <<proc, acceptor_open, life, transferring, thread, unflushed>>

AcceptError ==
  /\ Turn(Accept)
  /\ is_open
  /\ op[Accept] = "error"
  /\ op' = [op EXCEPT ![Accept] = do_accept]
  /\ queue' = Tail(queue)
  /\ UNCHANGED <<proc, acceptor_open, life, transferring, thread, unflushed>>

\* ConnectionManager::start
insert(c) == [life EXCEPT ![c] = "managed"]

\* ConnectionManager::start inserts the connection, Connection::do_connect opens
\* its server socket and starts to connect it, and do_accept is called again.
StartConnection(c) ==
  /\ Turn(Accept)
  /\ is_open
  /\ op[Accept] = "ok"
  /\ life[c] = "unused"
  /\ OpenFds < FdLimit
  /\ life' = insert(c)
  /\ op' = [op EXCEPT ![Connect(c)] = "pending", ![Accept] = do_accept]
  /\ queue' = Tail(queue)
  /\ UNCHANGED <<proc, acceptor_open, transferring, thread, unflushed>>

\* m_server_socket.open() throws when no descriptor is left.
StartThrows ==
  /\ Turn(Accept)
  /\ is_open
  /\ op[Accept] = "ok"
  /\ OpenFds >= FdLimit
  /\ Unwind

-----------------------------------------------------------------------------
(* Server::Server after do_await_stop, Server::do_await_stop and Server::run. *)

\* The addresses are resolved, the acceptor listens and the first accept is
\* started; main calls run().
Listen ==
  /\ proc = "starting"
  /\ proc' = "running"
  /\ acceptor_open' = TRUE
  /\ op' = [op EXCEPT ![Accept] = "pending"]
  /\ UNCHANGED <<life, queue, transferring, thread, unflushed>>

\* An address is not resolved, or the acceptor cannot be opened or bound.
ListenThrows == proc = "starting" /\ Unwind

\* Mutant: the acceptor is not closed with the connections.
StopAllButAcceptor ==
  /\ Turn(Signal)
  /\ op' = [Cancel(UNION {ConnOps(c) : c \in Managed}) EXCEPT ![Signal] = "idle"]
  /\ life' = DestroyAll
  /\ unflushed' = flush
  /\ queue' = Tail(queue)
  /\ UNCHANGED <<proc, acceptor_open, transferring, thread>>

\* The signal handler closes the acceptor; ConnectionManager::stop_all closes
\* the sockets of every connection and drops the last reference to it.
StopAll ==
  /\ Turn(Signal)
  /\ acceptor_open' = FALSE
  /\ op' = [Cancel({Accept} \cup UNION {ConnOps(c) : c \in Managed})
              EXCEPT ![Signal] = "idle"]
  /\ life' = DestroyAll
  /\ unflushed' = flush
  /\ queue' = Tail(queue)
  /\ UNCHANGED <<proc, transferring, thread>>

\* io_context::run returns once no operation is outstanding.
RunReturns ==
  /\ proc = "running"
  /\ thread = Free
  /\ \A o \in Op : op[o] = "idle"
  /\ proc' = "exited"
  /\ UNCHANGED <<acceptor_open, life, op, queue, transferring, thread, unflushed>>

-----------------------------------------------------------------------------
(* Connection.                                                              *)

\* The connect handler: do_receive starts a receive on both sockets.
Connected(c) ==
  /\ Turn(Connect(c))
  /\ op[Connect(c)] = "ok"
  /\ life[c] = "managed"
  /\ op' = [op EXCEPT ![Connect(c)] = "idle",
                      ![Receive(c, "client")] = "pending",
                      ![Receive(c, "server")] = "pending"]
  /\ queue' = Tail(queue)
  /\ UNCHANGED <<proc, acceptor_open, life, transferring, thread, unflushed>>

\* The connect handler, and the handlers do_receive installs, ignore errors.
\* Mutant: the handlers do_transfer installs ignore errors as well.
IgnoresErrorAlways(c, o) == o \in ConnOps(c)

IgnoresError(c, o) ==
  \/ o = Connect(c)
  \/ \E s \in Side \ transferring[c] : o = Receive(c, s)

IgnoreError(c, o) ==
  /\ Turn(o)
  /\ op[o] = "error"
  /\ IgnoresError(c, o)
  /\ op' = [op EXCEPT ![o] = "idle"]
  /\ queue' = Tail(queue)
  /\ UNCHANGED <<proc, acceptor_open, life, transferring, thread, unflushed>>

\* A receive handler of do_transfer reports an error of the connection:
\* ConnectionManager::stop closes both sockets and erases the connection, the
\* log is flushed, and the connection is destroyed.
StopConnection(c, s) ==
  /\ Turn(Receive(c, s))
  /\ op[Receive(c, s)] = "error"
  /\ s \in transferring[c]
  /\ life[c] = "managed"
  /\ op' = [CloseSockets(c) EXCEPT ![Receive(c, s)] = "idle"]
  /\ life' = [life EXCEPT ![c] = "destroyed"]
  /\ unflushed' = flush
  /\ queue' = Tail(queue)
  /\ UNCHANGED <<proc, acceptor_open, transferring, thread>>

\* Bytes have been received on the side s: Connection::do_transfer runs.
Transfers(c, s) ==
  /\ Turn(Receive(c, s))
  /\ op[Receive(c, s)] = "ok"
  /\ life[c] = "managed"

\* do_packet_logging may write a line for the client's bytes.
Logs(c, s) ==
  \/ UNCHANGED unflushed
  \/ s = "client" /\ unflushed' = unflushed \cup {c}

\* send() succeeds and the next receive is started.
Transfer(c, s) ==
  /\ Transfers(c, s)
  /\ Logs(c, s)
  /\ op' = [op EXCEPT ![Receive(c, s)] = async_read_some]
  /\ transferring' = [transferring EXCEPT ![c] = @ \cup {s}]
  /\ queue' = Tail(queue)
  /\ UNCHANGED <<proc, acceptor_open, life, thread>>

\* Mutant: the next receive is started before the bytes of the last one are sent.
TransferBlocks_ReadsOn(c, s) ==
  /\ Transfers(c, s)
  /\ Logs(c, s)
  /\ op' = [op EXCEPT ![Receive(c, s)] = "pending"]
  /\ thread' = Receive(c, s)
  /\ queue' = Tail(queue)
  /\ UNCHANGED <<proc, acceptor_open, life, transferring>>

\* send() waits for the other peer to take bytes, and with it the only thread.
TransferBlocks(c, s) ==
  /\ Transfers(c, s)
  /\ Logs(c, s)
  /\ op' = [op EXCEPT ![Receive(c, s)] = "idle"]
  /\ thread' = Receive(c, s)
  /\ queue' = Tail(queue)
  /\ UNCHANGED <<proc, acceptor_open, life, transferring>>

\* The peer takes the bytes: send() returns and the next receive is started.
SendResumes(c, s) ==
  /\ proc = "running"
  /\ thread = Receive(c, s)
  /\ op' = [op EXCEPT ![Receive(c, s)] = async_read_some]
  /\ transferring' = [transferring EXCEPT ![c] = @ \cup {s}]
  /\ thread' = Free
  /\ UNCHANGED <<proc, acceptor_open, life, queue, unflushed>>

\* "BAD packet" is thrown by the collector, or send() throws because the other
\* peer has gone.
TransferThrows(c, s) == Transfers(c, s) /\ Unwind

\* The other peer goes away while send() waits for it: send() throws.
SendThrows(c, s) ==
  /\ proc = "running"
  /\ thread = Receive(c, s)
  /\ Unwind

\* A handler that uses the connection runs after the connection was destroyed.
UseDestroyed(c, o) ==
  /\ Turn(o)
  /\ op[o] \in Completed
  /\ op[o] = "error" => ~IgnoresError(c, o)
  /\ life[c] = "destroyed"
  /\ proc' = "undefined"
  /\ UNCHANGED <<acceptor_open, life, op, queue, transferring, thread, unflushed>>

-----------------------------------------------------------------------------

\* Server::Server has called do_await_stop.
Init ==
  /\ proc = "starting"
  /\ acceptor_open = FALSE
  /\ life = [c \in Conn |-> "unused"]
  /\ op = [o \in Op |-> IF o = Signal THEN "pending" ELSE "idle"]
  /\ queue = << >>
  /\ transferring = [c \in Conn |-> {}]
  /\ thread = Free
  /\ unflushed = {}

\* The peers and the operating system.
Environment ==
  \/ ClientConnects
  \/ SignalArrives
  \/ \E c \in Conn : ConnectCompletes(c)
  \/ \E c \in Conn, s \in Side :
       ReceiveCompletes(c, s) \/ SendResumes(c, s) \/ SendThrows(c, s)

\* The handlers that move no bytes.
Handlers ==
  \/ AcceptAfterStop
  \/ AcceptError
  \/ StartThrows
  \/ StopAll
  \/ RunReturns
  \/ \E o \in Op : HandleAborted(o)
  \/ \E c \in Conn : Connected(c)
  \/ \E c \in Conn : \E o \in ConnOps(c) : IgnoreError(c, o) \/ UseDestroyed(c, o)
  \/ \E c \in Conn, s \in Side : StopConnection(c, s)

\* One round of the loop of io_context::run.
RunOne ==
  \/ Handlers
  \/ \E c \in Conn : StartConnection(c)
  \/ \E c \in Conn, s \in Side :
       Transfer(c, s) \/ TransferBlocks(c, s) \/ TransferThrows(c, s)

\* The process has ended.
Ended == ~Alive /\ UNCHANGED vars

Next == Environment \/ Listen \/ ListenThrows \/ RunOne \/ Ended

Spec == Init /\ [][Next]_vars

\* resolve() and listen() return, and the thread of io_context::run keeps running
\* handlers; nothing is assumed of the peers.
FairSpec == Spec /\ WF_vars(Listen \/ ListenThrows) /\ WF_vars(RunOne)

-----------------------------------------------------------------------------
(* Properties.                                                              *)

(* TypeOK: every variable is in its type; in particular the wait for a signal *)
(* is never cancelled and never fails, whatever is closed.                    *)
TypeOK ==
  /\ proc \in {"starting", "running", "exited", "exception", "undefined"}
  /\ acceptor_open \in BOOLEAN
  /\ life \in [Conn -> {"unused", "managed", "destroyed"}]
  /\ op \in [Op -> OpState]
  /\ op[Signal] \in {"idle", "pending", "ok"}
  /\ queue \in Seq(Op)
  /\ transferring \in [Conn -> SUBSET Side]
  /\ thread \in {Free} \cup {Receive(c, s) : c \in Conn, s \in Side}
  /\ unflushed \subseteq Conn

(* NothingAfterStop: once the signal handler has run, no connection is        *)
(* managed and none is ever started, although an accept may have completed    *)
(* before the acceptor was closed.                                            *)
NothingAfterStop == ~acceptor_open => Managed = {}

(* BuffersOutliveReceives: no receive or connect is outstanding on a destroyed*)
(* connection, so nothing is received into m_client_buffer or m_server_buffer *)
(* after they are gone.                                                       *)
BuffersOutliveReceives ==
  proc = "running" =>
    \A c \in Conn : \A o \in ConnOps(c) : op[o] = "pending" => life[c] = "managed"

(* AcceptOutstanding: "While the server is running, there is always at least  *)
(* one asynchronous operation outstanding: the asynchronous accept call"      *)
(* (server.cpp), whatever becomes of the connections and of failed accepts;   *)
(* hence run() only returns after the signal handler has run.                 *)
AcceptOutstanding ==
  /\ proc = "running" /\ acceptor_open => op[Accept] # "idle"
  /\ proc = "exited" => ~acceptor_open

(* ClosedMeansFlushed: lines that are not yet in the log file belong to       *)
(* connections that are still open; those of a closed connection, and all     *)
(* lines when the process ends by itself, have been flushed.                  *)
ClosedMeansFlushed ==
  proc # "undefined" => unflushed \subseteq Managed

(* TransfersGoOn: a side of an open connection that has transferred bytes     *)
(* always has its receive outstanding, or its handler waits in send(): no     *)
(* order of transfers, waits and failures leaves it managed but deaf, as a    *)
(* failed connect or a failed first receive does.                             *)
TransfersGoOn ==
  proc = "running" =>
    \A c \in Managed : \A s \in transferring[c] :
      op[Receive(c, s)] \in {"pending"} \cup Completed \/ thread = Receive(c, s)

\* The refinement mapping to ConnectionPool.  A process whose behaviour is
\* undefined has crashed, and its connections count as closed.
poolPhase ==
  CASE proc = "starting"                  -> "starting"
    [] proc = "running" /\ acceptor_open  -> "serving"
    [] proc = "running" /\ ~acceptor_open -> "stopping"
    [] proc = "exited"                    -> "finished"
    [] OTHER                              -> "crashed"

poolStatus ==
  [c \in Conn |-> IF life[c] = "unused" THEN "new"
                 ELSE IF c \in Managed /\ proc # "undefined" THEN "open"
                 ELSE "closed"]

Pool == INSTANCE ConnectionPool WITH phase <- poolPhase, status <- poolStatus

(* ImplementsPool: Server, ConnectionManager and the handlers of Connection   *)
(* implement the pool: whatever races with what, a connection is opened once, *)
(* by the server while it serves, closed once, and run() returns only after   *)
(* the stop.                                                                  *)
ImplementsPool == Pool!Spec

\* No send() blocks for ever.
SendsReturn == []<>(thread = Free)

(* ShutdownTerminates: if no send() blocks for ever, a signal ends the        *)
(* process, also one that arrives while the server is being constructed: run() *)
(* returns, because every operation is cancelled and none is started anew, or *)
(* the process has ended otherwise before.                                    *)
ShutdownTerminates ==
  SendsReturn => (op[Signal] = "ok" ~> ~Alive)

(* BrokenConnectionsAreStopped: if no send() blocks for ever, a connection    *)
(* whose transfer receive has failed is stopped and destroyed.                *)
BrokenConnectionsAreStopped ==
  SendsReturn =>
    \A c \in Conn : \A s \in Side :
      (op[Receive(c, s)] = "error" /\ s \in transferring[c])
         ~> (life[c] = "destroyed" \/ ~Alive)

(* StopCancelsAll: "The server is stopped by cancelling all outstanding       *)
(* asynchronous operations" (server.cpp): no handler runs on behalf of a      *)
(* connection that has been stopped and destroyed.                            *)
StopCancelsAll == proc # "undefined"

(* RunsUntilStopped: "Run the server until stopped" (main.cpp): once run() has *)
(* been entered, it is left only after the signal handler has closed the      *)
(* acceptor, not by an exception of a handler.  A constructor that throws     *)
(* before run() is another matter.                                            *)
RunsUntilStopped ==
  [][proc = "running" /\ proc' \in {"exited", "exception"} => ~acceptor_open]_vars

(* SignalStopsServer: the signals "indicate when the server should exit"      *)
(* (server.cpp): a signal ends the process, whatever the peers do.            *)
SignalStopsServer == op[Signal] = "ok" ~> ~Alive
=============================================================================

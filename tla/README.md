# A TLA+ verification of the Boost.Asio MySQL proxy

The program is a TCP proxy that stands between MySQL clients and one MySQL
server.  It forwards bytes in both directions and, on the way, recognises the
packets of the MySQL protocol and writes the client's commands to a log file.
Its own code is `src/src/*.cpp` and `src/src/*.hpp` (about 1 500 lines); the
rest of the repository builds Boost and the program.

This directory holds TLA+ modules that model that code, TLC configurations that
check them, and TLAPS proofs.

1. Inventory of the system
2. Modules, and how they correspond to the code
3. Runs: what is checked, with which bounds
4. Fairness
5. Theorems
6. What the checks found
7. What is not modelled
8. Plan

---

## 1. Inventory

| Component | Source | State | Operations |
|---|---|---|---|
| `MySqlCommand`, `MySqlResponse` | `packet.hpp`, `packet.cpp` | none (tables) | `is_valid`, `has_sql_field`, `name`, `get_response` |
| `MySqlPacket`, `FromClientPacket`, `FromServerPacket` | `packet.hpp`, `packet.cpp` | position in the packet, length, sequence id, received bytes, first part / not ended / received flags; command, SQL text | `collect` (one byte) and its hooks `connection_phase_parse`, `command_phase_parse`, `collect_data`, `data_is_received` |
| `Connection`, packet logging | `connection.cpp` | two collectors, one `m_connection_state` | `do_packet_logging` |
| `PacketLogger` | `packet_logger.cpp`, `.hpp` | an output stream with its buffer | `packet_logger`, `flush` |
| `Connection`, life cycle | `connection.cpp` | two sockets, two buffers | `start`/`do_connect`, `do_receive`, `do_transfer`, `stop` |
| `ConnectionManager` | `connection_manager.cpp` | `m_connections`, the set of shared pointers that keeps connections alive | `start`, `stop`, `stop_all` |
| `Server` | `server.cpp` | io_context, signal set, acceptor, the two objects above | constructor, `run`, `do_accept`, `do_await_stop` |
| `main` | `main.cpp` | none | run the server, catch what it throws |

How they interact.  Everything runs on one thread, inside `io_context::run`.
`Server` keeps one `async_accept` and one `async_wait` for signals outstanding.
An accepted socket becomes a `Connection`, inserted into the manager, which
connects to the MySQL server and then keeps one receive outstanding per side.
Each receive handler collects and logs the bytes, forwards them by a
*synchronous* `send()`, and starts the next receive.  A failed receive calls
back into `Server`, which asks the manager to stop and erase the connection and
flushes the log.  A signal closes the acceptor and stops all connections, after
which `run` should have nothing left to do.  An exception of any handler leaves
`run` and ends the program through `main`.

What is hard here:

* **Stream cutting.**  TCP cuts packets anywhere, and packets are cut again into
  parts of at most 0xffffff bytes, with an empty last part when the payload is
  an exact multiple.  The collector must keep count through all of it.
* **Two streams, one phase.**  Whether a client byte is a command depends on an
  OK packet in the *other* stream.
* **Handlers with a raw `this`.**  A handler can be queued before its connection
  is stopped and run after it.
* **One thread, blocking sends.**  One peer can hold up everybody.
* **Exceptions.**  One connection's error can end the process.
* **Shutdown.**  Accepts, connects and receives race with the signal, which may
  come before the server has been constructed.
* **Buffers and short sends.**  The buffer a blocked `send()` reads from is the
  one the next receive writes to, and `send()` may transmit less than it is given.
* **The log file.**  It can fail to open, fail in the middle of a line, be cut off
  by a kill, and is opened again by the next process.

What makes the components correct: the collector stays in step with the sender
(*Framing*), the SQL text is exact (*SqlTextExact*), the collectors agree on the
phase (*PhaseAgreement*), the log holds what was asked, once
(*LogsLatestCommand*, *LogAtMostOnce*); the collector sees, and the other peer
gets, the bytes that were sent (*CollectedIsStream*, *ForwardedIsLogged*,
*StreamIntact*, *BytesMove*); the log file has no holes, keeps what was
flushed, and has every line of a process that ended without a failure
(*FileIsPrefix*, *FlushedSurvives*, *LossMeansFailure*); the server
accepts until stopped (*AcceptOutstanding*), a connection that has transferred
bytes goes on receiving (*TransfersGoOn*), nothing survives or begins after the
stop (*NothingAfterStop*), no operation uses the memory of a destroyed
connection (*BuffersOutliveReceives*), the log is flushed in time (*ClosedMeansFlushed*), a
signal ends the process (*ShutdownTerminates*), and a broken connection is
cleaned up (*BrokenConnectionsAreStopped*).  Together the server and the manager
are a pool of connections (*ImplementsPool*).

The hazards, each with its line, are in `PROJECT.json`.

---

## 2. Modules

```
MySqlProtocol      tables of the protocol
  MySqlPacket      the collectors, as operators on records
    PacketStream   do_packet_logging + packet_logger, fed by two MySQL peers
      MCPacketStream       instance for TLC
      PacketStreamProofs   theorems: framing, phases, number of log lines
        RequestProofs      theorems: the text and the command that are logged
ConnectionPool     abstract specification of Server and ConnectionManager
ProxyServer        Server, ConnectionManager, Connection's handlers, main;
                   implements ConnectionPool
  MCProxyServer            instance for TLC
  ProxyServerProofs        theorems: safety, refinement of ConnectionPool
  Relay            the bytes Connection moves, on top of ProxyServer
    MCRelay                instance for TLC
    RelayProofs            theorems: refinement of ProxyServer, the bytes
PacketLogger       the log stream and the log file, over several runs
  PacketLoggerProofs       theorems
```

`PacketStream` and `ProxyServer` are separate state machines because they meet in
one place only: `do_transfer` calls `do_packet_logging`.  `PacketStream` looks into
that call byte by byte, for one connection; `ProxyServer` sees of it that it may write a
log line (`Logs`) or throw (`TransferThrows`), for many connections.  That the
call is not interleaved with another handler, which `PacketStream` assumes
through `busy`, is the one-thread rule of `ProxyServer` (`Turn`).  That the bytes
it is fed are the bytes the peer sent is shown in `Relay` (`CollectedIsStream`).
What happens to the lines it writes is the subject of `PacketLogger`.

### MySqlProtocol, MySqlPacket

The tables are operators over bytes.  A `MySqlPacket` object is a record:

| Field | Member |
|---|---|
| `state` | `m_packet_state` |
| `first_part`, `not_ended`, `is_received` | the flags of the same meaning |
| `length`, `sequence_id` | `m_payload_length`, `m_sequence_id` |
| `received` | the number of payload bytes collected of this part |
| `command`, `sql_receiving`, `sql` (`request`) | what `FromClientPacket` adds |

`collect(p, b)` is the `switch` of `MySqlPacket::collect`, one operator per case;
`client_collect` and `connection_phase_parse` are the virtual hooks it calls, in
the order it calls them.  The length is assembled from three bytes with shifts,
as in the code.  `MAX_PAYLOAD_LENGTH` is a constant (0xffffff in the code); the
proofs hold for every value up to that.

Note two things the code does that the model keeps: an empty part is completed
by the sequence-id byte *without* `data_is_received()`; and the "not ended" flag
depends only on the length of the part.

### PacketStream

One step is one iteration of the loop of `do_packet_logging`.  A call takes
1..`BUFFER_LENGTH` bytes of one stream; the step with the call's last byte also
tests `is_received()` and calls the logger.  TCP's freedom is the choice, after
each byte, of whether the call ends there.

The MySQL client and server are external.  `wire[s]` says which byte of which
packet the peer `s` sends next; `stage` is the conversation: the server greets,
client and server alternate until the server sends OK (or ERR, and closes),
and then the client sends commands.  It also sends "data" packets, which
follow a command without starting one (`LOAD DATA LOCAL`, authentication
answers after `COM_CHANGE_USER`), and the server sends results, at any time.
A payload changes `stage` only when its last byte has been forwarded, and a peer
only continues a call with bytes it may send without waiting for the other.

`asked`, `asking`, `finished` and `seen` are history: what the client really
sent.  They do not influence the proxy.

`thrown` is the exception "BAD packet".  `ProxyServer` models what happens to the
process then; here it is an end.

### ProxyServer

| Variable | Code |
|---|---|
| `proc` | in the constructor of `Server`, in `run()`, returned from it, or left by an exception; `"undefined"` after a use of a destroyed object |
| `acceptor_open` | `m_acceptor.is_open()` |
| `life[c]` | not created, in `m_connections`, destroyed |
| `op[o]`, `queue` | each asynchronous operation: not started, pending, completed and queued (ok/error), aborted |
| `transferring[c]` | sides whose handler is the one of `do_transfer`, not that of `do_receive`: they treat errors differently |
| `thread` | the receive whose handler waits in `send()` |
| `unflushed` | connections with lines in the buffer of the log stream |

One action is one whole handler: `AcceptAfterStop`, `AcceptError`,
`StartConnection`, `StartThrows` are the ways through the accept handler;
`StopAll` is the signal handler; `Connected` and `IgnoreError` the connect
handler; `Transfer`, `TransferBlocks` (with `SendResumes` and `SendThrows`),
`TransferThrows`, `StopConnection` and `IgnoreError` the receive handlers;
`RunReturns` and `Unwind` the two ends of `run`.  The initial state is the one in
which the constructor has called `do_await_stop`: from there on a signal may
arrive.  `Listen` is the rest of the constructor, `ListenThrows` its failure.

Only `send()` can be seen from outside in the middle of a handler, because it can
block; there the handler is split.

Boost.Asio is modelled by the contract the code relies on:

* completed operations are handled one at a time, in the order in which they
  completed;
* closing a socket completes its *pending* operations with `operation_aborted`;
  an operation that has completed already keeps its result, and its handler
  will be called with it;
* `run` returns when no operation is outstanding; an exception of a handler
  leaves `run`.

The handler of an aborted operation returns before it touches an object, so
its place in the queue makes no difference: `HandleAborted` may run at any time
and the operation is not put into `queue`.  This keeps the state space small.

A handler that reads or calls through the `this` of a destroyed connection is
undefined behaviour.  `UseDestroyed` then sets `proc = "undefined"`, from which
nothing further is modelled and about which the other properties say nothing.

The connections that are managed and the accepted socket that waits for its
handler use descriptors, of which there are `FdLimit`.

### ConnectionPool

What one would tell a user of the server: connections are opened, each once, while
the server serves; each is closed once; a stop closes all, and only then may the
server finish; the only other end is a crash.  The refinement mapping is `poolPhase` (from
`proc` and `acceptor_open`) and `poolStatus` (from `life`); a process that ended by
an exception or in undefined behaviour has crashed.  Everything else in
`ProxyServer`, operations, queue, blocked sends, is invisible.

### Relay

`Relay` extends `ProxyServer`: each of its actions is one of `ProxyServer`'s,
conjoined with what the handler does to the bytes, so that what is a free choice
there has a cause here.  A receive completes because bytes have arrived
(`ReceiveBytes`) or fails because the peer has finished or is gone
(`ReceiveFails`); `send()` blocks because the kernel holds `SendBuffer` bytes the
other peer has not taken (`RelayBlocks`), and throws because that peer is gone
(`SendFails`).

The bytes of each direction are numbered.  `buffer` is the whole array, with what
earlier receives left in it; `count` is `bytes_transferred`; `collected` and `out`
are what `do_packet_logging` has seen and what `send()` has accepted.  `short` is
history: some `send()` of this direction was short.  Sends can be short because
every socket has had an asynchronous operation started on it before the first
`send()`, for which Asio makes the descriptor non-blocking; its synchronous `send()`
then polls until the descriptor is writable and returns what one system call
has accepted.

### PacketLogger

`std::ofstream` is modelled by its buffer, the file it writes and its state, which
no code reads.  A line is inserted in two or three pieces (command, SQL text, end
of line), any part of the buffer may be written out at an insertion, and a failed
insertion makes the stream bad for good, so that later pieces are dropped.
`Open` truncates the file, as `open()` without `std::ios::app` does.  `Destroy` is
the destructor at the end of `main`, `Kill` an end without it; the stream is
`"saved"` after a destructor that has met no error.  `written` and
`lines` (what each process inserted) and `flushed` (what was flushed without an
error) are history.

---

## 3. Runs

### Passing

| Run | States | What it shows |
|---|---|---|
| `packet_stream` | 1 300 000 | the six properties of `PacketStream`, for all cuts of all bounded conversations |
| `proxy_server` | 823 000 | the safety properties of `ProxyServer` and the refinement of `ConnectionPool`, for every order of completions, failures and the signal |
| `proxy_liveness` | 43 500 | shutdown and clean-up, provided that sends return |
| `relay` | 180 000 | the properties of `Relay`, for every size of receive and send, wait, reset and rejected packet; bytes move, provided that sends return |
| `packet_logger` | 62 500 | the log file over two processes with failures and kills |

**Bounds of `packet_stream`.**  `MAX_PAYLOAD_LENGTH` = 8: the smallest value in
which a 7-byte OK packet is shorter than a full part.  The client's payload
lengths are {0, 2, 5, 8}: empty, short, the 5 bytes that tell `COM_STMT_CLOSE`
from `COM_STMT_FETCH`, and a full part (so 8+0, 8+2, 8+8... are multi-part
payloads); the server's are {1, 7, 8}.  4 packets of the client allow an
authentication packet, a two-part command and another packet after it, or three
packets after the first command; 3 packets of the server allow greeting, another
round or a notice, and the OK.  `BUFFER_LENGTH` = 3 lets a call end inside every
field and lets one call contain the end of one packet and the beginning of the
next.  Commands are `COM_QUERY` (SQL), `COM_STMT_EXECUTE` (none) and 0x19 (its
name depends on the length).  The first byte of a payload is chosen from {0, 3},
the bytes of an OK packet and of a `COM_QUERY`, so that data may look like a
command; other bytes are distinguished by position.
Deadlock is not checked: both peers may have nothing more to say.

**Bounds of `proxy_server`.**  Two connections, the least number with which one
can disturb another, and each may be used once; `FdLimit` = 4 is enough for
both, and makes a third accept fail.  The connections are symmetric.  The process ends
explicitly (`Ended`), so deadlock is checked: no reachable state is stuck.

**Bounds of `proxy_liveness`.**  `FdLimit` = 3, one descriptor too few for the second
connection: the accept succeeds and opening the server socket throws, which is
the case the first run cannot reach.  No symmetry, because liveness is checked.

**Bounds of `relay`.**  One connection: different connections share no bytes, and
what they do to each other through the thread is `proxy_server`'s subject.
`BUFFER_LENGTH` = 2, so that a receive may leave an old byte in the buffer;
`SendBuffer` = 1; the client sends 3 bytes: one that fills the kernel's store, one
that waits in a blocked `send()`, one that arrives meanwhile.  Two that are received
together make a short send.  The server sends one byte, enough to interleave, to
fail and to be failed on.  Deadlock is checked.

**Bounds of `packet_logger`.**  Two processes, the least for which one finds the
file of another; three lines each, so that a line can be lost between two others.
Deadlock is not checked: no process may be left to start.

Both limits on connections cap how many clients come; nothing in the code
depends on the number.

### Properties

*PacketStream*

* `Framing`: the collector knows the field that comes next, how much of the
  payload is left and whether it is continued; `is_received()` holds exactly
  between a completed payload and the next.
* `SqlTextExact`: while a command with an SQL text is being received,
  `m_sql_string` is what has been received of it, across parts and calls.
* `PhaseAgreement`: no packet of the authentication is parsed as a command, none
  of the commands as authentication.
* `LogAtMostOnce`: at most one line per payload.  Stale `is_received()` does not
  log again.
* `LogsLatestCommand`: a line is written only when the client has just completed a
  payload; it names the command sent last and has the whole text of an SQL
  command.  Of the packets that are not commands, only an empty one can write a
  line (it repeats the last command).  It is stated for data packets whose sequence
  id is not 0 (see section 6 on the wrap-around).

*ProxyServer*

* `NothingAfterStop`, `BuffersOutliveReceives`, `AcceptOutstanding`,
  `ClosedMeansFlushed`, `ShutdownTerminates`,
  `BrokenConnectionsAreStopped`: see section 1 and the comments at the
  definitions.
* `TransfersGoOn`: a side that has transferred bytes has its receive outstanding, or
  a `send()` in progress, as long as its connection is open.  It is not stated
  for the first receive, whose failure is ignored (section 6).
* `ImplementsPool`: every behaviour of the server is one of `ConnectionPool`.  This
  is also what is said of a connection whose connect or first receive has failed:
  nothing is outstanding on it, it stays in the pool, and the stop still closes it.

*Relay*

* `CollectedIsStream`: the collector sees the bytes as they were sent, none twice and
  none from the stale rest of the buffer.
* `ForwardedIsLogged`: nothing is forwarded that was not collected before, and nothing
  of a receive before all of it was collected: of a buffer that is rejected in the
  middle not even the bytes before that place are forwarded.  Nothing is reordered or
  repeated, even after a short send.
* `StreamIntact`: apart from short sends nothing is lost: when a receive is pending,
  everything received has been forwarded.
* `BytesMove`: bytes that arrive on a served connection are collected.

*PacketLogger*

* `FileIsPrefix`: the file is the beginning of what one process logged: no holes, and
  only the last line can be torn.
* `FlushedSurvives`: what was flushed without an error stays in the file when the
  process is killed.
* `LossMeansFailure`: as long as the stream is good, file and buffer together end with
  what this process has logged, and after an orderly end without an error the file
  does.  So a process loses lines of its own only after a failure or by a kill.
  Nothing is said of the lines of earlier processes: the next one truncates the file
  (section 6).

Every property of a passing run has a mutant: an operator in the module,
marked `Mutant:`, that changes one definition the way a plausible bug would, and
that TLC must find to violate the property.  The pairs are in `PROJECT.json`.

### Violations

Seven runs check a statement found in the repository's documentation or
comments that the code does not keep; see section 6.

---

## 4. Fairness

`FairSpec` adds weak fairness of `RunOne`: the thread inside `io_context::run`
continues to run handlers while there are any.  That is what `run` does.
`Listen \/ ListenThrows` is fair too: resolving and listening return or throw.
`RelayFairSpec` has fairness of the handlers and of `ReceiveBytes`: TCP delivers
what was sent to a receive that waits for it.
Otherwise nothing is assumed of the environment: clients may never connect, peers may
never send or take bytes, a pending receive may stay pending for ever.

A `send()` that blocks does so as long as the peer likes, so `ShutdownTerminates`,
`BrokenConnectionsAreStopped` and `BytesMove` have an explicit hypothesis, `SendsReturn`.
Without it the first fails: that is the run `signal_stops_server`.

In these properties "the process has ended" includes an exception and undefined
behaviour.  They say that nothing waits for ever, not that the end is a tidy
one; the runs `stop_cancels_all` and `runs_until_stopped` are about that.

---

## 5. Theorems

TLAPS proves, for all values of the constants that satisfy the named
assumptions:

| Module | Theorem | States |
|---|---|---|
| `PacketStreamProofs` | `TypeCorrect` | `Spec => []TypeOK` |
| | `FramingCorrect` | `Spec => []Framing` |
| | `LoggedOnce` | `Spec => []LogAtMostOnce` |
| | `PhasesAgree` | `Spec => []PhaseAgreement` |
| `RequestProofs` | `SqlTextIsExact` | `Spec => []SqlTextExact` |
| | `LogsOnlyLatest` | `Spec => LogsLatestCommand`, an action property, if the part limit is not 3, 5 or 9 |
| `ProxyServerProofs` | `TypeCorrect` | `Spec => []TypeOK` |
| | `ShutdownIsFinal` | `Spec => []NothingAfterStop` |
| | `ReceivesAreSafe` | `Spec => []BuffersOutliveReceives` |
| | `ServerKeepsAccepting` | `Spec => []AcceptOutstanding` |
| | `TransferIsServed` | `Spec => []TransfersGoOn` |
| | `LogIsFlushed` | `Spec => []ClosedMeansFlushed` |
| | `Implementation` | `Spec => Pool!Spec`, the refinement of `ConnectionPool` |
| `RelayProofs` | `RelayImplementsServer` | `RelaySpec => Spec`, the refinement of `ProxyServer` |
| | `RelayTypeCorrect` | `RelaySpec => []RelayTypeOK` |
| | `LogSeesStream` | `RelaySpec => []CollectedIsStream` |
| | `OnlyLoggedIsForwarded` | `RelaySpec => []ForwardedIsLogged` |
| | `NothingIsDropped` | `RelaySpec => []StreamIntact` |
| `PacketLoggerProofs` | `FileHasNoHoles` | `Spec => []FileIsPrefix` |
| | `FlushIsKept` | `Spec => []FlushedSurvives` |
| | `NothingIsLost` | `Spec => []LossMeansFailure` |

These are all the safety properties, state and action, that the passing runs
check.  The inductive invariants were checked by TLC on the bounds of section 3
before they were proved.

**Assumptions.**  `MaxPayloadAssumption`: the part limit is positive and fits
into three bytes, as 0xffffff does.  `StreamAssumption`: the buffer is not empty,
and the peers' lengths, commands and contents are lengths and bytes.
`ServerAssumption`: the connections are finitely many and differ from the
listener.  `RelayAssumption`: the buffers have room for a byte.
`LoggerAssumption`: the bounds on processes and lines are natural numbers.

**The packet stream.**  `Framing` is not inductive: that the collector holds the
right length in the body depends on what it held after each header byte.  The
invariant is `Sync`: for each stream `InStep(packet, wire, sent)`, whose part
`Collected` says what has been assembled of the length after each byte (`length
% 256`, `length % 65536`, `length`) and that the body counts agree.  `TypeOK`
and `Sync` are proved together, because the counters stay in their range only as
long as the collector is in step.  There is one lemma per header field and for
the body about a single collector and its sender (`Length0`, `Length1`,
`Length2`, `Sequence`, `Body`), one that lifts them to a step of the whole state
(`Advance`), and one per action.

`LoggedOnce` uses `LogBound`, `Len(log) <= seen <= finished`, where `seen` is the
number of payloads completed when the client's last call ended.  A call can log
only if it ends at a boundary (by `Sync`), where `finished` has grown since, as
a call is at least one byte long.

`PhasesAgree` uses `Phase`: the kinds of packet each peer may be in the middle
of in each stage, that an OK packet is at least seven bytes long, and that
`connection_state` is `COMMAND_PHASE` exactly from the first byte of the OK
packet on.  This byte arrives before the client's stage changes, which is why
the property is about the client's payloads and not about the stage.

**The request.**  `SqlTextExact` says what `m_sql_string` holds, but not that it
goes on growing with the text.  That depends on `m_is_sql_string_receiving`, which
the first byte of a command sets, in the command phase only, and which has to
survive the ends of the parts.  `RequestKnown` is the invariant: for the packet the
client is sending, `TextKnown` (command and text are those sent, and the flag is set
from the first byte to the last), `StartKnown` (a command is not empty and has
sequence id 0, a data packet has one of the ids for it), `AuthKnown` (the
authentication leaves no valid command behind), `LatestKnown` (a valid command is
that of the last request: a data packet with bytes invalidates it) and
`LengthKnown`.  It rests on the invariants of `PacketStreamProofs`: `Sync` for where
a packet begins and ends, `Phase` for how it is parsed.

`LengthKnown` is why `LogsOnlyLatest` has a hypothesis.  Two command bytes name two
commands each, told apart by the length of the packet, and the code looks at the
length of the *last part*.  If the part limit were one of these lengths (3, 5, 9), such
a command would be a full part followed by an empty one, and its name would be looked
up with the length 0.  The code's limit is 0xffffff.

**The server.**  `Safe` is the conjunction of the five properties and four more
conjuncts.  `AbortedMeansClosed`: an aborted accept means a closed acceptor, without
which `HandleAborted` could leave the open acceptor without an accept.
`StartsIdle`: nothing is open or pending while the server is constructed.
`NewIsUnused`: a connection that has not been created has transferred nothing, so
that `TransfersGoOn` holds of it when it is inserted.  `SenderIsManaged`: the
connection whose `do_transfer` waits in `send()` exists, so that the receive started
when `send()` returns has its buffer.

**The refinement.**  `PoolStep`: under `TypeOK /\ Safe` every step is a step of the
pool or leaves it alone.  Most steps leave `proc`, `acceptor_open` and `life`
alone and are stutters (`PoolStutters`); all exceptions, and the use of a destroyed
connection, are `Crash` (`PoolCrashes`).  The invariant is needed in three places:
a connection that is closed by its handler is closed while the server serves
(`NothingAfterStop`), `RunReturns` finds the acceptor closed (`AcceptOutstanding`),
and a signal handler that finds the acceptor closed has nothing to close.

**The bytes.**  `RelayStep` shows that each step of `Relay` is a step of
`ProxyServer` or a stutter, so that `RelaySpec => Spec` and every theorem above
holds of the process that moves bytes.

The properties about bytes are not inductive, because what a step may do depends on
where the bytes of the last receive are.  `Status(f)` says so from the state of the
handlers: in the buffer only (`"received"`), logged while `send()` waits (`"waiting"`),
logged and sent (`"forwarded"`); `"ended"` when the process is.  `Bytes` relates the
counters, the buffer, the log and what was sent for each status: for example, when
`"received"` the log ends where the buffer begins, and when `"waiting"`, or when the
log does not reach the end of the buffer, nothing of the buffer has been sent.  Its preservation is proved for constants, one lemma per thing
that can happen to a flow (`BytesReceive`, `BytesWait`, `BytesSent`, `BytesThrow`), and
lifted to the state by `FlowStep` (one flow moves) or `QuietStep` (none does).

Two facts about the handlers make the status change only as it should.
`WaitingIsIdle`: while `send()` waits, no receive of its flow is outstanding, hence
the buffer it reads from is not overwritten.  `ReceivesFollowConnect`: as long as the
connect has not been handled, no receive of the connection has been started, hence
`Connected` starts each once.  They are invariants of `ProxyServer` alone
(`HandlingStep`).

**The log file.**  `LogInv` looks at file and buffer together, because an overflow only
moves the border between them: while the stream is good, and after it was closed without an error, they are what the
process has inserted (`LogExact`, which is stronger than `LossMeansFailure` and
inductive with the rest), and a failure freezes them as a beginning of it (`LogBegun`).
`FlushedSurvives` needs that a flushed line has its last piece among the pieces
(`LinesEnd`), and that what was flushed belongs to a process already started
(`FlushedStarted`, `NothingBefore`), so that the next process does not begin with
lines flushed.

**Only model-checked.**  Liveness under fairness is outside TLAPS's reach:
`ShutdownTerminates`, `BrokenConnectionsAreStopped` and `BytesMove`.  The violations
of section 6 are counterexamples, found by TLC.

---

## 6. What the checks found

Each of these is a run with `expect` = `violation`; `PROJECT.json` quotes the
line of the repository it disagrees with.

* `log_complete`.  `is_received()` is tested once per receive, not once per
  packet.  A command that is followed by more bytes in the same receive (a
  pipelined client, `COM_STMT_CLOSE` followed by the next command) is not
  logged.  `README.md` of the repository promises all requests.
* `sql_string`.  A payload whose last part is empty is completed without
  `data_is_received()`.  The flag "collecting SQL" stays set, and the payload of
  the next command, of whatever kind, is logged as an SQL text.
* `bad_packet`.  A packet that follows a command without starting one, and whose
  first byte happens to be a command byte, is taken for a command.  With a
  sequence id other than 0 it is reported as a "BAD packet".  After 256 packets the
  id of the data of one command is 0 again, and then it is logged as a request
  nobody made (TLC shows this one with `DataSeqs = {0}` alone).  256 packets are
  beyond TLC; the packets in between are left out, each of which only replaces
  `m_command` and `m_sql_string`, as the last one does.
* `runs_until_stopped`.  That report, a `send()` to a peer that has gone, and the
  lack of a descriptor are exceptions that leave `run` and end the process for
  every connection.  The property is about the step that leaves `run`, with the
  acceptor still open: a constructor that throws before `run` is entered does not
  count.  In TLC's behaviour a client is accepted, its server connected, bytes are
  received, and `do_transfer` throws.
* `stop_cancels_all`.  A handler queued before its connection was stopped runs
  after the connection is destroyed.  Two sides that fail at about the same
  time are enough: the client closes, the server closes, the first handler
  destroys the connection, the second uses it.
* `signal_stops_server`.  A peer that takes no bytes blocks `send()`, and with it
  the signal handler.
* `forwards_received`.  A short `send()` loses the bytes it did not transmit: the
  peer gets a stream with a gap.  It takes a peer that is slower than the other
  sends.

Also seen while modelling:

* an empty packet outside a command is logged as a repetition of the last command;
* a failed connect, or a failed first receive, is ignored: the connection stays in
  `m_connections`, with its sockets open and no operation outstanding, until the
  server stops;
* a client that shuts down only its sending direction loses the answer, because end
  of file on one side closes both;
* nobody notices when the log file cannot be opened or written;
* a restart with the same file truncates it, also after one of the exceptions above:
  "all SQL requests" (`README.md` of the repository) are those since the last start.
  No property is about it; the open mode alone decides it;
* `flush()` hands the lines to the kernel; the comment at its declaration speaks of
  the storage device, for which nothing waits;
* `main` returns 0 after an exception.

---

## 7. What is not modelled

* **TLS and compression**, which the proxy does not recognise.
* **`PROXY_PACKET_DEBUG`**: printing, and a payload buffer only it uses.
* **The check of the number of arguments** in `main`, and all printing.
* **Failures of memory allocation**, and `close()` throwing.
* **What the peers get after a close.**  Bytes that the kernel still holds when a
  socket is closed may or may not reach the peer; `Relay` ends at the `send()`.
* **The page cache.**  The log file is what the kernel has been given; a loss of
  power is not modelled.
* The build system and the vendored `LibCMaker` libraries, with their sample
  programs, which are not part of the proxy.

---

## 8. Plan

Done: packet recognition and logging; the life of server and connections with its
abstract specification; the bytes; the log file.  Every operation of the program
that changes state is an action of a module.

All safety properties of the passing runs are proved (section 5).  Left for proofs:
what the code does keep of the statements that section 6 refutes, for instance that a
request which ends its receive is logged, and that a process with no failing peer and
enough descriptors is never left by an exception.

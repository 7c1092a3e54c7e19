----------------------------- MODULE PacketStream -----------------------------
(***************************************************************************)
(* Connection::do_packet_logging (src/src/connection.cpp) for one proxied  *)
(* connection, with PacketLogger::packet_logger (src/src/packet_logger.cpp)*)
(* behind it: two TCP byte streams cut at arbitrary places are fed to two  *)
(* packet collectors that share one connection state, and the requests of  *)
(* the client are written to the log.                                      *)
(*                                                                         *)
(* One step is one iteration of the loop of do_packet_logging.  A call     *)
(* consumes 1..BUFFER_LENGTH bytes of one stream; "busy" names the stream  *)
(* of the call under way, and no other handler runs until it ends, because *)
(* the io_context is served by a single thread.  The step that consumes    *)
(* the last byte of a call also does what follows the loop: the            *)
(* is_received() test, the logging and, from the peers' point of view, the *)
(* forwarding of the bytes by do_transfer.                                 *)
(*                                                                         *)
(* The two peers are external.  They obey the MySQL protocol as the source *)
(* describes it (packets of at most MAX_PAYLOAD_LENGTH bytes, a full one   *)
(* continued by the next; commands start at sequence id 0 and only after   *)
(* the server's OK), and "wire" records, for each of them, which byte of   *)
(* which packet comes next.                                                *)
(***************************************************************************)
EXTENDS MySqlPacket, FiniteSets

CONSTANTS
  BUFFER_LENGTH,   \* Connection::BUFFER_LENGTH
  PayloadLengths,  \* payload lengths of the packets of each peer
  Commands,        \* command bytes the client uses
  Contents,        \* bytes the peers use at each position of a payload
  DataSeqs,        \* sequence ids of the client packets that follow a command; those
                   \* with other ids, which set m_command anew, are left out
  MaxPackets       \* bound on the packets each peer sends

Stream == {"client", "server"}

ASSUME StreamAssumption ==
  /\ BUFFER_LENGTH \in Nat \ {0}
  /\ PayloadLengths \in [Stream -> SUBSET (0 .. MAX_PAYLOAD_LENGTH)]
  /\ Commands \subseteq {c \in Byte : is_valid(c)}
  /\ Contents \in [0 .. MAX_PAYLOAD_LENGTH - 1 -> SUBSET Byte]
  /\ DataSeqs \subseteq Byte
  /\ MaxPackets \in [Stream -> Nat]

VARIABLES
  packet,            \* base-class fields of m_client_packet, m_server_packet
  request,           \* the fields FromClientPacket adds
  connection_state,  \* m_connection_state, shared by both collectors
  log,               \* lines written to m_log_file
  thrown,            \* "BAD packet" left the handler: the program is stopping
  busy,              \* stream of the do_packet_logging call under way
  got                \* iterations that call has done

VARIABLES
  wire,              \* what each peer sends next
  sent,              \* packets each peer has started
  stage,             \* whose turn it is in the MySQL connection lifecycle
  asking,            \* the command the client is sending
  asked,             \* log lines of the commands the client has sent
  finished,          \* payloads the client has sent completely
  seen               \* value of finished when the last client call ended

proxyVars == <<packet, request, connection_state, log, thrown, busy, got>>
peerVars  == <<wire, sent, stage, asking, asked, finished, seen>>
vars      == <<proxyVars, peerVars>>

Field  == {"LENGTH_0", "LENGTH_1", "LENGTH_2", "SEQUENCE", "BODY"}
Kind   == {"auth", "command", "data",
           "challenge", "notice", "ok", "err", "result"}
Stage  == {"greeting", "server_auth", "client_auth", "command", "closed"}

Packet  == [state : PacketState, first_part : BOOLEAN, not_ended : BOOLEAN,
            is_received : BOOLEAN, length : 0 .. MAX_PAYLOAD_LENGTH,
            sequence_id : Byte, received : 0 .. MAX_PAYLOAD_LENGTH]
Request == [command : Byte, sql_receiving : BOOLEAN, sql : Seq(Byte)]
Wire    == [field : Field, kind : Kind, length : 0 .. MAX_PAYLOAD_LENGTH,
            sequence_id : Byte, first : BOOLEAN, pos : 0 .. MAX_PAYLOAD_LENGTH]
Line    == [command : {name(c, n) : c \in Byte, n \in 0 .. MAX_PAYLOAD_LENGTH},
            sql : Seq(Byte)]

-----------------------------------------------------------------------------
(* The peers.                                                               *)

\* What a peer may send when it starts a new payload.  Packets of kind "data"
\* follow a command without starting one: the contents of LOAD DATA LOCAL, the
\* authentication answers after COM_CHANGE_USER.
StartKinds(s, st) ==
  CASE s = "client" /\ st = "client_auth" -> {"auth"}
    [] s = "client" /\ st = "command"     ->
         {"command"} \cup (IF asked = {} \/ DataSeqs = {} THEN {} ELSE {"data"})
    [] s = "server" /\ st = "greeting"    -> {"challenge", "err"}
    [] s = "server" /\ st = "server_auth" -> {"challenge", "notice", "ok", "err"}
    [] s = "server" /\ st = "command"     -> {"result"}
    [] OTHER                              -> {}

\* Payload lengths of a first part.  The OK packet has at least seven bytes, the
\* client may send empty authentication answers and empty data packets.
StartLengths(s, kind) ==
  CASE kind = "ok"               -> {n \in PayloadLengths[s] : n >= 7}
    [] kind \in {"auth", "data"} -> PayloadLengths[s]
    [] OTHER                     -> PayloadLengths[s] \ {0}

StartSequenceIds(kind) ==
  CASE kind = "command" -> {0}
    [] kind = "data"    -> DataSeqs
    [] OTHER            -> {1}

\* First byte of a payload.
FirstBytes(kind, length) ==
  CASE kind = "command"   -> {c \in Commands :
                                /\ c = COM_STMT_RESET => length \in {3, 5}
                                /\ c = COM_STMT_CLOSE => length \in {5, 9}}
    [] kind = "challenge" -> {10, 1, EOF_BYTE}
    [] kind = "notice"    -> {1}
    [] kind = "ok"        -> {OK_BYTE}
    [] kind = "err"       -> {ERR_BYTE}
    [] OTHER              -> Contents[0]

\* Where a payload leaves the conversation once it has been forwarded.
StageAfter(kind) ==
  CASE kind = "challenge" -> "client_auth"
    [] kind = "auth"      -> "server_auth"
    [] kind = "ok"        -> "command"
    [] kind = "err"       -> "closed"
    [] OTHER              -> stage

\* The log line a command should leave.
AskedLine(a) == [command |-> name(a.command, a.length),
                 sql     |-> IF has_sql_field(a.command) THEN a.text ELSE << >>]

\* The peer of s has another byte to send at once.
HasMore(s, w, st, n) ==
  \/ w.field # "LENGTH_0"
  \/ n < MaxPackets[s] /\ (w.first => StartKinds(s, st) # {})

-----------------------------------------------------------------------------
(* The proxy.                                                               *)

\* PacketLogger::packet_logger for a client packet; packets of the server are
\* not logged.  A line without an SQL text has none in the file.
packet_logger(p, q) ==
  LET line == [command |-> get_command_string(p, q),
               sql     |-> IF has_sql_string(q) THEN q.sql ELSE << >>]
  IN  log' = IF line.command # NoName THEN Append(log, line) ELSE log

\* One iteration of the loop of Connection::do_packet_logging for the stream s.
CollectByte(s, b) ==
  /\ packet' = [packet EXCEPT ![s] = collect(@, b)]
  /\ IF s = "client"
     THEN /\ request' = client_collect(packet[s], request, b, connection_state)
          /\ UNCHANGED connection_state
     ELSE /\ connection_state' =
               connection_phase_parse(packet[s], b, connection_state)
          /\ UNCHANGED request

\* The rest of Connection::do_packet_logging, after the last byte of a call.
AfterLoop(s) ==
  IF s = "client" /\ packet'[s].is_received
  THEN packet_logger(packet'[s], request')
  ELSE UNCHANGED log

\* The byte b of the stream s, which leaves its sender in the state w, reaches
\* the proxy; last tells whether it is the last byte of its call.
do_packet_logging(s, b, w, last) ==
  /\ ~thrown
  /\ busy \in {"none", s}
  /\ IF s = "client" /\ BadPacket(packet[s], b, connection_state)
     THEN /\ thrown' = TRUE
          /\ UNCHANGED <<packet, request, connection_state, log, busy, got>>
     ELSE /\ CollectByte(s, b)
          /\ got + 1 = BUFFER_LENGTH => last
          /\ IF last THEN AfterLoop(s) ELSE UNCHANGED log
          /\ busy' = IF last THEN "none" ELSE s
          /\ got' = IF last THEN 0 ELSE got + 1
          /\ UNCHANGED thrown

\* The sender's side of the same byte.
Transmit(s, w, n) ==
  LET done == w.field = "LENGTH_0" /\ w.first
      st   == IF done THEN StageAfter(w.kind) ELSE stage
  IN  /\ wire' = [wire EXCEPT ![s] = w]
      /\ sent' = [sent EXCEPT ![s] = n]
      /\ stage' = st
      /\ finished' = IF done /\ s = "client" THEN finished + 1 ELSE finished

\* A byte of the stream s is sent, forwarded and collected.
Send(s, b, w, n) ==
  \E last \in BOOLEAN :
    /\ Transmit(s, w, n)
    /\ do_packet_logging(s, b, w, last)
    /\ ~last => HasMore(s, w, stage', n)
    /\ seen' = IF last /\ s = "client" THEN finished' ELSE seen

SendLength0(s) ==
  /\ wire[s].field = "LENGTH_0"
  /\ sent[s] < MaxPackets[s]
  /\ \E kind \in IF wire[s].first THEN StartKinds(s, stage) ELSE {wire[s].kind} :
     \E length \in IF wire[s].first THEN StartLengths(s, kind)
                  ELSE PayloadLengths[s] :
     \E id \in IF wire[s].first THEN StartSequenceIds(kind)
               ELSE {(wire[s].sequence_id + 1) % 256} :
       Send(s, length % 256,
            [wire[s] EXCEPT !.field = "LENGTH_1", !.kind = kind,
                            !.length = length, !.sequence_id = id, !.pos = 0],
            sent[s] + 1)
  /\ UNCHANGED <<asking, asked>>

SendLength1(s) ==
  /\ wire[s].field = "LENGTH_1"
  /\ Send(s, (wire[s].length \div 256) % 256,
          [wire[s] EXCEPT !.field = "LENGTH_2"], sent[s])
  /\ UNCHANGED <<asking, asked>>

SendLength2(s) ==
  /\ wire[s].field = "LENGTH_2"
  /\ Send(s, wire[s].length \div 65536,
          [wire[s] EXCEPT !.field = "SEQUENCE"], sent[s])
  /\ UNCHANGED <<asking, asked>>

\* What the client has asked for once its sender is in the state w.
Ask(s, a, w) ==
  asked' = IF s = "client" /\ w.kind = "command" /\ w.field = "LENGTH_0" /\ w.first
           THEN asked \cup {AskedLine(a)}
           ELSE asked

SendSequence(s) ==
  LET w == IF wire[s].length = 0
           THEN [wire[s] EXCEPT !.field = "LENGTH_0", !.first = TRUE]
           ELSE [wire[s] EXCEPT !.field = "BODY"]
  IN  /\ wire[s].field = "SEQUENCE"
      /\ Send(s, wire[s].sequence_id, w, sent[s])
      /\ Ask(s, asking, w)
      /\ UNCHANGED asking

SendBody(s) ==
  LET start == wire[s].first /\ wire[s].pos = 0
      w     == IF wire[s].pos + 1 = wire[s].length
               THEN [wire[s] EXCEPT !.field = "LENGTH_0", !.pos = @ + 1,
                                    !.first = (wire[s].length < MAX_PAYLOAD_LENGTH)]
               ELSE [wire[s] EXCEPT !.pos = @ + 1]
  IN  /\ wire[s].field = "BODY"
      /\ \E b \in IF start THEN FirstBytes(w.kind, w.length)
              ELSE Contents[wire[s].pos] :
           /\ asking' = IF w.kind # "command" THEN asking
                        ELSE IF start
                        THEN [command |-> b, length |-> w.length, text |-> << >>]
                        ELSE [asking EXCEPT !.text = Append(@, b)]
           /\ Send(s, b, w, sent[s])
           /\ Ask(s, asking', w)

-----------------------------------------------------------------------------

Init ==
  /\ packet = [s \in Stream |-> NewPacket]
  /\ request = NewRequest
  /\ connection_state = "CONNECTION_PHASE"
  /\ log = << >>
  /\ thrown = FALSE
  /\ busy = "none"
  /\ got = 0
  /\ wire = [s \in Stream |->
              [field |-> "LENGTH_0", kind |-> IF s = "client" THEN "auth" ELSE "challenge",
               length |-> 0, sequence_id |-> 0, first |-> TRUE, pos |-> 0]]
  /\ sent = [s \in Stream |-> 0]
  /\ stage = "greeting"
  /\ asking = [command |-> UNKNOWN, length |-> 0, text |-> << >>]
  /\ asked = {}
  /\ finished = 0
  /\ seen = 0

Next ==
  \E s \in Stream :
    \/ SendLength0(s)
    \/ SendLength1(s)
    \/ SendLength2(s)
    \/ SendSequence(s)
    \/ SendBody(s)

Spec == Init /\ [][Next]_vars

-----------------------------------------------------------------------------
(* Properties.                                                              *)

(* TypeOK: the collectors' counters stay within the packet they count, and  *)
(* every variable in its type.                                              *)
TypeOK ==
  /\ packet \in [Stream -> Packet]
  /\ request \in Request
  /\ connection_state \in ConnectionState
  /\ log \in Seq(Line)
  /\ thrown \in BOOLEAN
  /\ busy \in Stream \cup {"none"}
  /\ got \in 0 .. BUFFER_LENGTH - 1
  /\ wire \in [Stream -> Wire]
  /\ sent \in [Stream -> Nat]
  /\ stage \in Stage
  /\ asking \in [command : Byte, length : 0 .. MAX_PAYLOAD_LENGTH, text : Seq(Byte)]
  /\ asked \subseteq Line
  /\ finished \in Nat
  /\ seen \in Nat

\* The sender of s is between two payloads.
AtBoundary(s) == wire[s].field = "LENGTH_0" /\ wire[s].first

\* The state a collector must be in when its sender's next byte is field f.
StateFor(f) ==
  CASE f = "LENGTH_0" -> "PAYLOAD_LENGTH_0"
    [] f = "LENGTH_1" -> "PAYLOAD_LENGTH_1"
    [] f = "LENGTH_2" -> "PAYLOAD_LENGTH_2"
    [] f = "SEQUENCE" -> "SEQUENCE_ID"
    [] f = "BODY"     -> "PAYLOAD"

(* Framing: wherever TCP cuts the streams, MySqlPacket::collect stays in step *)
(* with the sender: it knows which field comes next, how much of the payload *)
(* is left and whether a continuation follows, and is_received() holds        *)
(* exactly when the last byte collected completed a payload.                  *)
Framing ==
  ~thrown =>
    \A s \in Stream :
      /\ packet[s].state = StateFor(wire[s].field)
      /\ packet[s].first_part = wire[s].first
      /\ packet[s].is_received <=> (AtBoundary(s) /\ sent[s] > 0)
      /\ wire[s].field = "BODY" =>
           /\ packet[s].length = wire[s].length
           /\ packet[s].received = wire[s].pos

\* The client has sent the first byte of a command, or all of it.
CommandStarted ==
  /\ wire["client"].kind = "command"
  /\ \/ ~wire["client"].first
     \/ wire["client"].field = "BODY" /\ wire["client"].pos > 0
     \/ AtBoundary("client")

(* SqlTextExact: for a command with an SQL text, m_sql_string is at every     *)
(* moment exactly the text received so far, across the parts of a payload     *)
(* longer than MAX_PAYLOAD_LENGTH and whatever was collected before.          *)
SqlTextExact ==
  ~thrown /\ CommandStarted /\ has_sql_field(asking.command) =>
    /\ request.command = asking.command
    /\ request.sql = asking.text

\* The client is in the middle of a payload.
InPayload == ~AtBoundary("client")

(* PhaseAgreement: the two collectors agree on the phase through              *)
(* m_connection_state although they read different streams: no packet of the  *)
(* client's authentication is parsed as a command, and no command is missed   *)
(* because the server's OK has not been recognised.                           *)
PhaseAgreement ==
  ~thrown /\ InPayload =>
    connection_state = IF wire["client"].kind = "auth"
                       THEN "CONNECTION_PHASE" ELSE "COMMAND_PHASE"

(* LogAtMostOnce: a call that ends inside a packet never logs the packet      *)
(* before it a second time, so the log has at most one line per payload the   *)
(* client has completed.                                                      *)
LogAtMostOnce == Len(log) <= finished

\* The names of the commands that carry an SQL text.
SqlNames == {"COM_INIT_DB", "COM_QUERY", "COM_STMT_PREPARE"}

(* LogsLatestCommand: a line is only ever written when the client has just    *)
(* completed a payload, names the command sent last and, for an SQL command,  *)
(* carries its whole text; of the packets that are no commands only an empty  *)
(* one, which leaves m_command as it was, can write one.  (Data packets with  *)
(* the sequence id 0 are the subject of DataIsNoCommand.)                     *)
LogsLatestCommand ==
  [][0 \notin DataSeqs /\ log' # log =>
       /\ AtBoundary("client")'
       /\ log'[Len(log')].command = AskedLine(asking').command
       /\ log'[Len(log')].command \in SqlNames => log'[Len(log')].sql = asking'.text
       /\ wire'["client"].kind = "command" \/ wire'["client"].length = 0]_vars

(* LogComplete: "All SQL requests from the client to the MySQL server should  *)
(* be in the file" (README.md): between two calls every command sent so far   *)
(* that has a name has its line.                                              *)
LogComplete ==
  ~thrown /\ busy = "none" =>
    \A line \in asked :
      line.command # NoName => \E i \in DOMAIN log : log[i] = line

(* SqlStringMeansSqlField: has_sql_string() tells whether the command has the *)
(* SQL field (packet.hpp: "Check if the command has the SQL field string").   *)
SqlStringMeansSqlField ==
  has_sql_string(request) => has_sql_field(request.command)

(* DataIsNoCommand: the sequence id "may wrap around. It starts at 0 and is   *)
(* reset to 0 when a new command begins in the Command Phase" (packet.cpp): a *)
(* packet that follows a command without beginning one is neither rejected as *)
(* a command with a wrong sequence id nor, its id having come round to 0,     *)
(* logged as a request.                                                       *)
DataIsNoCommand ==
  /\ thrown => wire["client"].kind = "command"
  /\ \A i \in DOMAIN log : \E line \in asked : line.command = log[i].command
=============================================================================

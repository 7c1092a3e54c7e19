----------------------------- MODULE RequestProofs -----------------------------
(***************************************************************************)
(* What FromClientPacket (src/src/packet.cpp) knows of the client's        *)
(* request, and what do_packet_logging writes about it, for every          *)
(* MAX_PAYLOAD_LENGTH, all payload lengths and contents, and any number of *)
(* packets.                                                                *)
(*                                                                         *)
(* SqlTextExact is not inductive: that m_sql_string goes on growing with   *)
(* the text depends on m_is_sql_string_receiving, which is set by the      *)
(* first byte of the command, provided the phase is then known to be the   *)
(* command phase, and has to survive the ends of the parts.  RequestKnown  *)
(* adds that, together with what tells a command from the packets around   *)
(* it, which LogsLatestCommand needs.                                      *)
(*                                                                         *)
(* Its parts are about w, what the client is sending; p and q, the fields  *)
(* of its collector; a, the command asked for last.                        *)
(***************************************************************************)
EXTENDS PacketStreamProofs

\* The first byte of a payload has been sent, and its last byte has not.
Began(w) == ~w.first \/ (w.field = "BODY" /\ w.pos > 0)

\* The client is between two payloads.
Ended(w) == w.field = "LENGTH_0" /\ w.first

\* The client sends packets of its kinds and the collector has their sequence
\* id; a command is not empty, and a data packet has one of the ids for it.
StartKnown(w, p) ==
  /\ w.kind \in {"auth", "command", "data"}
  /\ w.field = "BODY" => p.sequence_id = w.sequence_id
  /\ w.first /\ ~Ended(w) => /\ w.kind = "command" => w.length # 0
                             /\ w.kind = "data" => w.sequence_id \in DataSeqs

\* The text collected is the text sent, and the rest of it will be collected.
TextKnown(w, q, a) ==
  w.kind = "command" /\ (Began(w) \/ Ended(w)) =>
    /\ q.command = a.command
    /\ has_sql_field(a.command) => /\ q.sql = a.text
                                   /\ Began(w) => q.sql_receiving

\* The part limits at which a command named after its length might be continued.
NameLengths == {3, 5, 9}

\* The length a command is named after is that of its only part.
LengthKnown(w, p, a) ==
  MAX_PAYLOAD_LENGTH \notin NameLengths /\ w.kind = "command" =>
    /\ Began(w) /\ w.first =>
         /\ a.length = w.length
         /\ a.command \in {COM_STMT_RESET, COM_STMT_CLOSE} => a.length \in NameLengths
    /\ ~w.first => a.command \notin {COM_STMT_RESET, COM_STMT_CLOSE}
    /\ Ended(w) => name(a.command, p.length) = name(a.command, a.length)

\* The authentication leaves m_command unknown.
AuthKnown(w, q, phase) ==
  phase = "CONNECTION_PHASE" \/ w.kind = "auth" => ~is_valid(q.command)

\* A data packet that is not empty makes m_command invalid, so that a valid one
\* is that of the last command, with its text.
LatestKnown(w, p, q, a) ==
  /\ is_valid(q.command) => /\ q.command = a.command
                            /\ has_sql_field(a.command) => q.sql = a.text
  /\ w.kind = "data" => /\ Began(w) => ~is_valid(q.command)
                        /\ Ended(w) /\ is_valid(q.command) => w.length = 0 /\ p.length = 0

Known(w, p, q, a, phase) ==
  /\ StartKnown(w, p)
  /\ TextKnown(w, q, a)
  /\ LengthKnown(w, p, a)
  /\ AuthKnown(w, q, phase)
  /\ 0 \notin DataSeqs => LatestKnown(w, p, q, a)

RequestKnown ==
  ~thrown => Known(wire["client"], packet["client"], request, asking, connection_state)

-----------------------------------------------------------------------------
(* The tables.                                                              *)

\* Only valid commands have a name.
LEMMA NamedIsValid ==
  ASSUME NEW c, NEW n, name(c, n) # NoName PROVE is_valid(c)
  BY DEF name, is_valid

\* Two commands, and no others, are named after their length; none of the
\* lengths is 0.
LEMMA NameOfLength ==
  ASSUME NEW c, NEW m, NEW n, c \notin {COM_STMT_RESET, COM_STMT_CLOSE} \/ name(c, 0) # NoName
  PROVE  name(c, m) = name(c, n)
<1>1. c \notin {COM_STMT_RESET, COM_STMT_CLOSE}
  BY DEF name, COM_QUIT, COM_INIT_DB, COM_QUERY, COM_FIELD_LIST, COM_REFRESH,
         COM_STATISTICS, COM_PROCESS_INFO, COM_PROCESS_KILL, COM_DEBUG, COM_PING,
         COM_CHANGE_USER, COM_STMT_PREPARE, COM_STMT_EXECUTE, COM_STMT_SEND_LONG_DATA,
         COM_STMT_CLOSE, COM_STMT_RESET, COM_RESET_CONNECTION, NoName
<1> QED
  BY <1>1 DEF name

\* The names of SqlNames are those of the commands with an SQL text.
LEMMA SqlNamed ==
  ASSUME NEW c, NEW n, name(c, n) \in SqlNames PROVE has_sql_field(c)
  BY DEF name, SqlNames, has_sql_field, NoName

-----------------------------------------------------------------------------
(* What the hooks of FromClientPacket do.                                   *)

\* A header byte leaves the request alone.
LEMMA HeaderKeepsRequest ==
  ASSUME NEW p, NEW q, NEW b, NEW phase, p.state # "PAYLOAD"
  PROVE  client_collect(p, q, b, phase) = q
  BY DEF client_collect, data_is_received, collect_data, command_phase_parse,
         ParsesFirstByte, Completes, EndsPart

\* In the connection phase no byte sets m_command.
LEMMA AuthByte ==
  ASSUME NEW p, NEW q \in Request, NEW b \in Byte, NEW phase, phase # "COMMAND_PHASE"
  PROVE  client_collect(p, q, b, phase).command = q.command
<1> DEFINE t == collect_data(p, q, b)
<1>1. t.command = q.command /\ t \in Request
  <2>1. Append(q.sql, b) \in Seq(Byte)
    BY DEF Request
  <2> QED
    BY <2>1, Zenon DEF collect_data, Request
<1>2. client_collect(p, q, b, phase) = data_is_received(p, t)
  BY Zenon DEF client_collect, command_phase_parse
<1> HIDE DEF t
<1> QED
  BY <1>1, <1>2, Zenon DEF data_is_received, Request

\* The first byte of a payload of the command phase begins a new request.
LEMMA CommandByte ==
  ASSUME NEW p, NEW q \in Request, NEW b \in Byte,
         p.state = "PAYLOAD", p.received = 0, p.first_part
  PROVE  LET r == client_collect(p, q, b, "COMMAND_PHASE")
         IN  /\ r.command = b
             /\ r.sql = << >>
             /\ has_sql_field(b) /\ ~Completes(p) => r.sql_receiving
<1> DEFINE t == [command |-> b, sql_receiving |-> q.sql_receiving \/ has_sql_field(b),
                 sql |-> << >>]
<1>1. command_phase_parse(p, q, b, "COMMAND_PHASE") = t
  BY Zenon DEF command_phase_parse, ParsesFirstByte
<1>2. collect_data(p, t, b) = t
  <2>1. ~(p.received > 0 \/ ~p.first_part)
    OBVIOUS
  <2> QED
    BY <2>1, Zenon DEF collect_data
<1>3. /\ t.command = b
      /\ t.sql = << >>
      /\ has_sql_field(b) => t.sql_receiving
  BY Zenon
<1>4. t \in [command : Byte, sql_receiving : BOOLEAN, sql : Seq(Byte)]
  <2>1. << >> \in Seq(Byte) /\ (q.sql_receiving \/ has_sql_field(b)) \in BOOLEAN
    OBVIOUS
  <2> QED
    BY <2>1, Zenon
<1>5. client_collect(p, q, b, "COMMAND_PHASE") = data_is_received(p, t)
  BY <1>1, <1>2, Zenon DEF client_collect
<1> HIDE DEF t
<1> QED
  BY <1>3, <1>4, <1>5, Zenon DEF data_is_received

\* Every other byte of a payload goes to the text that is being received.
LEMMA TextByte ==
  ASSUME NEW p, NEW q \in Request, NEW b \in Byte, NEW phase,
         p.state = "PAYLOAD", p.received > 0 \/ ~p.first_part, p.received \in Nat
  PROVE  LET r == client_collect(p, q, b, phase)
         IN  /\ r.command = q.command
             /\ q.sql_receiving => /\ r.sql = Append(q.sql, b)
                                   /\ ~Completes(p) => r.sql_receiving
<1> DEFINE t == collect_data(p, q, b)
<1>1. ~ParsesFirstByte(p)
  BY DEF ParsesFirstByte
<1>2. client_collect(p, q, b, phase) = data_is_received(p, t)
  BY <1>1, Zenon DEF client_collect, command_phase_parse
<1>3. /\ t \in Request
      /\ t.command = q.command
      /\ q.sql_receiving => t.sql = Append(q.sql, b) /\ t.sql_receiving
  <2>1. Append(q.sql, b) \in Seq(Byte)
    BY DEF Request
  <2> QED
    BY <2>1, Zenon DEF collect_data, Request
<1> HIDE DEF t
<1> QED
  BY <1>2, <1>3, Zenon DEF data_is_received, Request

-----------------------------------------------------------------------------
(* A byte of the client.                                                    *)

\* The first header byte starts a packet or a continuation.
LEMMA KnownLength0 ==
  ASSUME NEW w \in Wire, NEW p, NEW q, NEW a, NEW phase, Known(w, p, q, a, phase),
         w.field = "LENGTH_0",
         NEW v \in Wire, NEW r, v.field = "LENGTH_1", v.first = w.first,
         v.kind \in {"auth", "command", "data"},
         ~w.first => v.kind = w.kind,
         w.first => /\ v.kind = "command" => v.length # 0
                    /\ v.kind = "data" => v.sequence_id \in DataSeqs
                    /\ v.kind = "auth" => phase = "CONNECTION_PHASE"
  PROVE  Known(v, r, q, a, phase)
<1>1. Began(v) <=> ~w.first
  BY DEF Began
<1>2. ~Ended(v) /\ (w.first <=> Ended(w)) /\ (~w.first => Began(w))
  BY DEF Ended, Began
<1>3. StartKnown(v, r)
  BY <1>2 DEF StartKnown
<1>4. TextKnown(v, q, a)
  BY <1>1, <1>2 DEF Known, TextKnown
<1>5. LengthKnown(v, r, a)
  BY <1>1, <1>2 DEF Known, LengthKnown
<1>6. AuthKnown(v, q, phase)
  BY DEF Known, AuthKnown
<1>7. 0 \notin DataSeqs => LatestKnown(v, r, q, a)
  BY <1>1, <1>2 DEF Known, LatestKnown
<1> QED
  BY <1>3, <1>4, <1>5, <1>6, <1>7 DEF Known

\* The other header bytes, unless the packet is empty.
LEMMA KnownHeader ==
  ASSUME NEW w \in Wire, NEW p, NEW q, NEW a, NEW phase, Known(w, p, q, a, phase),
         w.field \in {"LENGTH_1", "LENGTH_2", "SEQUENCE"}, w.pos = 0,
         NEW f \in {"LENGTH_2", "SEQUENCE", "BODY"},
         NEW v \in Wire, v = [w EXCEPT !.field = f],
         NEW r, f = "BODY" => r.sequence_id = w.sequence_id
  PROVE  Known(v, r, q, a, phase)
<1>1. /\ v.field = f
      /\ v.kind = w.kind
      /\ v.length = w.length
      /\ v.sequence_id = w.sequence_id
      /\ v.first = w.first
      /\ v.pos = 0
  BY Zenon DEF Wire
<1>2. (Began(v) <=> Began(w)) /\ ~Ended(v) /\ ~Ended(w)
  BY <1>1 DEF Began, Ended
<1>3. StartKnown(v, r)
  BY <1>1, <1>2 DEF Known, StartKnown
<1>4. TextKnown(v, q, a)
  BY <1>1, <1>2 DEF Known, TextKnown
<1>5. LengthKnown(v, r, a)
  BY <1>1, <1>2 DEF Known, LengthKnown
<1>6. AuthKnown(v, q, phase)
  BY <1>1 DEF Known, AuthKnown
<1>7. 0 \notin DataSeqs => LatestKnown(v, r, q, a)
  BY <1>1, <1>2 DEF Known, LatestKnown
<1> QED
  BY <1>3, <1>4, <1>5, <1>6, <1>7 DEF Known

\* The sequence id of an empty packet ends the payload: that of a data packet, or
\* of a command whose last part was full.
LEMMA KnownEmpty ==
  ASSUME NEW w \in Wire, NEW p, NEW q, NEW a, NEW phase, Known(w, p, q, a, phase),
         w.field = "SEQUENCE", w.length = 0,
         NEW v \in Wire, v = [w EXCEPT !.field = "LENGTH_0", !.first = TRUE],
         NEW r, r.length = 0
  PROVE  Known(v, r, q, a, phase)
<1>1. /\ v.field = "LENGTH_0"
      /\ v.kind = w.kind
      /\ v.length = 0
      /\ v.first = TRUE
  BY Zenon DEF Wire
<1>2. Ended(v) /\ ~Began(v) /\ ~Ended(w)
  BY <1>1 DEF Began, Ended
<1>3. w.kind = "command" => ~w.first /\ Began(w)
  BY <1>2 DEF Known, StartKnown, Began
<1>4. StartKnown(v, r)
  BY <1>1, <1>2 DEF Known, StartKnown
<1>5. TextKnown(v, q, a)
  BY <1>1, <1>2, <1>3 DEF Known, TextKnown
<1>6. LengthKnown(v, r, a)
  BY <1>1, <1>2, <1>3, NameOfLength DEF Known, LengthKnown
<1>7. AuthKnown(v, q, phase)
  BY <1>1 DEF Known, AuthKnown
<1>8. 0 \notin DataSeqs => LatestKnown(v, r, q, a)
  BY <1>1, <1>2 DEF Known, LatestKnown
<1> QED
  BY <1>4, <1>5, <1>6, <1>7, <1>8 DEF Known

\* What the client sends after a byte of the body, and what it has asked for
\* after the byte b of it.
AfterByte(w) ==
  IF w.pos + 1 = w.length
  THEN [w EXCEPT !.field = "LENGTH_0", !.pos = @ + 1,
                 !.first = (w.length < MAX_PAYLOAD_LENGTH)]
  ELSE [w EXCEPT !.pos = @ + 1]

AskedBy(a, w, b) ==
  IF w.kind # "command" THEN a
  ELSE IF w.first /\ w.pos = 0
  THEN [command |-> b, length |-> w.length, text |-> << >>]
  ELSE [a EXCEPT !.text = Append(@, b)]

\* A byte of the body.
LEMMA KnownBody ==
  ASSUME NEW w \in Wire, NEW p \in Packet, NEW q \in Request, NEW a \in Asking,
         NEW phase, NEW n, NEW b \in Byte,
         Known(w, p, q, a, phase),
         InStep(p, w, n),
         w.field = "BODY",
         phase = IF w.kind = "auth" THEN "CONNECTION_PHASE" ELSE "COMMAND_PHASE",
         AfterByte(w) \in Wire,
         w.first /\ w.pos = 0 => b \in FirstBytes(w.kind, w.length),
         ~BadPacket(p, b, phase)
  PROVE  Known(AfterByte(w), collect(p, b), client_collect(p, q, b, phase),
               AskedBy(a, w, b), phase)
<1> DEFINE start == w.first /\ w.pos = 0
           v == AfterByte(w)
           r == collect(p, b)
           z == client_collect(p, q, b, phase)
           c == AskedBy(a, w, b)
<1>1. /\ v.kind = w.kind
      /\ v.length = w.length
      /\ v.sequence_id = w.sequence_id
      /\ v.pos = w.pos + 1
      /\ w.pos + 1 = w.length =>
           v.field = "LENGTH_0" /\ v.first = (w.length < MAX_PAYLOAD_LENGTH)
      /\ w.pos + 1 # w.length => v.field = "BODY" /\ v.first = w.first
  BY Zenon DEF Wire, AfterByte
<1>2. /\ p.state = "PAYLOAD"
      /\ p.received = w.pos
      /\ p.length = w.length
      /\ p.first_part = w.first
      /\ p.not_ended = (w.length = MAX_PAYLOAD_LENGTH)
      /\ p.sequence_id = w.sequence_id
      /\ w.pos \in Nat
  BY StateForFacts, SMT DEF InStep, Collected, Known, StartKnown, Wire
<1>r. r.sequence_id = p.sequence_id /\ r.length = p.length
  <2>1. r = collect_payload(p)
    BY <1>2, SMT DEF collect
  <2> HIDE DEF r
  <2> QED
    BY <2>1, Zenon DEF collect_payload, Packet
<1> HIDE DEF v, r, z, c, start
<1>3. w.length \in Nat /\ w.length <= MAX_PAYLOAD_LENGTH /\ v.first \in BOOLEAN
  <2>1. w.length \in Nat /\ w.length <= MAX_PAYLOAD_LENGTH
    BY MaxPayloadAssumption, SMT DEF Wire
  <2>2. v.first \in BOOLEAN
    BY Zenon DEF Wire, v
  <2> QED
    BY <2>1, <2>2
<1>4. /\ Ended(v) <=> Completes(p)
      /\ Began(v) <=> ~Ended(v)
      /\ ~Ended(w)
      /\ Began(w) <=> ~start
  <2>1. Completes(p) <=> w.pos + 1 = w.length /\ w.length # MAX_PAYLOAD_LENGTH
    BY <1>2 DEF Completes, EndsPart
  <2>2. w.length < MAX_PAYLOAD_LENGTH <=> w.length # MAX_PAYLOAD_LENGTH
    BY <1>3, MaxPayloadAssumption, SMT
  <2>3. Ended(v) <=> Completes(p)
    BY <1>1, <1>3, <2>1, <2>2, Zenon DEF Ended
  <2>4. w.pos + 1 > 0 /\ (w.pos = 0 <=> ~(w.pos > 0))
    BY <1>2
  <2>5. Began(v) <=> ~Ended(v)
    BY <1>1, <2>4, Zenon DEF Began, Ended
  <2>6. ~Ended(w) /\ (Began(w) <=> ~start)
    BY <2>4, Zenon DEF Began, Ended, start
  <2> QED
    BY <2>3, <2>5, <2>6
<1>5. ~Ended(v) /\ v.first => v.field = "BODY" /\ w.first
  BY <1>1, Zenon DEF Ended
<1>6. ~v.first => ~w.first \/ w.length = MAX_PAYLOAD_LENGTH
  <2>1. ~(w.length < MAX_PAYLOAD_LENGTH) => w.length = MAX_PAYLOAD_LENGTH
    BY <1>3, MaxPayloadAssumption, SMT
  <2> QED
    BY <1>1, <2>1, Zenon
<1>7. w.kind \in {"auth", "command", "data"}
  BY DEF Known, StartKnown
<1>8. StartKnown(v, r)
  BY <1>1, <1>2, <1>r, <1>4, <1>5, Zenon DEF Known, StartKnown
<1> SUFFICES Known(v, r, z, c, phase)
  BY DEF v, r, z, c
<1>9. CASE w.kind = "auth"
  <2>1. z.command = q.command
    BY <1>9, AuthByte DEF z
  <2>2. ~is_valid(z.command)
    BY <1>9, <2>1 DEF Known, AuthKnown
  <2> QED
    BY <1>1, <1>8, <1>9, <2>2
       DEF Known, TextKnown, LengthKnown, AuthKnown, LatestKnown
<1>10. CASE w.kind = "command" /\ start
  <2>1. z.command = b /\ z.sql = << >> /\ (has_sql_field(b) /\ ~Completes(p) => z.sql_receiving)
    BY <1>2, <1>10, CommandByte, ZenonT(60) DEF start, z
  <2>2. c.command = b /\ c.length = w.length /\ c.text = << >>
    BY <1>10 DEF start, c, AskedBy
  <2>3. b \in {COM_STMT_RESET, COM_STMT_CLOSE} => w.length \in NameLengths
    BY <1>10 DEF start, FirstBytes, NameLengths, COM_STMT_RESET, COM_STMT_CLOSE
  <2>4. TextKnown(v, z, c)
    BY <1>4, <2>1, <2>2, Zenon DEF TextKnown
  <2>5. LengthKnown(v, r, c)
    BY <1>1, <1>2, <1>r, <1>6, <1>10, <2>2, <2>3, Zenon DEF start, LengthKnown
  <2>6. AuthKnown(v, z, phase) /\ LatestKnown(v, r, z, c)
    BY <1>1, <1>10, <2>1, <2>2 DEF AuthKnown, LatestKnown
  <2> QED
    BY <1>8, <2>4, <2>5, <2>6 DEF Known
<1>11. CASE w.kind = "command" /\ ~start
  <2>1. /\ c.command = a.command
        /\ c.length = a.length
        /\ c.text = Append(a.text, b)
    BY <1>11, Zenon DEF start, Asking, c, AskedBy
  <2>2. /\ q.command = a.command
        /\ has_sql_field(a.command) => q.sql = a.text /\ q.sql_receiving
    BY <1>4, <1>11 DEF Known, TextKnown
  <2>3. p.received > 0 \/ ~p.first_part
    BY <1>2, <1>11 DEF start
  <2>4. /\ z.command = q.command
        /\ q.sql_receiving => /\ z.sql = Append(q.sql, b)
                              /\ ~Completes(p) => z.sql_receiving
    BY <1>2, <2>3, TextByte DEF z
  <2>5. TextKnown(v, z, c)
    BY <1>4, <2>1, <2>2, <2>4, Zenon DEF TextKnown
  <2>6. LengthKnown(v, r, c)
    <3> SUFFICES ASSUME MAX_PAYLOAD_LENGTH \notin NameLengths PROVE LengthKnown(v, r, c)
      BY DEF LengthKnown
    <3>1. /\ w.first => /\ a.length = w.length
                        /\ a.command \in {COM_STMT_RESET, COM_STMT_CLOSE} =>
                             a.length \in NameLengths
          /\ ~w.first => a.command \notin {COM_STMT_RESET, COM_STMT_CLOSE}
      BY <1>4, <1>11 DEF Known, LengthKnown
    <3>2. ~v.first => a.command \notin {COM_STMT_RESET, COM_STMT_CLOSE}
      BY <1>6, <3>1
    <3>3. name(a.command, p.length) = name(a.command, a.length)
      BY <1>2, <3>1, NameOfLength
    <3> QED
      BY <1>1, <1>r, <1>4, <1>5, <2>1, <3>1, <3>2, <3>3, Zenon DEF LengthKnown
  <2>7. AuthKnown(v, z, phase)
    BY <1>1, <1>11 DEF AuthKnown
  <2>8. LatestKnown(v, r, z, c)
    <3>1. v.kind # "data" /\ z.command = c.command
      BY <1>1, <1>11, <2>1, <2>2, <2>4
    <3>2. has_sql_field(c.command) => z.sql = c.text
      BY <2>1, <2>2, <2>4, Zenon
    <3> QED
      BY <3>1, <3>2, Zenon DEF LatestKnown
  <2> QED
    BY <1>8, <2>5, <2>6, <2>7, <2>8 DEF Known
<1>12. CASE w.kind = "data"
  <2>1. ASSUME 0 \notin DataSeqs PROVE ~is_valid(z.command)
    <3>1. CASE start
      <4>1. p.sequence_id # 0
        BY <1>2, <1>4, <1>12, <2>1, <3>1 DEF Known, StartKnown, start
      <4>2. ParsesFirstByte(p)
        BY <1>2, <3>1 DEF ParsesFirstByte, start
      <4>3. ~is_valid(b)
        BY <1>12, <4>1, <4>2 DEF BadPacket
      <4>4. z.command = b
        BY <1>2, <1>12, <3>1, CommandByte DEF start, z
      <4> QED
        BY <4>3, <4>4
    <3>2. CASE ~start
      <4>1. p.received > 0 \/ ~p.first_part
        BY <1>2, <3>2 DEF start
      <4>2. z.command = q.command
        BY <1>2, <4>1, TextByte DEF z
      <4> QED
        BY <1>4, <1>12, <2>1, <3>2, <4>2 DEF Known, LatestKnown
    <3> QED
      BY <3>1, <3>2
  <2>2. TextKnown(v, z, c) /\ LengthKnown(v, r, c) /\ AuthKnown(v, z, phase)
    BY <1>1, <1>12 DEF TextKnown, LengthKnown, AuthKnown
  <2>3. 0 \notin DataSeqs => LatestKnown(v, r, z, c)
    BY <2>1 DEF LatestKnown
  <2> QED
    BY <1>8, <2>2, <2>3 DEF Known
<1> QED
  BY <1>7, <1>9, <1>10, <1>11, <1>12

-----------------------------------------------------------------------------
(* Every step keeps what is known of the request.                           *)

\* What a byte of the client does to its collector.
LEMMA ClientSend ==
  ASSUME TypeOK, NEW b, NEW v, NEW n, Send("client", b, v, n), ~thrown'
  PROVE  /\ wire'["client"] = v
         /\ packet'["client"] = collect(packet["client"], b)
         /\ request' = client_collect(packet["client"], request, b, connection_state)
         /\ connection_state' = connection_state
         /\ ~BadPacket(packet["client"], b, connection_state)
         /\ ~thrown
<1>1. PICK last \in BOOLEAN :
        Transmit("client", v, n) /\ do_packet_logging("client", b, v, last)
  BY DEF Send
<1>2. wire'["client"] = v
  BY <1>1 DEF Transmit, TypeOK, Stream
<1>3. /\ ~thrown
      /\ CollectByte("client", b)
      /\ ~BadPacket(packet["client"], b, connection_state)
  BY <1>1 DEF do_packet_logging
<1> QED
  BY <1>2, <1>3 DEF CollectByte, TypeOK, Stream

\* A byte of the server changes none of it.
LEMMA KnownServer ==
  ASSUME TypeOK, RequestKnown, NEW b, NEW v, NEW n, Send("server", b, v, n), ~thrown',
         asking' = asking
  PROVE  RequestKnown'
<1>1. PICK last \in BOOLEAN :
        Transmit("server", v, n) /\ do_packet_logging("server", b, v, last)
  BY DEF Send
<1>2. wire'["client"] = wire["client"]
  BY <1>1 DEF Transmit, TypeOK, Stream
<1>3. ~thrown /\ CollectByte("server", b)
  BY <1>1 DEF do_packet_logging
<1>4. packet'["client"] = packet["client"] /\ request' = request
  BY <1>3 DEF CollectByte, TypeOK, Stream
<1>5. connection_state' = "CONNECTION_PHASE" => connection_state = "CONNECTION_PHASE"
  BY <1>3 DEF CollectByte, connection_phase_parse
<1>6. Known(wire["client"], packet["client"], request, asking, connection_state)
  BY <1>3 DEF RequestKnown
<1>7. Known(wire["client"], packet["client"], request, asking, connection_state')
  BY <1>5, <1>6 DEF Known, AuthKnown
<1> QED
  BY <1>2, <1>4, <1>7 DEF RequestKnown

\* The first header byte.
LEMMA RequestLength0 ==
  ASSUME TypeOK, TypeOK', Sync, Phase', RequestKnown, SendLength0("client"), ~thrown'
  PROVE  RequestKnown'
<1> DEFINE w == wire["client"]
<1>1. PICK kind, length, id :
        /\ kind \in IF w.first THEN StartKinds("client", stage) ELSE {w.kind}
        /\ length \in IF w.first THEN StartLengths("client", kind)
                      ELSE PayloadLengths["client"]
        /\ id \in IF w.first THEN StartSequenceIds(kind)
                  ELSE {(w.sequence_id + 1) % 256}
        /\ Send("client", length % 256,
                [w EXCEPT !.field = "LENGTH_1", !.kind = kind, !.length = length,
                          !.sequence_id = id, !.pos = 0],
                sent["client"] + 1)
  BY ZenonT(60) DEF SendLength0
<1> DEFINE v == [w EXCEPT !.field = "LENGTH_1", !.kind = kind, !.length = length,
                          !.sequence_id = id, !.pos = 0]
<1>2. w \in Wire /\ w.field = "LENGTH_0" /\ asking' = asking
  BY DEF SendLength0, TypeOK, Stream
<1>3. /\ v.field = "LENGTH_1"
      /\ v.kind = kind
      /\ v.length = length
      /\ v.sequence_id = id
      /\ v.first = w.first
  BY <1>2, Zenon DEF Wire
<1>4. Send("client", length % 256, v, sent["client"] + 1)
  BY <1>1
<1> HIDE DEF v
<1>5. /\ wire'["client"] = v
      /\ packet'["client"] = collect(packet["client"], length % 256)
      /\ request' = client_collect(packet["client"], request, length % 256, connection_state)
      /\ connection_state' = connection_state
      /\ ~thrown
  BY <1>4, ClientSend
<1>6. v \in Wire
  BY <1>5 DEF TypeOK, Stream
<1>7. request' = request
  <2>1. packet["client"].state = "PAYLOAD_LENGTH_0"
    BY <1>2, <1>5, StateForFacts DEF Sync, InStep, Stream
  <2> QED
    BY <1>5, <2>1, HeaderKeepsRequest
<1>8. Known(w, packet["client"], request, asking, connection_state)
  BY <1>5 DEF RequestKnown
<1>9. v.kind \in {"auth", "command", "data"} /\ (~w.first => v.kind = w.kind)
  BY <1>1, <1>3, <1>8 DEF StartKinds, Known, StartKnown
<1>10. ASSUME w.first
       PROVE  /\ v.kind = "command" => v.length # 0
              /\ v.kind = "data" => v.sequence_id \in DataSeqs
              /\ v.kind = "auth" => connection_state = "CONNECTION_PHASE"
  <2>1. v.kind = "command" => v.length # 0
    BY <1>1, <1>3, <1>10 DEF StartLengths
  <2>2. v.kind = "data" => v.sequence_id \in DataSeqs
    BY <1>1, <1>3, <1>10 DEF StartSequenceIds
  <2>3. PhaseAgreement' /\ InPayload'
    <3>1. InPayload'
      BY <1>3, <1>5 DEF InPayload, AtBoundary
    <3>2. (TypeOK /\ Phase => PhaseAgreement)'
      BY PhaseImplies, PTL
    <3> QED
      BY <3>1, <3>2
  <2> QED
    BY <1>5, <2>1, <2>2, <2>3 DEF PhaseAgreement
<1> HIDE DEF w
<1>11. Known(v, packet'["client"], request, asking, connection_state)
  BY <1>2, <1>3, <1>6, <1>8, <1>9, <1>10, KnownLength0
<1> QED
  BY <1>2, <1>5, <1>7, <1>11 DEF RequestKnown

\* The other header bytes.
LEMMA RequestHeader ==
  ASSUME TypeOK, TypeOK', Sync, RequestKnown, NEW b, NEW v, NEW n,
         Send("client", b, v, n), ~thrown', asking' = asking,
         wire["client"].field \in {"LENGTH_1", "LENGTH_2", "SEQUENCE"},
         NEW f \in {"LENGTH_2", "SEQUENCE", "BODY"},
         v = [wire["client"] EXCEPT !.field = f],
         f = "BODY" => packet'["client"].sequence_id = wire["client"].sequence_id
  PROVE  RequestKnown'
<1>1. /\ wire'["client"] = v
      /\ request' = client_collect(packet["client"], request, b, connection_state)
      /\ connection_state' = connection_state
      /\ ~thrown
  BY ClientSend
<1>2. wire["client"] \in Wire /\ v \in Wire
  BY <1>1, ZenonT(60) DEF TypeOK, Stream
<1>3. packet["client"].state # "PAYLOAD" /\ wire["client"].pos = 0
  BY <1>1, StateForFacts, SMT DEF Sync, InStep, Collected, Stream
<1>4. request' = request
  BY <1>1, <1>3, HeaderKeepsRequest
<1>5. Known(wire["client"], packet["client"], request, asking, connection_state)
  BY <1>1 DEF RequestKnown
<1>6. Known(v, packet'["client"], request, asking, connection_state)
  BY <1>2, <1>3, <1>5, KnownHeader
<1> QED
  BY <1>1, <1>4, <1>6 DEF RequestKnown

\* The sequence id.
LEMMA RequestSequence ==
  ASSUME TypeOK, TypeOK', Sync, RequestKnown, SendSequence("client"), ~thrown'
  PROVE  RequestKnown'
<1> DEFINE w == wire["client"]
           p == packet["client"]
           v == IF w.length = 0
                THEN [w EXCEPT !.field = "LENGTH_0", !.first = TRUE]
                ELSE [w EXCEPT !.field = "BODY"]
<1>1. /\ Send("client", w.sequence_id, v, sent["client"])
      /\ w.field = "SEQUENCE"
      /\ asking' = asking
  BY DEF SendSequence
<1>2. w \in Wire /\ p \in Packet
  BY DEF TypeOK, Stream
<1> HIDE DEF v
<1>3. /\ wire'["client"] = v
      /\ packet'["client"] = collect(p, w.sequence_id)
      /\ request' = client_collect(p, request, w.sequence_id, connection_state)
      /\ connection_state' = connection_state
      /\ ~thrown
  BY <1>1, ClientSend
<1>4. p.state = "SEQUENCE_ID" /\ p.length = w.length
  BY <1>1, <1>3, StateForFacts, SMT DEF Sync, InStep, Collected, Stream
<1>5. /\ packet'["client"].sequence_id = w.sequence_id
      /\ packet'["client"].length = w.length
  <2>1. packet'["client"] = collect_sequence_id(p, w.sequence_id)
    BY <1>3, <1>4, SMT DEF collect
  <2> HIDE DEF p, w
  <2> QED
    BY <1>2, <1>4, <2>1, Zenon DEF collect_sequence_id, Packet
<1>6. CASE w.length = 0
  <2>1. request' = request
    BY <1>3, <1>4, HeaderKeepsRequest
  <2>2. Known(w, p, request, asking, connection_state)
    BY <1>3 DEF RequestKnown
  <2>3. v \in Wire /\ v = [w EXCEPT !.field = "LENGTH_0", !.first = TRUE]
    BY <1>3, <1>6 DEF TypeOK, Stream, v
  <2> HIDE DEF w, p
  <2>4. Known(v, packet'["client"], request, asking, connection_state)
    BY <1>1, <1>2, <1>5, <1>6, <2>2, <2>3, KnownEmpty
  <2> QED
    BY <1>1, <1>3, <2>1, <2>4 DEF RequestKnown
<1>7. CASE w.length # 0
  <2>1. v = [w EXCEPT !.field = "BODY"]
    BY <1>7 DEF v
  <2> QED
    BY <1>1, <1>5, <2>1, RequestHeader
<1> QED
  BY <1>6, <1>7

\* A byte of the body.
LEMMA RequestBody ==
  ASSUME TypeOK, TypeOK', Sync, Phase, RequestKnown, SendBody("client"), ~thrown'
  PROVE  RequestKnown'
<1> DEFINE w == wire["client"]
           p == packet["client"]
           start == w.first /\ w.pos = 0
           v == AfterByte(w)
<1>1. PICK b \in (IF start THEN FirstBytes(v.kind, v.length) ELSE Contents[w.pos]) :
        /\ asking' = IF v.kind # "command" THEN asking
                     ELSE IF start
                     THEN [command |-> b, length |-> v.length, text |-> << >>]
                     ELSE [asking EXCEPT !.text = Append(@, b)]
        /\ Send("client", b, v, sent["client"])
  BY DEF SendBody, AfterByte
<1>2. /\ w \in Wire
      /\ p \in Packet
      /\ request \in Request
      /\ asking \in Asking
      /\ w.field = "BODY"
  BY DEF TypeOK, Stream, Asking, SendBody
<1>3. v.kind = w.kind /\ v.length = w.length
  BY <1>2, Zenon DEF Wire, AfterByte
<1>4. /\ wire'["client"] = v
      /\ packet'["client"] = collect(p, b)
      /\ request' = client_collect(p, request, b, connection_state)
      /\ connection_state' = connection_state
      /\ ~BadPacket(p, b, connection_state)
      /\ ~thrown
  <2> HIDE DEF v
  <2> QED
    BY <1>1, ClientSend
<1>5. InStep(p, w, sent["client"]) /\ v \in Wire
  BY <1>4 DEF Sync, Stream, TypeOK
<1>6. b \in Byte
  <2>1. w.pos \in 0 .. MAX_PAYLOAD_LENGTH - 1
    BY <1>2, <1>5, MaxPayloadAssumption, SMT DEF InStep, Collected, Wire
  <2>2. w.kind \in Kind /\ w.length \in 0 .. MAX_PAYLOAD_LENGTH
    BY <1>2 DEF Wire
  <2> HIDE DEF w, start, v
  <2> QED
    BY <1>1, <1>3, <2>1, <2>2, InputTypes, Zenon
<1>7. connection_state = IF w.kind = "auth" THEN "CONNECTION_PHASE" ELSE "COMMAND_PHASE"
  <2>1. InPayload
    BY <1>2 DEF InPayload, AtBoundary
  <2> QED
    BY <1>4, <2>1, PhaseImplies DEF PhaseAgreement
<1>8. Known(w, p, request, asking, connection_state)
  BY <1>4 DEF RequestKnown
<1>9. /\ w.first /\ w.pos = 0 => b \in FirstBytes(w.kind, w.length)
      /\ asking' = AskedBy(asking, w, b)
  <2> HIDE DEF v
  <2> QED
    BY <1>1, <1>3, Zenon DEF AskedBy
<1> HIDE DEF w, p
<1>10. Known(AfterByte(w), collect(p, b), client_collect(p, request, b, connection_state),
             AskedBy(asking, w, b), connection_state)
  BY <1>2, <1>4, <1>5, <1>6, <1>7, <1>8, <1>9, KnownBody
<1> QED
  BY <1>4, <1>9, <1>10 DEF RequestKnown

\* Every step keeps what is known of the request.
LEMMA RequestStep ==
  ASSUME TypeOK, Sync, Phase, RequestKnown, [Next]_vars
  PROVE  RequestKnown'
<1> SUFFICES ASSUME ~thrown' PROVE RequestKnown'
  BY DEF RequestKnown
<1>1. TypeOK' /\ Sync' /\ Phase'
  BY SyncStep, PhaseStep
<1>2. ASSUME NEW s \in Stream, SendLength0(s) PROVE RequestKnown'
  <2>1. CASE s = "client"
    BY <1>1, <1>2, <2>1, RequestLength0
  <2>2. CASE s = "server"
    BY <1>2, <2>2, KnownServer DEF SendLength0
  <2> QED
    BY <2>1, <2>2 DEF Stream
<1>3. ASSUME NEW s \in Stream, SendLength1(s) PROVE RequestKnown'
  <2>1. CASE s = "client"
    BY <1>1, <1>3, <2>1, RequestHeader DEF SendLength1
  <2>2. CASE s = "server"
    BY <1>3, <2>2, KnownServer DEF SendLength1
  <2> QED
    BY <2>1, <2>2 DEF Stream
<1>4. ASSUME NEW s \in Stream, SendLength2(s) PROVE RequestKnown'
  <2>1. CASE s = "client"
    BY <1>1, <1>4, <2>1, RequestHeader, SMT DEF SendLength2
  <2>2. CASE s = "server"
    BY <1>4, <2>2, KnownServer, SMT DEF SendLength2
  <2> QED
    BY <2>1, <2>2 DEF Stream
<1>5. ASSUME NEW s \in Stream, SendSequence(s) PROVE RequestKnown'
  <2>1. CASE s = "client"
    BY <1>1, <1>5, <2>1, RequestSequence
  <2>2. CASE s = "server"
    BY <1>5, <2>2, KnownServer, Zenon DEF SendSequence
  <2> QED
    BY <2>1, <2>2 DEF Stream
<1>6. ASSUME NEW s \in Stream, SendBody(s) PROVE RequestKnown'
  <2>1. CASE s = "client"
    BY <1>1, <1>6, <2>1, RequestBody
  <2>2. CASE s = "server"
    <3> DEFINE w == wire["server"]
               v == IF w.pos + 1 = w.length
                    THEN [w EXCEPT !.field = "LENGTH_0", !.pos = @ + 1,
                                   !.first = (w.length < MAX_PAYLOAD_LENGTH)]
                    ELSE [w EXCEPT !.pos = @ + 1]
    <3>1. PICK b : /\ v.kind # "command" => asking' = asking
                   /\ Send("server", b, v, sent["server"])
      BY <1>6, <2>2, Zenon DEF SendBody
    <3>2. w \in Wire /\ w.field = "BODY"
      BY <1>6, <2>2 DEF TypeOK, Stream, SendBody
    <3>3. v.kind = w.kind
      BY <3>2, Zenon DEF Wire
    <3> HIDE DEF v
    <3>4. ~thrown
      BY <3>1, PhaseSend DEF Stream
    <3>5. w.kind # "command"
      BY <3>2, <3>4 DEF Phase, ServerKinds, AtBoundary
    <3> QED
      BY <3>1, <3>3, <3>5, KnownServer
  <2> QED
    BY <2>1, <2>2 DEF Stream
<1>7. CASE UNCHANGED vars
  BY <1>7 DEF vars, proxyVars, peerVars, RequestKnown
<1> QED
  BY <1>2, <1>3, <1>4, <1>5, <1>6, <1>7 DEF Next

\* At first nothing has been asked and nothing collected.
LEMMA RequestInit == Init => RequestKnown
<1> SUFFICES ASSUME Init PROVE RequestKnown
  OBVIOUS
<1>1. /\ wire["client"].kind = "auth"
      /\ wire["client"].field = "LENGTH_0"
      /\ wire["client"].first = TRUE
      /\ request.command = UNKNOWN
  BY DEF Init, Stream, NewRequest
<1>2. ~is_valid(UNKNOWN)
  BY DEF is_valid, UNKNOWN, COM_QUIT, COM_INIT_DB, COM_QUERY, COM_FIELD_LIST,
         COM_REFRESH, COM_STATISTICS, COM_PROCESS_INFO, COM_PROCESS_KILL, COM_DEBUG,
         COM_PING, COM_CHANGE_USER, COM_STMT_PREPARE, COM_STMT_EXECUTE,
         COM_STMT_SEND_LONG_DATA, COM_STMT_CLOSE, COM_STMT_RESET, COM_RESET_CONNECTION
<1> QED
  BY <1>1, <1>2 DEF RequestKnown, Known, StartKnown, TextKnown, LengthKnown, AuthKnown,
                    LatestKnown, Ended

-----------------------------------------------------------------------------
(* The theorems.                                                            *)

(* FromClientPacket has, at every moment, exactly the text of the SQL command *)
(* that has been sent so far, whatever was collected before it and however    *)
(* many parts it has.                                                         *)
THEOREM SqlTextIsExact == Spec => []SqlTextExact
<1>1. RequestKnown => SqlTextExact
  BY DEF RequestKnown, Known, TextKnown, SqlTextExact, CommandStarted, Began, Ended,
         AtBoundary
<1>2. TypeOK /\ Sync /\ Phase /\ RequestKnown /\ [Next]_vars => RequestKnown'
  BY RequestStep
<1> QED
  BY <1>1, <1>2, RequestInit, SyncInit, SyncStep, PhaseInit, PhaseStep, PTL DEF Spec

\* A line is written by the byte that completes a payload of the client.
LEMMA WritesLine ==
  ASSUME TypeOK, TypeOK', Sync', Next, log' # log
  PROVE  /\ ~thrown'
         /\ AtBoundary("client")'
         /\ \E line :
              /\ log' = Append(log, line)
              /\ line.command = name(request'.command, packet'["client"].length)
              /\ line.command # NoName
              /\ line.sql = request'.sql
<1>1. PICK s, b, v, n : s \in Stream /\ Send(s, b, v, n)
  BY StepSends
<1>2. PICK last \in BOOLEAN : do_packet_logging(s, b, v, last)
  BY <1>1 DEF Send
<1>3. ~thrown' /\ AfterLoop(s)
  BY <1>2 DEF do_packet_logging
<1>4. s = "client" /\ packet'["client"].is_received /\ packet_logger(packet'[s], request')
  BY <1>3 DEF AfterLoop
<1>5. AtBoundary("client")'
  BY <1>3, <1>4 DEF Sync, InStep, AtBoundary, Stream
<1> DEFINE line == [command |-> get_command_string(packet'[s], request'),
                    sql |-> IF has_sql_string(request') THEN request'.sql ELSE << >>]
<1>6. log' = Append(log, line) /\ line.command # NoName
  BY <1>4 DEF packet_logger
<1>7. /\ line.command = name(request'.command, packet'["client"].length)
      /\ line.sql = request'.sql
  BY <1>4 DEF get_command_string, has_sql_string
<1> QED
  BY <1>3, <1>5, <1>6, <1>7

\* The line is that of the command sent last.
LEMMA LineOfLatest ==
  ASSUME TypeOK, TypeOK', Sync', RequestKnown', Next, log' # log,
         0 \notin DataSeqs, MAX_PAYLOAD_LENGTH \notin NameLengths
  PROVE  /\ AtBoundary("client")'
         /\ log'[Len(log')].command = AskedLine(asking').command
         /\ log'[Len(log')].command \in SqlNames => log'[Len(log')].sql = asking'.text
         /\ wire'["client"].kind = "command" \/ wire'["client"].length = 0
<1> DEFINE w == wire'["client"]
           p == packet'["client"]
           q == request'
           a == asking'
<1>1. ~thrown' /\ AtBoundary("client")'
  BY WritesLine
<1>2. PICK line : /\ log' = Append(log, line)
                  /\ line.command = name(q.command, p.length)
                  /\ line.command # NoName
                  /\ line.sql = q.sql
  BY WritesLine
<1>3. log'[Len(log')] = line
  BY <1>2 DEF TypeOK
<1>4. Known(w, p, q, a, connection_state') /\ Ended(w)
  BY <1>1 DEF RequestKnown, Ended, AtBoundary
<1>5. is_valid(q.command)
  BY <1>2, NamedIsValid
<1>6. /\ q.command = a.command
      /\ has_sql_field(a.command) => q.sql = a.text
  BY <1>4, <1>5 DEF Known, LatestKnown
<1>7. w.kind = "command" \/ (w.kind = "data" /\ w.length = 0 /\ p.length = 0)
  BY <1>4, <1>5 DEF Known, StartKnown, AuthKnown, LatestKnown
<1>8. name(a.command, p.length) = name(a.command, a.length)
  <2>1. CASE w.kind = "command"
    BY <1>4, <2>1 DEF Known, LengthKnown
  <2>2. CASE p.length = 0
    BY <1>2, <1>6, <2>2, NameOfLength
  <2> QED
    BY <1>7, <2>1, <2>2
<1>9. line.command = AskedLine(a).command
  BY <1>2, <1>6, <1>8 DEF AskedLine
<1>10. line.command \in SqlNames => line.sql = a.text
  BY <1>2, <1>6, SqlNamed
<1> QED
  BY <1>1, <1>3, <1>7, <1>9, <1>10

(* A line of the log always names the command the client has just completed,  *)
(* or, if it has just sent an empty data packet, the command before it, and   *)
(* carries the whole text of an SQL command.  Two commands are named after    *)
(* the length of their packet, which says nothing if the packet is continued: *)
(* the part limit, 0xffffff in the code, must not be one of these lengths.    *)
THEOREM LogsOnlyLatest ==
  ASSUME MAX_PAYLOAD_LENGTH \notin NameLengths
  PROVE  Spec => LogsLatestCommand
<1> DEFINE Logs == 0 \notin DataSeqs /\ log' # log =>
             /\ AtBoundary("client")'
             /\ log'[Len(log')].command = AskedLine(asking').command
             /\ log'[Len(log')].command \in SqlNames => log'[Len(log')].sql = asking'.text
             /\ wire'["client"].kind = "command" \/ wire'["client"].length = 0
<1>1. TypeOK /\ Sync /\ Phase /\ RequestKnown /\ [Next]_vars => RequestKnown'
  BY RequestStep
<1>2. TypeOK /\ Sync /\ Phase /\ RequestKnown /\ [Next]_vars => [Logs]_vars
  <2> SUFFICES ASSUME TypeOK, Sync, Phase, RequestKnown, Next, log' # log, 0 \notin DataSeqs
               PROVE  Logs
    OBVIOUS
  <2>1. TypeOK' /\ Sync' /\ RequestKnown'
    BY SyncStep, RequestStep
  <2> QED
    BY <2>1, LineOfLatest
<1> QED
  BY <1>1, <1>2, RequestInit, SyncInit, SyncStep, PhaseInit, PhaseStep, PTL
     DEF Spec, LogsLatestCommand
================================================================================

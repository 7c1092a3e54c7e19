-------------------------- MODULE PacketStreamProofs --------------------------
(***************************************************************************)
(* Proofs about PacketStream, for every MAX_PAYLOAD_LENGTH, every buffer   *)
(* size, all payload lengths and contents, and any number of packets.      *)
(*                                                                         *)
(* Framing is not inductive: to know that the collector reads the right    *)
(* length one has to know what it has collected of it after each header    *)
(* byte.  InStep says so for one stream; it is preserved by every byte,    *)
(* and TypeOK depends on it, because only a collector in step with its     *)
(* sender keeps its counters within the packet.                            *)
(***************************************************************************)
EXTENDS PacketStream, TLAPS

\* What the collector p knows of the packet its sender w is sending: the length
\* bytes it has seen, how many bytes of the body it has and whether the packet
\* is continued.
Collected(p, w) ==
  /\ w.field = "LENGTH_1" => p.length = w.length % 256
  /\ w.field = "LENGTH_2" => p.length = w.length % 65536
  /\ w.field \in {"SEQUENCE", "BODY"} => p.length = w.length
  /\ w.field \in {"LENGTH_1", "LENGTH_2", "SEQUENCE"} => p.received = 0 /\ w.pos = 0
  /\ w.field = "BODY" => /\ p.received = w.pos
                         /\ w.pos < w.length
                         /\ p.not_ended = (w.length = MAX_PAYLOAD_LENGTH)

\* The collector p is in step with the sender w, who has started n packets.
InStep(p, w, n) ==
  /\ p.state = StateFor(w.field)
  /\ p.first_part = w.first
  /\ p.is_received <=> (w.field = "LENGTH_0" /\ w.first /\ n > 0)
  /\ w.field # "LENGTH_0" \/ ~w.first => n > 0
  /\ Collected(p, w)

Sync == ~thrown => \A s \in Stream : InStep(packet[s], wire[s], sent[s])

-----------------------------------------------------------------------------
(* The header.                                                              *)

\* The three length bytes, least significant first, make up the length.
LEMMA LengthBytes ==
  ASSUME NEW n \in 0 .. MAX_PAYLOAD_LENGTH
  PROVE  /\ n % 256 \in Byte
         /\ (n \div 256) % 256 \in Byte
         /\ n \div 65536 \in Byte
         /\ (n % 256) + ((n \div 256) % 256) * 256 = n % 65536
         /\ (n % 65536) + (n \div 65536) * 65536 = n
         /\ n % 65536 \in 0 .. MAX_PAYLOAD_LENGTH
         /\ n % 256 \in 0 .. MAX_PAYLOAD_LENGTH
<1>1. n \in Nat /\ n <= 16777215
  BY MaxPayloadAssumption, SMT
<1> QED
  BY <1>1, MaxPayloadAssumption, SMT DEF Byte

\* What StateFor says of each field.
LEMMA StateForFacts ==
  /\ StateFor("LENGTH_0") = "PAYLOAD_LENGTH_0"
  /\ StateFor("LENGTH_1") = "PAYLOAD_LENGTH_1"
  /\ StateFor("LENGTH_2") = "PAYLOAD_LENGTH_2"
  /\ StateFor("SEQUENCE") = "SEQUENCE_ID"
  /\ StateFor("BODY") = "PAYLOAD"
  BY DEF StateFor

\* 0 is a length.  Kept apart from the bound, which is large.
LEMMA ZeroLength == 0 \in 0 .. MAX_PAYLOAD_LENGTH
  BY MaxPayloadAssumption, SMT

\* What the header cases of collect do to each field.
LEMMA CollectLength0 ==
  ASSUME NEW p \in Packet, NEW b \in 0 .. MAX_PAYLOAD_LENGTH
  PROVE  LET q == collect_length_0(p, b)
         IN  /\ q \in Packet
             /\ q.state = "PAYLOAD_LENGTH_1"
             /\ q.first_part = p.first_part
             /\ q.is_received = FALSE
             /\ q.length = b
             /\ q.received = 0
<1>1. collect_length_0(p, b) \in Packet
  BY ZeroLength, Zenon DEF collect_length_0, Packet, PacketState
<1> QED
  BY <1>1, Zenon DEF collect_length_0, Packet

\* The second length byte adds to the length and leaves the rest alone.
LEMMA CollectLength1 ==
  ASSUME NEW p \in Packet, NEW b, p.length + shl8(b) \in 0 .. MAX_PAYLOAD_LENGTH
  PROVE  LET q == collect_length_1(p, b)
         IN  /\ q \in Packet
             /\ q.state = "PAYLOAD_LENGTH_2"
             /\ q.first_part = p.first_part
             /\ q.is_received = p.is_received
             /\ q.length = p.length + shl8(b)
             /\ q.received = p.received
<1>1. collect_length_1(p, b) \in Packet
  BY Zenon DEF collect_length_1, Packet, PacketState
<1> QED
  BY <1>1, Zenon DEF collect_length_1, Packet

\* The third length byte adds to the length and leaves the rest alone.
LEMMA CollectLength2 ==
  ASSUME NEW p \in Packet, NEW b, p.length + shl16(b) \in 0 .. MAX_PAYLOAD_LENGTH
  PROVE  LET q == collect_length_2(p, b)
         IN  /\ q \in Packet
             /\ q.state = "SEQUENCE_ID"
             /\ q.first_part = p.first_part
             /\ q.is_received = p.is_received
             /\ q.length = p.length + shl16(b)
             /\ q.received = p.received
<1>1. collect_length_2(p, b) \in Packet
  BY Zenon DEF collect_length_2, Packet, PacketState
<1> QED
  BY <1>1, Zenon DEF collect_length_2, Packet

\* The first length byte, which also begins a new packet.
LEMMA Length0 ==
  ASSUME NEW p \in Packet, NEW w \in Wire, NEW n \in Nat, InStep(p, w, n),
         w.field = "LENGTH_0",
         NEW v \in Wire, v.field = "LENGTH_1", v.first = w.first, v.pos = 0
  PROVE  /\ collect(p, v.length % 256) \in Packet
         /\ InStep(collect(p, v.length % 256), v, n + 1)
<1> DEFINE b == v.length % 256
           q == collect_length_0(p, b)
<1>1. p.state = "PAYLOAD_LENGTH_0" /\ p.first_part = v.first
  BY StateForFacts, SMT DEF InStep, Collected
<1>2. b \in 0 .. MAX_PAYLOAD_LENGTH
  BY LengthBytes DEF Wire
<1>3. collect(p, b) = q
  BY <1>1 DEF collect
<1> HIDE DEF b, q
<1>4. /\ q \in Packet
      /\ q.state = "PAYLOAD_LENGTH_1"
      /\ q.first_part = v.first
      /\ q.is_received = FALSE
      /\ q.length = b
      /\ q.received = 0
  BY <1>1, <1>2, CollectLength0 DEF q
<1>5. InStep(q, v, n + 1)
  BY <1>4, StateForFacts, SMT DEF InStep, Collected, b
<1> QED
  BY <1>3, <1>4, <1>5 DEF b

\* The second length byte.
LEMMA Length1 ==
  ASSUME NEW p \in Packet, NEW w \in Wire, NEW n \in Nat, InStep(p, w, n),
         w.field = "LENGTH_1",
         NEW v \in Wire, v = [w EXCEPT !.field = "LENGTH_2"]
  PROVE  /\ collect(p, (w.length \div 256) % 256) \in Packet
         /\ InStep(collect(p, (w.length \div 256) % 256), v, n)
<1> DEFINE b == (w.length \div 256) % 256
           q == collect_length_1(p, b)
<1>1. p.state = "PAYLOAD_LENGTH_1" /\ p.length = w.length % 256
  BY StateForFacts, SMT DEF InStep, Collected
<1>2. /\ p.length + shl8(b) = w.length % 65536
      /\ p.length + shl8(b) \in 0 .. MAX_PAYLOAD_LENGTH
  BY <1>1, LengthBytes, SMT DEF Wire, shl8, shl16
<1>3. collect(p, b) = q
  BY <1>1 DEF collect
<1> HIDE DEF b, q
<1>4. /\ q \in Packet
      /\ q.state = "PAYLOAD_LENGTH_2"
      /\ q.first_part = p.first_part
      /\ q.is_received = p.is_received
      /\ q.length = p.length + shl8(b)
      /\ q.received = p.received
  BY <1>2, CollectLength1 DEF q
<1>5. /\ v.field = "LENGTH_2"
      /\ v.first = w.first
      /\ v.length = w.length
      /\ v.pos = w.pos
  BY Zenon DEF Wire
<1>6. InStep(q, v, n)
  BY <1>2, <1>4, <1>5, StateForFacts, SMT DEF InStep, Collected
<1> QED
  BY <1>3, <1>4, <1>6 DEF b

\* The third length byte.
LEMMA Length2 ==
  ASSUME NEW p \in Packet, NEW w \in Wire, NEW n \in Nat, InStep(p, w, n),
         w.field = "LENGTH_2",
         NEW v \in Wire, v = [w EXCEPT !.field = "SEQUENCE"]
  PROVE  /\ collect(p, w.length \div 65536) \in Packet
         /\ InStep(collect(p, w.length \div 65536), v, n)
<1> DEFINE b == w.length \div 65536
           q == collect_length_2(p, b)
<1>1. p.state = "PAYLOAD_LENGTH_2" /\ p.length = w.length % 65536
  BY StateForFacts, SMT DEF InStep, Collected
<1>2. /\ p.length + shl16(b) = w.length
      /\ p.length + shl16(b) \in 0 .. MAX_PAYLOAD_LENGTH
  BY <1>1, LengthBytes, SMT DEF Wire, shl8, shl16
<1>3. collect(p, b) = q
  BY <1>1, SMT DEF collect
<1> HIDE DEF b, q
<1>4. /\ q \in Packet
      /\ q.state = "SEQUENCE_ID"
      /\ q.first_part = p.first_part
      /\ q.is_received = p.is_received
      /\ q.length = w.length
      /\ q.received = p.received
  BY <1>2, CollectLength2, SMT DEF q
<1>5. /\ v.field = "SEQUENCE"
      /\ v.first = w.first
      /\ v.length = w.length
      /\ v.pos = w.pos
  BY Zenon DEF Wire
<1>6. InStep(q, v, n)
  BY <1>4, <1>5, StateForFacts, SMT DEF InStep, Collected
<1> QED
  BY <1>3, <1>4, <1>6, SMT DEF b

\* The sequence id; it ends an empty packet.
LEMMA Sequence ==
  ASSUME NEW p \in Packet, NEW w \in Wire, NEW n \in Nat, InStep(p, w, n),
         w.field = "SEQUENCE",
         NEW v \in Wire,
         v = IF w.length = 0
             THEN [w EXCEPT !.field = "LENGTH_0", !.first = TRUE]
             ELSE [w EXCEPT !.field = "BODY"]
  PROVE  /\ collect(p, w.sequence_id) \in Packet
         /\ InStep(collect(p, w.sequence_id), v, n)
<1> DEFINE b == w.sequence_id
           q == collect_sequence_id(p, b)
<1>1. p.state = "SEQUENCE_ID" /\ p.length = w.length /\ b \in Byte
  BY StateForFacts, SMT DEF InStep, Collected, Wire
<1>2. collect(p, b) = q
  BY <1>1, SMT DEF collect
<1> HIDE DEF b, q
<1>3. q \in Packet
  BY <1>1, Zenon DEF q, collect_sequence_id, Packet, PacketState
<1>4. CASE w.length = 0
  <2>1. /\ q.state = "PAYLOAD_LENGTH_0"
        /\ q.first_part = TRUE
        /\ q.is_received = TRUE
    BY <1>1, <1>4, Zenon DEF q, collect_sequence_id, Packet
  <2>2. v.field = "LENGTH_0" /\ v.first = TRUE
    BY <1>4, Zenon DEF Wire
  <2>3. n > 0 /\ Collected(q, v)
    BY <2>2, SMT DEF InStep, Collected
  <2>4. InStep(q, v, n)
    BY <2>1, <2>2, <2>3, StateForFacts, Zenon DEF InStep
  <2> QED
    BY <1>2, <1>3, <2>4, SMT DEF b
<1>5. CASE w.length # 0
  <2>1. /\ q.state = "PAYLOAD"
        /\ q.first_part = p.first_part
        /\ q.is_received = p.is_received
        /\ q.length = w.length
        /\ q.received = p.received
        /\ q.not_ended = (w.length = MAX_PAYLOAD_LENGTH)
    BY <1>1, <1>5, Zenon DEF q, collect_sequence_id, Packet
  <2>2. /\ v.field = "BODY"
        /\ v.first = w.first
        /\ v.length = w.length
        /\ v.pos = w.pos
    BY <1>5, Zenon DEF Wire
  <2>3. w.pos = 0 /\ 0 < w.length
    BY <1>5, MaxPayloadAssumption, SMT DEF InStep, Collected, Wire
  <2>4. p.received = 0 /\ n > 0 /\ ~p.is_received /\ p.first_part = w.first
    BY SMT DEF InStep, Collected, Packet
  <2>5. Collected(q, v)
    BY <2>1, <2>2, <2>3, <2>4, SMT DEF Collected
  <2>6. InStep(q, v, n)
    BY <2>1, <2>2, <2>4, <2>5, StateForFacts, Zenon DEF InStep
  <2> QED
    BY <1>2, <1>3, <2>6, SMT DEF b
<1> QED
  BY <1>4, <1>5

\* A byte of the payload.
LEMMA Body ==
  ASSUME NEW p \in Packet, NEW w \in Wire, NEW n \in Nat, InStep(p, w, n),
         w.field = "BODY", NEW b,
         NEW v \in Wire,
         v = IF w.pos + 1 = w.length
             THEN [w EXCEPT !.field = "LENGTH_0", !.pos = @ + 1,
                            !.first = (w.length < MAX_PAYLOAD_LENGTH)]
             ELSE [w EXCEPT !.pos = @ + 1]
  PROVE  /\ collect(p, b) \in Packet
         /\ InStep(collect(p, b), v, n)
<1> DEFINE q == collect_payload(p)
<1>1. /\ p.state = "PAYLOAD"
      /\ p.received = w.pos
      /\ p.length = w.length
      /\ p.not_ended = (w.length = MAX_PAYLOAD_LENGTH)
      /\ p.is_received = FALSE
  BY StateForFacts, SMT DEF InStep, Collected, Packet
<1>2. /\ w.pos + 1 \in 0 .. MAX_PAYLOAD_LENGTH
      /\ w.pos + 1 <= w.length
      /\ w.length < MAX_PAYLOAD_LENGTH <=> w.length # MAX_PAYLOAD_LENGTH
  BY MaxPayloadAssumption, SMT DEF InStep, Collected, Wire
<1>3. collect(p, b) = q
  BY <1>1, SMT DEF collect
<1> HIDE DEF q
<1>4. q \in Packet
  BY <1>1, <1>2, Zenon DEF q, collect_payload, Packet, PacketState
<1>5. EndsPart(p) <=> w.pos + 1 = w.length
  BY <1>1 DEF EndsPart
<1>6. CASE w.pos + 1 = w.length
  <2>1. /\ q.state = "PAYLOAD_LENGTH_0"
        /\ q.first_part = ~p.not_ended
        /\ q.is_received = ~p.not_ended
    BY <1>1, <1>5, <1>6, Zenon DEF q, collect_payload, Packet
  <2>2. v.field = "LENGTH_0" /\ v.first = (w.length < MAX_PAYLOAD_LENGTH)
    BY <1>6, Zenon DEF Wire
  <2>3. n > 0 /\ Collected(q, v)
    BY <2>2, SMT DEF InStep, Collected
  <2>4. q.first_part = v.first /\ (q.is_received <=> v.first)
    <3>1. CASE w.length = MAX_PAYLOAD_LENGTH
      <4>1. ~(w.length < MAX_PAYLOAD_LENGTH)
        BY <1>2, <3>1
      <4>2. v.first = FALSE
        <5>1. v.first \in BOOLEAN
          BY DEF Wire
        <5>2. ~v.first
          BY <2>2, <4>1, Zenon
        <5> QED
          BY <5>1, <5>2, Zenon
      <4>3. p.not_ended = TRUE
        BY <1>1, <3>1, Zenon
      <4> QED
        BY <2>1, <4>2, <4>3, Zenon
    <3>2. CASE w.length # MAX_PAYLOAD_LENGTH
      <4>1. w.length < MAX_PAYLOAD_LENGTH
        BY <1>2, <3>2
      <4>2. v.first = TRUE
        BY <2>2, <4>1, Zenon
      <4>3. p.not_ended = FALSE
        BY <1>1, <3>2, Zenon
      <4> QED
        BY <2>1, <4>2, <4>3, Zenon
    <3> QED
      BY <3>1, <3>2
  <2>5. InStep(q, v, n)
    BY <2>1, <2>2, <2>3, <2>4, StateForFacts, Zenon DEF InStep
  <2> QED
    BY <1>3, <1>4, <2>5
<1>7. CASE w.pos + 1 # w.length
  <2>1. /\ q.state = p.state
        /\ q.first_part = p.first_part
        /\ q.is_received = p.is_received
        /\ q.length = p.length
        /\ q.received = p.received + 1
        /\ q.not_ended = p.not_ended
    BY <1>5, <1>7, Zenon DEF q, collect_payload, Packet
  <2>2. /\ v.field = "BODY"
        /\ v.first = w.first
        /\ v.length = w.length
        /\ v.pos = w.pos + 1
    BY <1>7, Zenon DEF Wire
  <2>3. w.pos + 1 < w.length
    BY <1>2, <1>7, MaxPayloadAssumption, SMT DEF Wire
  <2>4. InStep(q, v, n)
    BY <1>1, <2>1, <2>2, <2>3, StateForFacts, SMT DEF InStep, Collected
  <2> QED
    BY <1>3, <1>4, <2>4
<1> QED
  BY <1>6, <1>7

-----------------------------------------------------------------------------
(* Types of what the other operators return.                                *)

\* packet_logger writes lines of the type Line.
LEMMA LineType ==
  ASSUME NEW c \in Byte, NEW n \in 0 .. MAX_PAYLOAD_LENGTH, NEW t \in Seq(Byte)
  PROVE  [command |-> name(c, n), sql |-> t] \in Line
  BY DEF Line

\* The hooks of FromClientPacket keep its fields in their types.
LEMMA RequestType ==
  ASSUME NEW p \in Packet, NEW q \in Request, NEW b \in Byte, NEW phase
  PROVE  client_collect(p, q, b, phase) \in Request
<1> DEFINE r == command_phase_parse(p, q, b, phase)
           t == collect_data(p, r, b)
<1>1. has_sql_field(b) \in BOOLEAN
  BY DEF has_sql_field
<1>2. << >> \in Seq(Byte)
  OBVIOUS
<1>3. r \in Request
  BY <1>1, <1>2, Zenon DEF command_phase_parse, Request
<1> HIDE DEF r
<1>4. r.sql \in Seq(Byte) /\ Append(r.sql, b) \in Seq(Byte)
  BY <1>3 DEF Request
<1>5. t \in Request
  BY <1>3, <1>4, Zenon DEF collect_data, Request
<1> HIDE DEF t
<1>6. data_is_received(p, t) \in Request
  BY <1>5, Zenon DEF data_is_received, Request
<1> QED
  BY <1>6 DEF client_collect, r, t

\* FromServerPacket::connection_phase_parse returns a connection state.
LEMMA PhaseType ==
  ASSUME NEW p, NEW b, NEW phase \in ConnectionState
  PROVE  connection_phase_parse(p, b, phase) \in ConnectionState
  BY DEF connection_phase_parse, ConnectionState

\* A completed payload leaves the conversation in one of its stages.
LEMMA StageType ==
  ASSUME NEW kind, stage \in Stage PROVE StageAfter(kind) \in Stage
  BY DEF StageAfter, Stage

-----------------------------------------------------------------------------
(* A byte that keeps its collector in step keeps the system in its types    *)
(* and both collectors in step.                                             *)

\* What a byte of s does, given that it leaves the collector of s in step.
LEMMA Advance ==
  ASSUME TypeOK, Sync,
         NEW s \in Stream, NEW b \in Byte, NEW v \in Wire, NEW n \in Nat,
         Send(s, b, v, n),
         collect(packet[s], b) \in Packet,
         InStep(collect(packet[s], b), v, n)
  PROVE  /\ packet' \in [Stream -> Packet]
         /\ request' \in Request
         /\ connection_state' \in ConnectionState
         /\ log' \in Seq(Line)
         /\ thrown' \in BOOLEAN
         /\ busy' \in Stream \cup {"none"}
         /\ got' \in 0 .. BUFFER_LENGTH - 1
         /\ wire' \in [Stream -> Wire]
         /\ sent' \in [Stream -> Nat]
         /\ stage' \in Stage
         /\ finished' \in Nat
         /\ seen' \in Nat
         /\ Sync'
<1>1. PICK last \in BOOLEAN :
        /\ Transmit(s, v, n)
        /\ do_packet_logging(s, b, v, last)
        /\ seen' = IF last /\ s = "client" THEN finished' ELSE seen
  BY DEF Send
<1>2. /\ wire' = [wire EXCEPT ![s] = v] /\ wire' \in [Stream -> Wire]
      /\ sent' = [sent EXCEPT ![s] = n] /\ sent' \in [Stream -> Nat]
  BY <1>1 DEF Transmit, TypeOK
<1>3. stage' \in Stage
  BY <1>1, StageType DEF Transmit, TypeOK
<1>4. finished' \in Nat /\ seen' \in Nat
  BY <1>1 DEF Transmit, TypeOK
<1>5. CASE s = "client" /\ BadPacket(packet[s], b, connection_state)
  <2>1. /\ thrown' = TRUE
        /\ UNCHANGED <<packet, request, connection_state, log, busy, got>>
    BY <1>1, <1>5 DEF do_packet_logging
  <2>2. thrown' \in BOOLEAN /\ Sync'
    BY <2>1 DEF Sync
  <2> QED
    BY <1>2, <1>3, <1>4, <2>1, <2>2 DEF TypeOK
<1>6. CASE ~(s = "client" /\ BadPacket(packet[s], b, connection_state))
  <2>1. /\ CollectByte(s, b)
        /\ got + 1 = BUFFER_LENGTH => last
        /\ IF last THEN AfterLoop(s) ELSE UNCHANGED log
        /\ busy' = IF last THEN "none" ELSE s
        /\ got' = IF last THEN 0 ELSE got + 1
        /\ thrown' = thrown
        /\ ~thrown
    BY <1>1, <1>6 DEF do_packet_logging
  <2>2. /\ packet' = [packet EXCEPT ![s] = collect(packet[s], b)]
        /\ packet' \in [Stream -> Packet]
    BY <2>1 DEF CollectByte, TypeOK
  <2>3. request' \in Request
    BY <2>1, RequestType DEF CollectByte, TypeOK
  <2>4. connection_state' \in ConnectionState
    BY <2>1, PhaseType DEF CollectByte, TypeOK
  <2>5. log' \in Seq(Line)
    <3>1. /\ packet'[s].length \in 0 .. MAX_PAYLOAD_LENGTH
          /\ request'.command \in Byte
          /\ request'.sql \in Seq(Byte)
      BY <2>2, <2>3 DEF Packet, Request
    <3> DEFINE text == IF has_sql_string(request') THEN request'.sql ELSE << >>
               line == [command |-> get_command_string(packet'[s], request'), sql |-> text]
    <3>2. line \in Line
      <4>1. text \in Seq(Byte)
        BY <3>1
      <4> HIDE DEF text
      <4> QED
        BY <3>1, <4>1, LineType DEF get_command_string
    <3>3. log' \in {log, Append(log, line)}
      BY <2>1, Zenon DEF AfterLoop, packet_logger
    <3> HIDE DEF line
    <3>4. log \in Seq(Line)
      BY DEF TypeOK
    <3> QED
      BY <3>2, <3>3, <3>4
  <2>6. got' \in 0 .. BUFFER_LENGTH - 1 /\ busy' \in Stream \cup {"none"}
    BY <2>1, StreamAssumption DEF TypeOK
  <2>7. Sync'
    BY <1>2, <2>1, <2>2 DEF Sync, TypeOK
  <2>8. thrown' \in BOOLEAN
    BY <2>1 DEF TypeOK
  <2> QED
    BY <1>2, <1>3, <1>4, <2>2, <2>3, <2>4, <2>5, <2>6, <2>7, <2>8
<1> QED
  BY <1>5, <1>6

-----------------------------------------------------------------------------
(* Every step sends such a byte.                                            *)

\* The bytes and lengths the peers choose from.
LEMMA InputTypes ==
  /\ \A s \in Stream : PayloadLengths[s] \subseteq 0 .. MAX_PAYLOAD_LENGTH
  /\ \A s \in Stream, kind \in Kind :
       StartLengths(s, kind) \subseteq 0 .. MAX_PAYLOAD_LENGTH
  /\ \A kind \in Kind : StartSequenceIds(kind) \subseteq Byte
  /\ \A i \in 0 .. MAX_PAYLOAD_LENGTH - 1 : Contents[i] \subseteq Byte
  /\ \A kind \in Kind, n \in 0 .. MAX_PAYLOAD_LENGTH : FirstBytes(kind, n) \subseteq Byte
  /\ \A s \in Stream, st \in Stage : StartKinds(s, st) \subseteq Kind
<1>1. \A s \in Stream : PayloadLengths[s] \subseteq 0 .. MAX_PAYLOAD_LENGTH
  BY StreamAssumption
<1>2. \A s \in Stream, kind \in Kind :
        StartLengths(s, kind) \subseteq 0 .. MAX_PAYLOAD_LENGTH
  BY <1>1, Zenon DEF StartLengths
<1>3. \A kind \in Kind : StartSequenceIds(kind) \subseteq Byte
  BY StreamAssumption DEF StartSequenceIds, Byte
<1>4. \A i \in 0 .. MAX_PAYLOAD_LENGTH - 1 : Contents[i] \subseteq Byte
  BY StreamAssumption
<1>5. 0 \in 0 .. MAX_PAYLOAD_LENGTH - 1
  BY MaxPayloadAssumption, SMT
<1>6. Commands \subseteq Byte
  BY StreamAssumption
<1>7. {10, 1, EOF_BYTE} \subseteq Byte /\ {1} \subseteq Byte /\ {OK_BYTE} \subseteq Byte /\ {ERR_BYTE} \subseteq Byte
  BY DEF Byte, EOF_BYTE, OK_BYTE, ERR_BYTE
<1>8. \A kind \in Kind, n \in 0 .. MAX_PAYLOAD_LENGTH : FirstBytes(kind, n) \subseteq Byte
  BY <1>4, <1>5, <1>6, <1>7, Zenon DEF FirstBytes
<1>9. \A s \in Stream, st \in Stage : StartKinds(s, st) \subseteq Kind
  BY DEF StartKinds, Kind
<1> QED
  BY <1>1, <1>2, <1>3, <1>4, <1>8, <1>9

Asking == [command : Byte, length : 0 .. MAX_PAYLOAD_LENGTH, text : Seq(Byte)]

\* What the client asks for is a log line.
LEMMA AskType ==
  ASSUME NEW s, NEW w, NEW a \in Asking, asked \subseteq Line, Ask(s, a, w)
  PROVE  asked' \subseteq Line
<1>1. AskedLine(a) \in Line
  <2>1. << >> \in Seq(Byte) /\ a.text \in Seq(Byte)
    BY DEF Asking
  <2> QED
    BY <2>1, LineType DEF AskedLine, Asking
<1> QED
  BY <1>1 DEF Ask

\* The first header byte starts a packet of any length its sender may choose.
LEMMA StepLength0 ==
  ASSUME TypeOK, Sync, NEW s \in Stream, SendLength0(s)
  PROVE  TypeOK' /\ Sync'
<1>1. PICK kind, length, id :
        /\ kind \in IF wire[s].first THEN StartKinds(s, stage) ELSE {wire[s].kind}
        /\ length \in IF wire[s].first THEN StartLengths(s, kind) ELSE PayloadLengths[s]
        /\ id \in IF wire[s].first THEN StartSequenceIds(kind)
                  ELSE {(wire[s].sequence_id + 1) % 256}
        /\ Send(s, length % 256,
                [wire[s] EXCEPT !.field = "LENGTH_1", !.kind = kind,
                                !.length = length, !.sequence_id = id, !.pos = 0],
                sent[s] + 1)
  BY ZenonT(60) DEF SendLength0
<1> DEFINE v == [wire[s] EXCEPT !.field = "LENGTH_1", !.kind = kind,
                                !.length = length, !.sequence_id = id, !.pos = 0]
<1>2. wire[s] \in Wire /\ packet[s] \in Packet /\ sent[s] \in Nat /\ stage \in Stage
  BY DEF TypeOK
<1>3. ~thrown /\ InStep(packet[s], wire[s], sent[s])
  BY <1>1 DEF Send, do_packet_logging, Sync
<1>4. kind \in Kind
  BY <1>1, <1>2, InputTypes DEF Wire
<1>5. length \in 0 .. MAX_PAYLOAD_LENGTH
  BY <1>1, <1>4, InputTypes
<1>6. id \in Byte
  <2>1. wire[s].sequence_id \in Byte
    BY <1>2 DEF Wire
  <2>2. (wire[s].sequence_id + 1) % 256 \in Byte
    BY <2>1, SMT DEF Byte
  <2> QED
    BY <1>1, <1>4, <2>2, InputTypes
<1>7. v \in Wire
  BY <1>2, <1>4, <1>5, <1>6, ZeroLength, Zenon DEF Wire, Field
<1>8. /\ v.field = "LENGTH_1"
      /\ v.first = wire[s].first
      /\ v.pos = 0
      /\ v.length = length
  BY <1>2, Zenon DEF Wire
<1> HIDE DEF v
<1>9. wire[s].field = "LENGTH_0" /\ UNCHANGED <<asking, asked>>
  BY DEF SendLength0
<1>10. /\ collect(packet[s], length % 256) \in Packet
       /\ InStep(collect(packet[s], length % 256), v, sent[s] + 1)
  BY <1>2, <1>3, <1>7, <1>8, <1>9, Length0
<1>11. length % 256 \in Byte /\ sent[s] + 1 \in Nat
  BY <1>2, <1>5, LengthBytes
<1>12. Send(s, length % 256, v, sent[s] + 1)
  BY <1>1 DEF v
<1> QED
  BY <1>7, <1>9, <1>10, <1>11, <1>12, Advance DEF TypeOK

\* The second header byte.
LEMMA StepLength1 ==
  ASSUME TypeOK, Sync, NEW s \in Stream, SendLength1(s)
  PROVE  TypeOK' /\ Sync'
<1> DEFINE b == (wire[s].length \div 256) % 256
           v == [wire[s] EXCEPT !.field = "LENGTH_2"]
<1>1. Send(s, b, v, sent[s]) /\ wire[s].field = "LENGTH_1" /\ UNCHANGED <<asking, asked>>
  BY DEF SendLength1
<1>2. wire[s] \in Wire /\ packet[s] \in Packet /\ sent[s] \in Nat
  BY DEF TypeOK
<1>3. InStep(packet[s], wire[s], sent[s])
  BY <1>1 DEF Send, do_packet_logging, Sync
<1>4. v \in Wire
  BY <1>2, Zenon DEF Wire, Field
<1>5. b \in Byte
  BY <1>2, LengthBytes DEF Wire
<1>6. collect(packet[s], b) \in Packet /\ InStep(collect(packet[s], b), v, sent[s])
  BY <1>1, <1>2, <1>3, <1>4, Length1
<1> HIDE DEF b, v
<1> QED
  BY <1>1, <1>2, <1>4, <1>5, <1>6, Advance DEF TypeOK

\* The third header byte.
LEMMA StepLength2 ==
  ASSUME TypeOK, Sync, NEW s \in Stream, SendLength2(s)
  PROVE  TypeOK' /\ Sync'
<1> DEFINE b == wire[s].length \div 65536
           v == [wire[s] EXCEPT !.field = "SEQUENCE"]
<1>1. Send(s, b, v, sent[s]) /\ wire[s].field = "LENGTH_2" /\ UNCHANGED <<asking, asked>>
  BY SMT DEF SendLength2
<1>2. wire[s] \in Wire /\ packet[s] \in Packet /\ sent[s] \in Nat
  BY DEF TypeOK
<1>3. b \in Byte
  BY <1>2, LengthBytes, SMT DEF Wire
<1>4. v \in Wire
  BY <1>2, Zenon DEF Wire, Field
<1>5. InStep(packet[s], wire[s], sent[s])
  BY <1>1, SMT DEF Send, do_packet_logging, Sync
<1>6. collect(packet[s], b) \in Packet /\ InStep(collect(packet[s], b), v, sent[s])
  BY <1>1, <1>2, <1>4, <1>5, Length2, SMT
<1> HIDE DEF b, v
<1> QED
  BY <1>1, <1>2, <1>3, <1>4, <1>6, Advance DEF TypeOK

\* The sequence id.
LEMMA StepSequence ==
  ASSUME TypeOK, Sync, NEW s \in Stream, SendSequence(s)
  PROVE  TypeOK' /\ Sync'
<1> DEFINE b == wire[s].sequence_id
           v == IF wire[s].length = 0
                THEN [wire[s] EXCEPT !.field = "LENGTH_0", !.first = TRUE]
                ELSE [wire[s] EXCEPT !.field = "BODY"]
<1>1. /\ Send(s, b, v, sent[s])
      /\ wire[s].field = "SEQUENCE"
      /\ Ask(s, asking, v)
      /\ UNCHANGED asking
  BY DEF SendSequence
<1>2. wire[s] \in Wire /\ packet[s] \in Packet /\ sent[s] \in Nat /\ asking \in Asking
  BY DEF TypeOK, Asking
<1>3. InStep(packet[s], wire[s], sent[s])
  BY <1>1 DEF Send, do_packet_logging, Sync
<1>4. v \in Wire
  BY <1>2, Zenon DEF Wire, Field
<1>5. b \in Byte
  BY <1>2 DEF Wire
<1>6. collect(packet[s], b) \in Packet /\ InStep(collect(packet[s], b), v, sent[s])
  BY <1>1, <1>2, <1>3, <1>4, Sequence
<1> HIDE DEF b, v
<1>7. asked' \subseteq Line
  BY <1>1, <1>2, AskType DEF TypeOK
<1> QED
  BY <1>1, <1>2, <1>4, <1>5, <1>6, <1>7, Advance DEF TypeOK

\* A byte of the payload.
LEMMA StepBody ==
  ASSUME TypeOK, Sync, NEW s \in Stream, SendBody(s)
  PROVE  TypeOK' /\ Sync'
<1> DEFINE start == wire[s].first /\ wire[s].pos = 0
           v == IF wire[s].pos + 1 = wire[s].length
                THEN [wire[s] EXCEPT !.field = "LENGTH_0", !.pos = @ + 1,
                                     !.first = (wire[s].length < MAX_PAYLOAD_LENGTH)]
                ELSE [wire[s] EXCEPT !.pos = @ + 1]
<1>1. PICK b \in (IF start THEN FirstBytes(v.kind, v.length) ELSE Contents[wire[s].pos]) :
        /\ asking' = IF v.kind # "command" THEN asking
                     ELSE IF start
                     THEN [command |-> b, length |-> v.length, text |-> << >>]
                     ELSE [asking EXCEPT !.text = Append(@, b)]
        /\ Send(s, b, v, sent[s])
        /\ Ask(s, asking', v)
  BY DEF SendBody
<1>2. wire[s] \in Wire /\ packet[s] \in Packet /\ sent[s] \in Nat /\ asking \in Asking
  BY DEF TypeOK, Asking
<1>3. InStep(packet[s], wire[s], sent[s]) /\ wire[s].field = "BODY"
  BY <1>1 DEF Send, do_packet_logging, Sync, SendBody
<1>4. /\ wire[s].pos \in 0 .. MAX_PAYLOAD_LENGTH - 1
      /\ wire[s].pos + 1 \in 0 .. MAX_PAYLOAD_LENGTH
  BY <1>2, <1>3, MaxPayloadAssumption, SMT DEF InStep, Collected, Wire
<1>5. v \in Wire
  <2>1. (wire[s].length < MAX_PAYLOAD_LENGTH) \in BOOLEAN
    OBVIOUS
  <2> QED
    BY <1>2, <1>4, <2>1, Zenon DEF Wire, Field
<1>6. collect(packet[s], b) \in Packet /\ InStep(collect(packet[s], b), v, sent[s])
  BY <1>2, <1>3, <1>5, Body
<1> HIDE DEF v, start
<1>7. b \in Byte
  BY <1>1, <1>4, <1>5, InputTypes DEF Wire
<1>8. asking' \in Asking
  <2>1. /\ << >> \in Seq(Byte)
        /\ Append(asking.text, b) \in Seq(Byte)
        /\ v.length \in 0 .. MAX_PAYLOAD_LENGTH
    BY <1>2, <1>5, <1>7 DEF Asking, Wire
  <2> QED
    BY <1>1, <1>2, <1>7, <2>1, Zenon DEF Asking
<1>9. asked' \subseteq Line
  BY <1>1, <1>8, AskType DEF TypeOK
<1> QED
  BY <1>1, <1>2, <1>5, <1>6, <1>7, <1>8, <1>9, Advance DEF TypeOK, Asking

\* Every step keeps the types and both collectors in step.
LEMMA SyncStep == TypeOK /\ Sync /\ [Next]_vars => TypeOK' /\ Sync'
<1> SUFFICES ASSUME TypeOK, Sync, [Next]_vars PROVE TypeOK' /\ Sync'
  OBVIOUS
<1>1. CASE Next
  BY <1>1, StepLength0, StepLength1, StepLength2, StepSequence, StepBody DEF Next
<1>2. CASE UNCHANGED vars
  BY <1>2 DEF TypeOK, Sync, vars, proxyVars, peerVars
<1> QED
  BY <1>1, <1>2

\* A new connection has its types and its collectors in step.
LEMMA SyncInit == Init => TypeOK /\ Sync
<1> SUFFICES ASSUME Init PROVE TypeOK /\ Sync
  OBVIOUS
<1>1. NewPacket \in Packet
  BY ZeroLength, SMT DEF NewPacket, Packet, PacketState, Byte
<1>2. NewRequest \in Request
  BY DEF NewRequest, Request, Byte, UNKNOWN
<1>3. wire \in [Stream -> Wire]
  BY ZeroLength, SMT DEF Init, Wire, Stream, Field, Kind, Byte
<1>4. asking \in [command : Byte, length : 0 .. MAX_PAYLOAD_LENGTH, text : Seq(Byte)]
  BY ZeroLength, SMT DEF Init, Byte, UNKNOWN
<1>5. TypeOK
  <2>1. packet \in [Stream -> Packet] /\ request \in Request
    BY <1>1, <1>2 DEF Init
  <2>2. log \in Seq(Line) /\ asked \subseteq Line
    BY DEF Init
  <2>3. got \in 0 .. BUFFER_LENGTH - 1
    BY StreamAssumption DEF Init
  <2>4. thrown \in BOOLEAN /\ busy \in Stream \cup {"none"}
    BY DEF Init
  <2>5. /\ connection_state \in ConnectionState
        /\ sent \in [Stream -> Nat]
        /\ stage \in Stage
        /\ finished \in Nat
        /\ seen \in Nat
    BY DEF Init, ConnectionState, Stage
  <2> QED
    BY <1>3, <1>4, <2>1, <2>2, <2>3, <2>4, <2>5 DEF TypeOK
<1>6. Sync
  <2> SUFFICES ASSUME NEW s \in Stream
               PROVE  InStep(packet[s], wire[s], sent[s])
    BY DEF Sync
  <2>1. /\ packet[s] = NewPacket
        /\ sent[s] = 0
        /\ wire[s].field = "LENGTH_0"
        /\ wire[s].first = TRUE
    BY DEF Init
  <2>2. Collected(packet[s], wire[s])
    BY <2>1, SMT DEF Collected
  <2>3. /\ packet[s].state = "PAYLOAD_LENGTH_0"
        /\ packet[s].first_part = TRUE
        /\ packet[s].is_received = FALSE
    BY <2>1 DEF NewPacket
  <2>4. ~(sent[s] > 0)
    BY <2>1
  <2> QED
    BY <2>1, <2>2, <2>3, <2>4, StateForFacts, Zenon DEF InStep
<1> QED
  BY <1>5, <1>6

(* Type correctness; in particular the collectors' lengths and counters stay *)
(* within MAX_PAYLOAD_LENGTH.                                                *)
THEOREM TypeCorrect == Spec => []TypeOK
  BY SyncInit, SyncStep, PTL DEF Spec

(* MySqlPacket::collect finds every packet boundary of both streams, for any *)
(* lengths, contents, part limit and any way TCP cuts the streams.           *)
THEOREM FramingCorrect == Spec => []Framing
<1>1. TypeOK /\ Sync => Framing
  <2> SUFFICES ASSUME TypeOK, Sync, ~thrown, NEW s \in Stream
               PROVE  /\ packet[s].state = StateFor(wire[s].field)
                      /\ packet[s].first_part = wire[s].first
                      /\ packet[s].is_received <=> (AtBoundary(s) /\ sent[s] > 0)
                      /\ wire[s].field = "BODY" =>
                           /\ packet[s].length = wire[s].length
                           /\ packet[s].received = wire[s].pos
    BY DEF Framing
  <2> QED
    BY SMT DEF Sync, InStep, Collected, AtBoundary
<1> QED
  BY <1>1, SyncInit, SyncStep, PTL DEF Spec

-----------------------------------------------------------------------------
(* LogAtMostOnce.  A line is only written at the end of a call whose last    *)
(* byte completed a payload: finished has then grown since the call before.  *)

LogBound == Len(log) <= seen /\ seen <= finished

\* A call writes at most one line, and only if finished has grown.
LEMMA LogStep ==
  ASSUME TypeOK, TypeOK', Sync', LogBound,
         NEW s \in Stream, NEW b, NEW v, NEW n, Send(s, b, v, n)
  PROVE  LogBound'
<1>1. PICK last \in BOOLEAN :
        /\ Transmit(s, v, n)
        /\ do_packet_logging(s, b, v, last)
        /\ seen' = IF last /\ s = "client" THEN finished' ELSE seen
  BY DEF Send
<1>2. /\ finished' = IF v.field = "LENGTH_0" /\ v.first /\ s = "client"
                     THEN finished + 1 ELSE finished
      /\ wire' = [wire EXCEPT ![s] = v]
  BY <1>1 DEF Transmit
<1>3. /\ log \in Seq(Line)
      /\ log' \in Seq(Line)
      /\ finished \in Nat
      /\ seen \in Nat
      /\ wire'[s] = v
  BY <1>2 DEF TypeOK
<1>4. CASE UNCHANGED log
  BY <1>1, <1>2, <1>3, <1>4 DEF LogBound
<1>5. CASE log' # log
  <2>1. ~thrown' /\ last /\ AfterLoop(s)
    BY <1>1, <1>5 DEF do_packet_logging
  <2>2. s = "client" /\ packet'[s].is_received
    BY <1>5, <2>1 DEF AfterLoop
  <2>3. v.field = "LENGTH_0" /\ v.first
    BY <1>3, <2>1, <2>2 DEF Sync, InStep
  <2>4. \E line : log' = Append(log, line)
    BY <1>5, <2>1, Zenon DEF AfterLoop, packet_logger
  <2>5. Len(log') = Len(log) + 1
    BY <1>3, <2>4
  <2> QED
    BY <1>1, <1>2, <1>3, <2>1, <2>2, <2>3, <2>5 DEF LogBound
<1> QED
  BY <1>4, <1>5

\* Every step sends one byte.
LEMMA StepSends ==
  ASSUME Next PROVE \E s \in Stream : \E b, v, n : Send(s, b, v, n)
<1>1. ASSUME NEW s \in Stream, SendLength0(s) PROVE \E b, v, n : Send(s, b, v, n)
  BY <1>1, ZenonT(40) DEF SendLength0
<1>2. ASSUME NEW s \in Stream, SendLength1(s) PROVE \E b, v, n : Send(s, b, v, n)
  BY <1>2, Zenon DEF SendLength1
<1>3. ASSUME NEW s \in Stream, SendLength2(s) PROVE \E b, v, n : Send(s, b, v, n)
  BY <1>3, SMT DEF SendLength2
<1>4. ASSUME NEW s \in Stream, SendSequence(s) PROVE \E b, v, n : Send(s, b, v, n)
  BY <1>4, Zenon DEF SendSequence
<1>5. ASSUME NEW s \in Stream, SendBody(s) PROVE \E b, v, n : Send(s, b, v, n)
  BY <1>5, Zenon DEF SendBody
<1> QED
  BY <1>1, <1>2, <1>3, <1>4, <1>5, Zenon DEF Next

(* do_packet_logging logs no payload of the client twice.                   *)
THEOREM LoggedOnce == Spec => []LogAtMostOnce
<1>1. Init => LogBound
  BY DEF Init, LogBound
<1>2. TypeOK /\ Sync /\ LogBound /\ [Next]_vars => LogBound'
  <2> SUFFICES ASSUME TypeOK, Sync, LogBound, [Next]_vars PROVE LogBound'
    OBVIOUS
  <2>1. TypeOK' /\ Sync'
    BY SyncStep
  <2>2. CASE Next
    <3>1. \E s \in Stream : \E b, v, n : Send(s, b, v, n)
      BY <2>2, StepSends
    <3> QED
      BY <2>1, <3>1, LogStep
  <2>3. CASE UNCHANGED vars
    BY <2>3 DEF LogBound, vars, proxyVars, peerVars
  <2> QED
    BY <2>2, <2>3
<1>3. TypeOK /\ LogBound => LogAtMostOnce
  BY DEF TypeOK, LogBound, LogAtMostOnce
<1> QED
  BY <1>1, <1>2, <1>3, SyncInit, SyncStep, PTL DEF Spec

-----------------------------------------------------------------------------
(* PhaseAgreement.  The phase the proxy has in m_connection_state runs ahead *)
(* of the conversation: it changes with the first byte of the server's OK,   *)
(* while the client may only send commands once the OK is complete.          *)

\* The server is sending its OK and the proxy has seen the first byte of it.
OkSeen ==
  /\ wire["server"].kind = "ok"
  /\ \/ ~wire["server"].first
     \/ wire["server"].field = "BODY" /\ wire["server"].pos > 0

ClientKinds ==
  \/ AtBoundary("client")
  \/ wire["client"].kind = "auth" /\ stage = "client_auth"
  \/ wire["client"].kind \in {"command", "data"} /\ stage = "command"

ServerKinds ==
  \/ AtBoundary("server")
  \/ wire["server"].kind \in {"challenge", "err"} /\ stage \in {"greeting", "server_auth"}
  \/ wire["server"].kind \in {"notice", "ok"} /\ stage = "server_auth"
  \/ wire["server"].kind = "result" /\ stage = "command"

OkLength ==
  wire["server"].kind = "ok" /\ wire["server"].first /\ ~AtBoundary("server")
    => wire["server"].length >= 7

PhaseKnown ==
  connection_state = IF stage = "command" \/ OkSeen
                     THEN "COMMAND_PHASE" ELSE "CONNECTION_PHASE"

Phase == ~thrown => ClientKinds /\ ServerKinds /\ OkLength /\ PhaseKnown

\* While the client is in a payload nobody else can change the phase.
LEMMA PhaseImplies == TypeOK /\ Phase => PhaseAgreement
<1> SUFFICES ASSUME TypeOK, Phase, ~thrown, InPayload
             PROVE  connection_state = IF wire["client"].kind = "auth"
                                       THEN "CONNECTION_PHASE" ELSE "COMMAND_PHASE"
  BY DEF PhaseAgreement
<1>1. ClientKinds /\ ServerKinds /\ PhaseKnown /\ ~AtBoundary("client")
  BY DEF Phase, InPayload
<1>2. CASE wire["client"].kind = "auth"
  <2>1. stage = "client_auth"
    BY <1>1, <1>2 DEF ClientKinds
  <2>2. ~OkSeen
    BY <1>1, <2>1 DEF ServerKinds, OkSeen, AtBoundary
  <2> QED
    BY <1>1, <1>2, <2>1, <2>2 DEF PhaseKnown
<1>3. CASE wire["client"].kind # "auth"
  BY <1>1, <1>3 DEF ClientKinds, PhaseKnown
<1> QED
  BY <1>2, <1>3

\* What a byte does to the conversation and to m_connection_state.
LEMMA PhaseSend ==
  ASSUME TypeOK, NEW s \in Stream, NEW b, NEW v, NEW n, Send(s, b, v, n), ~thrown'
  PROVE  /\ wire'[s] = v
         /\ \A t \in Stream \ {s} : wire'[t] = wire[t]
         /\ stage' = IF v.field = "LENGTH_0" /\ v.first THEN StageAfter(v.kind) ELSE stage
         /\ connection_state' =
              IF s = "server" THEN connection_phase_parse(packet[s], b, connection_state)
              ELSE connection_state
         /\ ~thrown
<1>1. PICK last \in BOOLEAN : Transmit(s, v, n) /\ do_packet_logging(s, b, v, last)
  BY DEF Send
<1>2. /\ wire'[s] = v
      /\ \A t \in Stream \ {s} : wire'[t] = wire[t]
  BY <1>1 DEF Transmit, TypeOK
<1>3. stage' = IF v.field = "LENGTH_0" /\ v.first THEN StageAfter(v.kind) ELSE stage
  BY <1>1, Zenon DEF Transmit
<1>4. CollectByte(s, b) /\ ~thrown
  BY <1>1 DEF do_packet_logging
<1>5. s # "client" => s = "server"
  BY DEF Stream
<1> QED
  BY <1>2, <1>3, <1>4, <1>5 DEF CollectByte

\* Only the first byte of a payload can change the phase.
LEMMA HeaderKeepsPhase ==
  ASSUME NEW p, NEW b, NEW phase, p.state # "PAYLOAD"
  PROVE  connection_phase_parse(p, b, phase) = phase
  BY DEF connection_phase_parse, ParsesFirstByte

\* A byte of s that does not complete a payload: nobody's turn changes.
LEMMA PhaseInside ==
  ASSUME TypeOK, Phase, NEW s \in Stream, NEW b, NEW v, NEW n,
         Send(s, b, v, n), ~thrown',
         ~AtBoundary(s), ~(v.field = "LENGTH_0" /\ v.first),
         v.kind = wire[s].kind, v.length = wire[s].length, v.first => wire[s].first,
         s = "server" => PhaseKnown'
  PROVE  Phase'
<1>1. /\ wire'[s] = v
      /\ \A t \in Stream \ {s} : wire'[t] = wire[t]
      /\ stage' = stage
      /\ s = "client" => connection_state' = connection_state
      /\ ~thrown
  BY PhaseSend
<1>2. ClientKinds /\ ServerKinds /\ OkLength /\ PhaseKnown
  BY <1>1 DEF Phase
<1>3. PhaseKnown'
  BY <1>1, <1>2 DEF Stream, OkSeen, PhaseKnown
<1>4. ~AtBoundary(s)'
  BY <1>1 DEF AtBoundary
<1>5. ClientKinds' /\ ServerKinds' /\ OkLength'
  BY <1>1, <1>2, <1>4 DEF ClientKinds, ServerKinds, OkLength, Stream, AtBoundary
<1> QED
  BY <1>3, <1>5 DEF Phase

\* A byte of s that completes a payload, and with it a turn of the conversation.
LEMMA PhaseDone ==
  ASSUME TypeOK, Phase, NEW s \in Stream, NEW b, NEW v, NEW n,
         Send(s, b, v, n), ~thrown',
         ~AtBoundary(s), v.field = "LENGTH_0", v.first = TRUE,
         v.kind = wire[s].kind,
         s = "server" => /\ connection_state' = connection_state
                         /\ v.kind = "ok" => OkSeen
  PROVE  Phase'
<1>1. /\ wire'[s] = v
      /\ \A t \in Stream \ {s} : wire'[t] = wire[t]
      /\ stage' = StageAfter(v.kind)
      /\ s = "client" => connection_state' = connection_state
      /\ ~thrown
  BY PhaseSend
<1>2. ClientKinds /\ ServerKinds /\ OkLength /\ PhaseKnown
  BY <1>1 DEF Phase
<1>3. AtBoundary(s)'
  BY <1>1 DEF AtBoundary
<1>4. CASE s = "client"
  <2>1. wire'["server"] = wire["server"] /\ AtBoundary("client")'
    BY <1>1, <1>3, <1>4 DEF Stream
  <2>2. CASE v.kind = "auth"
    <3>1. stage = "client_auth" /\ stage' = "server_auth"
      BY <1>1, <1>2, <1>4, <2>2 DEF ClientKinds, StageAfter
    <3>2. AtBoundary("server")
      BY <1>2, <3>1 DEF ServerKinds
    <3> QED
      BY <1>1, <1>2, <1>4, <2>1, <3>1, <3>2
         DEF Phase, ClientKinds, ServerKinds, OkLength, PhaseKnown, OkSeen, AtBoundary
  <2>3. CASE v.kind # "auth"
    <3>1. v.kind \in {"command", "data"}
      BY <1>2, <1>4, <2>3 DEF ClientKinds
    <3>2. stage' = stage
      BY <1>1, <3>1 DEF StageAfter
    <3> QED
      BY <1>1, <1>2, <1>4, <2>1, <3>2
         DEF Phase, ClientKinds, ServerKinds, OkLength, PhaseKnown, OkSeen, AtBoundary
  <2> QED
    BY <2>2, <2>3
<1>5. CASE s = "server"
  <2>1. /\ wire'["client"] = wire["client"]
        /\ AtBoundary("client")' <=> AtBoundary("client")
        /\ AtBoundary("server")'
        /\ ~OkSeen'
    BY <1>1, <1>3, <1>5 DEF Stream, AtBoundary, OkSeen
  <2>2. CASE v.kind = "result"
    <3>1. stage' = stage /\ stage = "command"
      BY <1>1, <1>2, <1>5, <2>2 DEF ServerKinds, StageAfter
    <3> QED
      BY <1>2, <1>5, <2>1, <3>1
         DEF Phase, ClientKinds, ServerKinds, OkLength, PhaseKnown
  <2>3. CASE v.kind # "result"
    <3>1. v.kind \in {"challenge", "err", "notice", "ok"} /\ stage \in {"greeting", "server_auth"}
      BY <1>2, <1>5, <2>3 DEF ServerKinds
    <3>2. stage' = IF v.kind = "ok" THEN "command"
                   ELSE IF v.kind = "challenge" THEN "client_auth"
                   ELSE IF v.kind = "err" THEN "closed" ELSE stage
      BY <1>1, <3>1 DEF StageAfter
    <3>3. AtBoundary("client")
      BY <1>2, <3>1 DEF ClientKinds
    <3>4. PhaseKnown'
      BY <1>2, <1>5, <2>1, <3>1, <3>2 DEF PhaseKnown, OkSeen
    <3> QED
      BY <2>1, <3>3, <3>4 DEF Phase, ClientKinds, ServerKinds, OkLength
  <2> QED
    BY <2>2, <2>3
<1> QED
  BY <1>4, <1>5 DEF Stream

\* The first header byte: who may start a packet, and of which kind.
LEMMA PhaseLength0 ==
  ASSUME TypeOK, Sync, Phase, NEW s \in Stream, SendLength0(s), ~thrown'
  PROVE  Phase'
<1>1. PICK kind, length, id :
        /\ kind \in IF wire[s].first THEN StartKinds(s, stage) ELSE {wire[s].kind}
        /\ length \in IF wire[s].first THEN StartLengths(s, kind) ELSE PayloadLengths[s]
        /\ Send(s, length % 256,
                [wire[s] EXCEPT !.field = "LENGTH_1", !.kind = kind,
                                !.length = length, !.sequence_id = id, !.pos = 0],
                sent[s] + 1)
  BY ZenonT(60) DEF SendLength0
<1> DEFINE v == [wire[s] EXCEPT !.field = "LENGTH_1", !.kind = kind,
                                !.length = length, !.sequence_id = id, !.pos = 0]
<1>2. wire[s] \in Wire
  BY DEF TypeOK
<1>3. v.field = "LENGTH_1" /\ v.kind = kind /\ v.length = length /\ v.first = wire[s].first
  BY <1>2, Zenon DEF Wire
<1>4. Send(s, length % 256, v, sent[s] + 1)
  BY <1>1
<1> HIDE DEF v
<1>5. /\ wire'[s] = v
      /\ \A t \in Stream \ {s} : wire'[t] = wire[t]
      /\ stage' = stage
      /\ connection_state' =
           IF s = "server" THEN connection_phase_parse(packet[s], length % 256, connection_state)
           ELSE connection_state
      /\ ~thrown
  BY <1>3, <1>4, PhaseSend
<1>6. /\ wire[s].field = "LENGTH_0"
      /\ packet[s].state = "PAYLOAD_LENGTH_0"
  BY <1>5, StateForFacts DEF SendLength0, Sync, InStep
<1>7. connection_state' = connection_state
  BY <1>5, <1>6, HeaderKeepsPhase
<1>8. ClientKinds /\ ServerKinds /\ OkLength /\ PhaseKnown
  BY <1>5 DEF Phase
<1>9. CASE wire[s].first
  <2>1. AtBoundary(s) /\ kind \in StartKinds(s, stage) /\ length \in StartLengths(s, kind)
    BY <1>1, <1>6, <1>9 DEF AtBoundary
  <2>2. CASE s = "client"
    <3>1. \/ kind = "auth" /\ stage = "client_auth"
          \/ kind \in {"command", "data"} /\ stage = "command"
      BY <2>1, <2>2 DEF StartKinds
    <3>2. wire'["server"] = wire["server"]
      BY <1>5, <2>2 DEF Stream
    <3> QED
      BY <1>3, <1>5, <1>7, <1>8, <2>2, <3>1, <3>2
         DEF Phase, ClientKinds, ServerKinds, OkLength, PhaseKnown, OkSeen, AtBoundary
  <2>3. CASE s = "server"
    <3>1. \/ kind \in {"challenge", "err"} /\ stage \in {"greeting", "server_auth"}
          \/ kind \in {"notice", "ok"} /\ stage = "server_auth"
          \/ kind = "result" /\ stage = "command"
      BY <2>1, <2>3 DEF StartKinds
    <3>2. kind = "ok" => length >= 7
      BY <2>1 DEF StartLengths
    <3>3. wire'["client"] = wire["client"] /\ wire'["server"] = v
      BY <1>5, <2>3 DEF Stream
    <3>4. ~OkSeen /\ ~OkSeen'
      BY <1>3, <1>6, <1>9, <2>3, <3>3 DEF OkSeen
    <3>5. ClientKinds' /\ ServerKinds' /\ OkLength'
      BY <1>3, <1>5, <1>8, <3>1, <3>2, <3>3
         DEF ClientKinds, ServerKinds, OkLength, AtBoundary
    <3> QED
      BY <1>5, <1>7, <1>8, <3>4, <3>5 DEF Phase, PhaseKnown
  <2> QED
    BY <2>2, <2>3 DEF Stream
<1>10. CASE ~wire[s].first
  <2>1. kind = wire[s].kind /\ ~AtBoundary(s) /\ ~AtBoundary(s)'
    BY <1>1, <1>3, <1>5, <1>10 DEF AtBoundary
  <2>2. ~v.first
    BY <1>3, <1>10
  <2>3. PhaseKnown'
    BY <1>3, <1>5, <1>7, <1>8, <1>10, <2>1, <2>2 DEF PhaseKnown, OkSeen, Stream
  <2>4. ClientKinds' /\ ServerKinds' /\ OkLength'
    BY <1>3, <1>5, <1>8, <2>1, <2>2
       DEF ClientKinds, ServerKinds, OkLength, AtBoundary, Stream
  <2> QED
    BY <2>3, <2>4 DEF Phase
<1> QED
  BY <1>9, <1>10

\* The other header bytes of a packet that is not empty.
LEMMA PhaseHeader ==
  ASSUME TypeOK, Sync, Phase, NEW s \in Stream, NEW b, NEW v, NEW n,
         Send(s, b, v, n), ~thrown',
         wire[s].field \in {"LENGTH_1", "LENGTH_2", "SEQUENCE"},
         NEW f \in {"LENGTH_2", "SEQUENCE", "BODY"},
         v = [wire[s] EXCEPT !.field = f]
  PROVE  Phase'
<1>1. wire[s] \in Wire /\ ~thrown
  BY PhaseSend DEF TypeOK
<1>2. /\ v.field = f
      /\ v.kind = wire[s].kind
      /\ v.first = wire[s].first
      /\ v.length = wire[s].length
      /\ v.pos = wire[s].pos
  BY <1>1, Zenon DEF Wire
<1>3. wire[s].pos = 0 /\ packet[s].state # "PAYLOAD"
  BY <1>1, StateForFacts, SMT DEF Sync, InStep, Collected
<1>4. ~AtBoundary(s) /\ v.field # "LENGTH_0"
  BY <1>2 DEF AtBoundary
<1>5. s = "server" => PhaseKnown'
  <2> SUFFICES ASSUME s = "server" PROVE PhaseKnown'
    OBVIOUS
  <2>1. wire'["server"] = v /\ stage' = stage /\ connection_state' = connection_state
    <3>1. /\ wire'[s] = v
          /\ stage' = IF v.field = "LENGTH_0" /\ v.first THEN StageAfter(v.kind) ELSE stage
          /\ connection_state' = connection_phase_parse(packet[s], b, connection_state)
      BY PhaseSend, Zenon
    <3>2. connection_phase_parse(packet[s], b, connection_state) = connection_state
      BY <1>3, HeaderKeepsPhase
    <3> QED
      BY <1>4, <3>1, <3>2, Zenon
  <2>2. OkSeen' <=> OkSeen
    BY <1>2, <1>3, <2>1 DEF OkSeen
  <2> QED
    BY <1>1, <2>1, <2>2 DEF Phase, PhaseKnown
<1> QED
  BY <1>2, <1>4, <1>5, PhaseInside

\* The sequence id.
LEMMA PhaseSequence ==
  ASSUME TypeOK, Sync, Phase, NEW s \in Stream, SendSequence(s), ~thrown'
  PROVE  Phase'
<1> DEFINE b == wire[s].sequence_id
           v == IF wire[s].length = 0
                THEN [wire[s] EXCEPT !.field = "LENGTH_0", !.first = TRUE]
                ELSE [wire[s] EXCEPT !.field = "BODY"]
<1>1. Send(s, b, v, sent[s]) /\ wire[s].field = "SEQUENCE"
  BY DEF SendSequence
<1>2. wire[s] \in Wire /\ ~thrown
  BY <1>1, PhaseSend DEF TypeOK
<1>3. CASE wire[s].length = 0
  <2>1. v.field = "LENGTH_0" /\ v.first = TRUE /\ v.kind = wire[s].kind
    BY <1>2, <1>3, Zenon DEF Wire
  <2> HIDE DEF v
  <2>2. ~AtBoundary(s) /\ packet[s].state = "SEQUENCE_ID"
    BY <1>1, <1>2, StateForFacts DEF AtBoundary, Sync, InStep
  <2>3. s = "server" => connection_state' = connection_state
    BY <1>1, <2>2, PhaseSend, HeaderKeepsPhase
  <2>4. s = "server" /\ v.kind = "ok" => OkSeen
    BY <1>2, <1>3, <2>1, <2>2 DEF Phase, OkLength, OkSeen
  <2> QED
    BY <1>1, <2>1, <2>2, <2>3, <2>4, PhaseDone
<1>4. CASE wire[s].length # 0
  BY <1>1, <1>4, PhaseHeader
<1> QED
  BY <1>3, <1>4

\* A byte of the body: the first one may be that of the server's OK.
LEMMA PhaseBody ==
  ASSUME TypeOK, Sync, Phase, NEW s \in Stream, SendBody(s), ~thrown'
  PROVE  Phase'
<1> DEFINE start == wire[s].first /\ wire[s].pos = 0
           w == wire[s]
           v == IF w.pos + 1 = w.length
                THEN [w EXCEPT !.field = "LENGTH_0", !.pos = @ + 1,
                               !.first = (w.length < MAX_PAYLOAD_LENGTH)]
                ELSE [w EXCEPT !.pos = @ + 1]
<1>1. PICK b \in (IF start THEN FirstBytes(v.kind, v.length) ELSE Contents[w.pos]) :
        Send(s, b, v, sent[s])
  BY DEF SendBody
<1>2. w \in Wire /\ ~thrown /\ w.field = "BODY"
  BY <1>1, PhaseSend DEF TypeOK, SendBody
<1>3. /\ v.kind = w.kind
      /\ v.length = w.length
      /\ v.pos = w.pos + 1
      /\ w.pos + 1 = w.length =>
           v.field = "LENGTH_0" /\ v.first = (w.length < MAX_PAYLOAD_LENGTH)
      /\ w.pos + 1 # w.length => v.field = w.field /\ v.first = w.first
  BY <1>2, Zenon DEF Wire
<1>4. v.first \in BOOLEAN /\ w.pos \in Nat /\ w.length \in Nat
  <2>1. w.first \in BOOLEAN /\ w.pos \in Nat /\ w.length \in Nat
    BY <1>2, SMT DEF Wire
  <2>2. (w.length < MAX_PAYLOAD_LENGTH) \in BOOLEAN
    OBVIOUS
  <2> QED
    BY <1>3, <2>1, <2>2, Zenon
<1>5. /\ packet[s].state = "PAYLOAD"
      /\ packet[s].length = w.length
      /\ packet[s].received = w.pos
      /\ packet[s].first_part = w.first
  BY <1>2, StateForFacts, SMT DEF Sync, InStep, Collected
<1>6. ClientKinds /\ ServerKinds /\ OkLength /\ PhaseKnown
  BY <1>2 DEF Phase
<1>7. ~AtBoundary(s)
  BY <1>2 DEF AtBoundary
<1> HIDE DEF v
<1>8. /\ wire'[s] = v
      /\ stage' = IF v.field = "LENGTH_0" /\ v.first THEN StageAfter(v.kind) ELSE stage
      /\ s = "server" =>
           connection_state' = connection_phase_parse(packet[s], b, connection_state)
  BY <1>1, PhaseSend, Zenon
\* Whatever the byte, the phase changes exactly with the first byte of an OK.
<1>9. ASSUME s = "server"
      PROVE  connection_state' = IF start /\ w.kind = "ok" THEN "COMMAND_PHASE"
                                 ELSE connection_state
  <2>1. CASE ~start
    BY <1>5, <1>8, <1>9, <2>1 DEF connection_phase_parse, ParsesFirstByte
  <2>2. CASE start /\ w.kind = "ok"
    <3>1. b = OK_BYTE /\ w.length > 3
      BY <1>1, <1>3, <1>4, <1>6, <1>7, <1>9, <2>2 DEF FirstBytes, OkLength
    <3>2. get_response(b, packet[s].length) = "OK_PACKET"
      BY <1>5, <3>1 DEF get_response, OK_BYTE, EOF_BYTE, ERR_BYTE
    <3>3. connection_state \in {"CONNECTION_PHASE", "COMMAND_PHASE"}
      BY DEF TypeOK, ConnectionState
    <3> QED
      BY <1>5, <1>8, <1>9, <2>2, <3>2, <3>3 DEF connection_phase_parse, ParsesFirstByte
  <2>3. CASE start /\ w.kind = "result"
    <3>1. connection_state = "COMMAND_PHASE"
      BY <1>6, <1>7, <1>9, <2>3 DEF ServerKinds, PhaseKnown
    <3> QED
      BY <1>8, <1>9, <2>3, <3>1 DEF connection_phase_parse
  <2>4. CASE start /\ w.kind \in {"challenge", "err", "notice"}
    <3>1. b # OK_BYTE
      BY <1>1, <1>3, <2>4 DEF FirstBytes, OK_BYTE, EOF_BYTE, ERR_BYTE
    <3>2. get_response(b, packet[s].length) # "OK_PACKET"
      BY <3>1 DEF get_response
    <3> QED
      BY <1>8, <1>9, <2>4, <3>2 DEF connection_phase_parse
  <2> QED
    BY <1>6, <1>7, <1>9, <2>1, <2>2, <2>3, <2>4 DEF ServerKinds
<1>10. s = "server" /\ w.kind = "ok" /\ w.first => w.length >= 7
  BY <1>6, <1>7 DEF OkLength
<1>11. CASE v.field = "LENGTH_0" /\ v.first
  <2>1. w.pos + 1 = w.length /\ v.first = TRUE
    BY <1>2, <1>3, <1>4, <1>11
  <2>2. s = "server" /\ w.kind = "ok" => ~start /\ OkSeen
    BY <1>2, <1>4, <1>10, <2>1 DEF OkSeen
  <2>3. s = "server" => connection_state' = connection_state
    BY <1>9, <2>2
  <2> QED
    BY <1>1, <1>3, <1>7, <1>11, <2>1, <2>2, <2>3, PhaseDone
<1>12. CASE ~(v.field = "LENGTH_0" /\ v.first)
  <2>1. v.first => w.first
    BY <1>3, <1>12
  <2>2. stage' = stage
    BY <1>8, <1>12
  <2>3. s = "server" => PhaseKnown'
    <3> SUFFICES ASSUME s = "server" PROVE PhaseKnown'
      OBVIOUS
    <3>1. CASE w.kind = "ok"
      <4>1. OkSeen'
        BY <1>2, <1>3, <1>4, <1>8, <1>12, <3>1 DEF OkSeen
      <4>2. ~start => OkSeen
        BY <1>2, <1>4, <3>1 DEF OkSeen
      <4>3. connection_state' = "COMMAND_PHASE"
        BY <1>6, <1>9, <3>1, <4>2 DEF PhaseKnown
      <4> QED
        BY <4>1, <4>3 DEF PhaseKnown
    <3>2. CASE w.kind # "ok"
      <4>1. ~OkSeen /\ ~OkSeen'
        BY <1>3, <1>8, <3>2 DEF OkSeen
      <4> QED
        BY <1>6, <1>9, <2>2, <3>2, <4>1 DEF PhaseKnown
    <3> QED
      BY <3>1, <3>2
  <2> QED
    BY <1>1, <1>3, <1>7, <1>12, <2>1, <2>3, PhaseInside
<1> QED
  BY <1>11, <1>12

\* A new connection is in the connection phase.
LEMMA PhaseInit == Init => Phase
<1> SUFFICES ASSUME Init PROVE Phase
  OBVIOUS
<1>1. /\ wire["client"].field = "LENGTH_0"
      /\ wire["client"].first = TRUE
      /\ wire["server"].field = "LENGTH_0"
      /\ wire["server"].first = TRUE
      /\ stage = "greeting"
      /\ connection_state = "CONNECTION_PHASE"
  BY DEF Init, Stream
<1> QED
  BY <1>1 DEF Phase, ClientKinds, ServerKinds, OkLength, PhaseKnown, OkSeen, AtBoundary

\* Every step keeps the phase known.
LEMMA PhaseStep == TypeOK /\ Sync /\ Phase /\ [Next]_vars => Phase'
<1> SUFFICES ASSUME TypeOK, Sync, Phase, [Next]_vars, ~thrown' PROVE Phase'
  BY DEF Phase
<1>1. ASSUME NEW s \in Stream, SendLength1(s) PROVE Phase'
  BY <1>1, PhaseHeader DEF SendLength1
<1>2. ASSUME NEW s \in Stream, SendLength2(s) PROVE Phase'
  BY <1>2, PhaseHeader, SMT DEF SendLength2
<1>3. CASE UNCHANGED vars
  BY <1>3 DEF vars, proxyVars, peerVars, Phase, ClientKinds, ServerKinds, OkLength,
              PhaseKnown, OkSeen, AtBoundary
<1> QED
  BY <1>1, <1>2, <1>3, PhaseLength0, PhaseSequence, PhaseBody DEF Next

(* The client's packets are parsed in the phase they belong to, although the *)
(* phase is found out from the other stream.                                 *)
THEOREM PhasesAgree == Spec => []PhaseAgreement
  BY PhaseInit, PhaseStep, PhaseImplies, SyncInit, SyncStep, PTL DEF Spec
=============================================================================

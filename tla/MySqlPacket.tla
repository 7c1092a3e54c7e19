------------------------------ MODULE MySqlPacket ------------------------------
(***************************************************************************)
(* The packet collectors of src/src/packet.hpp and src/src/packet.cpp:     *)
(* MySqlPacket::collect, fed one byte at a time, with the hooks of         *)
(* FromClientPacket and FromServerPacket.                                  *)
(*                                                                         *)
(* A MySqlPacket object is a record p of the base class's fields; the      *)
(* fields FromClientPacket adds are a second record q.  The payload itself *)
(* is only kept by the debug build and is not modelled.                    *)
(***************************************************************************)
EXTENDS MySqlProtocol, Sequences

CONSTANT MAX_PAYLOAD_LENGTH  \* 0xffffff in the code; scaled down for TLC

ASSUME MaxPayloadAssumption ==
  MAX_PAYLOAD_LENGTH \in Nat \ {0} /\ MAX_PAYLOAD_LENGTH <= 16777215

PacketState == {"PAYLOAD_LENGTH_0", "PAYLOAD_LENGTH_1", "PAYLOAD_LENGTH_2",
                "SEQUENCE_ID", "PAYLOAD"}

ConnectionState == {"CONNECTION_PHASE", "COMMAND_PHASE"}

\* A collector no byte has reached yet: the member initialisers.
NewPacket == [state       |-> "PAYLOAD_LENGTH_0",
              first_part  |-> TRUE,
              not_ended   |-> FALSE,
              is_received |-> FALSE,
              length      |-> 0,
              sequence_id |-> 0,
              received    |-> 0]

NewRequest == [command |-> UNKNOWN, sql_receiving |-> FALSE, sql |-> << >>]

-----------------------------------------------------------------------------
(* MySqlPacket::collect: the header bytes.                                  *)

\* Mutant: m_is_received is not reset when the next packet begins.
collect_length_0_KeepsReceived(p, b) ==
  [p EXCEPT !.received = 0, !.length = b, !.state = "PAYLOAD_LENGTH_1"]

collect_length_0(p, b) ==
  [p EXCEPT !.is_received = FALSE, !.received = 0, !.length = b,
            !.state = "PAYLOAD_LENGTH_1"]

shl8(b)  == b * 256    \* t_received_byte << 8u
shl16(b) == b * 65536  \* t_received_byte << 16u

collect_length_1(p, b) ==
  [p EXCEPT !.length = @ + shl8(b), !.state = "PAYLOAD_LENGTH_2"]

collect_length_2(p, b) ==
  [p EXCEPT !.length = @ + shl16(b), !.state = "SEQUENCE_ID"]

\* Mutant: the case of an empty payload is forgotten.
collect_sequence_id_NeverEmpty(p, b) ==
  [p EXCEPT !.sequence_id = b, !.not_ended = (p.length = MAX_PAYLOAD_LENGTH),
            !.state = "PAYLOAD"]

\* An empty payload ends here: without data_is_received(), which only the
\* last byte of a non-empty payload calls.
collect_sequence_id(p, b) ==
  LET q == [p EXCEPT !.sequence_id = b,
                     !.not_ended = (p.length = MAX_PAYLOAD_LENGTH)]
  IN  IF p.length = 0
      THEN [q EXCEPT !.is_received = TRUE, !.first_part = TRUE,
                     !.state = "PAYLOAD_LENGTH_0"]
      ELSE [q EXCEPT !.state = "PAYLOAD"]

(* A payload byte.  A part of the full MAX_PAYLOAD_LENGTH is continued by   *)
(* the next packet, so only a shorter one completes the payload.            *)

\* Mutant: the received bytes are compared before the current one is counted.
EndsPart_OneLate(p) == p.state = "PAYLOAD" /\ p.received = p.length

EndsPart(p) == p.state = "PAYLOAD" /\ p.received + 1 = p.length

Completes(p) == EndsPart(p) /\ ~p.not_ended

collect_payload(p) ==
  IF EndsPart(p)
  THEN [p EXCEPT !.received    = @ + 1,
                 !.is_received = @ \/ ~p.not_ended,
                 !.first_part  = ~p.not_ended,
                 !.state       = "PAYLOAD_LENGTH_0"]
  ELSE [p EXCEPT !.received = @ + 1]

\* MySqlPacket::collect, the part common to both directions.
collect(p, b) ==
  CASE p.state = "PAYLOAD_LENGTH_0" -> collect_length_0(p, b)
    [] p.state = "PAYLOAD_LENGTH_1" -> collect_length_1(p, b)
    [] p.state = "PAYLOAD_LENGTH_2" -> collect_length_2(p, b)
    [] p.state = "SEQUENCE_ID"      -> collect_sequence_id(p, b)
    [] p.state = "PAYLOAD"          -> collect_payload(p)

-----------------------------------------------------------------------------
(* The hooks.  The first byte of every part is offered to the parser of the *)
(* current connection phase before it is collected.                         *)

\* Mutant: the first byte of a continuation is parsed as well.
ParsesFirstByte_EveryPart(p) ==
  /\ p.state = "PAYLOAD"
  /\ p.received = 0

ParsesFirstByte(p) ==
  /\ p.state = "PAYLOAD"
  /\ p.received = 0
  /\ p.first_part

\* FromClientPacket::command_phase_parse throws "BAD packet".
BadPacket(p, b, phase) ==
  /\ ParsesFirstByte(p)
  /\ phase = "COMMAND_PHASE"
  /\ is_valid(b)
  /\ p.sequence_id # 0

\* Mutant: m_sql_string is not cleared when a new command begins.
command_phase_parse_KeepsSql(p, q, b, phase) ==
  IF ParsesFirstByte(p) /\ phase = "COMMAND_PHASE"
  THEN [q EXCEPT !.command = b,
                 !.sql_receiving = @ \/ has_sql_field(b)]
  ELSE q

\* FromClientPacket::command_phase_parse, when it does not throw: a first part
\* starts a new command, a continuation only reserves memory.
\* FromClientPacket::connection_phase_parse does nothing.
command_phase_parse(p, q, b, phase) ==
  IF ParsesFirstByte(p) /\ phase = "COMMAND_PHASE"
  THEN [command       |-> b,
        sql_receiving |-> q.sql_receiving \/ has_sql_field(b),
        sql           |-> << >>]
  ELSE q

\* FromClientPacket::collect_data, called for every payload byte except the
\* first byte of a first part.
collect_data(p, q, b) ==
  IF /\ p.state = "PAYLOAD"
     /\ p.received > 0 \/ ~p.first_part
     /\ q.sql_receiving
  THEN [q EXCEPT !.sql = Append(@, b)]
  ELSE q

\* FromClientPacket::data_is_received
data_is_received(p, q) ==
  IF Completes(p) THEN [q EXCEPT !.sql_receiving = FALSE] ELSE q

\* What one byte does to the fields of FromClientPacket.
client_collect(p, q, b, phase) ==
  data_is_received(p, collect_data(p, command_phase_parse(p, q, b, phase), b))

\* What FromClientPacket tells the logger.
get_command_string(p, q) == name(q.command, p.length)
has_sql_string(q)        == q.sql # << >>

\* FromServerPacket::connection_phase_parse: an OK packet ends the connection
\* phase.  The other hooks of FromServerPacket do nothing.
connection_phase_parse(p, b, phase) ==
  IF /\ ParsesFirstByte(p)
     /\ phase = "CONNECTION_PHASE"
     /\ get_response(b, p.length) = "OK_PACKET"
  THEN "COMMAND_PHASE"
  ELSE phase
=============================================================================

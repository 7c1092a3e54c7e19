---------------------------- MODULE MCPacketStream ----------------------------
(***************************************************************************)
(* Instances of PacketStream for TLC.  The part limit is scaled down to 8  *)
(* bytes, so that a full part, its continuation and the seven bytes of an  *)
(* OK packet all fit.  The first byte of a payload is chosen, the others   *)
(* are told apart by their position.                                       *)
(***************************************************************************)
EXTENDS PacketStream

\* 0 is the first byte of an OK packet, 3 that of a COM_QUERY.
MCContents == [i \in 0 .. MAX_PAYLOAD_LENGTH - 1 |-> IF i = 0 THEN {0, 3} ELSE {i}]

MCPayloadLengths == [s \in Stream |-> IF s = "client" THEN {0, 2, 5, 8} ELSE {1, 7, 8}]

MCMaxPackets == [s \in Stream |-> IF s = "client" THEN 4 ELSE 3]
=============================================================================

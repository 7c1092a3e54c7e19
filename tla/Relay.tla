--------------------------------- MODULE Relay ---------------------------------
(***************************************************************************)
(* The bytes that Connection (src/src/connection.cpp) moves between its    *)
(* two sockets.  Relay extends ProxyServer: its actions are those of       *)
(* ProxyServer together with what they do to the bytes, so that a receive  *)
(* completes because bytes have arrived, send() blocks because the kernel  *)
(* has no room for them, and an operation fails because a peer has gone.   *)
(*                                                                         *)
(* A flow <<c, s>> is the stream of bytes from the peer s of c to the      *)
(* opposite peer.  The bytes of a flow are numbered in the order they are  *)
(* sent.  The peers and the kernel are external.  The kernel stores up to  *)
(* SendBuffer bytes that a peer has not taken.  Asynchronous operations    *)
(* have made the descriptors non-blocking, so the synchronous send() waits *)
(* for room but then transmits only what fits; do_transfer does not look   *)
(* at its result.                                                          *)
(***************************************************************************)
EXTENDS ProxyServer

CONSTANTS
  BUFFER_LENGTH,  \* Connection::BUFFER_LENGTH
  SendBuffer,     \* bytes the kernel stores for a peer
  MaxBytes        \* bound on the bytes each peer sends

ASSUME RelayAssumption ==
  /\ BUFFER_LENGTH \in Nat \ {0}
  /\ SendBuffer \in Nat \ {0}
  /\ MaxBytes \in [Side -> Nat]

Flow == Conn \X Side

\* The flow in the opposite direction: what f reads is sent to its peer.
Opposite(f) == <<f[1], CHOOSE s \in Side : s # f[2]>>

VARIABLES
  link,       \* what the peer of each flow has done with its TCP connection
  sent,       \* bytes the peer has sent
  read,       \* bytes Asio has received
  buffer,     \* m_client_buffer, m_server_buffer
  count,      \* bytes_transferred of the last receive
  collected,  \* bytes do_packet_logging has seen
  out,        \* bytes send() has accepted
  taken,      \* how many of them the opposite peer has taken
  short       \* some send() has transmitted fewer bytes than it was given

relayVars == <<link, sent, read, buffer, count, collected, out, taken, short>>

-----------------------------------------------------------------------------
(* The peers and the kernel.                                                *)

PeerLinked(f) == Alive /\ life[f[1]] = "managed" /\ link[f] # "none"

PeerSends(f) ==
  /\ PeerLinked(f)
  /\ link[f] = "open"
  /\ sent[f] < MaxBytes[f[2]]
  /\ sent' = [sent EXCEPT ![f] = @ + 1]
  /\ UNCHANGED <<vars, link, read, buffer, count, collected, out, taken, short>>

\* The peer shuts down its sending direction, or it is gone.
PeerLeaves(f) ==
  /\ PeerLinked(f)
  /\ \E l \in {"finished", "reset"} \ {link[f]} :
       link[f] # "reset" /\ link' = [link EXCEPT ![f] = l]
  /\ UNCHANGED <<vars, sent, read, buffer, count, collected, out, taken, short>>

\* The opposite peer takes a byte of the flow f.
PeerTakes(f) ==
  /\ PeerLinked(Opposite(f))
  /\ link[Opposite(f)] # "reset"
  /\ taken[f] < Len(out[f])
  /\ taken' = [taken EXCEPT ![f] = @ + 1]
  /\ UNCHANGED <<vars, link, sent, read, buffer, count, collected, out, short>>

\* Mutant: the receive is given more room than the buffer has.
ReceiveLimit_OneTooMany == BUFFER_LENGTH + 1

ReceiveLimit == BUFFER_LENGTH

\* A pending receive completes with some of the bytes that have arrived; what
\* was in the rest of the buffer stays there.
ReceiveBytes(f) ==
  \E n \in 1 .. sent[f] - read[f] :
    /\ n <= ReceiveLimit
    /\ Complete(f, "ok")
    /\ buffer' = [buffer EXCEPT ![f] =
                    [i \in DOMAIN @ |-> IF i <= n THEN read[f] + i ELSE @[i]]]
    /\ count' = [count EXCEPT ![f] = n]
    /\ read' = [read EXCEPT ![f] = @ + n]
    /\ UNCHANGED <<link, sent, collected, out, taken, short>>

\* End of file follows the last byte, a reset may overtake bytes.
ReceiveFails(f) ==
  /\ link[f] = "reset" \/ (link[f] = "finished" /\ read[f] = sent[f])
  /\ Complete(f, "error")
  /\ UNCHANGED relayVars

ConnectReturns(c) ==
  /\ \/ Complete(Connect(c), "ok") /\ link' = [link EXCEPT ![<<c, "server">>] = "open"]
     \/ Complete(Connect(c), "error") /\ UNCHANGED link
  /\ UNCHANGED <<sent, read, buffer, count, collected, out, taken, short>>

-----------------------------------------------------------------------------
(* Connection::do_transfer                                                  *)

\* Mutant: the bytes are not limited to t_bytes_transferred.
Received_WholeBuffer(f) == buffer[f]

\* boost::asio::buffer(t_read_buffer, t_bytes_transferred)
Received(f) == SubSeq(buffer[f], 1, count[f])

\* The loop of do_packet_logging hands the first n bytes to the collector.
Collect(f, n) ==
  collected' = [collected EXCEPT ![f] = @ \o SubSeq(Received(f), 1, n)]

CollectAll(f) == Collect(f, Len(Received(f)))

Room(f) == SendBuffer - (Len(out[f]) - taken[f])

\* send() transmits what there is room for and returns.
Forward(f) ==
  LET n == IF Len(Received(f)) <= Room(f) THEN Len(Received(f)) ELSE Room(f)
  IN  /\ Room(f) > 0
      /\ link[Opposite(f)] # "reset"
      /\ out' = [out EXCEPT ![f] = @ \o SubSeq(Received(f), 1, n)]
      /\ short' = [short EXCEPT ![f] = @ \/ n < Len(Received(f))]

RelayTransfer(f) ==
  /\ Transfer(f[1], f[2])
  /\ CollectAll(f)
  /\ Forward(f)
  /\ UNCHANGED <<link, sent, read, buffer, count, taken>>

RelayBlocks(f) ==
  /\ TransferBlocks(f[1], f[2])
  /\ CollectAll(f)
  /\ Room(f) = 0
  /\ link[Opposite(f)] # "reset"
  /\ UNCHANGED <<link, sent, read, buffer, count, out, taken, short>>

RelayResumes(f) ==
  /\ SendResumes(f[1], f[2])
  /\ Forward(f)
  /\ UNCHANGED <<link, sent, read, buffer, count, collected, taken>>

\* Mutant: each byte is forwarded as soon as the collector has taken it.
BadPacketThrows_ByteByByte(f) ==
  /\ f[2] = "client"
  /\ TransferThrows(f[1], f[2])
  /\ \E n \in 1 .. Len(Received(f)) :
       /\ Collect(f, n - 1)
       /\ n - 1 <= Room(f)
       /\ out' = [out EXCEPT ![f] = @ \o SubSeq(Received(f), 1, n - 1)]
  /\ UNCHANGED <<link, sent, read, buffer, count, taken, short>>

\* The collector of the client's packets throws at some byte.
BadPacketThrows(f) ==
  /\ f[2] = "client"
  /\ TransferThrows(f[1], f[2])
  /\ \E n \in 1 .. Len(Received(f)) : Collect(f, n - 1)
  /\ UNCHANGED <<link, sent, read, buffer, count, out, taken, short>>

\* send() throws: the opposite peer has gone, perhaps while send() waited.
SendFails(f) ==
  /\ link[Opposite(f)] = "reset"
  /\ \/ TransferThrows(f[1], f[2]) /\ CollectAll(f)
     \/ SendThrows(f[1], f[2]) /\ UNCHANGED collected
  /\ UNCHANGED <<link, sent, read, buffer, count, out, taken, short>>

StartRelay(c) ==
  /\ StartConnection(c)
  /\ link' = [link EXCEPT ![<<c, "client">>] = "open"]
  /\ UNCHANGED <<sent, read, buffer, count, collected, out, taken, short>>

-----------------------------------------------------------------------------

RelayInit ==
  /\ Init
  /\ link = [f \in Flow |-> "none"]
  /\ sent = [f \in Flow |-> 0]
  /\ read = [f \in Flow |-> 0]
  /\ buffer = [f \in Flow |-> [i \in 1 .. BUFFER_LENGTH |-> 0]]
  /\ count = [f \in Flow |-> 0]
  /\ collected = [f \in Flow |-> << >>]
  /\ out = [f \in Flow |-> << >>]
  /\ taken = [f \in Flow |-> 0]
  /\ short = [f \in Flow |-> FALSE]

\* The peers, and the kernel on their behalf.
Peers ==
  \/ \E f \in Flow : PeerSends(f) \/ PeerLeaves(f) \/ PeerTakes(f) \/ ReceiveFails(f)
  \/ \E c \in Conn : ConnectReturns(c)
  \/ (ClientConnects \/ SignalArrives) /\ UNCHANGED relayVars

\* One round of the loop of io_context::run, or what ends a send() that waits.
RelayRunOne ==
  \/ \E f \in Flow : RelayTransfer(f) \/ RelayBlocks(f) \/ BadPacketThrows(f)
  \/ \E f \in Flow : RelayResumes(f) \/ SendFails(f)
  \/ \E c \in Conn : StartRelay(c)
  \/ Handlers /\ UNCHANGED relayVars

RelayNext ==
  \/ Peers
  \/ \E f \in Flow : ReceiveBytes(f)
  \/ RelayRunOne
  \/ (Listen \/ ListenThrows \/ Ended) /\ UNCHANGED relayVars

RelaySpec == RelayInit /\ [][RelayNext]_<<vars, relayVars>>

\* The kernel delivers the bytes that have been sent, and the thread of
\* io_context::run keeps running handlers; nothing is assumed of the peers.
RelayFairSpec ==
  /\ RelaySpec
  /\ \A f \in Flow : WF_<<vars, relayVars>>(ReceiveBytes(f))
  /\ WF_<<vars, relayVars>>(RelayRunOne)

-----------------------------------------------------------------------------
(* Properties.                                                              *)

(* RelayTypeOK: every variable is in its type; a receive never delivers more  *)
(* bytes than the buffer of the connection has.                               *)
RelayTypeOK ==
  /\ link \in [Flow -> {"none", "open", "finished", "reset"}]
  /\ sent \in [Flow -> Nat]
  /\ read \in [Flow -> Nat]
  /\ buffer \in [Flow -> [1 .. BUFFER_LENGTH -> Nat]]
  /\ count \in [Flow -> 0 .. BUFFER_LENGTH]
  /\ collected \in [Flow -> Seq(Nat)]
  /\ out \in [Flow -> Seq(Nat)]
  /\ taken \in [Flow -> Nat]
  /\ short \in [Flow -> BOOLEAN]

(* CollectedIsStream: do_packet_logging sees the bytes of each direction      *)
(* exactly as they were sent, none twice and none left from an earlier        *)
(* receive, whatever the receives and the waits in send() do to the buffer.   *)
CollectedIsStream ==
  \A f \in Flow : \A i \in DOMAIN collected[f] : collected[f][i] = i

(* ForwardedIsLogged: a byte is only forwarded once it has been logged, and a  *)
(* receive is forwarded only once all its bytes have been: if one of them is   *)
(* rejected as "BAD packet", none of that receive reaches the server, not even *)
(* those collected before it.  Bytes are never reordered or repeated, even     *)
(* where a short send() has lost some.                                         *)
ForwardedIsLogged ==
  \A f \in Flow :
    /\ \A i \in DOMAIN out[f] : out[f][i] \in DOMAIN collected[f]
    /\ Len(collected[f]) < read[f] =>
         \A i \in DOMAIN out[f] : out[f][i] <= read[f] - count[f]
    /\ \A i, j \in DOMAIN out[f] : i < j => out[f][i] < out[f][j]

(* StreamIntact: as long as every send() has transmitted all it was given,    *)
(* everything received has been forwarded before more is received, however    *)
(* often send() had to wait.                                                  *)
StreamIntact ==
  \A f \in Flow :
    proc = "running" /\ op[f] = "pending" /\ ~short[f] => out[f] = collected[f]

(* ForwardsReceived: do_transfer forwards "the received data on to "the other *)
(* side"" (connection.cpp) before it reads more data.                         *)
ForwardsReceived ==
  \A f \in Flow : proc = "running" /\ op[f] = "pending" => out[f] = collected[f]

(* BytesMove: if no send() blocks for ever, bytes sent while both sides of a  *)
(* connection are being served are received and logged, unless their sender   *)
(* goes away abruptly or the connection or the process ends.                  *)
BytesMove ==
  SendsReturn =>
    \A f \in Flow : \A n \in 1 .. MaxBytes[f[2]] :
      (op[f] = "pending" /\ sent[f] >= n) ~>
        (Len(collected[f]) >= n \/ link[f] = "reset" \/ life[f[1]] = "destroyed" \/ ~Alive)
=============================================================================

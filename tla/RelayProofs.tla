------------------------------ MODULE RelayProofs ------------------------------
(***************************************************************************)
(* Proofs about Relay for any number of connections, any sizes of the      *)
(* buffers and any number of bytes.                                        *)
(*                                                                         *)
(* None of the properties about bytes is inductive.  What do_transfer may  *)
(* do with a flow depends on where the bytes of the last receive are: in   *)
(* the buffer only ("received"), logged while send() waits ("waiting"),    *)
(* logged and sent ("forwarded").  Status says which, from the state of    *)
(* the receive and of the thread, and Bytes relates the counters, the      *)
(* buffer, what was logged and what was sent accordingly.                  *)
(*                                                                         *)
(* That a receive cannot complete between the two halves of a transfer     *)
(* rests on two facts about the handlers: a receive whose handler waits in *)
(* send() has not been started again, and do_connect starts the receives   *)
(* of a connection once.                                                   *)
(***************************************************************************)
EXTENDS Relay, ProxyServerProofs, SequenceTheorems

\* Where the bytes of the last receive of f are.
Status(f) ==
  IF ~Alive THEN "ended"
  ELSE IF op[f] = "ok" THEN "received"
  ELSE IF thread = f THEN "waiting"
  ELSE "forwarded"

\* rd bytes have been received, the last n of them into the buffer buf, and the
\* bytes of col have been logged, those of o sent.
Bytes(st, rd, buf, n, col, o, sh) ==
  /\ n <= rd
  /\ \A i \in 1 .. n : buf[i] = (rd - n) + i
  /\ \A i \in 1 .. Len(col) : col[i] = i
  /\ \A i \in 1 .. Len(o) : o[i] \in 1 .. Len(col)
  /\ \A i, j \in 1 .. Len(o) : i < j => o[i] < o[j]
  /\ Len(col) < rd => \A i \in 1 .. Len(o) : o[i] <= rd - n
  /\ st = "received" => Len(col) = rd - n
  /\ st \in {"waiting", "forwarded"} => Len(col) = rd
  /\ st = "waiting" => \A i \in 1 .. Len(o) : o[i] <= rd - n
  /\ st # "ended" /\ ~sh =>
       /\ Len(o) = IF st = "forwarded" THEN rd ELSE rd - n
       /\ \A i \in 1 .. Len(o) : o[i] = i

\* r holds the n bytes of the last receive, of rd bytes in all.
LastBytes(r, rd, n) ==
  r \in Seq(Nat) /\ Len(r) = n /\ \A i \in 1 .. n : r[i] = (rd - n) + i

\* send() is given r, and what has been sent grows from o to p.
Sends(r, o, p, sh, q) ==
  \E m \in 0 .. Len(r) : p = o \o SubSeq(r, 1, m) /\ q = (sh \/ m < Len(r))

BytesInPlace ==
  \A f \in Flow :
    Bytes(Status(f), read[f], buffer[f], count[f], collected[f], out[f], short[f])

\* While send() waits, no receive of its flow is outstanding.
WaitingIsIdle == Alive => \A f \in Flow : thread = f => op[f] = "idle"

\* The receives of a connection are started when its connect has completed.
ReceivesFollowConnect ==
  Alive =>
    \A c \in Conn :
      life[c] = "unused" \/ op[Connect(c)] \in {"pending", "ok"} =>
        \A s \in Side : op[Receive(c, s)] = "idle" /\ thread # Receive(c, s)

\* What the bytes depend on, of the state of the handlers.
Handling == WaitingIsIdle /\ ReceivesFollowConnect

-----------------------------------------------------------------------------
(* Relay implements ProxyServer.                                            *)

\* A flow is the receive of one side of a connection.
LEMMA FlowFacts ==
  /\ \A f \in Flow : f[1] \in Conn /\ f[2] \in Side /\ f = Receive(f[1], f[2])
  /\ \A f \in Flow : f \in Op /\ f \in ConnOps(f[1]) /\ f # Accept /\ f # Signal /\ f # Free
  /\ \A f \in Flow, c \in Conn : f # Connect(c)
  /\ \A c \in Conn, s \in Side : Receive(c, s) \in Flow
<1>1. \A f \in Flow : f[1] \in Conn /\ f[2] \in Side /\ f = Receive(f[1], f[2])
  BY DEF Flow, Receive
<1>2. \A c \in Conn, s \in Side : Receive(c, s) \in Flow
  BY DEF Flow, Receive
<1>3. \A f \in Flow : f \in Op /\ f \in ConnOps(f[1]) /\ f # Accept /\ f # Signal /\ f # Free
  BY <1>1, OpFacts
<1>4. \A f \in Flow, c \in Conn : f # Connect(c)
  BY DEF Flow, Connect, Side
<1> QED
  BY <1>1, <1>2, <1>3, <1>4

\* Every step of Relay is a step of ProxyServer, or none of its business.
LEMMA RelayStep == [RelayNext]_<<vars, relayVars>> => [Next]_vars
<1> SUFFICES ASSUME RelayNext PROVE [Next]_vars
  BY DEF vars
<1>1. ASSUME NEW f \in Flow, PeerSends(f) \/ PeerLeaves(f) \/ PeerTakes(f)
      PROVE  [Next]_vars
  BY <1>1 DEF PeerSends, PeerLeaves, PeerTakes
<1>2. ASSUME NEW f \in Flow, ReceiveFails(f) \/ ReceiveBytes(f) PROVE [Next]_vars
  <2>1. ReceiveCompletes(f[1], f[2])
    BY <1>2, FlowFacts DEF ReceiveFails, ReceiveBytes, ReceiveCompletes, Completed
  <2> QED
    BY <2>1, FlowFacts DEF Next, Environment
<1>3. ASSUME NEW c \in Conn, ConnectReturns(c) PROVE [Next]_vars
  <2>1. ConnectCompletes(c)
    BY <1>3 DEF ConnectReturns, ConnectCompletes, Completed
  <2> QED
    BY <2>1 DEF Next, Environment
<1>4. ASSUME NEW f \in Flow, RelayTransfer(f) \/ RelayBlocks(f) \/ BadPacketThrows(f)
      PROVE  [Next]_vars
  BY <1>4, FlowFacts DEF RelayTransfer, RelayBlocks, BadPacketThrows, Next, RunOne
<1>5. ASSUME NEW f \in Flow, RelayResumes(f) \/ SendFails(f) PROVE [Next]_vars
  BY <1>5, FlowFacts DEF RelayResumes, SendFails, Next, Environment, RunOne
<1>6. ASSUME NEW c \in Conn, StartRelay(c) PROVE [Next]_vars
  BY <1>6 DEF StartRelay, Next, RunOne
<1>7. CASE ClientConnects \/ SignalArrives
  BY <1>7 DEF Next, Environment
<1>8. CASE Handlers \/ Listen \/ ListenThrows \/ Ended
  BY <1>8 DEF Next, RunOne
<1> QED
  BY <1>1, <1>2, <1>3, <1>4, <1>5, <1>6, <1>7, <1>8 DEF RelayNext, Peers, RelayRunOne

(* The bytes, the kernel's buffers and the peers only decide which of the     *)
(* steps of ProxyServer happen: whatever is proved of its specification holds *)
(* of the process that moves the bytes.                                       *)
THEOREM RelayImplementsServer == RelaySpec => Spec
<1>1. RelayInit => Init
  BY DEF RelayInit
<1> QED
  BY <1>1, RelayStep, PTL DEF RelaySpec, Spec

-----------------------------------------------------------------------------
(* When a receive is outstanding.                                           *)

\* An exception ends the process.
LEMMA UnwindEnds == Unwind => ~Alive'
  BY DEF Unwind, Alive

\* Every step starts receives only where none is outstanding: one case per action.
LEMMA HandlingStep == TypeOK /\ Handling /\ [Next]_vars => Handling'
<1> SUFFICES ASSUME TypeOK, Handling, [Next]_vars, Alive' PROVE Handling'
  BY DEF Handling, WaitingIsIdle, ReceivesFollowConnect
<1> USE OpFacts, FlowFacts
<1> USE DEF Handling, WaitingIsIdle, ReceivesFollowConnect
<1>1. ASSUME NEW o \in Op, NEW r, Complete(o, r), r \in Completed PROVE Handling'
  BY <1>1 DEF Complete, Completed, TypeOK, Alive
<1>2. ASSUME NEW c \in Conn, NEW s \in Side, SendResumes(c, s) PROVE Handling'
  BY <1>2 DEF SendResumes, TypeOK, Alive
<1>3. CASE Unwind
  BY <1>3, UnwindEnds
<1>4. CASE AcceptAfterStop \/ AcceptError
  BY <1>4 DEF AcceptAfterStop, AcceptError, TypeOK, Alive
<1>5. CASE StopAll
  <2> DEFINE S == {Accept} \cup UNION {ConnOps(c) : c \in Managed}
  <2>1. \A o \in Op : o # Signal => op'[o] = Cancel(S)[o]
    BY <1>5, CancelFacts DEF StopAll
  <2>2. thread' = Free /\ Alive
    BY <1>5 DEF StopAll, Turn, Alive
  <2>3. \A c \in Conn : life'[c] = "unused" => life[c] = "unused"
    BY <1>5, DestroyAllFacts DEF StopAll
  <2> HIDE DEF S
  <2>4. \A o \in Op : o # Signal =>
          /\ op[o] = "idle" => op'[o] = "idle"
          /\ op'[o] \in {"pending", "ok"} => op[o] \in {"pending", "ok"}
    BY <2>1, CancelFacts
  <2>5. WaitingIsIdle'
    BY <2>2
  <2>6. ReceivesFollowConnect'
    BY <2>2, <2>3, <2>4
  <2> QED
    BY <2>5, <2>6
<1>6. CASE RunReturns
  BY <1>6 DEF RunReturns, Alive
<1>7. ASSUME NEW o \in Op, HandleAborted(o) PROVE Handling'
  BY <1>7 DEF HandleAborted, TypeOK, Alive
<1>8. ASSUME NEW c \in Conn, StartConnection(c) PROVE Handling'
  BY <1>8 DEF StartConnection, insert, do_accept, Turn, TypeOK, Alive
<1>9. ASSUME NEW c \in Conn, Connected(c) PROVE Handling'
  BY <1>9 DEF Connected, Turn, TypeOK, Alive, Side
<1>10. ASSUME NEW c \in Conn, NEW o \in ConnOps(c), IgnoreError(c, o) PROVE Handling'
  BY <1>10 DEF IgnoreError, Turn, TypeOK, Alive
<1>11. ASSUME NEW c \in Conn, NEW o \in ConnOps(c), UseDestroyed(c, o) PROVE Handling'
  BY <1>11 DEF UseDestroyed, Alive
<1>12. ASSUME NEW c \in Conn, NEW s \in Side, StopConnection(c, s) PROVE Handling'
  <2>1. \A o \in Op : o # Receive(c, s) => op'[o] = CloseSockets(c)[o]
    BY <1>12, CancelFacts DEF StopConnection, CloseSockets
  <2>2. op'[Receive(c, s)] = "idle"
    BY <1>12, CancelFacts DEF StopConnection, CloseSockets
  <2>3. /\ thread' = Free
        /\ Alive
        /\ \A d \in Conn : life'[d] = "unused" => life[d] = "unused"
    BY <1>12 DEF StopConnection, Turn, TypeOK, Alive
  <2> QED
    BY <2>1, <2>2, <2>3, CancelFacts DEF CloseSockets
<1>13. ASSUME NEW c \in Conn, NEW s \in Side, Transfer(c, s) PROVE Handling'
  BY <1>13 DEF Transfer, Transfers, Turn, async_read_some, TypeOK, Alive
<1>14. ASSUME NEW c \in Conn, NEW s \in Side, TransferBlocks(c, s) PROVE Handling'
  BY <1>14 DEF TransferBlocks, Transfers, Turn, TypeOK, Alive
<1>15. CASE UNCHANGED vars
  BY <1>15 DEF vars, Alive
<1>16. CASE Listen
  BY <1>16 DEF Listen, TypeOK, Alive
<1>17. CASE Environment
  <2>1. CASE ClientConnects \/ SignalArrives
    BY <1>1, <2>1 DEF ClientConnects, SignalArrives, Completed
  <2>2. ASSUME NEW c \in Conn, ConnectCompletes(c) PROVE Handling'
    BY <1>1, <2>2 DEF ConnectCompletes
  <2>3. ASSUME NEW c \in Conn, NEW s \in Side, ReceiveCompletes(c, s) PROVE Handling'
    BY <1>1, <2>3 DEF ReceiveCompletes
  <2>4. ASSUME NEW c \in Conn, NEW s \in Side, SendThrows(c, s) PROVE Handling'
    BY <1>3, <2>4 DEF SendThrows
  <2> QED
    BY <1>2, <1>17, <2>1, <2>2, <2>3, <2>4 DEF Environment
<1>18. CASE Handlers
  BY <1>3, <1>4, <1>5, <1>6, <1>7, <1>9, <1>10, <1>11, <1>12, <1>18
     DEF Handlers, StartThrows
<1>19. CASE RunOne
  BY <1>3, <1>8, <1>13, <1>14, <1>18, <1>19 DEF RunOne, TransferThrows
<1>20. CASE ListenThrows \/ Ended
  BY <1>3, <1>15, <1>20 DEF ListenThrows, Ended
<1> QED
  BY <1>15, <1>16, <1>17, <1>19, <1>20 DEF Next

-----------------------------------------------------------------------------
(* Where the bytes are.                                                     *)

\* The steps of ProxyServer that move no bytes.
Quiet ==
  \/ ClientConnects
  \/ SignalArrives
  \/ \E c \in Conn : ConnectCompletes(c) \/ StartConnection(c)
  \/ \E f \in Flow : Complete(f, "error")
  \/ Handlers
  \/ Listen
  \/ ListenThrows
  \/ UNCHANGED vars

\* What makes up the status of a flow.
LEMMA StatusKept ==
  ASSUME NEW f,
         Alive' => Alive /\ (op'[f] = "ok" <=> op[f] = "ok") /\ (thread' = f <=> thread = f)
  PROVE  Status(f)' \in {Status(f), "ended"}
  BY DEF Status

\* No handler but do_transfer, and no completion but that of a receive, changes
\* the status of a flow, unless it ends the process.
LEMMA QuietKeepsStatus ==
  ASSUME TypeOK, Handling, Quiet, NEW f \in Flow
  PROVE  Status(f)' \in {Status(f), "ended"}
<1> DEFINE Same == /\ Alive
                   /\ op'[f] = "ok" <=> op[f] = "ok"
                   /\ thread' = f <=> thread = f
<1> SUFFICES ASSUME Alive' PROVE Same
  BY StatusKept
<1> USE OpFacts, FlowFacts
<1>1. ASSUME NEW o \in Op, NEW r \in Completed, Complete(o, r), o # f \/ r = "error"
      PROVE  Same
  BY <1>1 DEF Complete, Completed, TypeOK, Alive
<1>2. CASE ClientConnects \/ SignalArrives
  BY <1>1, <1>2 DEF ClientConnects, SignalArrives, Completed
<1>3. ASSUME NEW c \in Conn, ConnectCompletes(c) PROVE Same
  BY <1>1, <1>3 DEF ConnectCompletes
<1>4. ASSUME NEW g \in Flow, Complete(g, "error") PROVE Same
  BY <1>1, <1>4 DEF Completed
<1>5. ASSUME NEW c \in Conn, StartConnection(c) PROVE Same
  BY <1>5 DEF StartConnection, Turn, TypeOK, Alive
<1>6. CASE Listen
  BY <1>6 DEF Listen, TypeOK, Alive
<1>7. CASE UNCHANGED vars
  BY <1>7 DEF vars, Alive
<1>8. CASE Unwind
  BY <1>8, UnwindEnds
<1>9. CASE Handlers
  <2>1. CASE AcceptAfterStop \/ AcceptError
    BY <2>1 DEF AcceptAfterStop, AcceptError, Turn, TypeOK, Alive
  <2>2. CASE StopAll
    <3> DEFINE S == {Accept} \cup UNION {ConnOps(c) : c \in Managed}
    <3>1. op'[f] = Cancel(S)[f] /\ UNCHANGED <<proc, thread>>
      BY <2>2, CancelFacts DEF StopAll
    <3> HIDE DEF S
    <3>2. op[f] = "pending" => Cancel(S)[f] # "ok"
      BY DEF Cancel
    <3> QED
      BY <3>1, <3>2, CancelFacts DEF Alive
  <2>3. CASE RunReturns
    BY <2>3 DEF RunReturns, Alive
  <2>4. ASSUME NEW o \in Op, HandleAborted(o) PROVE Same
    BY <2>4 DEF HandleAborted, TypeOK, Alive
  <2>5. ASSUME NEW c \in Conn, Connected(c) PROVE Same
    BY <2>5 DEF Connected, Turn, TypeOK, Alive, Side, Handling, ReceivesFollowConnect
  <2>6. ASSUME NEW c \in Conn, NEW o \in ConnOps(c), IgnoreError(c, o) PROVE Same
    BY <2>6 DEF IgnoreError, Turn, TypeOK, Alive
  <2>7. ASSUME NEW c \in Conn, NEW o \in ConnOps(c), UseDestroyed(c, o) PROVE Same
    BY <2>7 DEF UseDestroyed, Alive
  <2>8. ASSUME NEW c \in Conn, NEW s \in Side, StopConnection(c, s) PROVE Same
    <3>1. /\ op'[f] = IF f = Receive(c, s) THEN "idle" ELSE Cancel(ConnOps(c))[f]
          /\ op[Receive(c, s)] = "error"
          /\ UNCHANGED <<proc, thread>>
      BY <2>8, CancelFacts DEF StopConnection, CloseSockets
    <3>2. op[f] = "pending" => Cancel(ConnOps(c))[f] # "ok"
      BY DEF Cancel
    <3> QED
      BY <3>1, <3>2, CancelFacts DEF Alive
  <2> QED
    BY <1>8, <1>9, <2>1, <2>2, <2>3, <2>4, <2>5, <2>6, <2>7, <2>8 DEF Handlers, StartThrows
<1> QED
  BY <1>2, <1>3, <1>4, <1>5, <1>6, <1>7, <1>8, <1>9 DEF Quiet, ListenThrows

-----------------------------------------------------------------------------
(* What the steps of a flow do to its bytes.                                *)

\* The end of the process leaves the bytes as they are.
LEMMA BytesEnd ==
  ASSUME NEW st, NEW rd, NEW buf, NEW n, NEW col, NEW o, NEW sh,
         Bytes(st, rd, buf, n, col, o, sh), NEW tt \in {st, "ended"}
  PROVE  Bytes(tt, rd, buf, n, col, o, sh)
  BY DEF Bytes

\* A receive of m bytes overwrites the first m bytes of the buffer.
LEMMA BytesReceive ==
  ASSUME NEW rd \in Nat, NEW buf \in [1 .. BUFFER_LENGTH -> Nat], NEW n, NEW col, NEW o,
         NEW sh, Bytes("forwarded", rd, buf, n, col, o, sh),
         NEW m \in 1 .. BUFFER_LENGTH
  PROVE  Bytes("received", rd + m, [i \in DOMAIN buf |-> IF i <= m THEN rd + i ELSE buf[i]],
               m, col, o, sh)
<1> DEFINE b == [i \in DOMAIN buf |-> IF i <= m THEN rd + i ELSE buf[i]]
<1>1. \A i \in 1 .. m : b[i] = ((rd + m) - m) + i
  BY RelayAssumption
<1> HIDE DEF b
<1>2. m \in Nat /\ m <= rd + m /\ (rd + m) - m = rd
  BY RelayAssumption
<1> QED
  BY <1>1, <1>2 DEF Bytes, b

\* What do_transfer is given: the bytes of the last receive and no others.
LEMMA ReceivedFacts ==
  ASSUME NEW f \in Flow, RelayTypeOK, NEW st,
         Bytes(st, read[f], buffer[f], count[f], collected[f], out[f], short[f])
  PROVE  LastBytes(Received(f), read[f], count[f])
<1>1. buffer[f] \in [1 .. BUFFER_LENGTH -> Nat] /\ count[f] \in 0 .. BUFFER_LENGTH
  BY DEF RelayTypeOK
<1>2. BUFFER_LENGTH \in Nat
  BY RelayAssumption
<1>3. buffer[f] \in Seq(Nat) /\ Len(buffer[f]) = BUFFER_LENGTH
  BY <1>1, <1>2
<1>4. /\ Received(f) \in Seq(Nat)
      /\ Len(Received(f)) = count[f]
      /\ \A i \in 1 .. count[f] : Received(f)[i] = buffer[f][i]
  BY <1>1, <1>2, <1>3 DEF Received
<1> QED
  BY <1>4 DEF Bytes, LastBytes

\* The first m of the numbers d + 1, d + 2, ... are put at the end of s.
LEMMA Joined ==
  ASSUME NEW s \in Seq(Nat), NEW r \in Seq(Nat), NEW d \in Nat,
         \A i \in 1 .. Len(r) : r[i] = d + i,
         NEW m \in 0 .. Len(r)
  PROVE  LET p == s \o SubSeq(r, 1, m)
         IN  /\ p \in Seq(Nat)
             /\ Len(p) = Len(s) + m
             /\ \A i \in 1 .. Len(s) : p[i] = s[i]
             /\ \A i \in 1 .. Len(p) : i > Len(s) => p[i] = d + (i - Len(s))
<1> DEFINE t == SubSeq(r, 1, m)
<1>1. t \in Seq(Nat) /\ Len(t) = m /\ \A i \in 1 .. m : t[i] = d + i
  OBVIOUS
<1> HIDE DEF t
<1>2. Len(s) \in Nat /\ m \in Nat
  OBVIOUS
<1> DEFINE p == s \o t
<1>3. p \in Seq(Nat) /\ Len(p) = Len(s) + m
  BY <1>1, ConcatProperties
<1>4. ASSUME NEW i \in 1 .. Len(s) + m
      PROVE  p[i] = IF i <= Len(s) THEN s[i] ELSE t[i - Len(s)]
  BY <1>1, ConcatProperties
<1> HIDE DEF p
<1>5. ASSUME NEW i \in 1 .. Len(s) PROVE p[i] = s[i]
  <2>1. i \in 1 .. Len(s) + m /\ i <= Len(s)
    BY <1>2
  <2> QED
    BY <1>4, <2>1, Zenon
<1>6. ASSUME NEW i \in 1 .. Len(p), i > Len(s) PROVE p[i] = d + (i - Len(s))
  <2>1. i - Len(s) \in 1 .. m /\ i \in 1 .. Len(s) + m /\ ~(i <= Len(s))
    BY <1>2, <1>3, <1>6
  <2> QED
    BY <1>1, <1>4, <2>1
<1> QED
  BY <1>3, <1>5, <1>6 DEF p, t

\* Logging k of the bytes that follow those logged continues the log.
LEMMA LogContinues ==
  ASSUME NEW col \in Seq(Nat), \A i \in 1 .. Len(col) : col[i] = i,
         NEW r \in Seq(Nat), \A i \in 1 .. Len(r) : r[i] = Len(col) + i,
         NEW k \in 0 .. Len(r)
  PROVE  LET c == col \o SubSeq(r, 1, k)
         IN  /\ c \in Seq(Nat)
             /\ Len(c) = Len(col) + k
             /\ \A i \in 1 .. Len(c) : c[i] = i
<1> DEFINE c == col \o SubSeq(r, 1, k)
<1>1. Len(col) \in Nat
  OBVIOUS
<1>2. /\ c \in Seq(Nat)
      /\ Len(c) = Len(col) + k
      /\ \A i \in 1 .. Len(col) : c[i] = col[i]
      /\ \A i \in 1 .. Len(c) : i > Len(col) => c[i] = Len(col) + (i - Len(col))
  BY <1>1, Joined, ZenonT(60)
<1> HIDE DEF c
<1>3. ASSUME NEW i \in 1 .. Len(c) PROVE c[i] = i
  <2>1. CASE i <= Len(col)
    <3>1. i \in 1 .. Len(col)
      BY <1>1, <2>1
    <3>2. c[i] = col[i] /\ col[i] = i
      BY <1>2, <3>1, Zenon
    <3> QED
      BY <3>2
  <2>2. CASE i > Len(col)
    BY <1>1, <1>2, <2>2
  <2> QED
    BY <1>1, <1>2, <2>1, <2>2
<1> QED
  BY <1>2, <1>3 DEF c

\* do_packet_logging sees some of the bytes, and the process ends.
LEMMA BytesThrow ==
  ASSUME NEW rd \in Nat, NEW buf, NEW n \in Nat, NEW col \in Seq(Nat), NEW o, NEW sh,
         Bytes("received", rd, buf, n, col, o, sh),
         NEW r, LastBytes(r, rd, n),
         NEW k \in 0 .. n
  PROVE  /\ col \o SubSeq(r, 1, k) \in Seq(Nat)
         /\ Bytes("ended", rd, buf, n, col \o SubSeq(r, 1, k), o, sh)
<1> DEFINE c == col \o SubSeq(r, 1, k)
<1>1. /\ Len(col) = rd - n
      /\ n <= rd
      /\ \A i \in 1 .. Len(col) : col[i] = i
      /\ \A i \in 1 .. Len(o) : o[i] \in 1 .. Len(col)
  BY DEF Bytes
<1>2. c \in Seq(Nat) /\ Len(c) = Len(col) + k /\ \A i \in 1 .. Len(c) : c[i] = i
  BY <1>1, LogContinues DEF LastBytes
<1> HIDE DEF c
<1>3. \A i \in 1 .. Len(o) : o[i] \in 1 .. Len(c)
  <2>1. \A x \in 1 .. Len(col) : x \in 1 .. Len(c)
    BY <1>1, <1>2
  <2> QED
    BY <1>1, <2>1, Zenon
<1>4. Bytes("ended", rd, buf, n, c, o, sh)
  BY <1>2, <1>3 DEF Bytes
<1> QED
  BY <1>2, <1>4 DEF c

\* do_packet_logging has seen all of the bytes, and send() waits.
LEMMA BytesWait ==
  ASSUME NEW rd \in Nat, NEW buf, NEW n \in Nat, NEW col \in Seq(Nat), NEW o, NEW sh,
         Bytes("received", rd, buf, n, col, o, sh),
         NEW r, LastBytes(r, rd, n)
  PROVE  /\ col \o SubSeq(r, 1, n) \in Seq(Nat)
         /\ Bytes("waiting", rd, buf, n, col \o SubSeq(r, 1, n), o, sh)
<1> DEFINE c == col \o SubSeq(r, 1, n)
<1>1. Len(col) = rd - n /\ n <= rd /\ \A i \in 1 .. Len(col) : col[i] = i
  BY DEF Bytes
<1>2. c \in Seq(Nat) /\ Len(c) = Len(col) + n /\ \A i \in 1 .. Len(c) : c[i] = i
  BY <1>1, LogContinues DEF LastBytes
<1>3. Len(c) = rd
  BY <1>1, <1>2
<1> HIDE DEF c
<1>4. \A i \in 1 .. Len(o) : o[i] \in 1 .. Len(c) /\ o[i] <= rd - n
  BY <1>1, <1>3 DEF Bytes
<1>5. Bytes("waiting", rd, buf, n, c, o, sh)
  BY <1>1, <1>2, <1>3, <1>4 DEF Bytes
<1> QED
  BY <1>2, <1>5 DEF c

\* send() transmits the bytes, or the first of them.
LEMMA BytesSent ==
  ASSUME NEW rd \in Nat, NEW buf, NEW n \in Nat, NEW col, NEW o \in Seq(Nat),
         NEW sh \in BOOLEAN,
         Bytes("waiting", rd, buf, n, col, o, sh),
         NEW r, LastBytes(r, rd, n),
         NEW p, NEW q, Sends(r, o, p, sh, q)
  PROVE  p \in Seq(Nat) /\ Bytes("forwarded", rd, buf, n, col, p, q)
<1> DEFINE d == rd - n
<1>1. /\ n <= rd
      /\ Len(col) = rd
      /\ \A i \in 1 .. Len(o) : o[i] \in 1 .. rd /\ o[i] <= d
      /\ \A i, j \in 1 .. Len(o) : i < j => o[i] < o[j]
      /\ ~sh => Len(o) = d /\ \A i \in 1 .. Len(o) : o[i] = i
  BY DEF Bytes
<1>2. r \in Seq(Nat) /\ Len(r) = n /\ \A i \in 1 .. Len(r) : r[i] = d + i
  BY DEF LastBytes
<1>3. d \in Nat /\ rd = d + n
  BY <1>1
<1> HIDE DEF d
<1>4. PICK m \in 0 .. Len(r) : p = o \o SubSeq(r, 1, m) /\ q = (sh \/ m < Len(r))
  BY DEF Sends
<1>5. /\ p \in Seq(Nat)
      /\ Len(p) = Len(o) + m
      /\ \A i \in 1 .. Len(o) : p[i] = o[i]
      /\ \A i \in 1 .. Len(p) : i > Len(o) => p[i] = d + (i - Len(o))
  <2> DEFINE t == o \o SubSeq(r, 1, m)
  <2>1. /\ t \in Seq(Nat)
        /\ Len(t) = Len(o) + m
        /\ \A i \in 1 .. Len(o) : t[i] = o[i]
        /\ \A i \in 1 .. Len(t) : i > Len(o) => t[i] = d + (i - Len(o))
    BY <1>2, <1>3, Joined, ZenonT(60)
  <2>2. p = t
    BY <1>4
  <2> HIDE DEF t
  <2> QED
    BY <2>1, <2>2, Zenon
<1>6. Len(o) \in Nat /\ m \in 0 .. n
  BY <1>2
<1>7. ASSUME NEW i \in 1 .. Len(p)
      PROVE  /\ i <= Len(o) => p[i] = o[i] /\ o[i] \in 1 .. rd /\ o[i] <= d
             /\ i > Len(o) => p[i] = d + (i - Len(o)) /\ p[i] \in 1 .. rd
  BY <1>1, <1>3, <1>5, <1>6
<1>8. ASSUME NEW i \in 1 .. Len(p) PROVE p[i] \in 1 .. Len(col)
  <2>1. i <= Len(o) \/ i > Len(o)
    BY <1>6
  <2> QED
    BY <1>1, <1>7, <2>1
<1>9. ASSUME NEW i \in 1 .. Len(p), NEW j \in 1 .. Len(p), i < j PROVE p[i] < p[j]
  <2>1. CASE j <= Len(o)
    <3>1. i \in 1 .. Len(o) /\ j \in 1 .. Len(o)
      BY <1>6, <1>9, <2>1
    <3> QED
      BY <1>1, <1>5, <1>9, <3>1
  <2>2. CASE i <= Len(o) /\ j > Len(o)
    <3>1. p[i] = o[i] /\ o[i] \in 1 .. rd /\ o[i] <= d
      BY <1>7, <2>2, Zenon
    <3>2. p[j] = d + (j - Len(o))
      BY <1>7, <2>2
    <3> QED
      BY <1>3, <1>6, <2>2, <3>1, <3>2
  <2>3. CASE i > Len(o)
    <3>1. j > Len(o)
      BY <1>6, <1>9, <2>3
    <3>2. p[i] = d + (i - Len(o)) /\ p[j] = d + (j - Len(o))
      BY <1>7, <2>3, <3>1, Zenon
    <3> QED
      BY <1>3, <1>6, <1>9, <3>2
  <2> QED
    BY <1>6, <2>1, <2>2, <2>3
<1>10. ASSUME ~q PROVE Len(p) = rd /\ \A i \in 1 .. Len(p) : p[i] = i
  <2>1. ~sh /\ ~(m < Len(r))
    BY <1>4, <1>10, Zenon
  <2>2. m = n
    BY <1>2, <1>6, <2>1
  <2>3. Len(o) = d /\ Len(p) = rd
    BY <1>1, <1>3, <1>5, <2>1, <2>2
  <2>4. ASSUME NEW i \in 1 .. Len(p) PROVE p[i] = i
    BY <1>1, <1>3, <1>6, <1>7, <2>1, <2>3
  <2> QED
    BY <2>3, <2>4
<1>11. Bytes("forwarded", rd, buf, n, col, p, q)
  BY <1>1, <1>8, <1>9, <1>10 DEF Bytes
<1> QED
  BY <1>5, <1>11

-----------------------------------------------------------------------------
(* How the steps of a flow change its status.                               *)

\* The other flows keep their status, unless the process ends.
OthersKeepStatus(f) == \A g \in Flow \ {f} : Status(g)' \in {Status(g), "ended"}

LEMMA ReceiveStatus ==
  ASSUME TypeOK, Handling, NEW f \in Flow, Complete(f, "ok")
  PROVE  Status(f) = "forwarded" /\ Status(f)' = "received" /\ OthersKeepStatus(f)
<1>1. /\ op[f] = "pending"
      /\ op'[f] = "ok"
      /\ \A g \in Flow \ {f} : op'[g] = op[g]
      /\ thread' = thread
      /\ Alive
      /\ Alive'
  BY FlowFacts DEF Complete, TypeOK, Alive
<1>2. thread # f
  BY <1>1 DEF Handling, WaitingIsIdle
<1> QED
  BY <1>1, <1>2 DEF Status, OthersKeepStatus

LEMMA TransferStatus ==
  ASSUME TypeOK, NEW f \in Flow, Transfer(f[1], f[2])
  PROVE  Status(f) = "received" /\ Status(f)' = "forwarded" /\ OthersKeepStatus(f)
<1>1. /\ op[f] = "ok"
      /\ op'[f] = "pending"
      /\ \A g \in Flow \ {f} : op'[g] = op[g]
      /\ thread = Free
      /\ thread' = Free
      /\ Alive
      /\ Alive'
  BY FlowFacts DEF Transfer, Transfers, Turn, async_read_some, TypeOK, Alive
<1> QED
  BY <1>1, FlowFacts DEF Status, OthersKeepStatus

LEMMA BlocksStatus ==
  ASSUME TypeOK, NEW f \in Flow, TransferBlocks(f[1], f[2])
  PROVE  Status(f) = "received" /\ Status(f)' = "waiting" /\ OthersKeepStatus(f)
<1>1. /\ op[f] = "ok"
      /\ op'[f] = "idle"
      /\ \A g \in Flow \ {f} : op'[g] = op[g]
      /\ thread = Free
      /\ thread' = f
      /\ Alive
      /\ Alive'
  BY FlowFacts DEF TransferBlocks, Transfers, Turn, TypeOK, Alive
<1> QED
  BY <1>1, FlowFacts DEF Status, OthersKeepStatus

LEMMA ResumesStatus ==
  ASSUME TypeOK, Handling, NEW f \in Flow, SendResumes(f[1], f[2])
  PROVE  Status(f) = "waiting" /\ Status(f)' = "forwarded" /\ OthersKeepStatus(f)
<1>1. /\ op'[f] = "pending"
      /\ \A g \in Flow \ {f} : op'[g] = op[g]
      /\ thread = f
      /\ thread' = Free
      /\ Alive
      /\ Alive'
  BY FlowFacts DEF SendResumes, async_read_some, TypeOK, Alive
<1>2. op[f] = "idle"
  BY <1>1 DEF Handling, WaitingIsIdle
<1> QED
  BY <1>1, <1>2, FlowFacts DEF Status, OthersKeepStatus

LEMMA ThrowsStatus ==
  ASSUME TypeOK, NEW f \in Flow,
         TransferThrows(f[1], f[2]) \/ SendThrows(f[1], f[2])
  PROVE  /\ TransferThrows(f[1], f[2]) => Status(f) = "received"
         /\ \A g \in Flow : Status(g)' = "ended"
<1>1. ~Alive'
  BY UnwindEnds DEF TransferThrows, SendThrows
<1>2. TransferThrows(f[1], f[2]) => op[f] = "ok" /\ Alive
  BY FlowFacts DEF TransferThrows, Transfers, Turn, Alive
<1> QED
  BY <1>1, <1>2 DEF Status

-----------------------------------------------------------------------------
(* Every step keeps the bytes in place.                                     *)

RelayInv == RelayTypeOK /\ BytesInPlace

\* A step that moves no bytes.
LEMMA QuietStep ==
  ASSUME TypeOK, Handling, RelayInv, Quiet, RelayTypeOK',
         UNCHANGED <<read, buffer, count, collected, out, short>>
  PROVE  RelayInv'
<1> SUFFICES ASSUME NEW f \in Flow
             PROVE  Bytes(Status(f)', read[f], buffer[f], count[f], collected[f], out[f],
                          short[f])
  BY DEF RelayInv, BytesInPlace
<1>1. Bytes(Status(f), read[f], buffer[f], count[f], collected[f], out[f], short[f])
  BY DEF RelayInv, BytesInPlace
<1>2. Status(f)' \in {Status(f), "ended"}
  BY QuietKeepsStatus
<1> QED
  BY <1>1, <1>2, BytesEnd

\* A step that moves bytes of f only.
LEMMA FlowStep ==
  ASSUME RelayInv, NEW f \in Flow, OthersKeepStatus(f),
         \A g \in Flow \ {f} : /\ read'[g] = read[g]
                               /\ buffer'[g] = buffer[g]
                               /\ count'[g] = count[g]
                               /\ collected'[g] = collected[g]
                               /\ out'[g] = out[g]
                               /\ short'[g] = short[g],
         Bytes(Status(f)', read'[f], buffer'[f], count'[f], collected'[f], out'[f],
               short'[f])
  PROVE  BytesInPlace'
<1> SUFFICES ASSUME NEW g \in Flow, g # f
             PROVE  Bytes(Status(g)', read'[g], buffer'[g], count'[g], collected'[g],
                          out'[g], short'[g])
  BY DEF BytesInPlace
<1>1. Bytes(Status(g), read[g], buffer[g], count[g], collected[g], out[g], short[g])
  BY DEF RelayInv, BytesInPlace
<1>2. Status(g)' \in {Status(g), "ended"}
  BY DEF OthersKeepStatus
<1>3. Bytes(Status(g)', read[g], buffer[g], count[g], collected[g], out[g], short[g])
  BY <1>1, <1>2, BytesEnd
<1> QED
  BY <1>3

\* A receive completes with bytes.
LEMMA ReceiveStep ==
  ASSUME TypeOK, Handling, RelayInv, NEW f \in Flow, ReceiveBytes(f)
  PROVE  RelayInv'
<1>1. PICK n \in 1 .. sent[f] - read[f] :
        /\ n <= BUFFER_LENGTH
        /\ Complete(f, "ok")
        /\ buffer' = [buffer EXCEPT ![f] =
                        [i \in DOMAIN @ |-> IF i <= n THEN read[f] + i ELSE @[i]]]
        /\ count' = [count EXCEPT ![f] = n]
        /\ read' = [read EXCEPT ![f] = @ + n]
        /\ UNCHANGED <<link, sent, collected, out, taken, short>>
  BY DEF ReceiveBytes, ReceiveLimit
<1> DEFINE b == [i \in DOMAIN buffer[f] |-> IF i <= n THEN read[f] + i ELSE buffer[f][i]]
<1>2. /\ read[f] \in Nat
      /\ buffer[f] \in [1 .. BUFFER_LENGTH -> Nat]
      /\ n \in 1 .. BUFFER_LENGTH
      /\ sent[f] \in Nat
  BY <1>1, RelayAssumption DEF RelayInv, RelayTypeOK
<1>3. b \in [1 .. BUFFER_LENGTH -> Nat]
  <2>1. DOMAIN buffer[f] = 1 .. BUFFER_LENGTH /\ n \in Nat
    BY <1>2, RelayAssumption
  <2>2. ASSUME NEW i \in 1 .. BUFFER_LENGTH
        PROVE  (IF i <= n THEN read[f] + i ELSE buffer[f][i]) \in Nat
    BY <1>2, <2>1, RelayAssumption
  <2> QED
    BY <2>1, <2>2, Zenon
<1>4. /\ read'[f] = read[f] + n /\ buffer'[f] = b /\ count'[f] = n
      /\ \A g \in Flow \ {f} :
           read'[g] = read[g] /\ buffer'[g] = buffer[g] /\ count'[g] = count[g]
  BY <1>1 DEF RelayInv, RelayTypeOK
<1>5. Status(f) = "forwarded" /\ Status(f)' = "received" /\ OthersKeepStatus(f)
  BY <1>1, ReceiveStatus
<1>6. Bytes("forwarded", read[f], buffer[f], count[f], collected[f], out[f], short[f])
  BY <1>5 DEF RelayInv, BytesInPlace
<1>7. Bytes("received", read[f] + n, b, n, collected[f], out[f], short[f])
  BY <1>2, <1>6, BytesReceive
<1>8. RelayTypeOK'
  <2>1. buffer' \in [Flow -> [1 .. BUFFER_LENGTH -> Nat]]
    BY <1>1, <1>3 DEF RelayInv, RelayTypeOK
  <2>2. count' \in [Flow -> 0 .. BUFFER_LENGTH] /\ read' \in [Flow -> Nat]
    BY <1>1, <1>2 DEF RelayInv, RelayTypeOK
  <2> QED
    BY <1>1, <2>1, <2>2 DEF RelayInv, RelayTypeOK
<1> HIDE DEF b
<1>9. BytesInPlace'
  BY <1>1, <1>4, <1>5, <1>7, FlowStep
<1> QED
  BY <1>8, <1>9 DEF RelayInv

\* What is known of the flow f when its bytes are logged or sent.
LEMMA FlowBytes ==
  ASSUME RelayInv, NEW f \in Flow
  PROVE  /\ read[f] \in Nat /\ count[f] \in Nat
         /\ collected[f] \in Seq(Nat) /\ out[f] \in Seq(Nat) /\ short[f] \in BOOLEAN
         /\ Bytes(Status(f), read[f], buffer[f], count[f], collected[f], out[f], short[f])
         /\ LastBytes(Received(f), read[f], count[f])
<1>1. /\ read[f] \in Nat
      /\ count[f] \in 0 .. BUFFER_LENGTH
      /\ collected[f] \in Seq(Nat)
      /\ out[f] \in Seq(Nat)
      /\ short[f] \in BOOLEAN
  BY DEF RelayInv, RelayTypeOK
<1>2. Bytes(Status(f), read[f], buffer[f], count[f], collected[f], out[f], short[f])
  BY DEF RelayInv, BytesInPlace
<1>3. RelayTypeOK
  BY DEF RelayInv
<1>4. count[f] \in Nat
  BY <1>1, RelayAssumption
<1>5. LastBytes(Received(f), read[f], count[f])
  BY <1>2, <1>3, ReceivedFacts
<1> QED
  BY <1>1, <1>2, <1>4, <1>5, Zenon

\* What Collect and Forward do to the variables.
LEMMA CollectFacts ==
  ASSUME RelayTypeOK, NEW f \in Flow, NEW n, Collect(f, n)
  PROVE  /\ collected'[f] = collected[f] \o SubSeq(Received(f), 1, n)
         /\ \A g \in Flow \ {f} : collected'[g] = collected[g]
         /\ collected'[f] \in Seq(Nat) => collected' \in [Flow -> Seq(Nat)]
<1>1. collected \in [Flow -> Seq(Nat)]
  BY DEF RelayTypeOK
<1> QED
  BY <1>1, Zenon DEF Collect

LEMMA ForwardFacts ==
  ASSUME RelayTypeOK, NEW f \in Flow, Forward(f), Len(Received(f)) \in Nat
  PROVE  /\ Sends(Received(f), out[f], out'[f], short[f], short'[f])
         /\ \A g \in Flow \ {f} : out'[g] = out[g] /\ short'[g] = short[g]
         /\ out'[f] \in Seq(Nat) => out' \in [Flow -> Seq(Nat)]
         /\ short' \in [Flow -> BOOLEAN]
<1> DEFINE m == IF Len(Received(f)) <= Room(f) THEN Len(Received(f)) ELSE Room(f)
<1>1. /\ Room(f) > 0
      /\ out' = [out EXCEPT ![f] = @ \o SubSeq(Received(f), 1, m)]
      /\ short' = [short EXCEPT ![f] = @ \/ m < Len(Received(f))]
  BY DEF Forward
<1>2. out \in [Flow -> Seq(Nat)] /\ short \in [Flow -> BOOLEAN]
  BY DEF RelayTypeOK
<1>3. m \in 0 .. Len(Received(f))
  <2>1. Room(f) \in Int
    BY RelayAssumption DEF Room, RelayTypeOK
  <2> QED
    BY <1>1, <2>1
<1>4. (m < Len(Received(f))) \in BOOLEAN
  OBVIOUS
<1> HIDE DEF m
<1>5. /\ out'[f] = out[f] \o SubSeq(Received(f), 1, m)
      /\ short'[f] = (short[f] \/ m < Len(Received(f)))
      /\ \A g \in Flow \ {f} : out'[g] = out[g] /\ short'[g] = short[g]
      /\ out'[f] \in Seq(Nat) => out' \in [Flow -> Seq(Nat)]
      /\ short' \in [Flow -> BOOLEAN]
  BY <1>1, <1>2, <1>4, Zenon
<1> QED
  BY <1>3, <1>5, Zenon DEF Sends

\* The bytes are logged and sent at once.
LEMMA TransferStep ==
  ASSUME TypeOK, RelayInv, NEW f \in Flow, RelayTransfer(f)
  PROVE  RelayInv'
<1>1. /\ Transfer(f[1], f[2])
      /\ Collect(f, Len(Received(f)))
      /\ Forward(f)
      /\ UNCHANGED <<link, sent, read, buffer, count, taken>>
  BY DEF RelayTransfer, CollectAll
<1>2. Status(f) = "received" /\ Status(f)' = "forwarded" /\ OthersKeepStatus(f)
  BY <1>1, TransferStatus
<1>3. /\ read[f] \in Nat /\ count[f] \in Nat
      /\ collected[f] \in Seq(Nat) /\ out[f] \in Seq(Nat) /\ short[f] \in BOOLEAN
      /\ Bytes("received", read[f], buffer[f], count[f], collected[f], out[f], short[f])
      /\ LastBytes(Received(f), read[f], count[f])
  BY <1>2, FlowBytes
<1>4. RelayTypeOK /\ Len(Received(f)) = count[f]
  BY <1>3 DEF RelayInv, LastBytes
<1>5. /\ collected'[f] = collected[f] \o SubSeq(Received(f), 1, count[f])
      /\ \A g \in Flow \ {f} : collected'[g] = collected[g]
      /\ collected'[f] \in Seq(Nat) => collected' \in [Flow -> Seq(Nat)]
  BY <1>1, <1>4, CollectFacts
<1>6. /\ Sends(Received(f), out[f], out'[f], short[f], short'[f])
      /\ \A g \in Flow \ {f} : out'[g] = out[g] /\ short'[g] = short[g]
      /\ out'[f] \in Seq(Nat) => out' \in [Flow -> Seq(Nat)]
      /\ short' \in [Flow -> BOOLEAN]
  BY <1>1, <1>3, <1>4, ForwardFacts
<1>7. /\ collected'[f] \in Seq(Nat)
      /\ Bytes("waiting", read[f], buffer[f], count[f], collected'[f], out[f], short[f])
  <2>1. /\ collected[f] \o SubSeq(Received(f), 1, count[f]) \in Seq(Nat)
        /\ Bytes("waiting", read[f], buffer[f], count[f],
                 collected[f] \o SubSeq(Received(f), 1, count[f]), out[f], short[f])
    BY <1>3, BytesWait, Zenon
  <2> QED
    BY <1>5, <2>1, Zenon
<1>8. /\ out'[f] \in Seq(Nat)
      /\ Bytes("forwarded", read[f], buffer[f], count[f], collected'[f], out'[f], short'[f])
  <2>1. /\ read[f] \in Nat /\ count[f] \in Nat /\ out[f] \in Seq(Nat)
        /\ short[f] \in BOOLEAN
        /\ Bytes("waiting", read[f], buffer[f], count[f], collected'[f], out[f], short[f])
        /\ LastBytes(Received(f), read[f], count[f])
        /\ Sends(Received(f), out[f], out'[f], short[f], short'[f])
    BY <1>3, <1>6, <1>7, Zenon
  <2> QED
    BY <2>1, BytesSent, ZenonT(30)
<1>9. RelayTypeOK'
  BY <1>1, <1>4, <1>5, <1>6, <1>7, <1>8 DEF RelayTypeOK
<1>10. BytesInPlace'
  BY <1>1, <1>2, <1>5, <1>6, <1>8, FlowStep
<1> QED
  BY <1>9, <1>10 DEF RelayInv

\* The bytes are logged, and send() waits.
LEMMA BlocksStep ==
  ASSUME TypeOK, RelayInv, NEW f \in Flow, RelayBlocks(f)
  PROVE  RelayInv'
<1>1. /\ TransferBlocks(f[1], f[2])
      /\ Collect(f, Len(Received(f)))
      /\ UNCHANGED <<link, sent, read, buffer, count, out, taken, short>>
  BY DEF RelayBlocks, CollectAll
<1>2. Status(f) = "received" /\ Status(f)' = "waiting" /\ OthersKeepStatus(f)
  BY <1>1, BlocksStatus
<1>3. /\ read[f] \in Nat /\ count[f] \in Nat /\ collected[f] \in Seq(Nat)
      /\ Bytes("received", read[f], buffer[f], count[f], collected[f], out[f], short[f])
      /\ LastBytes(Received(f), read[f], count[f])
  BY <1>2, FlowBytes
<1>4. RelayTypeOK /\ Len(Received(f)) = count[f]
  BY <1>3 DEF RelayInv, LastBytes
<1>5. /\ collected'[f] = collected[f] \o SubSeq(Received(f), 1, count[f])
      /\ \A g \in Flow \ {f} : collected'[g] = collected[g]
      /\ collected'[f] \in Seq(Nat) => collected' \in [Flow -> Seq(Nat)]
  BY <1>1, <1>4, CollectFacts
<1>6. /\ collected'[f] \in Seq(Nat)
      /\ Bytes("waiting", read[f], buffer[f], count[f], collected'[f], out[f], short[f])
  <2>1. /\ collected[f] \o SubSeq(Received(f), 1, count[f]) \in Seq(Nat)
        /\ Bytes("waiting", read[f], buffer[f], count[f],
                 collected[f] \o SubSeq(Received(f), 1, count[f]), out[f], short[f])
    BY <1>3, BytesWait, Zenon
  <2> QED
    BY <1>5, <2>1, Zenon
<1>7. RelayTypeOK'
  BY <1>1, <1>4, <1>5, <1>6 DEF RelayTypeOK
<1>8. BytesInPlace'
  BY <1>1, <1>2, <1>5, <1>6, FlowStep
<1> QED
  BY <1>7, <1>8 DEF RelayInv

\* send() returns after it has waited.
LEMMA ResumesStep ==
  ASSUME TypeOK, Handling, RelayInv, NEW f \in Flow, RelayResumes(f)
  PROVE  RelayInv'
<1>1. /\ SendResumes(f[1], f[2])
      /\ Forward(f)
      /\ UNCHANGED <<link, sent, read, buffer, count, collected, taken>>
  BY DEF RelayResumes
<1>2. Status(f) = "waiting" /\ Status(f)' = "forwarded" /\ OthersKeepStatus(f)
  BY <1>1, ResumesStatus
<1>3. /\ read[f] \in Nat /\ count[f] \in Nat /\ out[f] \in Seq(Nat) /\ short[f] \in BOOLEAN
      /\ Bytes("waiting", read[f], buffer[f], count[f], collected[f], out[f], short[f])
      /\ LastBytes(Received(f), read[f], count[f])
  BY <1>2, FlowBytes
<1>4. RelayTypeOK /\ Len(Received(f)) = count[f]
  BY <1>3 DEF RelayInv, LastBytes
<1>5. /\ Sends(Received(f), out[f], out'[f], short[f], short'[f])
      /\ \A g \in Flow \ {f} : out'[g] = out[g] /\ short'[g] = short[g]
      /\ out'[f] \in Seq(Nat) => out' \in [Flow -> Seq(Nat)]
      /\ short' \in [Flow -> BOOLEAN]
  BY <1>1, <1>3, <1>4, ForwardFacts
<1>6. /\ out'[f] \in Seq(Nat)
      /\ Bytes("forwarded", read[f], buffer[f], count[f], collected[f], out'[f], short'[f])
  <2>1. Sends(Received(f), out[f], out'[f], short[f], short'[f])
    BY <1>5
  <2> QED
    BY <1>3, <2>1, BytesSent, ZenonT(30)
<1>7. RelayTypeOK'
  BY <1>1, <1>4, <1>5, <1>6 DEF RelayTypeOK
<1>8. BytesInPlace'
  BY <1>1, <1>2, <1>5, <1>6, FlowStep
<1> QED
  BY <1>7, <1>8 DEF RelayInv

\* The collector throws before it has seen all bytes, or send() throws.
LEMMA ThrowsStep ==
  ASSUME TypeOK, RelayInv, NEW f \in Flow, BadPacketThrows(f) \/ SendFails(f)
  PROVE  RelayInv'
<1>1. UNCHANGED <<link, sent, read, buffer, count, out, taken, short>>
  BY DEF BadPacketThrows, SendFails
<1>2. RelayTypeOK
  BY DEF RelayInv
<1>3. ASSUME TransferThrows(f[1], f[2]), NEW k \in 0 .. count[f], Collect(f, k)
      PROVE  RelayInv'
  <2>1. Status(f) = "received" /\ Status(f)' = "ended" /\ OthersKeepStatus(f)
    BY <1>3, ThrowsStatus DEF OthersKeepStatus
  <2>2. /\ read[f] \in Nat /\ count[f] \in Nat /\ collected[f] \in Seq(Nat)
        /\ Bytes("received", read[f], buffer[f], count[f], collected[f], out[f], short[f])
        /\ LastBytes(Received(f), read[f], count[f])
    BY <2>1, FlowBytes
  <2>3. /\ collected'[f] = collected[f] \o SubSeq(Received(f), 1, k)
        /\ \A g \in Flow \ {f} : collected'[g] = collected[g]
        /\ collected'[f] \in Seq(Nat) => collected' \in [Flow -> Seq(Nat)]
    BY <1>2, <1>3, CollectFacts
  <2>4. /\ collected'[f] \in Seq(Nat)
        /\ Bytes("ended", read[f], buffer[f], count[f], collected'[f], out[f], short[f])
    <3>1. /\ collected[f] \o SubSeq(Received(f), 1, k) \in Seq(Nat)
          /\ Bytes("ended", read[f], buffer[f], count[f],
                   collected[f] \o SubSeq(Received(f), 1, k), out[f], short[f])
      BY <2>2, BytesThrow, Zenon
    <3> QED
      BY <2>3, <3>1, Zenon
  <2>5. RelayTypeOK'
    BY <1>1, <1>2, <2>3, <2>4 DEF RelayTypeOK
  <2>6. BytesInPlace'
    BY <1>1, <2>1, <2>3, <2>4, FlowStep
  <2> QED
    BY <2>5, <2>6 DEF RelayInv
<1>4. ASSUME SendThrows(f[1], f[2]), UNCHANGED collected PROVE RelayInv'
  <2>1. OthersKeepStatus(f) /\ Status(f)' = "ended"
    BY <1>4, ThrowsStatus DEF OthersKeepStatus
  <2>2. Bytes("ended", read[f], buffer[f], count[f], collected[f], out[f], short[f])
    BY FlowBytes, BytesEnd
  <2>3. RelayTypeOK'
    BY <1>1, <1>2, <1>4 DEF RelayTypeOK
  <2>4. BytesInPlace'
    BY <1>1, <1>4, <2>1, <2>2, FlowStep
  <2> QED
    BY <2>3, <2>4 DEF RelayInv
<1>5. Len(Received(f)) = count[f] /\ count[f] \in Nat
  BY FlowBytes DEF LastBytes
<1>6. CASE BadPacketThrows(f)
  <2>1. PICK n \in 1 .. Len(Received(f)) : Collect(f, n - 1)
    BY <1>6 DEF BadPacketThrows
  <2>2. n - 1 \in 0 .. count[f]
    BY <1>5
  <2> QED
    BY <1>3, <1>6, <2>1, <2>2 DEF BadPacketThrows
<1>7. CASE SendFails(f)
  <2>1. count[f] \in 0 .. count[f]
    BY <1>5
  <2> QED
    BY <1>3, <1>4, <1>5, <1>7, <2>1 DEF SendFails, CollectAll
<1> QED
  BY <1>6, <1>7

\* Nothing has been received, logged or sent at the start.
LEMMA RelayStarts == RelayInit => TypeOK /\ Handling /\ RelayInv
<1> SUFFICES ASSUME RelayInit PROVE TypeOK /\ Handling /\ RelayInv
  OBVIOUS
<1>1. Init
  BY DEF RelayInit
<1>2. TypeOK
  BY <1>1, InitTypeOK
<1>3. \A f \in Flow : op[f] = "idle" /\ thread # f
  BY <1>1, OpFacts, FlowFacts DEF Init
<1>4. Handling
  BY <1>3, FlowFacts DEF Handling, WaitingIsIdle, ReceivesFollowConnect
<1>5. /\ link \in [Flow -> {"none", "open", "finished", "reset"}]
      /\ sent \in [Flow -> Nat]
      /\ read \in [Flow -> Nat]
      /\ count \in [Flow -> 0 .. BUFFER_LENGTH]
      /\ taken \in [Flow -> Nat]
      /\ short \in [Flow -> BOOLEAN]
  BY RelayAssumption DEF RelayInit
<1>6. collected \in [Flow -> Seq(Nat)] /\ out \in [Flow -> Seq(Nat)]
  <2>1. << >> \in Seq(Nat)
    OBVIOUS
  <2> QED
    BY <2>1, Zenon DEF RelayInit
<1>7. buffer \in [Flow -> [1 .. BUFFER_LENGTH -> Nat]]
  BY DEF RelayInit
<1>8. ASSUME NEW f \in Flow
      PROVE  Bytes(Status(f), read[f], buffer[f], count[f], collected[f], out[f], short[f])
  <2>1. Status(f) \in {"forwarded", "ended"}
    BY <1>3 DEF Status
  <2>2. /\ read[f] = 0 /\ count[f] = 0
        /\ collected[f] = << >> /\ out[f] = << >>
    BY DEF RelayInit
  <2>3. Len(collected[f]) = 0 /\ Len(out[f]) = 0
    BY <2>2
  <2> QED
    BY <2>1, <2>2, <2>3 DEF Bytes
<1> QED
  BY <1>2, <1>4, <1>5, <1>6, <1>7, <1>8 DEF RelayInv, RelayTypeOK, BytesInPlace

\* One case per action of the peers, of the kernel and of the handlers.
LEMMA RelayInvStep ==
  TypeOK /\ Handling /\ RelayInv /\ [RelayNext]_<<vars, relayVars>> => RelayInv'
<1> SUFFICES ASSUME TypeOK, Handling, RelayInv, [RelayNext]_<<vars, relayVars>>
             PROVE  RelayInv'
  OBVIOUS
<1>1. RelayTypeOK
  BY DEF RelayInv
<1>2. ASSUME UNCHANGED relayVars, Quiet PROVE RelayInv'
  <2>1. RelayTypeOK'
    BY <1>1, <1>2 DEF RelayTypeOK, relayVars
  <2> QED
    BY <1>2, <2>1, QuietStep DEF relayVars
<1>3. ASSUME NEW f \in Flow, PeerSends(f) PROVE RelayInv'
  <2>1. RelayTypeOK' /\ Quiet
    BY <1>1, <1>3 DEF PeerSends, RelayTypeOK, Quiet
  <2> QED
    BY <1>3, <2>1, QuietStep DEF PeerSends
<1>4. ASSUME NEW f \in Flow, PeerLeaves(f) PROVE RelayInv'
  <2>1. RelayTypeOK' /\ Quiet
    BY <1>1, <1>4 DEF PeerLeaves, RelayTypeOK, Quiet
  <2> QED
    BY <1>4, <2>1, QuietStep DEF PeerLeaves
<1>5. ASSUME NEW f \in Flow, PeerTakes(f) PROVE RelayInv'
  <2>1. RelayTypeOK' /\ Quiet
    BY <1>1, <1>5 DEF PeerTakes, RelayTypeOK, Quiet
  <2> QED
    BY <1>5, <2>1, QuietStep DEF PeerTakes
<1>6. ASSUME NEW f \in Flow, ReceiveFails(f) PROVE RelayInv'
  BY <1>2, <1>6 DEF ReceiveFails, Quiet
<1>7. ASSUME NEW c \in Conn, NEW s \in Side,
             link' = link \/ link' = [link EXCEPT ![<<c, s>>] = "open"],
             UNCHANGED <<sent, read, buffer, count, collected, out, taken, short>>,
             Quiet
      PROVE  RelayInv'
  <2>1. link' \in [Flow -> {"none", "open", "finished", "reset"}]
    BY <1>1, <1>7 DEF RelayTypeOK
  <2>2. RelayTypeOK'
    BY <1>1, <1>7, <2>1 DEF RelayTypeOK
  <2> QED
    BY <1>7, <2>2, QuietStep
<1>8. ASSUME NEW c \in Conn, ConnectReturns(c) PROVE RelayInv'
  <2>1. Quiet
    BY <1>8 DEF ConnectReturns, ConnectCompletes, Completed, Quiet
  <2>2. "server" \in Side
    BY DEF Side
  <2> QED
    BY <1>7, <1>8, <2>1, <2>2 DEF ConnectReturns
<1>9. ASSUME NEW c \in Conn, StartRelay(c) PROVE RelayInv'
  <2>1. Quiet
    BY <1>9 DEF StartRelay, Quiet
  <2>2. "client" \in Side
    BY DEF Side
  <2> QED
    BY <1>7, <1>9, <2>1, <2>2 DEF StartRelay
<1>10. CASE (ClientConnects \/ SignalArrives) /\ UNCHANGED relayVars
  BY <1>2, <1>10 DEF Quiet
<1>11. CASE Handlers /\ UNCHANGED relayVars
  BY <1>2, <1>11 DEF Quiet
<1>12. CASE (Listen \/ ListenThrows \/ Ended) /\ UNCHANGED relayVars
  BY <1>2, <1>12 DEF Quiet, Ended
<1>13. CASE UNCHANGED <<vars, relayVars>>
  BY <1>2, <1>13 DEF Quiet
<1>14. ASSUME NEW f \in Flow, RelayTransfer(f) \/ RelayBlocks(f) \/ BadPacketThrows(f)
       PROVE  RelayInv'
  BY <1>14, TransferStep, BlocksStep, ThrowsStep
<1>15. ASSUME NEW f \in Flow, RelayResumes(f) \/ SendFails(f) PROVE RelayInv'
  BY <1>15, ResumesStep, ThrowsStep
<1>16. ASSUME NEW f \in Flow, ReceiveBytes(f) PROVE RelayInv'
  BY <1>16, ReceiveStep
<1>17. CASE Peers
  BY <1>3, <1>4, <1>5, <1>6, <1>8, <1>10, <1>17 DEF Peers
<1>18. CASE RelayRunOne
  BY <1>9, <1>11, <1>14, <1>15, <1>18 DEF RelayRunOne
<1> QED
  BY <1>12, <1>13, <1>16, <1>17, <1>18 DEF RelayNext

\* The handlers and the bytes together are inductive.
LEMMA RelayInvariance == RelaySpec => [](TypeOK /\ Handling /\ RelayInv)
<1>1. TypeOK /\ Handling /\ RelayInv /\ [RelayNext]_<<vars, relayVars>>
        => (TypeOK /\ Handling /\ RelayInv)'
  BY RelayStep, TypeOKStep, HandlingStep, RelayInvStep
<1> QED
  BY <1>1, RelayStarts, PTL DEF RelaySpec

-----------------------------------------------------------------------------
(* What the runs check, for any number of connections and bytes.            *)

(* Every variable of Relay stays in its type; in particular, no receive       *)
(* delivers more bytes than m_client_buffer and m_server_buffer hold.         *)
THEOREM RelayTypeCorrect == RelaySpec => []RelayTypeOK
  BY RelayInvariance, PTL DEF RelayInv

(* do_packet_logging sees the bytes of each direction exactly as they were    *)
(* sent: the buffer a receive has filled is logged once, before it is         *)
(* overwritten, and never beyond bytes_transferred.                           *)
THEOREM LogSeesStream == RelaySpec => []CollectedIsStream
<1>1. RelayInv => CollectedIsStream
  <2> SUFFICES ASSUME RelayInv, NEW f \in Flow, NEW i \in DOMAIN collected[f]
               PROVE  collected[f][i] = i
    BY DEF CollectedIsStream
  <2>1. collected[f] \in Seq(Nat)
    BY DEF RelayInv, RelayTypeOK
  <2>2. \A j \in 1 .. Len(collected[f]) : collected[f][j] = j
    BY DEF RelayInv, BytesInPlace, Bytes
  <2>3. i \in 1 .. Len(collected[f])
    BY <2>1
  <2> QED
    BY <2>2, <2>3
<1> QED
  BY <1>1, RelayInvariance, PTL

(* do_transfer forwards no byte it has not logged, none of a receive that the *)
(* collector has not taken to its end, and reorders and repeats none, even    *)
(* after a short send() or an exception in the collector.                     *)
THEOREM OnlyLoggedIsForwarded == RelaySpec => []ForwardedIsLogged
<1>1. RelayInv => ForwardedIsLogged
  <2> SUFFICES ASSUME RelayInv, NEW f \in Flow
               PROVE  /\ \A i \in DOMAIN out[f] : out[f][i] \in DOMAIN collected[f]
                      /\ Len(collected[f]) < read[f] =>
                           \A i \in DOMAIN out[f] : out[f][i] <= read[f] - count[f]
                      /\ \A i, j \in DOMAIN out[f] : i < j => out[f][i] < out[f][j]
    BY DEF ForwardedIsLogged
  <2>1. /\ DOMAIN collected[f] = 1 .. Len(collected[f])
        /\ DOMAIN out[f] = 1 .. Len(out[f])
    BY DEF RelayInv, RelayTypeOK
  <2>2. /\ \A i \in 1 .. Len(out[f]) : out[f][i] \in 1 .. Len(collected[f])
        /\ Len(collected[f]) < read[f] =>
             \A i \in 1 .. Len(out[f]) : out[f][i] <= read[f] - count[f]
        /\ \A i, j \in 1 .. Len(out[f]) : i < j => out[f][i] < out[f][j]
    BY DEF RelayInv, BytesInPlace, Bytes
  <2> QED
    BY <2>1, <2>2
<1> QED
  BY <1>1, RelayInvariance, PTL

(* When a receive is outstanding, all that was received has been forwarded,   *)
(* unless some send() transmitted fewer bytes than it was given: waiting in   *)
(* send(), exceptions and the end of other connections lose no byte.          *)
THEOREM NothingIsDropped == RelaySpec => []StreamIntact
<1>1. Handling /\ RelayInv => StreamIntact
  <2> SUFFICES ASSUME Handling, RelayInv, NEW f \in Flow,
                      proc = "running", op[f] = "pending", ~short[f]
               PROVE  out[f] = collected[f]
    BY DEF StreamIntact
  <2>1. Status(f) = "forwarded"
    BY DEF Status, Handling, WaitingIsIdle, Alive
  <2>2. collected[f] \in Seq(Nat) /\ out[f] \in Seq(Nat)
    BY DEF RelayInv, RelayTypeOK
  <2>3. Bytes("forwarded", read[f], buffer[f], count[f], collected[f], out[f], short[f])
    BY <2>1 DEF RelayInv, BytesInPlace
  <2>4. /\ Len(collected[f]) = read[f] /\ Len(out[f]) = read[f]
        /\ \A i \in 1 .. Len(collected[f]) : collected[f][i] = i
        /\ \A i \in 1 .. Len(out[f]) : out[f][i] = i
    BY <2>3 DEF Bytes
  <2> QED
    BY <2>2, <2>4, SeqEqual
<1> QED
  BY <1>1, RelayInvariance, PTL
================================================================================

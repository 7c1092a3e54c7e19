--------------------------- MODULE ProxyServerProofs ---------------------------
(***************************************************************************)
(* Proofs about ProxyServer for any number of connections and descriptors. *)
(*                                                                         *)
(* The safety properties are proved together: that a receive is only       *)
(* pending on a managed connection rests on send() resuming on a managed   *)
(* connection, that the acceptor is only closed by the signal handler on   *)
(* the accept never being idle before, and so on.  Four conjuncts are      *)
(* added to make them inductive: the accept is not aborted while the       *)
(* acceptor is open, nothing is open while the Server is constructed, a    *)
(* connection that does not exist yet has transferred nothing, and the one *)
(* whose do_transfer waits in send() still exists.                         *)
(***************************************************************************)
EXTENDS ProxyServer, TLAPS

\* Only closing the acceptor aborts the accept.
AbortedMeansClosed ==
  proc = "running" /\ acceptor_open => op[Accept] # "aborted"

\* The constructor of Server has opened nothing and serves nobody.
StartsIdle ==
  proc = "starting" =>
    /\ ~acceptor_open
    /\ thread = Free
    /\ \A c \in Conn : \A o \in ConnOps(c) : op[o] = "idle"

\* A connection that does not exist yet has transferred nothing.
NewIsUnused == \A c \in Conn : life[c] = "unused" => transferring[c] = {}

\* The connection whose do_transfer waits in send() still exists: the only thread
\* is inside that call.
SenderIsManaged ==
  \A c \in Conn, s \in Side :
    proc = "running" /\ thread = Receive(c, s) => life[c] = "managed"

\* The inductive invariant, apart from TypeOK.
Safe ==
  /\ StartsIdle
  /\ NewIsUnused
  /\ AbortedMeansClosed
  /\ AcceptOutstanding
  /\ NothingAfterStop
  /\ SenderIsManaged
  /\ BuffersOutliveReceives
  /\ ClosedMeansFlushed
  /\ TransfersGoOn

\* The operations of the listener and those of the connections are all distinct.
LEMMA OpFacts ==
  /\ Accept \in Op
  /\ Signal \in Op
  /\ Accept # Signal
  /\ \A c \in Conn :
       /\ ConnOps(c) \subseteq Op
       /\ Connect(c) \in ConnOps(c)
       /\ \A s \in Side : Receive(c, s) \in ConnOps(c)
       /\ Accept \notin ConnOps(c)
       /\ Signal \notin ConnOps(c)
       /\ \A s \in Side : Free # Receive(c, s)
       /\ Connect(c) # Receive(c, "client")
       /\ Connect(c) # Receive(c, "server")
       /\ Receive(c, "client") # Receive(c, "server")
       /\ \A d \in Conn : \A o \in ConnOps(d) : o \in ConnOps(c) => c = d
  BY ServerAssumption
     DEF Accept, Signal, Connect, Receive, ConnOps, Op, Side, Free

\* Completing an operation, and what Asio's other steps leave alone.
LEMMA CompleteTypeOK ==
  ASSUME TypeOK, NEW o \in Op, NEW r \in Completed, Complete(o, r),
         o = Signal => r = "ok"
  PROVE  TypeOK'
  BY OpFacts DEF TypeOK, Complete, OpState, Completed

\* Destroying the managed connections leaves none, and leaves life in its type.
LEMMA DestroyAllFacts ==
  ASSUME TypeOK
  PROVE  /\ DestroyAll \in [Conn -> {"unused", "managed", "destroyed"}]
         /\ \A c \in Conn : DestroyAll[c] # "managed"
         /\ \A c \in Conn : DestroyAll[c] = "unused" => life[c] = "unused"
<1>1. \A c \in Conn : life[c] \in {"unused", "managed", "destroyed"}
  BY DEF TypeOK
<1> QED
  BY <1>1 DEF DestroyAll

\* Cancelling aborts pending operations and changes nothing else.
LEMMA CancelFacts ==
  ASSUME TypeOK, NEW S
  PROVE  /\ Cancel(S) \in [Op -> OpState]
         /\ \A o \in Op : op[o] # "pending" => Cancel(S)[o] = op[o]
         /\ \A o \in Op : o \notin S => Cancel(S)[o] = op[o]
         /\ \A o \in S \cap Op : Cancel(S)[o] # "pending"
         /\ \A o \in Op : Cancel(S)[o] # "idle" \/ op[o] = "idle"
<1>1. \A o \in Op : op[o] \in OpState
  BY DEF TypeOK
<1> QED
  BY <1>1 DEF Cancel, OpState

\* An exception leaves every variable in its type.
LEMMA UnwindTypeOK == TypeOK /\ Unwind => TypeOK'
<1> SUFFICES ASSUME TypeOK, Unwind PROVE TypeOK'
  OBVIOUS
<1>1. life' \in [Conn -> {"unused", "managed", "destroyed"}]
  BY DestroyAllFacts DEF Unwind
<1>2. op' \in [Op -> OpState] /\ op'[Signal] = "idle"
  BY OpFacts DEF Unwind, OpState
<1>3. acceptor_open' \in BOOLEAN
  BY DEF Unwind
<1>4. /\ proc' = "exception"
      /\ queue' \in Seq(Op)
      /\ unflushed' \subseteq Conn
      /\ thread' = Free
      /\ transferring' \in [Conn -> SUBSET Side]
  BY DEF TypeOK, Unwind, flush
<1> QED
  BY <1>1, <1>2, <1>3, <1>4 DEF TypeOK

\* The head of the queue is an operation and the rest is a queue.
LEMMA TurnFacts ==
  ASSUME TypeOK, NEW o, Turn(o)
  PROVE  o \in Op /\ Tail(queue) \in Seq(Op)
  BY DEF TypeOK, Turn

\* Every step keeps every variable in its type.
LEMMA TypeOKStep == TypeOK /\ [Next]_vars => TypeOK'
<1> SUFFICES ASSUME TypeOK, [Next]_vars PROVE TypeOK'
  OBVIOUS
<1> USE OpFacts
<1>1. CASE ClientConnects
  BY <1>1, CompleteTypeOK DEF ClientConnects, Completed
<1>2. CASE SignalArrives
  BY <1>2, CompleteTypeOK DEF SignalArrives, Completed
<1>3. ASSUME NEW c \in Conn, ConnectCompletes(c) PROVE TypeOK'
  BY <1>3, CompleteTypeOK DEF ConnectCompletes
<1>4. ASSUME NEW c \in Conn, NEW s \in Side, ReceiveCompletes(c, s) PROVE TypeOK'
  BY <1>4, CompleteTypeOK DEF ReceiveCompletes
<1>5. ASSUME NEW c \in Conn, NEW s \in Side, SendResumes(c, s) PROVE TypeOK'
  BY <1>5 DEF TypeOK, SendResumes, async_read_some, OpState
<1>6. ASSUME NEW c \in Conn, NEW s \in Side,
             SendThrows(c, s) \/ TransferThrows(c, s)
      PROVE  TypeOK'
  BY <1>6, UnwindTypeOK DEF SendThrows, TransferThrows
<1>7. CASE AcceptAfterStop
  BY <1>7, TurnFacts DEF TypeOK, AcceptAfterStop, OpState
<1>8. CASE AcceptError
  BY <1>8, TurnFacts DEF TypeOK, AcceptError, do_accept, OpState
<1>9. CASE StartThrows
  BY <1>9, UnwindTypeOK DEF StartThrows
<1>10. CASE StopAll
  <2>1. life' \in [Conn -> {"unused", "managed", "destroyed"}]
    BY <1>10, DestroyAllFacts DEF StopAll
  <2>2. op' \in [Op -> OpState] /\ op'[Signal] = "idle"
    BY <1>10, CancelFacts DEF StopAll, OpState
  <2>3. acceptor_open' \in BOOLEAN
    BY <1>10 DEF StopAll
  <2>4. /\ queue' \in Seq(Op)
        /\ unflushed' \subseteq Conn
        /\ UNCHANGED <<proc, thread, transferring>>
    BY <1>10, TurnFacts DEF StopAll, flush
  <2> QED
    BY <2>1, <2>2, <2>3, <2>4 DEF TypeOK
<1>11. CASE RunReturns
  BY <1>11 DEF TypeOK, RunReturns
<1>12. ASSUME NEW o \in Op, HandleAborted(o) PROVE TypeOK'
  BY <1>12 DEF TypeOK, HandleAborted, OpState
<1>13. ASSUME NEW c \in Conn, StartConnection(c) PROVE TypeOK'
  <2>1. life' \in [Conn -> {"unused", "managed", "destroyed"}]
    BY <1>13 DEF TypeOK, StartConnection, insert
  <2>2. op' \in [Op -> OpState] /\ op'[Signal] = op[Signal]
    BY <1>13 DEF TypeOK, StartConnection, do_accept, OpState
  <2>3. /\ queue' \in Seq(Op)
        /\ UNCHANGED <<proc, acceptor_open, thread, transferring, unflushed>>
    BY <1>13, TurnFacts DEF StartConnection
  <2> QED
    BY <2>1, <2>2, <2>3 DEF TypeOK
<1>14. ASSUME NEW c \in Conn, Connected(c) PROVE TypeOK'
  BY <1>14, TurnFacts DEF TypeOK, Connected, OpState, Side
<1>15. ASSUME NEW c \in Conn, NEW o \in ConnOps(c), IgnoreError(c, o) PROVE TypeOK'
  BY <1>15, TurnFacts DEF TypeOK, IgnoreError, OpState
<1>16. ASSUME NEW c \in Conn, NEW o \in ConnOps(c), UseDestroyed(c, o) PROVE TypeOK'
  BY <1>16 DEF TypeOK, UseDestroyed
<1>17. ASSUME NEW c \in Conn, NEW s \in Side, StopConnection(c, s) PROVE TypeOK'
  <2>1. op' \in [Op -> OpState] /\ op'[Signal] = op[Signal]
    BY <1>17, CancelFacts DEF StopConnection, CloseSockets, OpState
  <2> QED
    BY <1>17, <2>1, TurnFacts DEF TypeOK, StopConnection, flush
<1>18. ASSUME NEW c \in Conn, NEW s \in Side, Transfer(c, s) PROVE TypeOK'
  BY <1>18, TurnFacts DEF TypeOK, Transfer, Transfers, Logs, async_read_some, OpState
<1>19. ASSUME NEW c \in Conn, NEW s \in Side, TransferBlocks(c, s) PROVE TypeOK'
  BY <1>19, TurnFacts DEF TypeOK, TransferBlocks, Transfers, Logs, OpState
<1>20. CASE UNCHANGED vars
  BY <1>20 DEF TypeOK, vars
<1>21. CASE Listen
  BY <1>21 DEF TypeOK, Listen, OpState
<1>22. CASE ListenThrows
  BY <1>22, UnwindTypeOK DEF ListenThrows
<1> QED
  BY <1>1, <1>2, <1>3, <1>4, <1>5, <1>6, <1>7, <1>8, <1>9, <1>10, <1>11,
     <1>12, <1>13, <1>14, <1>15, <1>16, <1>17, <1>18, <1>19, <1>20, <1>21, <1>22
     DEF Next, Environment, RunOne, Handlers, Ended

\* The state the constructor has set up is in its type.
LEMMA InitTypeOK == Init => TypeOK
<1> SUFFICES ASSUME Init PROVE TypeOK
  OBVIOUS
<1>1. op \in [Op -> OpState] /\ op[Signal] = "pending"
  BY OpFacts DEF Init, OpState
<1>2. /\ life \in [Conn -> {"unused", "managed", "destroyed"}]
      /\ queue \in Seq(Op)
      /\ transferring \in [Conn -> SUBSET Side]
  BY DEF Init
<1>3. acceptor_open \in BOOLEAN
  BY DEF Init
<1> QED
  BY <1>1, <1>2, <1>3 DEF Init, TypeOK

(* Type correctness of the server's state: Spec => []TypeOK.                *)
THEOREM TypeCorrect == Spec => []TypeOK
<1>1. Init => TypeOK
  BY InitTypeOK
<1> QED
  BY <1>1, TypeOKStep, PTL DEF Spec

\* Every step preserves the safety properties: one case per action.
LEMMA SafeStep == TypeOK /\ Safe /\ [Next]_vars => Safe'
<1> SUFFICES ASSUME TypeOK, Safe, [Next]_vars PROVE Safe'
  OBVIOUS
<1> USE OpFacts
<1> USE DEF Safe, StartsIdle, NewIsUnused, AbortedMeansClosed, AcceptOutstanding, NothingAfterStop,
         SenderIsManaged, BuffersOutliveReceives, ClosedMeansFlushed, TransfersGoOn, Managed,
         is_open, do_accept, async_read_some, flush, Alive
<1>1. CASE ClientConnects
  BY <1>1 DEF ClientConnects, Complete, Completed, TypeOK
<1>2. CASE SignalArrives
  BY <1>2 DEF SignalArrives, Complete, Completed
<1>3. ASSUME NEW c \in Conn, ConnectCompletes(c) PROVE Safe'
  BY <1>3 DEF ConnectCompletes, Complete, Completed, TypeOK
<1>4. ASSUME NEW c \in Conn, NEW s \in Side, ReceiveCompletes(c, s) PROVE Safe'
  BY <1>4 DEF ReceiveCompletes, Complete, Completed, TypeOK
<1>5. ASSUME NEW c \in Conn, NEW s \in Side, SendResumes(c, s) PROVE Safe'
  BY <1>5 DEF SendResumes, TypeOK
<1>6. CASE Unwind
  BY <1>6, DestroyAllFacts DEF Unwind
<1>7. CASE AcceptAfterStop
  BY <1>7 DEF AcceptAfterStop, TypeOK
<1>8. CASE AcceptError
  BY <1>8 DEF AcceptError, TypeOK
<1>9. CASE StopAll
  <2> DEFINE S == {Accept} \cup UNION {ConnOps(c) : c \in Managed}
  <2>1. \A c \in Conn : life'[c] # "managed"
    BY <1>9, DestroyAllFacts DEF StopAll
  <2>2. \A c \in Conn : \A o \in ConnOps(c) : op'[o] # "pending"
    <3> SUFFICES ASSUME NEW c \in Conn, NEW o \in ConnOps(c)
                 PROVE  op'[o] # "pending"
      OBVIOUS
    <3>1. op'[o] = Cancel(S)[o]
      BY <1>9, CancelFacts DEF StopAll
    <3>2. op[o] = "pending" => o \in S
      BY <1>9 DEF StopAll, Turn
    <3> QED
      BY <3>1, <3>2, CancelFacts
  <2>3. \A c \in Conn : life'[c] = "unused" => life[c] = "unused"
    BY <1>9, DestroyAllFacts DEF StopAll
  <2> QED
    BY <1>9, <2>1, <2>2, <2>3 DEF StopAll, Turn
<1>10. CASE RunReturns
  BY <1>10 DEF RunReturns
<1>11. ASSUME NEW o \in Op, HandleAborted(o) PROVE Safe'
  <2>1. \A x \in Op : op[x] # "aborted" => op'[x] = op[x]
    BY <1>11 DEF HandleAborted, TypeOK
  <2> QED
    BY <1>11, <2>1 DEF HandleAborted, TypeOK, Completed
<1>12. ASSUME NEW c \in Conn, StartConnection(c) PROVE Safe'
  BY <1>12 DEF StartConnection, insert, TypeOK
<1>13. ASSUME NEW c \in Conn, Connected(c) PROVE Safe'
  <2>1. op'[Accept] = op[Accept]
    BY <1>13 DEF Connected, TypeOK, Side
  <2>2. \A d \in Conn \ {c} : \A o \in ConnOps(d) : op'[o] = op[o]
    BY <1>13 DEF Connected, TypeOK, Side
  <2>3. \A s \in Side : op'[Receive(c, s)] = "pending"
    BY <1>13 DEF Connected, TypeOK, Side
  <2>4. \A d \in Conn : transferring[d] \subseteq Side
    BY DEF TypeOK
  <2>5. TransfersGoOn'
    <3>1. \A d \in Conn : \A s \in Side :
            op'[Receive(d, s)] = "pending" \/ op'[Receive(d, s)] = op[Receive(d, s)]
      BY <2>2, <2>3
    <3> QED
      BY <1>13, <2>4, <3>1 DEF Connected
  <2> QED
    BY <1>13, <2>1, <2>2, <2>5 DEF Connected
<1>14. ASSUME NEW c \in Conn, NEW o \in ConnOps(c), IgnoreError(c, o) PROVE Safe'
  <2>1. \A x \in Op \ {o} : op'[x] = op[x]
    BY <1>14 DEF IgnoreError, TypeOK
  <2>2. \A d \in Conn : transferring[d] \subseteq Side
    BY DEF TypeOK
  <2>3. \A d \in Conn : \A s \in transferring[d] : o # Receive(d, s)
    <3> SUFFICES ASSUME NEW d \in Conn, NEW s \in transferring[d], o = Receive(d, s)
                 PROVE  FALSE
      OBVIOUS
    <3>1. d = c
      BY <2>2
    <3> QED
      BY <1>14, <2>2, <3>1 DEF IgnoreError, IgnoresError, Receive, Connect, Side
  <2>4. TransfersGoOn'
    BY <1>14, <2>1, <2>2, <2>3 DEF IgnoreError
  <2> QED
    BY <1>14, <2>1, <2>4 DEF IgnoreError, TypeOK
<1>15. ASSUME NEW c \in Conn, NEW o \in ConnOps(c), UseDestroyed(c, o) PROVE Safe'
  BY <1>15 DEF UseDestroyed, TypeOK
<1>16. ASSUME NEW c \in Conn, NEW s \in Side, StopConnection(c, s) PROVE Safe'
  BY <1>16, CancelFacts DEF StopConnection, CloseSockets, Turn, TypeOK
<1>17. ASSUME NEW c \in Conn, NEW s \in Side, Transfer(c, s) PROVE Safe'
  BY <1>17 DEF Transfer, Transfers, Logs, Turn, TypeOK
<1>18. ASSUME NEW c \in Conn, NEW s \in Side, TransferBlocks(c, s) PROVE Safe'
  BY <1>18 DEF TransferBlocks, Transfers, Logs, Turn, TypeOK
<1>19. CASE UNCHANGED vars
  BY <1>19 DEF vars
<1>20. CASE Listen
  BY <1>20 DEF Listen, TypeOK
<1> QED
  BY <1>1, <1>2, <1>3, <1>4, <1>5, <1>6, <1>7, <1>8, <1>9, <1>10, <1>11,
     <1>12, <1>13, <1>14, <1>15, <1>16, <1>17, <1>18, <1>19, <1>20
     DEF Next, Environment, RunOne, Handlers, Ended, ListenThrows, StartThrows, SendThrows,
         TransferThrows

\* The inductive invariant holds of every behaviour.
LEMMA Invariance == Spec => [](TypeOK /\ Safe)
<1>1. Init => TypeOK
  BY InitTypeOK
<1>2. Init => Safe
  <2> SUFFICES ASSUME Init PROVE Safe
    OBVIOUS
  <2>1. /\ proc = "starting"
        /\ ~acceptor_open
        /\ thread = Free
        /\ \A c \in Conn : life[c] = "unused" /\ transferring[c] = {}
        /\ \A c \in Conn : thread # Receive(c, "client") /\ thread # Receive(c, "server")
        /\ \A c \in Conn : \A o \in ConnOps(c) : op[o] = "idle"
        /\ unflushed = {}
    BY OpFacts DEF Init, Side
  <2> QED
    BY <2>1 DEF Safe, StartsIdle, NewIsUnused, AbortedMeansClosed, AcceptOutstanding, NothingAfterStop,
                SenderIsManaged, BuffersOutliveReceives,
                ClosedMeansFlushed, TransfersGoOn, Managed, Side
<1> QED
  BY <1>1, <1>2, TypeOKStep, SafeStep, PTL DEF Spec

(* After the signal handler has closed the acceptor no connection is managed, *)
(* even if an accept completed before the acceptor was closed.                *)
THEOREM ShutdownIsFinal == Spec => []NothingAfterStop
  BY Invariance, PTL DEF Safe

(* Asio never receives into the buffers of a connection that is gone.         *)
THEOREM ReceivesAreSafe == Spec => []BuffersOutliveReceives
  BY Invariance, PTL DEF Safe

(* An accept is always outstanding while the acceptor is open, so run() only  *)
(* returns after the signal handler.                                          *)
THEOREM ServerKeepsAccepting == Spec => []AcceptOutstanding
  BY Invariance, PTL DEF Safe

(* The log lines of a connection are flushed before the connection is gone.   *)
THEOREM LogIsFlushed == Spec => []ClosedMeansFlushed
  BY Invariance, PTL DEF Safe

(* A side of an open connection that has transferred bytes is never left      *)
(* without a receive, a queued handler or a handler that waits in send().     *)
THEOREM TransferIsServed == Spec => []TransfersGoOn
  BY Invariance, PTL DEF Safe

-----------------------------------------------------------------------------
(* The refinement of ConnectionPool.                                        *)

\* What a step does to the pool is decided by proc, acceptor_open and life.
LEMMA PoolStutters ==
  UNCHANGED <<proc, acceptor_open, life>> => UNCHANGED <<poolPhase, poolStatus>>
  BY DEF poolPhase, poolStatus, Managed

\* The life of one connection changes while the process runs.
LEMMA PoolStatusUpdate ==
  ASSUME TypeOK, proc = "running", proc' = "running", NEW c \in Conn,
         NEW l \in {"managed", "destroyed"}, life' = [life EXCEPT ![c] = l]
  PROVE  poolStatus' = [poolStatus EXCEPT ![c] = IF l = "managed" THEN "open" ELSE "closed"]
<1>1. life'[c] = l /\ \A d \in Conn \ {c} : life'[d] = life[d]
  BY DEF TypeOK
<1>2. poolStatus'[c] = IF l = "managed" THEN "open" ELSE "closed"
  BY <1>1 DEF poolStatus, Managed
<1>3. \A d \in Conn \ {c} : poolStatus'[d] = poolStatus[d]
  BY <1>1 DEF poolStatus, Managed
<1> QED
  BY <1>2, <1>3 DEF poolStatus

\* The process ends otherwise than by the return of run(): the pool crashes.
LEMMA PoolCrashes ==
  ASSUME TypeOK, Alive, proc' \in {"exception", "undefined"},
         life' = life \/ life' = DestroyAll, proc' = "exception" => life' = DestroyAll
  PROVE  Pool!Crash
<1>1. poolPhase \in {"starting", "serving", "stopping"}
  BY DEF TypeOK, Alive, poolPhase
<1>2. poolPhase' = "crashed"
  BY DEF poolPhase
<1>3. poolStatus' = Pool!CloseOpen
  BY DEF TypeOK, Alive, poolStatus, Managed, DestroyAll, Pool!CloseOpen
<1> QED
  BY <1>1, <1>2, <1>3 DEF Pool!Crash

\* Every step of the server is a step of the pool or leaves the pool as it is.
LEMMA PoolStep ==
  TypeOK /\ Safe /\ [Next]_vars => [Pool!Next]_Pool!poolVars
<1> SUFFICES ASSUME TypeOK, Safe, [Next]_vars
             PROVE  Pool!Next \/ UNCHANGED <<poolPhase, poolStatus>>
  BY DEF Pool!poolVars
<1>1. CASE UNCHANGED <<proc, acceptor_open, life>>
  BY <1>1, PoolStutters
<1>2. CASE Alive /\ Unwind
  <2>1. Pool!Crash
    BY <1>2, PoolCrashes DEF Unwind
  <2> QED
    BY <2>1 DEF Pool!Next
<1>3. ASSUME NEW c \in Conn, NEW o \in ConnOps(c), UseDestroyed(c, o) PROVE Pool!Next
  <2>1. Pool!Crash
    BY <1>3, PoolCrashes DEF UseDestroyed, Turn, Alive
  <2> QED
    BY <2>1 DEF Pool!Next
<1>4. CASE Listen
  <2>1. Pool!Serve
    BY <1>4 DEF Listen, Pool!Serve, poolPhase, poolStatus, Managed
  <2> QED
    BY <2>1 DEF Pool!Next
<1>5. ASSUME NEW c \in Conn, StartConnection(c) PROVE Pool!Next
  <2>1. poolPhase = "serving" /\ poolPhase' = "serving"
    BY <1>5 DEF StartConnection, is_open, Turn, poolPhase
  <2>2. poolStatus[c] = "new"
    BY <1>5 DEF StartConnection, poolStatus
  <2>3. poolStatus' = [poolStatus EXCEPT ![c] = "open"]
    BY <1>5, PoolStatusUpdate DEF StartConnection, insert, Turn
  <2> QED
    BY <2>1, <2>2, <2>3 DEF Pool!Next, Pool!Open
<1>6. ASSUME NEW c \in Conn, NEW s \in Side, StopConnection(c, s) PROVE Pool!Next
  <2>1. acceptor_open
    BY <1>6 DEF Safe, NothingAfterStop, StopConnection, Managed
  <2>2. poolPhase = "serving" /\ poolPhase' = "serving"
    BY <1>6, <2>1 DEF StopConnection, Turn, poolPhase
  <2>3. poolStatus[c] = "open"
    BY <1>6 DEF StopConnection, Turn, poolStatus, Managed
  <2>4. poolStatus' = [poolStatus EXCEPT ![c] = "closed"]
    BY <1>6, PoolStatusUpdate DEF StopConnection, Turn
  <2> QED
    BY <2>2, <2>3, <2>4 DEF Pool!Next, Pool!Close
<1>7. CASE StopAll
  <2>1. CASE acceptor_open
    <3>1. Pool!Stop
      BY <1>7, <2>1 DEF TypeOK, StopAll, Turn, Pool!Stop, Pool!CloseOpen,
                        poolPhase, poolStatus, Managed, DestroyAll
    <3> QED
      BY <3>1 DEF Pool!Next
  <2>2. CASE ~acceptor_open
    <3>1. life' = life
      BY <1>7, <2>2 DEF TypeOK, Safe, NothingAfterStop, StopAll, DestroyAll, Managed
    <3>2. acceptor_open' = acceptor_open
      <4>1. acceptor_open = FALSE
        BY <2>2 DEF TypeOK
      <4>2. acceptor_open' = FALSE
        BY <1>7 DEF StopAll
      <4> QED
        BY <4>1, <4>2
    <3> QED
      BY <1>7, <3>1, <3>2, PoolStutters DEF StopAll
  <2> QED
    BY <2>1, <2>2
<1>8. CASE RunReturns
  <2>1. ~acceptor_open
    BY <1>8, OpFacts DEF RunReturns, Safe, AcceptOutstanding
  <2>2. Pool!Finish
    BY <1>8, <2>1 DEF RunReturns, Pool!Finish, poolPhase, poolStatus, Managed
  <2> QED
    BY <2>2 DEF Pool!Next
<1> QED
  BY <1>1, <1>2, <1>3, <1>4, <1>5, <1>6, <1>7, <1>8
     DEF Next, Environment, RunOne, Handlers, Ended, vars, Alive, ListenThrows, StartThrows, SendThrows,
         TransferThrows, Transfers, Turn, ClientConnects, SignalArrives, ConnectCompletes,
         ReceiveCompletes, Complete, SendResumes, AcceptAfterStop, AcceptError,
         HandleAborted, Connected, IgnoreError, Transfer, TransferBlocks

(* The server implements the pool of connections, for every number of         *)
(* connections and descriptors: a connection is opened once, only while the   *)
(* server serves, and closed once; the signal handler closes them all, and    *)
(* run() returns only after it.                                               *)
THEOREM Implementation == Spec => ImplementsPool
<1>1. Init => Pool!Init
  BY DEF Init, Pool!Init, poolPhase, poolStatus
<1> QED
  BY <1>1, Invariance, PoolStep, PTL DEF Spec, ImplementsPool, Pool!Spec
=============================================================================

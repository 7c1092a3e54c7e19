---------------------------- MODULE ConnectionPool ----------------------------
(***************************************************************************)
(* What Server and ConnectionManager promise: a pool of connections, each  *)
(* opened and closed at most once, opened only while the server is serving,*)
(* all closed at once when it is told to stop, after which it may finish.  *)
(* The only other end is a crash.                                          *)
(***************************************************************************)
CONSTANT Conn

VARIABLES
  phase,   \* what the server is doing
  status   \* what has become of each connection

poolVars == <<phase, status>>

CloseOpen == [c \in Conn |-> IF status[c] = "open" THEN "closed" ELSE status[c]]

Init ==
  /\ phase = "starting"
  /\ status = [c \in Conn |-> "new"]

Serve ==
  /\ phase = "starting"
  /\ phase' = "serving"
  /\ UNCHANGED status

Open(c) ==
  /\ phase = "serving"
  /\ status[c] = "new"
  /\ status' = [status EXCEPT ![c] = "open"]
  /\ UNCHANGED phase

Close(c) ==
  /\ phase = "serving"
  /\ status[c] = "open"
  /\ status' = [status EXCEPT ![c] = "closed"]
  /\ UNCHANGED phase

Stop ==
  /\ phase = "serving"
  /\ phase' = "stopping"
  /\ status' = CloseOpen

Finish ==
  /\ phase = "stopping"
  /\ phase' = "finished"
  /\ UNCHANGED status

Crash ==
  /\ phase \in {"starting", "serving", "stopping"}
  /\ phase' = "crashed"
  /\ status' = CloseOpen

Next ==
  \/ Serve \/ Stop \/ Finish \/ Crash
  \/ \E c \in Conn : Open(c) \/ Close(c)

Spec == Init /\ [][Next]_poolVars
=============================================================================

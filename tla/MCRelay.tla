-------------------------------- MODULE MCRelay --------------------------------
(***************************************************************************)
(* Instances of Relay for TLC: one connection, whose client sends enough   *)
(* bytes to fill a buffer, the kernel's store and a buffer again.          *)
(***************************************************************************)
EXTENDS Relay

MCMaxBytes == [s \in Side |-> IF s = "client" THEN 3 ELSE 1]
=============================================================================

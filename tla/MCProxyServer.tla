----------------------------- MODULE MCProxyServer -----------------------------
(***************************************************************************)
(* Instances of ProxyServer for TLC.                                       *)
(***************************************************************************)
EXTENDS ProxyServer, TLC

\* Connection objects are interchangeable.
ConnSymmetry == Permutations(Conn)
=============================================================================

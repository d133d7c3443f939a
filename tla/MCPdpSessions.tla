--------------------------- MODULE MCPdpSessions ---------------------------
(***************************************************************************)
(* Small instance of PdpSessions: the code's two table entries; a public   *)
(* and a private server address, which the session layer never tells apart *)
(* except by equality.                                                     *)
(***************************************************************************)
EXTENDS PdpSessions, TLC

AddrSymmetry == Permutations(Addrs)
=============================================================================

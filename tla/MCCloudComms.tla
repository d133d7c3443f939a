---------------------------- MODULE MCCloudComms ----------------------------
(***************************************************************************)
(* Small instance of CloudComms: fewer send slots than a handshake flight  *)
(* has datagrams, so that the buffer overflows; two tries at each level.   *)
(***************************************************************************)
EXTENDS CloudComms
=============================================================================

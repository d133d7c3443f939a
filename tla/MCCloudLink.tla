---------------------------- MODULE MCCloudLink ----------------------------
(***************************************************************************)
(* Small instance of CloudLink.                                            *)
(***************************************************************************)
EXTENDS CloudLink, TLC

AddrSymmetry == Permutations(Addrs)
=============================================================================

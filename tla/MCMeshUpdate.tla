---------------------------- MODULE MCMeshUpdate ----------------------------
(***************************************************************************)
(* Small instances of MeshUpdate: files of two chunks, of which the server *)
(* has two versions.                                                       *)
(***************************************************************************)
EXTENDS MeshUpdate
=============================================================================

--------------------------- MODULE MCMeshCommand ----------------------------
(***************************************************************************)
(* Small instances of MeshCommand: a command that resets and one that does *)
(* not, and three sends of a result.                                       *)
(***************************************************************************)
EXTENDS MeshCommand
=============================================================================

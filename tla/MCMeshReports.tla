--------------------------- MODULE MCMeshReports ----------------------------
(***************************************************************************)
(* Small instances of MeshReports.                                         *)
(***************************************************************************)
EXTENDS MeshReports
=============================================================================

---------------------------- MODULE MCMeshRoute -----------------------------
(***************************************************************************)
(* Small instances of MeshRoute: two or three other nodes, a table with    *)
(* room for more nodes than there are, or for just as many.                *)
(***************************************************************************)
EXTENDS MeshRoute
=============================================================================

----------------------------- MODULE MCLoraMesh -----------------------------
(***************************************************************************)
(* Small instance of LoraMesh: three entries, three busy channels before a *)
(* message is given up, and 7.5 s may have passed after the first.         *)
(***************************************************************************)
EXTENDS LoraMesh
=============================================================================

------------------------------ MODULE MCIRGen ------------------------------
(* Every function of a few nodes over one name. *)
EXTENDS IRGenGraph

OneName  == {"x"}
=============================================================================

---------------------------- MODULE MCPyOwnership ---------------------------
(* PyOwnership with one component, the ground node and another node of the  *)
(* same name, and one object of each other type.                            *)
EXTENDS PyOwnership

MCNameOf == [o \in Named |-> IF o \in Comps THEN "c" ELSE "gnd"]
=============================================================================

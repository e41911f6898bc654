------------------------ MODULE MCAttributeBindings -------------------------
(* Instance for TLC: a component and a node of the same name in the DP     *)
(* domain, an EMT node, a Component() that holds nothing and an object of  *)
(* another class.                                                          *)
EXTENDS AttributeBindings

MCObjects == {"gen", "bus", "emt", "blank", "other"}
MCKind == [o \in MCObjects |->
             CASE o = "gen" -> "component" [] o \in {"bus", "emt"} -> "node"
               [] OTHER -> o]
MCDomain == [o \in MCObjects |-> IF o = "emt" THEN "EMT" ELSE "DP"]
MCName == [o \in MCObjects |-> IF o = "bus" THEN "gen" ELSE o]
MCAttrNames == {"speed", "voltage"}

Scalar(elem, w) == [elem |-> elem, matrix |-> FALSE, rows |-> 1, cols |-> 1, writable |-> w]
Matrix(elem, r, c) == [elem |-> elem, matrix |-> TRUE, rows |-> r, cols |-> c, writable |-> FALSE]
Absent == Scalar("none", FALSE)

MCType ==
  [o \in MCObjects |->
     CASE o = "gen" -> [speed |-> Scalar("real", TRUE), voltage |-> Scalar("complex", TRUE)]
       [] o = "bus" -> [speed |-> Absent, voltage |-> Matrix("complex", 2, 1)]
       [] o = "emt" -> [speed |-> Scalar("int", FALSE), voltage |-> Matrix("real", 1, 2)]
       [] OTHER -> [speed |-> Absent, voltage |-> Absent]]
MCSolved == {<<"gen", "speed">>, <<"bus", "voltage">>, <<"emt", "voltage">>}
MCTerminals == {<<"bus">>, <<"bus", "emt">>}
MCModes == {0, 1, 2, 3, 7, 9, 10}
MCFiles == {[open |-> TRUE, phasor |-> TRUE, rows |-> 4],
            [open |-> TRUE, phasor |-> FALSE, rows |-> 3],
            [open |-> FALSE, phasor |-> TRUE, rows |-> 4]}
=============================================================================

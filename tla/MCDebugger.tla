----------------------------- MODULE MCDebugger -----------------------------
(* A host for each part, and one that fills both tables.                   *)
EXTENDS Debugger

MCName == [a \in {0, 1} |-> IF a = 0 THEN "zero" ELSE "one"]

MCHosts == {{"break", "toggle"}, {"watch", "toggle", "check"},
            {"break", "watch"}, {"profile"}, {"inspect"}}
=============================================================================

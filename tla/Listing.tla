-------------------------------- MODULE Listing --------------------------------
(***************************************************************************)
(* What IndexRollouts of internal/desktop/index.go promises the refresh:   *)
(* one engine is started, every page of the live and then of the archived  *)
(* threads is counted once and in order, and the call returns, with or     *)
(* without an error, only when that engine has gone.                       *)
(***************************************************************************)
EXTENDS Naturals

CONSTANT Pages    \* Pages[k]: the pages the engine has of threads of kind k

Kinds == {"live", "archived"}

VARIABLES
    engine,    \* the engine process
    listed,    \* listed[k]: pages counted so far
    result     \* what the call returned

promise == <<engine, listed, result>>

Complete == listed = Pages

Init ==
    /\ engine = "none"
    /\ listed = [k \in Kinds |-> 0]
    /\ result = "none"

StartUp ==
    /\ engine = "none" /\ result = "none"
    /\ engine' = "running"
    /\ UNCHANGED <<listed, result>>

\* The archived threads come after the last page of the live ones.
Count(k) ==
    /\ engine # "none" /\ result = "none"
    /\ listed[k] < Pages[k]
    /\ k = "archived" => listed["live"] = Pages["live"]
    /\ listed' = [listed EXCEPT ![k] = @ + 1]
    /\ UNCHANGED <<engine, result>>

Exit ==
    /\ engine = "running"
    /\ engine' = "gone"
    /\ UNCHANGED <<listed, result>>

Return ==
    /\ engine # "running" /\ result = "none"
    /\ result' \in {"failed"} \cup (IF Complete THEN {"ok"} ELSE {})
    /\ UNCHANGED <<engine, listed>>

Next == StartUp \/ (\E k \in Kinds : Count(k)) \/ Exit \/ Return

Spec == Init /\ [][Next]_promise
================================================================================

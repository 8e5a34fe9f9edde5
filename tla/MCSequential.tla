------------------------------ MODULE MCSequential ------------------------------
(***************************************************************************)
(* Four parts that know nothing of each other: the job index, the due heap *)
(* and the schedule calculator, on which the core is built, and the v1     *)
(* wrapper on top of the API.  A behaviour exercises one of them.          *)
(***************************************************************************)
EXTENDS IdIndex, DueHeap, MCCalendar, V1Compat

CONSTANTS taskA, taskB

VARIABLE part

Init ==
  /\ part \in {"index", "heap", "calculator", "v1"}
  /\ IndexInit /\ HeapInit /\ CalcInit /\ CompatInit
  /\ part # "calculator" => moon = CHOOSE path \in MoonPaths : TRUE

Next ==
  /\ \/ part = "index" /\ IndexNext /\ UNCHANGED <<heapVars, calcVars, compatVars>>
     \/ part = "heap" /\ HeapNext /\ UNCHANGED <<indexVars, calcVars, compatVars>>
     \/ part = "calculator" /\ CalcNext /\ UNCHANGED <<indexVars, heapVars, compatVars>>
     \/ part = "v1" /\ CompatNext /\ UNCHANGED <<indexVars, heapVars, calcVars>>
  /\ UNCHANGED part

Spec == Init /\ [][Next]_<<part, indexVars, heapVars, calcVars, compatVars>>

MCEntries == {1, 2, 3} \X {1, 2}
================================================================================

---------------------------------- MODULE MCEnd ----------------------------------
(***************************************************************************)
(* end() against two pool workers and a dedicated task, with queues of one *)
(* place.                                                                  *)
(***************************************************************************)
EXTENDS BackgroundEnd

CONSTANTS w1, w2, t1
================================================================================

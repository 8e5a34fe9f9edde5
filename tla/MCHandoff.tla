------------------------------- MODULE MCHandoff -------------------------------
(***************************************************************************)
(* Two callers and a queue of two: with the wake-up entries a send can be  *)
(* refused, and a command can wait behind another.                         *)
(***************************************************************************)
EXTENDS CommandHandoff

CONSTANTS c1, c2
================================================================================

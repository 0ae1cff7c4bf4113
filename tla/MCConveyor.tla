----------------------------- MODULE MCConveyor -----------------------------
(* Conveyor with the shipped auto_command, R80, here "R".                  *)
EXTENDS Conveyor
=============================================================================

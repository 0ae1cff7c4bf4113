--------------------------- MODULE MCRobotControl ---------------------------
(* RobotControl on two goals: two picks, or a pick and a push.             *)
EXTENDS RobotControl

CONSTANTS first, second
=============================================================================

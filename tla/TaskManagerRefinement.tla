------------------------ MODULE TaskManagerRefinement ------------------------
(* TaskManager implements Fulfilment when no detection overlooks a nut.    *)
EXTENDS TaskManager

F == INSTANCE Fulfilment WITH
       serving   <- pc # "idle",
       want      <- [c \in Classes |-> Clamp0(ordered[c])],
       delivered <- tray,
       verdict   <- result

(* A cycle of the worker, seen from outside, is one order accepted, filled *)
(* within its bounds and closed with one verdict: in particular nothing is *)
(* delivered and no second verdict is published once it is closed.         *)
FulfilsOrders == F!Spec
=============================================================================

----------------------------- MODULE MCInstances -----------------------------
(* The small orders and tables the task-manager runs use.                  *)
EXTENDS Integers, TLC

CONSTANTS almond, cashew

OneClass   == { almond }
TwoClasses == { almond, cashew }
RankBoth   == << almond, cashew >>
RankOne    == << almond >>

(* A count below zero is possible: DBOrderProvider passes on what the      *)
(* service returns.                                                        *)
SmallOrders == [OneClass -> -1 .. 2]
SmallTables == [OneClass -> 0 .. 3]

MixedOrders == { (almond :> 1 @@ cashew :> 1), (almond :> 0 @@ cashew :> 2) }
MixedTables == { (almond :> 2 @@ cashew :> 2) }

TwoNuts   == [OneClass -> {2}]
ThreeNuts == [OneClass -> {3}]
=============================================================================

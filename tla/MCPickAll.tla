------------------------------ MODULE MCPickAll ------------------------------
(* Command lines of both scripts over two classes.                         *)
EXTENDS PickAll, TLC

CONSTANTS almond, cashew, peanut

Both == { almond, cashew }

All(order, per_class, counts, file) ==
  [tool |-> "pick_all", order |-> order, per_class |-> per_class,
   counts |-> counts, file |-> file]

One(c, dry) == [tool |-> "pick_one", order |-> << >>, class |-> c, dry_run |-> dry]

Pair == << cashew, almond >>

SomeRequests ==
  { All(Pair, None, << >>, None), All(Pair, 1, << >>, None),
    All(Pair, 2, almond :> 0, None), All(<< almond >>, None, cashew :> 2, None),
    All(Pair, 1, << >>, cashew :> 1 @@ almond :> 2), All(Pair, None, << >>, Malformed),
    All(Pair, None, Malformed, None), All(<< peanut >>, None, << >>, None),
    One(almond, TRUE), One(cashew, FALSE) }

SomeTables == { (almond :> 2 @@ cashew :> 2), (almond :> 0 @@ cashew :> 3) }
=============================================================================

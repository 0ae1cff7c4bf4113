---------------------------- MODULE PickAllProofs ----------------------------
(***************************************************************************)
(* The quota of pick_all, for every command line, every table and every    *)
(* number of failures.                                                     *)
(***************************************************************************)
EXTENDS PickAll, WellFoundedInduction, TLAPS

(* What argparse, parse_counts_arg and load_order_file let through; a      *)
(* negative --per-class is not considered.                                 *)
Quotas == UNION { [D -> Nat] : D \in SUBSET CLASSES }

RequestsTyped ==
  /\ None \notin CLASSES /\ None # Malformed
  /\ \A r \in Requests : r.tool = "pick_all" =>
       /\ r.order \in Seq(CLASSES \cup ToSet(r.order))
       /\ r.per_class \in Nat \cup {None}
       /\ r.counts \in Quotas \cup {Malformed}
       /\ r.file \in Quotas \cup {Malformed, None}

-----------------------------------------------------------------------------
(* select_target chooses one of its matches.                               *)

LEMMA Least ==
  ASSUME NEW T \in SUBSET Nat, T # {}
  PROVE  \E x \in T : \A y \in T : x <= y
<1>1. PICK x \in T : \A y \in T : << y, x >> \notin OpToRel(<, Nat)
  BY WFMin, NatLessThanWellFounded, Zenon
<1>2. \A y \in T : ~ (y < x)
  BY <1>1, Zenon DEF OpToRel
<1> QED BY <1>2

LEMMA IndexIsNat ==
  ASSUME NEW c, Len(Order) \in Nat
  PROVE  Index(c) \in Nat
<1> DEFINE I == { i \in 1 .. Len(Order) : Order[i] = c }
<1>1. Index(c) = IF I # {} THEN Min(I) ELSE 0
  BY DEF Index, SelectInSeq
<1>2. CASE I # {}
  <2>1. I \in SUBSET Nat
    OBVIOUS
  <2>2. \E x \in I : \A y \in I : x <= y
    BY <1>2, <2>1, Least
  <2>3. Min(I) \in I
    BY <2>2 DEF Min
  <2> QED BY <1>1, <1>2, <2>1, <2>3
<1> QED BY <1>1, <1>2

LEMMA SomeFirst ==
  ASSUME NEW matches \in SUBSET CLASSES, matches # {}, picked \in [CLASSES -> Nat],
         Len(Order) \in Nat
  PROVE  \E c \in matches : \A d \in matches : Before(c, d)
<1>1. { picked[c] : c \in matches } \in SUBSET Nat /\ { picked[c] : c \in matches } # {}
  OBVIOUS
<1>2. PICK m \in { picked[c] : c \in matches } : \A y \in { picked[c] : c \in matches } : m <= y
  BY <1>1, Least
<1> DEFINE F == { c \in matches : picked[c] = m }
<1>3. { Index(c) : c \in F } \in SUBSET Nat /\ { Index(c) : c \in F } # {}
  BY <1>2, IndexIsNat
<1>4. PICK k \in { Index(c) : c \in F } : \A y \in { Index(c) : c \in F } : k <= y
  BY <1>3, Least
<1>5. PICK c \in F : k = Index(c)
  BY <1>4
<1>6. ASSUME NEW d \in matches PROVE Before(c, d)
  <2>1. m <= picked[d] /\ m \in Nat /\ picked[d] \in Nat /\ picked[c] = m
    BY <1>1, <1>2
  <2>2. picked[d] = m => Index(c) <= Index(d)
    BY <1>4, <1>5
  <2> QED BY <2>1, <2>2 DEF Before
<1> QED BY <1>5, <1>6

LEMMA TargetIsEligible ==
  ASSUME NEW seen, SelectTarget(seen) # None, picked \in [CLASSES -> Nat], Len(Order) \in Nat
  PROVE  /\ SelectTarget(seen) \in Eligible
         /\ \A d \in Eligible \cap seen : Before(SelectTarget(seen), d)
<1> DEFINE matches == Eligible \cap seen
<1>1. matches \in SUBSET CLASSES
  BY DEF Eligible, InOrder
<1>2. matches # {}
  BY DEF SelectTarget
<1>3. \E c \in matches : \A d \in matches : Before(c, d)
  BY <1>1, <1>2, SomeFirst
<1>4. SelectTarget(seen) = CHOOSE c \in matches : \A d \in matches : Before(c, d)
  BY <1>2 DEF SelectTarget
<1>5. SelectTarget(seen) \in matches /\ \A d \in matches : Before(SelectTarget(seen), d)
  BY <1>3, <1>4
<1> QED BY <1>5

(* When it chooses nothing, every class has its quota or was not seen.     *)
LEMMA NothingIsEligible ==
  ASSUME NEW seen, SelectTarget(seen) = None, None \notin CLASSES,
         picked \in [CLASSES -> Nat], Len(Order) \in Nat
  PROVE  Eligible \cap seen = {}
<1> SUFFICES ASSUME Eligible \cap seen # {} PROVE FALSE
  OBVIOUS
<1> DEFINE matches == Eligible \cap seen
<1>1. matches \in SUBSET CLASSES
  BY DEF Eligible, InOrder
<1>2. \E c \in matches : \A d \in matches : Before(c, d)
  BY <1>1, SomeFirst
<1>3. SelectTarget(seen) = CHOOSE c \in matches : \A d \in matches : Before(c, d)
  BY DEF SelectTarget
<1>4. SelectTarget(seen) \in matches
  BY <1>2, <1>3
<1> QED BY <1>1, <1>4

-----------------------------------------------------------------------------
(* The quota.                                                              *)

All == args.tool = "pick_all"

TallyType ==
  /\ args \in Requests
  /\ targets \in [CLASSES -> Nat] /\ picked \in [CLASSES -> Nat]
  /\ tray \in [CLASSES -> Nat] /\ unreported \in [CLASSES -> Nat]
  /\ inflight \in CLASSES \cup {None}

(* The goal the script sends and waits for is for a class that has room    *)
(* for one more.                                                           *)
Awaited ==
  /\ pc \in {"sending", "waiting"} =>
       target \in CLASSES /\ (All => target \in Eligible)
  /\ pc = "waiting" => inflight # None /\ (All => inflight = target)

QuotaInv ==
  /\ TallyType
  /\ pc = "parse" => picked = Zero /\ inflight = None
  /\ \A c \in CLASSES : picked[c] <= targets[c]
  /\ All => \A c \in CLASSES : tray[c] <= picked[c] + unreported[c]
  /\ Awaited

LEMMA CountsType ==
  ASSUME NEW order, NEW per_class \in Nat \cup {None}, NEW counts \in Quotas
  PROVE  TargetCounts(order, per_class, counts) \in [CLASSES -> Nat]
<1>1. ASSUME NEW c \in CLASSES, c \in DOMAIN counts PROVE counts[c] \in Nat
  BY <1>1 DEF Quotas
<1> QED BY <1>1, PickAllAssumption DEF TargetCounts

LEMMA ParseType ==
  ASSUME RequestsTyped, TallyType, Parse
  PROVE  targets' \in [CLASSES -> Nat]
<1>1. CASE targets' = targets \/ targets' = Zero
  BY <1>1 DEF TallyType, Zero
<1>2. CASE All /\ ~BadRequest
  <2>1. args.per_class \in Nat \cup {None} /\ args.counts \in Quotas \cup {Malformed}
        /\ args.file \in Quotas \cup {Malformed, None}
    BY <1>2 DEF RequestsTyped, TallyType, All
  <2>2. CASE args.file # None
    <3>1. args.file \in Quotas /\ targets' = TargetCounts(Order, None, args.file)
      BY <1>2, <2>1, <2>2 DEF BadRequest, Parse, All
    <3> QED BY <3>1, CountsType
  <2>3. CASE args.file = None
    <3>1. args.counts \in Quotas /\ targets' = TargetCounts(Order, args.per_class, args.counts)
      BY <1>2, <2>1, <2>3 DEF BadRequest, Parse, All
    <3> QED BY <2>1, <3>1, CountsType
  <2> QED BY <2>2, <2>3
<1>3. CASE All /\ BadRequest
  BY <1>1, <1>3 DEF Parse, All
<1>4. CASE ~All
  <2>1. args.tool = "pick_one"
    BY <1>4, PickAllAssumption DEF TallyType, All
  <2> QED BY <1>1, <2>1 DEF Parse
<1> QED BY <1>2, <1>3, <1>4

LEMMA QuotaInit == Init => QuotaInv
BY DEF Init, QuotaInv, TallyType, Zero, Awaited

(* The fate of a nut adds at most one to the tray, and no more than is     *)
(* counted as delivered without a report.                                  *)
LEMMA NutCounts ==
  ASSUME TallyType, NEW c \in CLASSES, NEW fate, NEW success \in BOOLEAN,
         Nut(c, fate), Report(c, fate, success)
  PROVE  /\ tray' \in [CLASSES -> Nat] /\ unreported' \in [CLASSES -> Nat]
         /\ \A d \in CLASSES :
              tray'[d] - unreported'[d] <=
                tray[d] - unreported[d] + (IF success /\ d = c THEN 1 ELSE 0)
<1> USE DEF TallyType, Nut, Report
<1>1. CASE fate # "delivered"
  BY <1>1
<1>2. CASE fate = "delivered" /\ success
  BY <1>2
<1>3. CASE fate = "delivered" /\ ~success
  BY <1>3
<1> QED BY <1>1, <1>2, <1>3

LEMMA QuotaStep ==
  ASSUME RequestsTyped
  PROVE  QuotaInv /\ [Next]_vars => QuotaInv'
<1> SUFFICES ASSUME QuotaInv, [Next]_vars PROVE QuotaInv'
  OBVIOUS
<1> USE DEF QuotaInv, Awaited, All, tally, robot, Exit
<1>1. CASE Parse
  <2>1. targets' \in [CLASSES -> Nat] /\ picked = Zero
    BY <1>1, ParseType DEF Parse
  <2>2. \A c \in CLASSES : picked'[c] <= targets'[c]
    BY <1>1, <2>1 DEF Parse, Zero
  <2> QED BY <1>1, <2>1, <2>2 DEF Parse, TallyType
<1>2. ASSUME CapReached \/ DetectFails \/ OneDetectFails \/ PickTimesOut \/ ActionError
             \/ \E seen \in Visible : NothingToPick(seen) \/ OneStops(seen)
      PROVE  QuotaInv'
  <2>1. /\ UNCHANGED << args, targets, picked, robot, inflight, target >>
        /\ pc' \notin {"parse", "sending", "waiting"}
    BY <1>2 DEF CapReached, DetectFails, OneDetectFails, PickTimesOut, ActionError,
                NothingToPick, OneStops, Fails, Summary
  <2> QED BY <2>1 DEF TallyType
<1>3. ASSUME NEW seen \in Visible, SendPick(seen) PROVE QuotaInv'
  <2>1. /\ UNCHANGED << args, targets, picked, robot, inflight >> /\ All
        /\ target' = SelectTarget(seen) /\ SelectTarget(seen) # None
        /\ pc' \notin {"parse", "waiting"}
    BY <1>3 DEF SendPick, Looping, Send
  <2>2. Len(Order) \in Nat
    BY <2>1 DEF RequestsTyped, TallyType, Order
  <2>3. SelectTarget(seen) \in Eligible
    BY <2>1, <2>2, TargetIsEligible DEF TallyType
  <2>4. target' \in CLASSES /\ target' \in Eligible'
    BY <2>1, <2>3 DEF Eligible, InOrder, Order
  <2> QED BY <2>1, <2>4 DEF TallyType
<1>4. ASSUME NEW seen \in Visible, OneSends(seen) PROVE QuotaInv'
  <2>1. args.class \in CLASSES
    BY <1>4 DEF OneSends, Visible
  <2>2. ~All
    BY <1>4 DEF OneSends
  <2> QED BY <1>4, <2>1, <2>2 DEF OneSends, Send, TallyType, RequestsTyped
<1>5. ASSUME NEW fate \in Fates, NEW success \in BOOLEAN, inflight # None,
             Nut(inflight, fate), Report(inflight, fate, success),
             inflight' = None, UNCHANGED << args, targets >>,
             pc' \notin {"parse", "sending", "waiting"}
               \/ (UNCHANGED << pc, target, picked >> /\ pc \notin {"parse", "waiting"}),
             IF success /\ All
               THEN inflight \in Eligible /\ picked' = [picked EXCEPT ![inflight] = @ + 1]
               ELSE picked' = picked
      PROVE  QuotaInv'
  <2>1. inflight \in CLASSES
    BY <1>5 DEF TallyType
  <2>2. Awaited'
    BY <1>5, <2>1 DEF TallyType, Eligible, InOrder, Order
  <2>3. /\ tray' \in [CLASSES -> Nat] /\ unreported' \in [CLASSES -> Nat]
        /\ \A d \in CLASSES : tray'[d] - unreported'[d] <=
             tray[d] - unreported[d] + (IF success /\ d = inflight THEN 1 ELSE 0)
    BY <1>5, <2>1, NutCounts
  <2>4. CASE success /\ All
    <3>1. picked[inflight] < targets[inflight] /\ picked' = [picked EXCEPT ![inflight] = @ + 1]
      BY <1>5, <2>4 DEF Eligible
    <3>2. picked' \in [CLASSES -> Nat] /\ \A c \in CLASSES : picked'[c] <= targets[c]
      BY <2>1, <3>1 DEF TallyType
    <3>3. \A c \in CLASSES : tray'[c] <= picked'[c] + unreported'[c]
      BY <2>1, <2>3, <2>4, <3>1 DEF TallyType
    <3> QED BY <1>5, <2>3, <2>2, <3>2, <3>3 DEF TallyType
  <2>5. CASE ~success /\ All
    <3>1. picked' = picked
      BY <1>5, <2>5
    <3>2. \A c \in CLASSES : tray'[c] <= picked'[c] + unreported'[c]
      BY <2>3, <2>5, <3>1 DEF TallyType
    <3> QED BY <1>5, <2>3, <2>2, <3>1, <3>2 DEF TallyType
  <2>6. CASE ~All
    <3>1. picked' = picked /\ ~All'
      BY <1>5, <2>6
    <3> QED BY <1>5, <2>3, <2>2, <3>1 DEF TallyType
  <2> QED BY <2>4, <2>5, <2>6
<1>6. ASSUME NEW fate \in Fates, PickSucceeds(fate) PROVE QuotaInv'
  <2>1. /\ inflight # None /\ Nut(inflight, fate) /\ Report(inflight, fate, TRUE)
        /\ inflight' = None /\ UNCHANGED << args, targets >>
        /\ pc' \notin {"parse", "sending", "waiting"}
    BY <1>6 DEF PickSucceeds, OneAnswered
  <2>2. IF All THEN inflight \in Eligible /\ picked' = [picked EXCEPT ![inflight] = @ + 1]
               ELSE picked' = picked
    BY <1>6 DEF PickSucceeds, OneAnswered
  <2> QED BY <1>5, <2>1, <2>2
<1>7. ASSUME NEW fate \in Fates, PickFails(fate) PROVE QuotaInv'
  <2>1. /\ inflight # None /\ Nut(inflight, fate) /\ Report(inflight, fate, FALSE)
        /\ inflight' = None /\ UNCHANGED << args, targets, picked >>
        /\ pc' \notin {"parse", "sending", "waiting"}
    BY <1>7 DEF PickFails, OneAnswered, Fails
  <2> QED BY <1>5, <2>1
<1>8. ASSUME NEW fate \in Fates, AbandonedEnds(fate) PROVE QuotaInv'
  <2>1. /\ inflight # None /\ Nut(inflight, fate) /\ Report(inflight, fate, FALSE)
        /\ inflight' = None /\ UNCHANGED << args, targets, picked, pc, target >>
        /\ pc \notin {"parse", "waiting"}
    BY <1>8 DEF AbandonedEnds
  <2> QED BY <1>5, <2>1
<1>9. CASE GoalReply \/ Interrupt
  <2>1. /\ UNCHANGED << args, targets, picked, robot, target >>
        /\ inflight' \in CLASSES \cup {None}
        /\ pc' \notin {"parse", "sending"}
        /\ pc' = "waiting" => pc = "sending" /\ inflight' = target
    BY <1>9 DEF GoalReply, Interrupt, TallyType
  <2> QED BY <2>1 DEF TallyType, RequestsTyped, Eligible, InOrder, Order
<1>10. CASE UNCHANGED vars
  BY <1>10 DEF vars, TallyType, Eligible, InOrder, Order
<1> QED BY <1>1, <1>2, <1>3, <1>4, <1>6, <1>7, <1>8, <1>9, <1>10
        DEF Next, Script, Detect, Answer

LEMMA QuotaInvariant ==
  ASSUME RequestsTyped
  PROVE  Spec => []QuotaInv
<1>1. QuotaInv /\ [Next]_vars => QuotaInv'
  BY QuotaStep
<1> QED BY <1>1, QuotaInit, PTL DEF Spec

(* No class is picked beyond its quota, whatever becomes of the goals, and *)
(* the tray exceeds a quota only by nuts of goals that were not answered   *)
(* with success (build_target_counts, select_target, main of pick_all.py). *)
THEOREM QuotaIsKept ==
  ASSUME RequestsTyped
  PROVE  Spec => []QuotaKept
<1>1. Spec => []QuotaInv
  BY QuotaInvariant
<1>2. QuotaInv => QuotaKept
  <2> SUFFICES ASSUME QuotaInv, NEW c \in CLASSES
               PROVE  /\ picked[c] <= targets[c]
                      /\ All => tray[c] <= targets[c] + unreported[c]
    BY DEF QuotaKept, All
  <2>1. picked[c] <= targets[c] /\ (All => tray[c] <= picked[c] + unreported[c])
    BY DEF QuotaInv
  <2> QED BY <2>1 DEF QuotaInv, TallyType
<1> QED BY <1>1, <1>2, PTL

-----------------------------------------------------------------------------
(* Balance.                                                                *)

Settled(c) == picked[c] = targets[c] \/ c \in unseen

(* The class of the goal was the least picked of those still to settle.    *)
LeastFirst ==
  pc \in {"sending", "waiting"} /\ All =>
    \A c \in InOrder : picked[c] < picked[target] => Settled(c)

BalanceInv == LeastFirst /\ Balanced

LEMMA BalanceInit == Init => BalanceInv
BY DEF Init, BalanceInv, LeastFirst, Balanced, InOrder, Zero

LEMMA BalanceStep ==
  ASSUME RequestsTyped
  PROVE  QuotaInv /\ BalanceInv /\ [Next]_vars => BalanceInv'
<1> SUFFICES ASSUME QuotaInv, BalanceInv, [Next]_vars PROVE BalanceInv'
  OBVIOUS
<1> USE DEF BalanceInv, LeastFirst, Balanced, Settled, InOrder, Order, All, tally, robot, Exit
<1>1. CASE Parse
  BY <1>1 DEF Parse, QuotaInv, Zero
<1>2. ASSUME UNCHANGED << args, targets, picked >>, unseen \subseteq unseen',
             pc' \notin {"sending", "waiting"} \/ (UNCHANGED target /\ pc \in {"sending", "waiting"})
      PROVE  BalanceInv'
  BY <1>2
<1>3. ASSUME CapReached \/ DetectFails \/ OneDetectFails \/ PickTimesOut \/ ActionError
             \/ GoalReply \/ Interrupt
             \/ \E seen \in Visible : NothingToPick(seen) \/ OneStops(seen)
      PROVE  BalanceInv'
  BY <1>2, <1>3 DEF CapReached, DetectFails, OneDetectFails, PickTimesOut, ActionError, GoalReply,
                    Interrupt, NothingToPick, OneStops, Fails, Summary
<1>4. ASSUME NEW seen \in Visible, SendPick(seen) PROVE BalanceInv'
  <2>1. /\ UNCHANGED << args, targets, picked >> /\ unseen' = unseen \cup (Eligible \ seen)
        /\ target' = SelectTarget(seen) /\ SelectTarget(seen) # None /\ All
    BY <1>4 DEF SendPick, Looping, Send
  <2>2. /\ picked \in [CLASSES -> Nat] /\ targets \in [CLASSES -> Nat]
        /\ \A c \in CLASSES : picked[c] <= targets[c]
    BY DEF QuotaInv, TallyType
  <2>3. Len(Order) \in Nat
    BY <2>1 DEF RequestsTyped, QuotaInv, TallyType
  <2>4. /\ target' \in CLASSES
        /\ \A c \in Eligible \cap seen : Before(target', c)
    BY <2>1, <2>2, <2>3, TargetIsEligible DEF Eligible
  <2>5. ASSUME NEW c \in InOrder, picked[c] < picked[target'] PROVE picked[c] = targets[c] \/ c \in unseen'
    <3>1. c \notin Eligible \cap seen
      BY <2>2, <2>4, <2>5 DEF Before
    <3>2. c \in Eligible => c \in unseen'
      BY <2>1, <3>1
    <3>3. c \notin Eligible => picked[c] = targets[c]
      BY <2>2 DEF Eligible
    <3> QED BY <3>2, <3>3
  <2> QED BY <2>1, <2>5
<1>5. ASSUME NEW fate \in Fates, PickSucceeds(fate) PROVE BalanceInv'
  <2>1. CASE All
    <3>1. /\ UNCHANGED << args, targets, unseen >> /\ pc = "waiting" /\ pc' \notin {"sending", "waiting"}
          /\ picked' = [picked EXCEPT ![target] = @ + 1] /\ target \in Eligible
      BY <1>5, <2>1 DEF PickSucceeds, OneAnswered, QuotaInv, Awaited
    <3>2. /\ picked \in [CLASSES -> Nat] /\ targets \in [CLASSES -> Nat]
          /\ target \in CLASSES /\ picked[target] < targets[target]
      BY <3>1 DEF QuotaInv, TallyType, Eligible
    <3>3. ASSUME NEW c \in InOrder, NEW d \in InOrder, picked'[d] >= picked'[c] + 2
          PROVE  picked'[c] = targets[c] \/ c \in unseen
      <4>1. picked[d] >= picked[c] + 2 \/ (d = target /\ picked[c] < picked[target])
        BY <3>1, <3>2, <3>3
      <4>2. Settled(c)
        BY <2>1, <3>1, <4>1
      <4>3. c = target => c \in unseen
        BY <3>2, <4>2
      <4>4. c # target => picked'[c] = picked[c]
        BY <3>1, <3>2
      <4> QED BY <4>2, <4>3, <4>4
    <3> QED BY <3>1, <3>3
  <2>2. CASE ~All
    BY <1>2, <1>5, <2>2 DEF PickSucceeds, OneAnswered
  <2> QED BY <2>1, <2>2
<1>6. ASSUME NEW fate \in Fates, PickFails(fate) PROVE BalanceInv'
  BY <1>2, <1>6 DEF PickFails, OneAnswered, Fails
<1>7. ASSUME NEW fate \in Fates, AbandonedEnds(fate) PROVE BalanceInv'
  BY <1>7 DEF AbandonedEnds
<1>8. ASSUME NEW seen \in Visible, OneSends(seen) PROVE BalanceInv'
  BY <1>8 DEF OneSends, Send
<1>9. CASE UNCHANGED vars
  BY <1>9 DEF vars
<1> QED BY <1>1, <1>3, <1>4, <1>5, <1>6, <1>7, <1>8, <1>9
        DEF Next, Script, Detect, Answer

(* "Balanced picking even when stops happen partway through", the promise  *)
(* of select_target: a class falls two picks behind another only when it   *)
(* has its quota or some detection did not show it.                        *)
THEOREM PicksAreBalanced ==
  ASSUME RequestsTyped
  PROVE  Spec => []Balanced
<1>1. QuotaInv /\ BalanceInv /\ [Next]_vars => BalanceInv'
  BY BalanceStep
<1>2. Spec => []QuotaInv
  BY QuotaInvariant
<1>3. BalanceInv => Balanced
  BY DEF BalanceInv
<1> QED BY <1>1, <1>2, <1>3, BalanceInit, PTL DEF Spec

-----------------------------------------------------------------------------
(* The exit code.                                                          *)

CapKept ==
  /\ pick_count \in Nat /\ pick_count <= Max_picks
  /\ pc \in {"sending", "waiting"} /\ All => pick_count < Max_picks

ExitInv ==
  /\ CapKept
  /\ exit = 0 => pc = "exited"
  /\ ExitTells

LEMMA ExitInit == Init => ExitInv
BY PickAllAssumption DEF Init, ExitInv, CapKept, ExitTells

LEMMA ExitStep ==
  ASSUME RequestsTyped
  PROVE  QuotaInv /\ ExitInv /\ [Next]_vars => ExitInv'
<1> SUFFICES ASSUME QuotaInv, ExitInv, [Next]_vars PROVE ExitInv'
  OBVIOUS
<1> USE DEF ExitInv, CapKept, ExitTells, All, tally, robot, Exit, InOrder, Order
<1>1. ASSUME exit' # 0, CapKept' PROVE ExitInv'
  BY <1>1
<1>2. CASE Parse \/ DetectFails \/ OneDetectFails \/ PickTimesOut \/ ActionError \/ GoalReply
           \/ Interrupt
  BY <1>1, <1>2 DEF Parse, DetectFails, OneDetectFails, PickTimesOut, ActionError, GoalReply,
                    Interrupt, Fails, Looping
<1>3. CASE CapReached
  <2>1. pick_count = Max_picks
    BY <1>3, PickAllAssumption DEF CapReached
  <2> QED BY <1>3, <2>1 DEF CapReached, Summary
<1>4. ASSUME NEW seen \in Visible, NothingToPick(seen) PROVE ExitInv'
  <2>1. /\ UNCHANGED << args, targets, tally >> /\ unseen' = unseen \cup (Eligible \ seen)
        /\ SelectTarget(seen) = None /\ pc' = "exited" /\ All
    BY <1>4 DEF NothingToPick, Summary, Looping
  <2>2. Len(Order) \in Nat
    BY <2>1 DEF RequestsTyped, QuotaInv, TallyType
  <2>3. Eligible \cap seen = {}
    BY <2>1, <2>2, NothingIsEligible DEF RequestsTyped, QuotaInv, TallyType
  <2>4. ASSUME NEW c \in InOrder PROVE picked[c] = targets[c] \/ c \in Eligible
    <3>1. picked[c] \in Nat /\ targets[c] \in Nat /\ picked[c] <= targets[c]
      BY DEF QuotaInv, TallyType
    <3> QED BY <3>1 DEF Eligible
  <2>5. \A c \in InOrder : picked[c] = targets[c] \/ c \in unseen'
    BY <2>1, <2>3, <2>4
  <2> QED BY <2>1, <2>5
<1>5. ASSUME NEW seen \in Visible, SendPick(seen) PROVE ExitInv'
  BY <1>5 DEF SendPick, Looping, Send
<1>6. ASSUME NEW seen \in Visible, OneStops(seen) PROVE ExitInv'
  BY <1>6 DEF OneStops
<1>7. ASSUME NEW seen \in Visible, OneSends(seen) PROVE ExitInv'
  BY <1>7 DEF OneSends, Send
<1>8. ASSUME NEW fate \in Fates, PickSucceeds(fate) PROVE ExitInv'
  BY <1>8, PickAllAssumption DEF PickSucceeds, OneAnswered
<1>9. ASSUME NEW fate \in Fates, PickFails(fate) PROVE ExitInv'
  BY <1>1, <1>9, PickAllAssumption DEF PickFails, OneAnswered, Fails
<1>10. ASSUME NEW fate \in Fates, AbandonedEnds(fate) PROVE ExitInv'
  BY <1>10 DEF AbandonedEnds
<1>11. CASE UNCHANGED vars
  BY <1>11 DEF vars
<1> QED BY <1>2, <1>3, <1>4, <1>5, <1>6, <1>7, <1>8, <1>9, <1>10, <1>11
        DEF Next, Script, Detect, Answer

(* Exit code 0 means that nothing is owed: of pick_all, that every class   *)
(* of the order has its quota, was overlooked by a detection or met the    *)
(* cap on picks; of pick_one, that its goal succeeded or none was wanted.  *)
THEOREM ExitCodeTells ==
  ASSUME RequestsTyped
  PROVE  Spec => []ExitTells
<1>1. QuotaInv /\ ExitInv /\ [Next]_vars => ExitInv'
  BY ExitStep
<1>2. Spec => []QuotaInv
  BY QuotaInvariant
<1>3. ExitInv => ExitTells
  BY DEF ExitInv
<1> QED BY <1>1, <1>2, <1>3, ExitInit, PTL DEF Spec
=============================================================================

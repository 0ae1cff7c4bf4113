------------------------------ MODULE Fulfilment ------------------------------
(***************************************************************************)
(* What the task manager promises to whoever places an order: it serves    *)
(* one order at a time, delivers nuts only while it serves one and never   *)
(* more of a class than were ordered, and closes every order with exactly  *)
(* one verdict, sooner or later.  How detections, retries, cluster pushes  *)
(* and verification rounds lead there is left out.                         *)
(***************************************************************************)
EXTENDS Integers

CONSTANTS Classes

VARIABLES
  serving,    (* an order is being worked on                               *)
  want,       (* the nuts ordered                                          *)
  delivered,  (* the nuts delivered for it                                 *)
  verdict     (* "none" until the order is closed                          *)

vars == << serving, want, delivered, verdict >>

None == [c \in Classes |-> 0]

Init ==
  /\ serving = FALSE /\ verdict = "none"
  /\ want = None /\ delivered = None

Accept ==
  /\ ~serving
  /\ serving' = TRUE /\ verdict' = "none"
  /\ want' = None /\ delivered' = None

(* The order becomes known only after the cycle has begun.                 *)
LearnOrder ==
  /\ serving /\ want = None /\ delivered = None
  /\ want' \in [Classes -> Nat]
  /\ UNCHANGED << serving, delivered, verdict >>

DeliverOne ==
  \E c \in Classes :
    /\ delivered[c] < want[c]
    /\ delivered' = [delivered EXCEPT ![c] = @ + 1]

Close == serving' = FALSE /\ verdict' \in {"success", "failure"}

(* A last nut may arrive in the very step that closes the order.           *)
Serve ==
  /\ serving
  /\ DeliverOne \/ UNCHANGED delivered
  /\ Close \/ UNCHANGED << serving, verdict >>
  /\ UNCHANGED want

Next == Accept \/ LearnOrder \/ Serve

Spec == Init /\ [][Next]_vars /\ (serving ~> ~serving)
=============================================================================

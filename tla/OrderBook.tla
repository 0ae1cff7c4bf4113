------------------------------ MODULE OrderBook ------------------------------
(***************************************************************************)
(* The order book of one task cycle and the retry policy applied to it     *)
(* (order_provider.OrderBook, retry_policy.RetryPolicy), with the count    *)
(* arithmetic of a verification round.  All of it is constant-level: a     *)
(* book is a value, and every operation returns the next book.             *)
(*                                                                         *)
(* A class missing from the Python dict `counts` reads as 0 here: every    *)
(* method of OrderBook treats the two alike.                               *)
(***************************************************************************)
EXTENDS Integers, Sequences

CONSTANTS
  Classes,            (* nut classes an order can name                     *)
  Priority,           (* class_priority: the picking order, a sequence     *)
  MaxDetectMisses,    (* max_detect_misses                                 *)
  MaxGraspFailures    (* max_grasp_failures                                *)

ASSUME OrderBookAssumption ==
  /\ Priority \in Seq(Classes)
  /\ MaxDetectMisses \in Nat \ {0}
  /\ MaxGraspFailures \in Nat \ {0}

-----------------------------------------------------------------------------
(* Books.                                                                  *)

Book == [ counts        : [Classes -> Int],
          detectMisses  : [Classes -> Nat],
          graspFailures : [Classes -> Nat],
          skipped       : SUBSET Classes ]

NewBook(counts) ==
  [ counts        |-> counts,
    detectMisses  |-> [c \in Classes |-> 0],
    graspFailures |-> [c \in Classes |-> 0],
    skipped       |-> {} ]

EmptyBook == NewBook([c \in Classes |-> 0])

Open(b, c) == b.counts[c] > 0 /\ c \notin b.skipped

HasRemaining(b) == \E c \in Classes : Open(b, c)

AllDone(b) == \A c \in Classes : b.counts[c] = 0 \/ c \in b.skipped

(* The first open class in priority order; a class the priority list does  *)
(* not rank is reached only when no ranked one is open, in dict order,     *)
(* which is left open here.                                                *)
NextClasses(b) ==
  LET ranked == { i \in DOMAIN Priority : Open(b, Priority[i]) }
  IN  IF ranked = {}
        THEN { c \in Classes : Open(b, c) }
        ELSE { Priority[i] : i \in { j \in ranked : \A k \in ranked : j <= k } }

(* Mutant: a picked nut does not give the class its retries back.          *)
ConsumeOneOnly(b, c) == [ b EXCEPT !.counts[c] = IF @ > 0 THEN @ - 1 ELSE @ ]

ConsumeOne(b, c) ==
  [ b EXCEPT !.counts[c]        = IF @ > 0 THEN @ - 1 ELSE @,
             !.detectMisses[c]  = 0,
             !.graspFailures[c] = 0 ]

RecordDetectMiss(b, c)   == [ b EXCEPT !.detectMisses[c] = @ + 1 ]
RecordGraspFailure(b, c) == [ b EXCEPT !.graspFailures[c] = @ + 1 ]
MarkSkipped(b, c)        == [ b EXCEPT !.skipped = @ \cup {c} ]

-----------------------------------------------------------------------------
(* The retry policy.                                                       *)

OnDetectMiss(misses) ==
  IF misses >= MaxDetectMisses THEN "skip_class" ELSE "retry_detect"

GraspNotDetected == 2   \* failure_code of PickAndPlace.action
MotionFail       == 3
SafetyStopCode   == 4
PushCodes        == {MotionFail, SafetyStopCode, 5}
HardCodes        == {1} \cup PushCodes

OnActionFailure(code, graspFailures) ==
  IF code # GraspNotDetected THEN "abort"
  ELSE IF graspFailures >= MaxGraspFailures THEN "skip_class" ELSE "retry_pick"

(* What the loop does to the book for one missed detection.                *)
AfterDetectMiss(b, c) ==
  LET missed == RecordDetectMiss(b, c)
  IN  IF OnDetectMiss(missed.detectMisses[c]) = "skip_class"
        THEN MarkSkipped(missed, c)
        ELSE missed

(* ... and for one failed pick, whatever its code.                         *)
AfterPickFailure(b, c, code) ==
  LET failed == RecordGraspFailure(b, c)
  IN  IF OnActionFailure(code, failed.graspFailures[c]) = "skip_class"
        THEN MarkSkipped(failed, c)
        ELSE failed

(* A class is skipped exactly when one of its two budgets is used up.      *)
SkipsAreExhausted(b) ==
  \A c \in Classes :
    c \in b.skipped <=> \/ b.detectMisses[c] >= MaxDetectMisses
                        \/ b.graspFailures[c] >= MaxGraspFailures

-----------------------------------------------------------------------------
(* Verification arithmetic.                                                *)

Clamp0(n) == IF n > 0 THEN n ELSE 0

Lesser(m, n) == IF m < n THEN m ELSE n

Ranked == { Priority[i] : i \in DOMAIN Priority }

(* Mutant: the two counts are subtracted the wrong way round.              *)
RemainingOfSwapped(ordered, initial, final) ==
  Lesser(Clamp0(ordered), Clamp0(Clamp0(ordered) - (Clamp0(final) - Clamp0(initial))))

(* _remaining_from_verification for one ranked class: what is still to be  *)
(* moved, from the counts seen before the first pick and now.              *)
RemainingOf(ordered, initial, final) ==
  LET want  == Clamp0(ordered)
      moved == Clamp0(initial) - Clamp0(final)
  IN  Lesser(want, Clamp0(want - moved))

Remaining(ordered, initial, final) ==
  [ c \in Classes |-> IF c \in Ranked
                        THEN RemainingOf(ordered[c], initial[c], final[c])
                        ELSE 0 ]

(* Mutants: the nuts still on the table are forgotten; a clamp is missing. *)
MissingOfBlind(ordered, initial, final) == Clamp0(ordered - Clamp0(initial))
MissingOfUnclamped(ordered, initial, final) == ordered - Clamp0(initial - final)

(* The shortage the same round writes to exception_logs as COUNT_MISMATCH, *)
(* computed over the ordered classes by a formula of its own.              *)
MissingOf(ordered, initial, final) == Clamp0(ordered - Clamp0(initial - final))

Missing(ordered, initial, final) ==
  [ c \in Classes |-> MissingOf(ordered[c], initial[c], final[c]) ]
=============================================================================

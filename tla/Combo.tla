-------------------------------- MODULE Combo --------------------------------
(***************************************************************************)
(* What an order is made of: from the answers of the language model to the *)
(* combo of latest_order.json, and from there to the counts an order       *)
(* provider hands to the worker.                                           *)
(*                                                                         *)
(* A combo is a sequence of items; an item that is not a JSON object, or   *)
(* has no usable count, has NotANumber for its count.                      *)
(***************************************************************************)
EXTENDS Integers, SequencesExt

CONSTANTS
  ValidNuts,    (* VALID_NUTS, _NUT_CLASSES                                *)
  NotANumber

ASSUME ComboAssumption == IsFiniteSet(ValidNuts)

(* nut_combo_rules.json: how many of each nut.  build_combo falls back to  *)
(* normal, and so does normalize_intensity.                                *)
IntensityCount(intensity) ==
  CASE intensity = "low" -> 3 [] intensity = "high" -> 1 [] OTHER -> 2

(* build_combo: a nut named twice counts twice.                            *)
BuildCombo(nuts, intensity) ==
  SetToSeq({ [nut |-> n,
              count |-> IntensityCount(intensity) * Cardinality({ i \in DOMAIN nuts : nuts[i] = n })]
             : n \in Range(nuts) })

Usable(item) == item.nut \in ValidNuts /\ item.count \in Nat \ {0}

(* The counts of a combo.                                                  *)
CountsOf(combo) ==
  [n \in ValidNuts |->
     MapThenSumSet(LAMBDA i : combo[i].count,
                   { i \in DOMAIN combo : Usable(combo[i]) /\ combo[i].nut = n })]

Ordered(counts) == { n \in ValidNuts : counts[n] > 0 }

NormalizeComboNames(combo) ==       (* mutant: a name without its count     *)
  SetToSeq({ [nut |-> n, count |-> 1] : n \in Ordered(CountsOf(combo)) })

(* normalize_combo.                                                        *)
NormalizeCombo(combo) ==
  SetToSeq({ [nut |-> n, count |-> CountsOf(combo)[n]] : n \in Ordered(CountsOf(combo)) })

(* normalize_latest_order, of an order for these categories.               *)
NormalizeLatestOrder(order, nuts) ==
  LET combo == NormalizeCombo(order.combo)
  IN  [order EXCEPT !.combo = combo, !.success = @ /\ nuts # << >> /\ combo # << >>]

(* build_latest_order_from_recommendation, and what is saved of it.        *)
LatestOrder(id, nuts, intensity) ==
  LET combo == NormalizeCombo(BuildCombo(nuts, intensity))
  IN  NormalizeLatestOrder([request_id |-> id, combo |-> combo,
                            success |-> nuts # << >> /\ combo # << >>], nuts)

-----------------------------------------------------------------------------
(* fetch of the order providers, once the document has been read: refused, *)
(* or the counts.  NoId is the empty request_id.                           *)
CONSTANT NoId

RefusesUnconfirmedOnly(order, last) == ~order.success (* mutant: no memory   *)
Refuses(order, last) ==
  \/ ~order.success
  \/ order.request_id # NoId /\ order.request_id = last
  \/ Ordered(CountsOf(order.combo)) = {}

Remembered(order, last) == IF order.request_id # NoId THEN order.request_id ELSE last
=============================================================================

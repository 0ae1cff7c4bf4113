------------------------------ MODULE MCWebOrder ------------------------------
(* Two orders of one nut each.                                             *)
EXTENDS WebOrder

Wishes == << << [nut |-> "almond", count |-> 1] >>, << [nut |-> "cashew", count |-> 1] >> >>
=============================================================================

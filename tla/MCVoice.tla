------------------------------- MODULE MCVoice -------------------------------
(* Two nuts; the model may name one twice, one that is no valid nut, or    *)
(* none, and may not understand how hungry the customer is.               *)
EXTENDS Voice

CONSTANTS t1, t2

Answers == { << "almond", "almond", "cashew", "peanut" >>, << >> }
Unclear == {"none"}
=============================================================================

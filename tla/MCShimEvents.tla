---------------------------- MODULE MCShimEvents ----------------------------
(* Two pads of two buttons, all four on one key, and one of the two buttons *)
(* without a joystick button of its own.  No element is without a key here: *)
(* a third one would make the run three times as long, and press leaves     *)
(* such an element alone.                                                   *)
EXTENDS ShimEvents

CONSTANTS a, b

MCElementOrder == <<a, b>>
MCLaid == {a}
MCKeyOf == [e \in {a, b} |-> "return"]
=============================================================================

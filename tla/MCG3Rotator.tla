---------------------------- MODULE MCG3Rotator -----------------------------
(* Instances of G3Rotator for model checking. *)
EXTENDS G3Rotator

MCStatus == [{"register"} -> {0, 1}]
MCDuration == {0, 1}
=============================================================================
